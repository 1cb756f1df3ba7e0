SPECIFICATION VoteSpec
CONSTANTS
  MaxSeats = 3
  Users = {u1, u2, u3}
  NoUser = NoUser
  NoVote = NoVote
  MaxUnsaved = 1
  SmallBlind = 1
  BigBlind = 2
  BuyIns = {1, 3, 5}
  MaxHands = 1
  MaxChips = 15
CHECK_DEADLOCK FALSE
SYMMETRY Symmetry
INVARIANTS
  TypeOK
  ChipsConserved
  TurnIsPlayable
  StreetsClosedMatched
  VoteIsAboutTheTable
  ControlsExact
PROPERTIES
  RaiseOnlyWhenReopened
  NobodySkipped
  RemovedByMajority
