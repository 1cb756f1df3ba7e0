SPECIFICATION ServiceSpec
CONSTANTS
  MaxSeats = 2
  Users = {u1, u2}
  NoUser = NoUser
  NoRow = NoRow
  SmallBlind = 1
  BigBlind = 2
  BuyIns = {2,3}
  MaxHands = 2
  MaxChips = 5
  MaxMishaps = 2
CHECK_DEADLOCK FALSE
INVARIANTS
  TurnIsTimed
  RestartResumes
  DeletedStaysDeleted
  HandsOnRecord
PROPERTIES
  HandEnds
