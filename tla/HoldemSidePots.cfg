SPECIFICATION Spec
CONSTANTS
  MaxSeats = 4
  Users = {u1, u2, u3, u4}
  NoUser = NoUser
  SmallBlind = 1
  BigBlind = 1
  BuyIns = {1, 3}
  MaxHands = 1
  MaxChips = 8
CHECK_DEADLOCK FALSE
SYMMETRY Symmetry
INVARIANTS
  ChipsNeverCreated
  ShowdownPaysMatchedOnly
  ShowdownPaysAllMatched
PROPERTIES
  ChipsLostOnlyAboveTheLive
