SPECIFICATION Spec
CONSTANTS
  MaxSeats = 3
  Users = {u1, u2, u3}
  NoUser = NoUser
  SmallBlind = 1
  BigBlind = 2
  BuyIns = {1, 3}
  MaxHands = 2
  MaxChips = 7
CHECK_DEADLOCK FALSE
SYMMETRY Symmetry
INVARIANTS
  HoleCardsPrivate
  ResultStartsFromDeal
PROPERTIES
  TurnNamesDecision
  ImplementsCardGame
