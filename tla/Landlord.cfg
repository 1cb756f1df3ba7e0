SPECIFICATION Spec
CONSTANTS
  MaxSeats = 3
  Users = {u1, u2, u3}
  NoUser = NoUser
  Ranks = {3, 4, 5, 10, 11, 12, 13, 14, 15, 16, 17}
  Samples <- SomeCards
  BaseStake = 1
  BuyIns = {3}
  Deals <- SmallDeals
  MaxHands = 2
  MaxChips = 9
  MaxBadShuffles = 1
  MaxBids = 4
CHECK_DEADLOCK FALSE
SYMMETRY Symmetry
INVARIANTS
  CounterExact
  ChipsConserved
  BidsGoRound
  CombinationsAsDocumented
  DockExact
PROPERTIES
  RoundsCloseAfterTwoPasses
  ImplementsCardGame
