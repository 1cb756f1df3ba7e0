SPECIFICATION Spec
CONSTANTS
  MaxSeats = 3
  Users = {u1, u2, u3}
  NoUser = NoUser
  Ranks = {3, 4, 5, 10, 11, 12, 13, 14, 15, 16, 17}
  Samples <- SomeCards
  BaseStake = 1
  BuyIns = {3}
  Deals <- PlaneDeal
  MaxHands = 1
  MaxChips = 9
  MaxBadShuffles = 0
  MaxBids = 4
CHECK_DEADLOCK FALSE
SYMMETRY Symmetry
INVARIANTS
  LeaderPlaysWhatRulesList
