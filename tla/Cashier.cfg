SPECIFICATION Spec
CONSTANTS
  u1 = u1
  u2 = u2
  u3 = u3
  A = A
  B = B
  w1 = w1
  w2 = w2
  Users = {u1, u2, u3}
  Tables = {A, B}
  Workers = {w1, w2}
  Nobody = Nobody
  SeatsPerTable = 3
  Quota = 3
  BuyIns = {2}
  StartChips = 2
  MaxOps = 2
  Scenes <- Ordinary
CHECK_DEADLOCK FALSE
SYMMETRY Symmetry
INVARIANTS
  MoneyAccounted
  SeatedOnce
  DoubtfulStaysOpen
  CreditIsStack
