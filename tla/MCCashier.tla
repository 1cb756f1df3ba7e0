------------------------------ MODULE MCCashier ------------------------------
(***************************************************************************)
(* Small cashiers for TLC.                                                 *)
(***************************************************************************)
EXTENDS Cashier, TLC

CONSTANTS u1, u2, u3, A, B, w1, w2

\* Everybody starts away from the tables; or two sit at table A.
AllAway == [t \in Tables |-> {}]
TwoAtA  == [t \in Tables |-> IF t = A THEN {u1, u2} ELSE {}]

MidHand ==
  [joinMidHand |-> TRUE, players |-> {u1, u2, u3}, seated |-> TwoAtA,
   adjustments |-> {}, faults |-> {"restart"}]

\* Every fault, where nobody sits down during a hand.
BadSaves ==
  [joinMidHand |-> FALSE, players |-> {u1, u2}, seated |-> TwoAtA,
   adjustments |-> {2}, faults |-> AllFaults]

\* Failed saves where players do sit down during a hand.
BadSavesMidHand == [MidHand EXCEPT !.faults = {"save"}]

\* A manual subtraction beside buy-ins, and nothing that fails.
TwoDebits ==
  [joinMidHand |-> TRUE, players |-> {u1, u2}, seated |-> AllAway,
   adjustments |-> {-2}, faults |-> {}]

Ordinary  == [mid_hand |-> MidHand, bad_saves |-> BadSaves]
TwoTables == [bad_saves_mid_hand |-> BadSavesMidHand]
Overdrawn == [two_debits |-> TwoDebits]

\* Handlers are alike, and so are the two players that start at table A.
Symmetry == Permutations(Workers) \cup Permutations({u1, u2})

=============================================================================
