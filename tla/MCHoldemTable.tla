---------------------------- MODULE MCHoldemTable ----------------------------
(***************************************************************************)
(* Small tables for TLC.                                                   *)
(***************************************************************************)
EXTENDS HoldemTable, TLC

Symmetry == Permutations(Users)

=============================================================================
