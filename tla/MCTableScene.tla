---------------------------- MODULE MCTableScene ----------------------------
(***************************************************************************)
(* Small tables with their votes and screens for TLC.                      *)
(***************************************************************************)
EXTENDS TableScene, TLC

Symmetry == Permutations(Users)

=============================================================================
