---------------------------- MODULE MCTableService ----------------------------
(***************************************************************************)
(* A heads-up table on a server that fails and restarts, for TLC.          *)
(***************************************************************************)
EXTENDS TableService, TLC

=============================================================================
