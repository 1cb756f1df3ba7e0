----------------------------- MODULE MCTableRoom -----------------------------
(* Two tables of one channel, one browser. *)
EXTENDS TableRoom
=============================================================================
