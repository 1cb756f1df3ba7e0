-------------------------------- MODULE Sums --------------------------------
(***************************************************************************)
(* Sums over finite sets: of quotas, chips and operations at the cash desk, *)
(* of the numbers of cards of each rank in landlord.                        *)
(***************************************************************************)
EXTENDS Integers, FiniteSetsExt

SumOf(f, S) == MapThenSumSet(LAMBDA x : f[x], S)

=============================================================================
