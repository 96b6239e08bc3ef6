-------------------------------- MODULE Sums --------------------------------
(***************************************************************************)
(* Sums over finite sets, of the values that a function has there.         *)
(***************************************************************************)
EXTENDS Integers, FiniteSetsExt

SumOver(f, S) == MapThenSumSet(LAMBDA x : f[x], S)
=============================================================================
