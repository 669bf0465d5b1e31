-------------------------------- MODULE Sums --------------------------------
(***************************************************************************)
(* Totals: `iter().map(..).sum()` of the code.                             *)
(***************************************************************************)
EXTENDS Integers, FiniteSetsExt

\* The sum of f[x] for the x of a finite set.
SumOf(f, S) == MapThenSumSet(LAMBDA x : f[x], S)
=============================================================================
