-------------------------------- MODULE Sums --------------------------------
(***************************************************************************)
(* The sum and the product of a function over a finite set.                *)
(***************************************************************************)
EXTENDS Integers, FiniteSetsExt

Sum(f, S) == MapThenSumSet(LAMBDA x : f[x], S)

Product(f, S) ==
  MapThenFoldSet(LAMBDA x, y : x * y, 1, LAMBDA x : f[x], LAMBDA s : CHOOSE x \in s : TRUE, S)
=============================================================================
