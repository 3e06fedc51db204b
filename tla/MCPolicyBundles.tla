-------------------------- MODULE MCPolicyBundles --------------------------
(***************************************************************************)
(* Instances of PolicyBundles: three uploads of a name and one of another. *)
(***************************************************************************)
EXTENDS PolicyBundles, TLC

CONSTANT Other

TwoNames == [b \in Bundles |-> IF b = Other THEN "n2" ELSE "n1"]

Symmetric == Permutations(Bundles \ {Other}) \cup Permutations(Slots)
=============================================================================
