---------------------------- MODULE MCAuditChain ----------------------------
(***************************************************************************)
(* Instances of AuditChain and of ModelRegistry, which share no state: a   *)
(* behaviour is one of the rows of the audit chain, of a handful of        *)
(* events, or one of the table of models and its copies.                   *)
(***************************************************************************)
EXTENDS AuditChain, ModelRegistry, TLC

\* Ids are random: the first event emitted need not have the lowest.  One row is
\* from before the chain.
FourIds == 1..4
OneLegacy == {3}

Symmetric == Permutations(Processes) \cup Permutations(Aliases) \cup Permutations(Admins)

VARIABLE part

MCInit == ChainInit /\ Init /\ part \in {"chain", "registry"}

MCNext ==
  /\ UNCHANGED part
  /\ \/ part = "chain" /\ ChainNext /\ UNCHANGED vars
     \/ part = "registry" /\ Next /\ UNCHANGED chainVars

MCSpec == MCInit /\ [][MCNext]_<<chainVars, vars>>
=============================================================================
