-------------------------- MODULE MCAgentVersions --------------------------
(***************************************************************************)
(* Instances of AgentVersions.                                             *)
(***************************************************************************)
EXTENDS AgentVersions, TLC

\* No string on a list but the tools' own ids is a UUID.
MCNames == [o \in Others |-> {}]

\* Tools, values and slots are interchangeable.
Symmetric == Permutations(Tools) \cup Permutations(Values) \cup Permutations(Requests)
=============================================================================
