---------------------------- MODULE MCAgentTurn ----------------------------
(***************************************************************************)
(* Instances of AgentTurn: which tool rows share a name.                   *)
(***************************************************************************)
EXTENDS AgentTurn, TLC

\* Every row is named a: the agent is bound to some of them.
OneName == [d \in Tools |-> "a"]

\* The turns served by one route are interchangeable.
Symmetric == Permutations(Turns \ Streaming)
=============================================================================
