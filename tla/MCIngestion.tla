---------------------------- MODULE MCIngestion ----------------------------
(***************************************************************************)
(* Instances of Ingestion, and of what it and the search compute: a        *)
(* behaviour ingests one document, of which no more is known than in how   *)
(* many pieces it is, or cuts and embeds one, or searches.                 *)
(***************************************************************************)
EXTENDS Ingestion, Chunks, Fusion

\* The upload keeps half of what it cuts; the worker, with larger chunks, all.
MCPieces == [a \in Actors |-> IF a = "route" THEN 4 ELSE 3]
MCLimit == [a \in Actors |-> IF a = "route" THEN 2 ELSE 5]

computed == <<document, query>>

MCInit == Init /\ ChunksInit /\ FusionInit

MCNext ==
  \/ document = None /\ query = NoQuery /\ Next /\ UNCHANGED computed
  \/ Init /\ query = NoQuery /\ Parse /\ UNCHANGED <<vars, query>>
  \/ Init /\ document = None /\ Search /\ UNCHANGED <<vars, document>>

MCSpec ==
  MCInit /\ [][MCNext]_<<vars, computed>> /\ WF_vars(Route) /\ WF_vars(Worker)
=============================================================================
