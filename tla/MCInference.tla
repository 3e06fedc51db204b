---------------------------- MODULE MCInference ----------------------------
(***************************************************************************)
(* Instances of Inference.                                                 *)
(***************************************************************************)
EXTENDS Inference, TLC

CONSTANTS c1, c2, c3, p1, p2

Plan(kind, workspace, on, limited) ==
  [kind |-> kind, workspace |-> workspace, on |-> on, limited |-> limited]

\* A streamed and a whole call on one process, with a third call on the other
\* that is streamed from a path without a limit, or embeds for no workspace.
MCPlans ==
  { (c1 :> Plan("stream", TRUE, p1, TRUE) @@ c2 :> Plan("chat", TRUE, p1, TRUE) @@ c3 :> third) :
     third \in {Plan("stream", TRUE, p2, FALSE), Plan("embed", FALSE, p2, TRUE)} }
=============================================================================
