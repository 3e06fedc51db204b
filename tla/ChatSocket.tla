----------------------------- MODULE ChatSocket -----------------------------
(***************************************************************************)
(* One chat WebSocket of the gateway: a coroutine that reads the client's  *)
(* messages and, for each user message, a task that forwards one run of    *)
(* the agent runtime to the client.  Tasks share one event loop and one    *)
(* socket, and are cancelled where they await.                             *)
(***************************************************************************)
EXTENDS Naturals, Sequences

CONSTANTS
  MaxRuns,   \* bound: user messages
  MaxEvents, \* bound: events of a run
  MaxReplies \* bound: replies of the reader itself

ASSUME ChatSocketAssumption == MaxRuns \in Nat /\ MaxEvents \in Nat /\ MaxReplies \in Nat

VARIABLES
  reader,    \* where the coroutine of the socket is
  current,   \* the run that stream_task names; 0 for None
  task,      \* where the task of each run is
  cancelled, \* the tasks that cancel() was called on
  events,    \* events each run has forwarded
  wire,      \* the frames the client was sent
  open       \* the client is there

vars == <<reader, current, task, cancelled, events, wire, open>>

-----------------------------------------------------------------------------
Runs == 1..MaxRuns
Live == {"created", "streaming", "done_sent", "error_sent"}
Terminal == {"done", "error", "cancelled"}
Frame == [run : {0} \cup Runs, type : Terminal \cup {"event", "no_active_run", "pong"}]

TypeOK ==
  /\ reader \in {"receiving", "settling_to_start", "settling", "returned"}
  /\ current \in {0} \cup Runs
  /\ task \in [Runs -> Live \cup {"none", "over"}]
  /\ cancelled \subseteq Runs
  /\ events \in [Runs -> 0..MaxEvents]
  /\ wire \in Seq(Frame)
  /\ open \in BOOLEAN

\* The socket is accepted and its session announced.
Init ==
  /\ reader = "receiving"
  /\ current = 0
  /\ task = [r \in Runs |-> "none"]
  /\ cancelled = {}
  /\ events = [r \in Runs |-> 0]
  /\ wire = <<>>
  /\ open = TRUE

\* What is sent to a client that has left is lost; whether the send raises is
\* the server's affair.
Send(r, type) == wire' = IF open THEN Append(wire, [run |-> r, type |-> type]) ELSE wire

\* stream_task is not None and not stream_task.done()
InFlight == current # 0 /\ task[current] \in Live

Replies == Len(SelectSeq(wire, LAMBDA f : f.run = 0))

-----------------------------------------------------------------------------
(* The task of a run: _stream_one.                                         *)

Running(r, place) == task[r] = place /\ r \notin cancelled

\* The task takes its first step, and asks the runtime.
Open(r) ==
  /\ Running(r, "created")
  /\ task' = [task EXCEPT ![r] = "streaming"]
  /\ UNCHANGED <<reader, current, cancelled, events, wire, open>>

ForwardEvent(r) ==
  /\ Running(r, "streaming")
  /\ events[r] < MaxEvents
  /\ events' = [events EXCEPT ![r] = @ + 1]
  /\ Send(r, "event")
  /\ UNCHANGED <<reader, current, task, cancelled, open>>

\* [DONE]: the frame is on its way, and the task awaits the socket.
ForwardDone(r) ==
  /\ Running(r, "streaming")
  /\ Send(r, "done")
  /\ task' = [task EXCEPT ![r] = "done_sent"]
  /\ UNCHANGED <<reader, current, cancelled, events, open>>

\* The runtime cannot be reached, breaks off or times out; or the socket raises.
StreamFails(r) ==
  /\ Running(r, "streaming")
  /\ Send(r, "error")
  /\ task' = [task EXCEPT ![r] = "error_sent"]
  /\ UNCHANGED <<reader, current, cancelled, events, open>>

\* The response ends without [DONE], as one that is not a stream does.
StreamEnds(r) ==
  /\ Running(r, "streaming")
  /\ task' = [task EXCEPT ![r] = "over"]
  /\ UNCHANGED <<reader, current, cancelled, events, wire, open>>

Return(r) ==
  /\ \/ Running(r, "done_sent")
     \/ Running(r, "error_sent")
  /\ task' = [task EXCEPT ![r] = "over"]
  /\ UNCHANGED <<reader, current, cancelled, events, wire, open>>

\* MUTANT of Interrupted: the cancellation is swallowed, and the stream goes on.
InterruptedSwallows(r) ==
  /\ r \in cancelled
  /\ task[r] \in Live
  /\ cancelled' = cancelled \ {r}
  /\ IF task[r] = "streaming" THEN Send(r, "cancelled") ELSE UNCHANGED wire
  /\ UNCHANGED <<reader, current, task, events, open>>

\* CancelledError is raised where the task awaits, or instead of its first step.
\* Only the block of the try tells the client; the flag cancel_event is never
\* seen, because the stream is not read again.
Interrupted(r) ==
  /\ r \in cancelled
  /\ task[r] \in Live
  /\ task' = [task EXCEPT ![r] = "over"]
  /\ IF task[r] \in {"streaming", "done_sent"} THEN Send(r, "cancelled") ELSE UNCHANGED wire
  /\ UNCHANGED <<reader, current, cancelled, events, open>>

-----------------------------------------------------------------------------
(* The reader.  A message may be read after the client that sent it left.  *)

Start ==
  /\ current' = current + 1
  /\ task' = [task EXCEPT ![current + 1] = "created"]
  /\ reader' = "receiving"

\* MUTANT of UserMessage: the run in flight is cancelled and not waited for.
UserMessageAtOnce ==
  /\ reader = "receiving"
  /\ current < MaxRuns
  /\ cancelled' = IF InFlight THEN cancelled \cup {current} ELSE cancelled
  /\ Start
  /\ UNCHANGED <<events, wire, open>>

UserMessage ==
  /\ reader = "receiving"
  /\ current < MaxRuns
  /\ IF InFlight
     THEN /\ cancelled' = cancelled \cup {current}
          /\ reader' = "settling_to_start"
          /\ UNCHANGED <<current, task>>
     ELSE Start /\ UNCHANGED cancelled
  /\ UNCHANGED <<events, wire, open>>

\* MUTANT of Cancel: only the flag is set, which the task reads between lines.
CancelByFlag ==
  /\ reader = "receiving"
  /\ \/ /\ InFlight
        /\ reader' = "settling"
        /\ UNCHANGED wire
     \/ /\ ~InFlight /\ Replies < MaxReplies
        /\ Send(0, "no_active_run")
        /\ UNCHANGED reader
  /\ UNCHANGED <<current, task, cancelled, events, open>>

Cancel ==
  /\ reader = "receiving"
  /\ \/ /\ InFlight
        /\ cancelled' = cancelled \cup {current}
        /\ reader' = "settling"
        /\ UNCHANGED wire
     \/ /\ ~InFlight /\ Replies < MaxReplies
        /\ Send(0, "no_active_run")
        /\ UNCHANGED <<cancelled, reader>>
  /\ UNCHANGED <<current, task, events, open>>

\* await stream_task has returned, whatever the task raised.
Settled ==
  /\ reader \in {"settling", "settling_to_start"}
  /\ task[current] = "over"
  /\ \/ reader = "settling" /\ reader' = "receiving" /\ UNCHANGED <<current, task>>
     \/ reader = "settling_to_start" /\ Start
  /\ UNCHANGED <<cancelled, events, wire, open>>

Ping ==
  /\ reader = "receiving"
  /\ Replies < MaxReplies
  /\ Send(0, "pong")
  /\ UNCHANGED <<reader, current, task, cancelled, events, open>>

ClientLeaves ==
  /\ open
  /\ open' = FALSE
  /\ UNCHANGED <<reader, current, task, cancelled, events, wire>>

\* The reader learns that the client has left: from receive_json, which returns
\* with the run in flight left alone, or from a reply that raises.
Disconnected ==
  /\ reader = "receiving" /\ ~open
  /\ reader' = "returned"
  /\ \/ UNCHANGED cancelled
     \/ InFlight /\ cancelled' = cancelled \cup {current}
  /\ UNCHANGED <<current, task, events, wire, open>>

-----------------------------------------------------------------------------
Next ==
  \/ UserMessage \/ Cancel \/ Settled \/ Ping \/ ClientLeaves \/ Disconnected
  \/ \E r \in Runs : \/ Open(r) \/ ForwardEvent(r) \/ ForwardDone(r) \/ StreamFails(r)
                     \/ StreamEnds(r) \/ Return(r) \/ Interrupted(r)

Spec == Init /\ [][Next]_vars

\* The event loop resumes what was cancelled and what waited for it.  Nothing is
\* assumed of the runtime: it may be silent for ever.
FairSpec == Spec /\ WF_vars(Settled) /\ \A r \in Runs : WF_vars(Interrupted(r))

-----------------------------------------------------------------------------
(* Properties.                                                             *)

\* chat.py:182: a new message stops the run in flight "so we don't interleave
\* outputs".  No frame of a run follows one of a later run.
RunsDoNotInterleave ==
  \A i, j \in 1..Len(wire) :
     i < j /\ wire[i].run # 0 /\ wire[j].run # 0 => wire[i].run <= wire[j].run

\* Once the client has been told how a run ended it hears no more of it, except
\* that a run cancelled just as it was done is also said to be cancelled.
NothingAfterTheEnd ==
  \A i, j \in 1..Len(wire) :
     i < j /\ wire[i].type \in Terminal /\ wire[i].run = wire[j].run =>
        wire[i].type = "done" /\ wire[j].type = "cancelled"

\* The reader never waits for the runtime: a message that finds a run in flight
\* is dealt with even if the runtime never sends another line.
CancelDoesNotWait == reader \in {"settling", "settling_to_start"} ~> reader = "receiving"
=============================================================================
