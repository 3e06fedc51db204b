---------------------------- MODULE ChatSessions ----------------------------
(***************************************************************************)
(* One chat session: the gateway's requests that create it, run turns in   *)
(* it and end it, the runtime, of which no more is known here than what    *)
(* Conversation says of its rows, the worker's jobs that summarise it, and *)
(* the memory items its summaries are put in.  Ending a session stops      *)
(* nothing, may be repeated, and queues a job each time; a put goes on     *)
(* when the job that asked for it has given up or has been killed.         *)
(***************************************************************************)
EXTENDS Naturals, Sequences, FiniteSets, Sums

CONSTANTS
  Turns,     \* requests to run a turn
  Silent,    \* <<turn, kind>>: the rows a turn writes with no content
  Fits,      \* how many of the first messages get into a job's 6000 characters
  Ends,      \* requests to end the session, each with the job it may queue
  MaxTries,  \* arq's max_tries
  MaxFaults  \* bound on the failures of jobs and puts and the deletions of items

ASSUME ChatSessionsAssumption ==
  /\ IsFiniteSet(Turns) /\ IsFiniteSet(Ends)
  /\ Fits \in Nat \ {0} /\ MaxTries \in Nat \ {0} /\ MaxFaults \in Nat

VARIABLES
  session,  \* the row: absent, open or ended
  run,      \* where each request to run a turn is
  phase,    \* the runtime's turns, as Conversation has them
  log,      \* and their message rows
  end,      \* where each request to end the session is
  job,      \* its job
  put,      \* the put of each delivery of each job
  items,    \* the memory items under the session's key
  faults,   \* how many of those have happened
  past      \* history: whether jobs have overlapped, or an embedding has failed

turns == <<run, phase, log>>
sessionsVars == <<session, turns, end, job, put, items, faults, past>>

Runtime == INSTANCE Conversation

-----------------------------------------------------------------------------
\* one of the failures that MaxFaults bounds
Fault == faults < MaxFaults /\ faults' = faults + 1

Puts == Ends \X (1..MaxTries)
None == <<>>
Empty == <<None>>
Embeddings == Puts \cup {None, Empty}

\* An item is the row a put has inserted, with the summary of one put and the
\* embedding of one, or none, or one of no dimension.
Item == [row : Puts, summary : Puts, embedding : Embeddings]

\* A message row has content unless it asks for a tool or its text is empty.
Spoken(t) ==
  {i \in 1..Len(log[t]) : log[t][i].kind # "tool_call" /\ <<t, log[t][i].kind>> \notin Silent}
Said == Sum([t \in Turns |-> Cardinality(Spoken(t))], Turns)

\* _gather_transcript: the oldest of them, as far as they fit
Heard == IF Said < Fits THEN Said ELSE Fits

SessionsTypeOK ==
  /\ session \in {"absent", "open", "ended"}
  /\ run \in [Turns -> {"new", "called", "over"}]
  /\ phase \in [Turns -> {"new", "asked", "settled", "dropped"}]
  /\ end \in [Ends -> {"new", "sending", "committing", "over"}]
  /\ job \in [Ends -> [at : {"none", "queued", "summarising", "putting", "done"},
                       tries : 0..MaxTries, seen : Nat]]
  /\ put \in [Puts -> [at : {"new", "embedding", "writing", "locked", "over"},
                       seen : Nat, embedding : Embeddings, row : Puts \cup {None}]]
  /\ items \subseteq Item
  /\ faults \in 0..MaxFaults
  /\ past \subseteq {"overlap", "embedding"}

SessionsInit ==
  /\ session = "absent"
  /\ run = [t \in Turns |-> "new"]
  /\ Runtime!Init
  /\ end = [e \in Ends |-> "new"]
  /\ job = [e \in Ends |-> [at |-> "none", tries |-> 0, seen |-> 0]]
  /\ put = [p \in Puts |-> [at |-> "new", seen |-> 0, embedding |-> None, row |-> None]]
  /\ items = {}
  /\ faults = 0
  /\ past = {}

-----------------------------------------------------------------------------
(* The gateway's requests and the runtime.                                 *)

\* create_session and create_session_top_level
CreateSession ==
  /\ session = "absent"
  /\ session' = "open"
  /\ UNCHANGED <<turns, end, job, put, items, faults, past>>

\* run_agent and run_agent_stream: a session is created and committed when none
\* is named, before the runtime is called.
Run(t) ==
  /\ run[t] = "new"
  /\ run' = [run EXCEPT ![t] = "called"]
  /\ session' = IF session = "absent" THEN "open" ELSE session
  /\ UNCHANGED <<phase, log, end, job, put, items, faults, past>>

Answer == [kind |-> "answer"]
ToolCall == [kind |-> "tool_call", n |-> 1]
ToolResult == [kind |-> "tool_result", n |-> 1]

\* The runtime's turn, with an answer as all the rest of it, or after one tool.
Turn(t) ==
  /\ run[t] # "new"
  /\ \/ Runtime!Ask(t)
     \/ /\ \E rest \in {<<Answer>>, <<ToolCall, ToolResult, Answer>>} :
             log' = [log EXCEPT ![t] = @ \o rest]
        /\ Runtime!Settle(t)
     \/ Runtime!Drop(t)
  /\ UNCHANGED <<session, run, end, job, put, items, faults, past>>

\* The runtime's answer comes back, or the gateway gives up waiting for it.
RunReturns(t) ==
  /\ run[t] = "called"
  /\ run' = [run EXCEPT ![t] = "over"]
  /\ UNCHANGED <<session, phase, log, end, job, put, items, faults, past>>

\* end_session, as far as the call of enqueue.
EndSession(e) ==
  /\ end[e] = "new" /\ session # "absent"
  /\ end' = [end EXCEPT ![e] = "sending"]
  /\ UNCHANGED <<session, turns, job, put, items, faults, past>>

\* enqueue: accepted, refused, or accepted without the gateway hearing of it.
Enqueue(e) ==
  /\ end[e] = "sending"
  /\ end' = [end EXCEPT ![e] = "committing"]
  /\ \/ job' = [job EXCEPT ![e].at = "queued"]
     \/ UNCHANGED job
  /\ UNCHANGED <<session, turns, put, items, faults, past>>

\* The commit comes after the enqueue, and may fail.
CommitEnd(e) ==
  /\ end[e] = "committing"
  /\ end' = [end EXCEPT ![e] = "over"]
  /\ session' \in {session, "ended"}
  /\ UNCHANGED <<turns, job, put, items, faults, past>>

-----------------------------------------------------------------------------
(* The worker.                                                             *)

\* The put of the delivery in progress.
PutOf(e) == <<e, job[e].tries>>
Working(e) == job[e].at \in {"summarising", "putting"}
PutOpen(p) == put[p].at \in {"embedding", "writing", "locked"}
Overlaps(e) == (\E f \in Ends \ {e} : Working(f)) \/ (\E p \in Puts : PutOpen(p))

\* MUTANT of TakeJob: the messages are taken from the delivery before.
TakeJobAgain(e) ==
  /\ job[e].at = "queued"
  /\ past' = IF Overlaps(e) THEN past \cup {"overlap"} ELSE past
  /\ job' = [job EXCEPT ![e].at = IF Said = 0 THEN "done" ELSE "summarising",
                        ![e].tries = @ + 1,
                        ![e].seen = IF @ = 0 THEN Heard ELSE @]
  /\ UNCHANGED <<session, turns, end, put, items, faults>>

\* MUTANT of TakeJob: nothing is done if there is a summary, as the docstring says.
TakeJobOnce(e) ==
  /\ job[e].at = "queued"
  /\ past' = IF Overlaps(e) THEN past \cup {"overlap"} ELSE past
  /\ job' = [job EXCEPT ![e].at = IF Said = 0 \/ items # {} THEN "done" ELSE "summarising",
                        ![e].tries = @ + 1, ![e].seen = Heard]
  /\ UNCHANGED <<session, turns, end, put, items, faults>>

\* summarize_session is delivered, reads the rows, and is done if there is none
\* or none with content.
TakeJob(e) ==
  /\ job[e].at = "queued"
  /\ past' = IF Overlaps(e) THEN past \cup {"overlap"} ELSE past
  /\ job' = [job EXCEPT ![e].at = IF Said = 0 THEN "done" ELSE "summarising",
                        ![e].tries = @ + 1, ![e].seen = Heard]
  /\ UNCHANGED <<session, turns, end, put, items, faults>>

\* The model answers and the put is sent, or it fails and the job is done.
Summarise(e) ==
  /\ job[e].at = "summarising"
  /\ \/ /\ job' = [job EXCEPT ![e].at = "putting"]
        /\ put' = [put EXCEPT ![PutOf(e)].at = "embedding", ![PutOf(e)].seen = job[e].seen]
        /\ UNCHANGED faults
     \/ job' = [job EXCEPT ![e].at = "done"] /\ Fault /\ UNCHANGED put
  /\ UNCHANGED <<session, turns, end, items, past>>

\* The put is over, or the job does not wait for it any longer.
HearOfPut(e) ==
  /\ job[e].at = "putting"
  /\ job' = [job EXCEPT ![e].at = "done"]
  /\ IF PutOpen(PutOf(e)) THEN Fault ELSE UNCHANGED faults
  /\ UNCHANGED <<session, turns, end, put, items, past>>

\* The queue delivers a job again whose worker has stopped.
WorkerStops(e) ==
  /\ Working(e)
  /\ job' = [job EXCEPT ![e].at = IF job[e].tries < MaxTries THEN "queued" ELSE "done"]
  /\ Fault
  /\ UNCHANGED <<session, turns, end, put, items, past>>

-----------------------------------------------------------------------------
(* memory-svc.                                                             *)

\* embed_one, whose failure is no embedding, or an empty one when the provider's
\* answer has the item without its vector.
Embed(p) ==
  /\ put[p].at = "embedding"
  /\ \/ put' = [put EXCEPT ![p].at = "writing", ![p].embedding = p] /\ UNCHANGED <<faults, past>>
     \/ /\ \E v \in {None, Empty} :
             put' = [put EXCEPT ![p].at = "writing", ![p].embedding = v]
        /\ Fault /\ past' = past \cup {"embedding"}
  /\ UNCHANGED <<session, turns, end, job, items>>

\* a put that is over has nothing more to write
Over(p) == [put EXCEPT ![p].at = "over", ![p].embedding = None, ![p].row = None]

Locked(row) == \E p \in Puts : put[p].at = "locked" /\ put[p].row = row

\* upsert_item: the row found is updated, one is inserted if there is none, and
\* more than one is an error.
Upsert(p) ==
  /\ put[p].at = "writing"
  /\ \/ /\ items = {}
        /\ put' = [put EXCEPT ![p].at = "locked"]
     \/ \E i \in items :
          /\ items = {i} /\ ~Locked(i.row)
          /\ put' = [put EXCEPT ![p].at = "locked", ![p].row = i.row]
     \/ /\ Cardinality(items) > 1
        /\ put' = Over(p)
  /\ UNCHANGED <<session, turns, end, job, items, faults, past>>

\* MUTANT of CommitPut: a failed embedding is written as well.
CommitPutInsert(p) ==
  /\ put[p].at = "locked"
  /\ put' = Over(p)
  /\ items' = items \cup {[row |-> p, summary |-> p, embedding |-> put[p].embedding]}
  /\ UNCHANGED <<session, turns, end, job, faults, past>>

\* MUTANT of CommitPut: an embedding that is there is kept.
CommitPutOnce(p) ==
  /\ put[p].at = "locked"
  /\ put' = Over(p)
  /\ items' = IF put[p].row = None
                THEN items \cup {[row |-> p, summary |-> p, embedding |-> put[p].embedding]}
                ELSE {IF i.row = put[p].row THEN [i EXCEPT !.summary = p] ELSE i : i \in items}
  /\ UNCHANGED <<session, turns, end, job, faults, past>>

\* get_db: the new summary, with its embedding if there is one, be it empty.
CommitPut(p) ==
  /\ put[p].at = "locked"
  /\ put' = Over(p)
  /\ items' = IF put[p].row = None
                THEN items \cup {[row |-> p, summary |-> p, embedding |-> put[p].embedding]}
                ELSE {IF i.row # put[p].row THEN i
                      ELSE [i EXCEPT !.summary = p,
                                     !.embedding = IF put[p].embedding = None THEN @
                                                   ELSE put[p].embedding] : i \in items}
  /\ UNCHANGED <<session, turns, end, job, faults, past>>

\* get_db: the put is rolled back.
RollbackPut(p) ==
  /\ put[p].at = "locked"
  /\ put' = Over(p)
  /\ Fault
  /\ UNCHANGED <<session, turns, end, job, items, past>>

\* delete_item, which waits for a put in progress on the row.
DeleteItem(i) ==
  /\ ~Locked(i.row)
  /\ items' = items \ {i}
  /\ Fault
  /\ UNCHANGED <<session, turns, end, job, put, past>>

-----------------------------------------------------------------------------
SessionsNext ==
  \/ CreateSession
  \/ \E t \in Turns : Run(t) \/ Turn(t) \/ RunReturns(t)
  \/ \E e \in Ends :
       EndSession(e) \/ Enqueue(e) \/ CommitEnd(e)
         \/ TakeJob(e) \/ Summarise(e) \/ HearOfPut(e) \/ WorkerStops(e)
  \/ \E p \in Puts : Embed(p) \/ Upsert(p) \/ CommitPut(p) \/ RollbackPut(p)
  \/ \E i \in items : DeleteItem(i)

SessionsSpec == SessionsInit /\ [][SessionsNext]_sessionsVars

\* A worker takes what is queued, and every call of a job has a timeout, as has
\* a put's own call of the model; the rest of a put waits for nothing but the
\* end of another one.
SessionsFairness ==
  /\ \A e \in Ends : WF_sessionsVars(TakeJob(e) \/ Summarise(e) \/ HearOfPut(e))
  /\ \A p \in Puts :
       WF_sessionsVars(Embed(p) \/ Upsert(p) \/ CommitPut(p) \/ RollbackPut(p))

SessionsFairSpec == SessionsSpec /\ SessionsFairness

-----------------------------------------------------------------------------
(* Properties.                                                             *)

\* put_item reads, then inserts, and nothing in the table keeps a second row
\* out: as long as no job runs while another one does, or while a put it knows
\* nothing of is still going on, a session has one summary.
OneSummary == "overlap" \notin past => Cardinality(items) <= 1

\* A put whose embedding failed leaves the embedding of the summary before, or
\* wipes it: unless that has happened, a search ranks each summary by its own
\* embedding, and misses none, even when puts overlap.
SearchRanksSummaries ==
  "embedding" \notin past => \A i \in items : i.embedding = i.summary

\* Jobs that do not overlap never replace a summary by one that was given fewer
\* messages.
SummariesAdvance ==
  [][\A i \in items, j \in items' :
       i.row = j.row /\ "overlap" \notin past'
         => put[i.summary].seen <= put[j.summary].seen]_sessionsVars

\* A session whose summary was queued gets one of the messages it had by then, of
\* those that fit in a transcript, unless something fails, is deleted, or overlaps;
\* what was said after them is in no summary.
QueuedIsSummarised ==
  \A e \in Ends : \A n \in 1..Fits :
    job[e].at = "queued" /\ Heard = n
      ~> faults > 0 \/ past # {} \/ \E i \in items : put[i.summary].seen >= n
=============================================================================
