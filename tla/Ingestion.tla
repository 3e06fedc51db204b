----------------------------- MODULE Ingestion -----------------------------
(***************************************************************************)
(* One document of knowledge-svc: its row, its chunks, the upload request  *)
(* that creates it and the worker's job that ingests it.  The asynchronous *)
(* route hands the work to the queue and does it itself when it hears no   *)
(* answer; the queue (arq) delivers a job again when its worker stops.     *)
(* Documents share nothing, so one is enough.                              *)
(***************************************************************************)
EXTENDS Naturals

CONSTANTS
  Pieces,   \* chunks that each ingester cuts the text into, with its own sizes
  Limit,    \* max_chunks of each ingester
  MaxTries  \* arq's max_tries

Actors == {"route", "worker"}

ASSUME IngestionAssumption ==
  /\ Pieces \in [Actors -> Nat]
  /\ Limit \in [Actors -> Nat]
  /\ MaxTries \in Nat \ {0}

VARIABLES
  status,  \* document.status; absent before the upload and after a deletion
  count,   \* document.chunk_count
  copies,  \* chunk rows, by the ingester that cut the text and by ord
  upload,  \* where the upload request is
  job,     \* what the queue holds
  tries,   \* deliveries of the job
  step,    \* where each ingestion is
  past     \* history: what has gone wrong

vars == <<status, count, copies, upload, job, tries, step, past>>
row == <<status, count, copies>>

-----------------------------------------------------------------------------
\* chunks[:max_chunks]: an ingester keeps no more of the text than this.
Kept(a) == IF Pieces[a] > Limit[a] THEN Limit[a] ELSE Pieces[a]

SlotsOf(a) == {a} \X (1..Kept(a))
Slots == UNION {SlotsOf(a) : a \in Actors}
Add(new) == copies' = [s \in Slots |-> IF s \in new THEN copies[s] + 1 ELSE copies[s]]

Stored == {"pending", "parsing", "embedding", "ready", "failed"}
Troubles == {"lost", "crash", "timeout", "database", "storage"}

TypeOK ==
  /\ status \in Stored \cup {"absent"}
  /\ count \in {0} \cup {Kept(a) : a \in Actors}
  /\ copies \in [Slots -> Nat]
  /\ upload \in {"new", "storing", "sending", "accepted", "ingesting", "over"}
  /\ job \in {"none", "queued", "running", "done"}
  /\ tries \in 0..MaxTries
  /\ step \in [Actors -> {"idle", "fetching", "begun", "parsing", "embedding", "answered"}]
  /\ past \subseteq Troubles

Init ==
  /\ status = "absent"
  /\ count = 0
  /\ copies = [s \in Slots |-> 0]
  /\ upload = "new"
  /\ job = "none"
  /\ tries = 0
  /\ step = [a \in Actors |-> "idle"]
  /\ past = {}

-----------------------------------------------------------------------------
(* The upload request.                                                     *)

\* The three routes, up to the commit of the new row.
Upload ==
  /\ upload = "new"
  /\ status' = "pending"
  /\ \/ upload' = "storing" /\ UNCHANGED step
     \/ upload' = "ingesting" /\ step' = [step EXCEPT !["route"] = "begun"]
  /\ UNCHANGED <<count, copies, job, tries, past>>

\* upload_blob, which falls back to a local file, and raises if that fails.
StoreBlob ==
  /\ upload = "storing"
  /\ \/ upload' = "sending" /\ UNCHANGED past
     \/ upload' = "over" /\ past' = past \cup {"storage"}
  /\ UNCHANGED <<row, job, tries, step>>

\* MUTANT of Enqueue: the route goes on as if there were no queue.
EnqueueAndIngest ==
  /\ upload = "sending"
  /\ upload' = "ingesting"
  /\ step' = [step EXCEPT !["route"] = "begun"]
  /\ job' = "queued"
  /\ UNCHANGED <<row, tries, past>>

\* enqueue: answered, refused, or accepted by a queue whose answer is lost.
Enqueue ==
  /\ upload = "sending"
  /\ \/ /\ upload' = "accepted" /\ job' = "queued"
        /\ UNCHANGED <<step, past>>
     \/ /\ upload' = "ingesting" /\ step' = [step EXCEPT !["route"] = "begun"]
        /\ UNCHANGED <<job, past>>
     \/ /\ upload' = "ingesting" /\ step' = [step EXCEPT !["route"] = "begun"]
        /\ job' = "queued" /\ past' = past \cup {"lost"}
  /\ UNCHANGED <<row, tries>>

\* The route adds the job's id to document.meta, which nobody reads, or raises
\* because the row is gone.
RecordJob ==
  /\ upload = "accepted"
  /\ upload' = "over"
  /\ UNCHANGED <<status, count, copies, job, tries, step, past>>

-----------------------------------------------------------------------------
(* The worker.                                                             *)

\* The queue delivers the job; there may be nothing to do any more.
Deliver ==
  /\ job = "queued"
  /\ job' = "running"
  /\ tries' = tries + 1
  /\ step' = [step EXCEPT !["worker"] = IF status \in Stored THEN "fetching" ELSE "answered"]
  /\ UNCHANGED <<row, upload, past>>

\* _fetch_blob
FetchBlob ==
  /\ step["worker"] = "fetching"
  /\ \/ step' = [step EXCEPT !["worker"] = "begun"] /\ UNCHANGED status
     \/ /\ step' = [step EXCEPT !["worker"] = "answered"]
        /\ status' = IF status \in Stored THEN "failed" ELSE status
  /\ UNCHANGED <<count, copies, upload, job, tries, past>>

\* The queue hears that the job is done: it has succeeded, failed or raised.
Acknowledge ==
  /\ step["worker"] = "answered"
  /\ step' = [step EXCEPT !["worker"] = "idle"]
  /\ job' = "done"
  /\ UNCHANGED <<row, upload, tries, past>>

-----------------------------------------------------------------------------
(* ingest_document, called by the route and by the worker.                 *)

Ended(a) ==
  /\ step' = [step EXCEPT ![a] = IF a = "worker" THEN "answered" ELSE "idle"]
  /\ upload' = IF a = "route" THEN "over" ELSE upload

\* The row has been deleted: the statement finds none and raises.
Orphaned(a) ==
  /\ step[a] \in {"begun", "parsing", "embedding"}
  /\ status = "absent"
  /\ Ended(a)
  /\ UNCHANGED <<row, job, tries, past>>

\* The first commit.
Begin(a) ==
  /\ step[a] = "begun"
  /\ status \in Stored
  /\ status' = "parsing"
  /\ step' = [step EXCEPT ![a] = "parsing"]
  /\ UNCHANGED <<count, copies, upload, job, tries, past>>

\* The text is extracted and cut, and what is beyond the limit is dropped without
\* a word: the second commit.
Chunked(a) ==
  /\ step[a] = "parsing"
  /\ status \in Stored
  /\ IF Kept(a) = 0
     THEN status' = "ready" /\ count' = 0 /\ Ended(a)
     ELSE /\ status' = "embedding" /\ UNCHANGED <<count, upload>>
          /\ step' = [step EXCEPT ![a] = "embedding"]
  /\ UNCHANGED <<copies, job, tries, past>>

\* MUTANT of Save: the status is committed before the chunks are added.
SaveLate(a) ==
  /\ step[a] = "embedding"
  /\ status \in Stored
  /\ IF status = "ready"
     THEN Add(SlotsOf(a)) /\ Ended(a)
     ELSE UNCHANGED <<copies, step, upload>>
  /\ status' = "ready"
  /\ count' = Kept(a)
  /\ UNCHANGED <<job, tries, past>>

\* MUTANT of Save: nothing ties a chunk to its document.
SaveUnchecked(a) ==
  /\ step[a] = "embedding"
  /\ Add(SlotsOf(a))
  /\ status' = IF status \in Stored THEN "ready" ELSE status
  /\ count' = Kept(a)
  /\ Ended(a)
  /\ UNCHANGED <<job, tries, past>>

\* The chunks and the status, in one commit.
Save(a) ==
  /\ step[a] = "embedding"
  /\ status \in Stored
  /\ Add(SlotsOf(a))
  /\ status' = "ready"
  /\ count' = Kept(a)
  /\ Ended(a)
  /\ UNCHANGED <<job, tries, past>>

\* MUTANT of Fail: the failure is logged and nothing else.
FailSilently(a) ==
  /\ step[a] \in {"parsing", "embedding"}
  /\ status \in Stored
  /\ Ended(a)
  /\ UNCHANGED <<row, job, tries, past>>

\* Parsing or embedding raises, or the vectors are not as many as the chunks:
\* the chunks added before that are committed with the failure.
Fail(a) ==
  /\ step[a] \in {"parsing", "embedding"}
  /\ status \in Stored
  /\ status' = "failed"
  /\ \E k \in IF step[a] = "parsing" THEN {0} ELSE 0..Kept(a) : Add({a} \X (1..k))
  /\ Ended(a)
  /\ UNCHANGED <<count, job, tries, past>>

\* A commit fails, and with it the one that would have said so.
DatabaseFails(a) ==
  /\ step[a] \in {"fetching", "begun", "parsing", "embedding"}
  /\ Ended(a)
  /\ past' = past \cup {"database"}
  /\ UNCHANGED <<row, job, tries>>

-----------------------------------------------------------------------------
(* What else may happen.                                                   *)

\* delete_document, and the chunks with it.
Delete ==
  /\ status \in Stored
  /\ status' = "absent"
  /\ count' = 0
  /\ copies' = [s \in Slots |-> 0]
  /\ UNCHANGED <<upload, job, tries, step, past>>

\* job_timeout: the job is cancelled where it awaits, which its handlers of
\* Exception do not see, and is not delivered again.
JobTimeout ==
  /\ step["worker"] = "embedding"
  /\ step' = [step EXCEPT !["worker"] = "answered"]
  /\ past' = past \cup {"timeout"}
  /\ UNCHANGED <<row, upload, job, tries>>

\* The worker stops: the job is delivered again, if it may still be.
WorkerStops ==
  /\ job = "running"
  /\ job' = IF tries < MaxTries THEN "queued" ELSE "done"
  /\ step' = [step EXCEPT !["worker"] = "idle"]
  /\ past' = past \cup {"crash"}
  /\ UNCHANGED <<row, upload, tries>>

\* The process of the route stops.
RouteStops ==
  /\ upload \notin {"new", "over"}
  /\ upload' = "over"
  /\ step' = [step EXCEPT !["route"] = "idle"]
  /\ past' = past \cup {"crash"}
  /\ UNCHANGED <<row, job, tries>>

-----------------------------------------------------------------------------
Ingest(a) ==
  Orphaned(a) \/ Begin(a) \/ Chunked(a) \/ Save(a) \/ Fail(a) \/ DatabaseFails(a)

Route == StoreBlob \/ Enqueue \/ RecordJob \/ Ingest("route")
Worker == Deliver \/ FetchBlob \/ Ingest("worker") \/ Acknowledge

Next ==
  \/ Upload \/ Route \/ Worker
  \/ Delete \/ JobTimeout \/ WorkerStops \/ RouteStops

Spec == Init /\ [][Next]_vars

\* A request is served to its end, a queued job is delivered and run.
FairSpec == Spec /\ WF_vars(Route) /\ WF_vars(Worker)

-----------------------------------------------------------------------------
(* Properties.                                                             *)

\* Whoever ingests a document, however often and whatever fails, a document
\* that says ready has, of one of its ingesters, every chunk that this one
\* keeps, and chunk_count counts them.  That is the whole text only as far as
\* max_chunks goes: what was cut off is nowhere to be seen.
ReadyIsWhole ==
  status = "ready" =>
    \E a \in Actors : count = Kept(a) /\ \A s \in SlotsOf(a) : copies[s] > 0

\* As long as no answer of the queue is lost and nothing stops, a document is
\* ingested once: no chunk is there twice, and no text cut twice, for search to
\* find twice.
IngestedOnce ==
  past \cap {"lost", "crash"} = {} =>
    /\ \A s \in Slots : copies[s] <= 1
    /\ \A s, t \in Slots : copies[s] > 0 /\ copies[t] > 0 => s[1] = t[1]

\* A deletion is final: an ingestion still under way leaves no chunk behind.
DeletedLeavesNothing == status = "absent" => \A s \in Slots : copies[s] = 0

\* An upload comes to an end that the client can see by polling, even when it is
\* ingested twice, unless something goes wrong that the handlers do not catch.
Settles ==
  status \in {"pending", "parsing", "embedding"} ~>
    status \in {"ready", "failed", "absent"} \/ past \ {"lost"} # {}
=============================================================================
