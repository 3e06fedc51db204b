# AgenticOS: a verification project

TLA+ models of the parts of AgenticOS that keep state and share it: the turns of
the agent runtime, the audit chain, the model registry, calls on models and their quota,
workspace membership, policy bundles, the ingestion of documents and their search, the chat
WebSocket, chat sessions and their summaries, the versions of agents, and the event loop,
pool and row locks that the gateway's requests share. Each module is translated from the Python source it names (the
`map` of `PROJECT.json` gives the lines), checked by TLC on small instances and,
where a proof is within reach, proved with TLAPS for every value of its constants.

    tlc -workers 2 -config AuditChain_registry.cfg MCAuditChain  # one run
    tlapm GatewayProofs.tla                                      # one module of proofs

## The system

Services under `src/services`, each a FastAPI process of its own with several
replicas in production (`deploy/helm/agenticos/values-prod.yaml`: three
api-gateways, two llm-gateways, three runtimes), around one PostgreSQL
(READ COMMITTED), Redis, NATS, S3 and OPA. They call one another over HTTP; a
request opens a database session, `get_db` commits it when the handler has
returned, and helpers such as the audit emitter and the registry reload open
sessions of their own in the middle. Almost every hard behaviour comes from that:

- **concurrency**: requests of one process interleave at each `await`, requests of
  several replicas at each statement;
- **atomicity**: a row is read, checked, and overwritten at the commit; a copy is
  refreshed, or a message sent, before the commit it is about;
- **failure**: any outgoing call may time out after it took effect, a client may
  leave a stream at any `yield`, a process may die between two commits.

### Inventory

| Component | State | Operations | Interacts with | What makes it correct |
|---|---|---|---|---|
| agent-runtime (`agent_runtime`: `routes.py`, `runner.py`, `graphs/react.py`, `policy.py`, `proxies.py`) | a turn: its events and model messages; rows of `message` | `/run`, `/run/stream` | llm-gateway, tool-registry, memory-svc, knowledge-svc, OPA; turns of one session share rows and buffer | a turn's rows are all or nothing; every call is answered; one terminal event; what runs was gated and runs once; a turn ends |
| tool-registry | rows of `tool` | create, update, delete, list, invoke | called by the runtime, administered through the gateway | a name resolves to the tool that was gated |
| memory-svc, short-term | a Redis list per session | append + trim, read, expire | the runtime | the buffer never runs ahead of the table |
| memory-svc, long-term | rows of `memory_item` | upsert, delete, search | the runtime, the worker | one row per key; embedding and summary agree |
| audit chain (`GatewayAuditEmitter`, `audit_chain.py`, `routes/audit.py`) | `audit_event` rows with `prev_hash`, `event_hash` | emit, verify | every handler of the gateway | an unedited table verifies; an edit shows |
| llm-gateway registry | `model` rows; one `_cache` per process | create, update, delete, reload, resolve | administrators; every inference | a call is routed by a committed row; the copy follows changes |
| llm-gateway inference and quota | Redis counters per minute and day; `token_usage`; the quota service of each process | reserve, charge, record; chat, embeddings | every model call; the gateway's own limit before it | admitted per minute <= limit; overrun bounded; counters, rows and answers agree |
| knowledge-svc | `document`, `chunk`, `collection` | upload (inline, text, async), ingest, delete, search | S3, llm-gateway, the queue | a ready document has what its ingester keeps of the text, once; a document leaves `parsing` |
| worker (arq) | the Redis queue | ingest_document, summarize_session | knowledge-svc, memory-svc | a job repeated after a crash changes nothing |
| api-gateway: workspaces | `workspace`, `workspace_member` | create, delete, add, update, remove | every permission check | a workspace keeps an owner; owners' roles are owners' business |
| api-gateway: policies | `policy_bundle`, and what OPA has loaded | upload, activate, delete | OPA | one active bundle; distinct versions; OPA follows the table |
| api-gateway: chat socket | one task per socket | user_message, cancel, ping, disconnect | `/run/stream` | no frame of a superseded run; one terminal frame |
| api-gateway: agents | `agent`, `agent_version`, bindings | create, update, publish, bind | the runtime, the registry | version numbers distinct; a version is a snapshot |
| api-gateway: chat sessions | `session` | create, run, end | the runtime, the worker | what was queued is summarised, as far as a transcript goes; a summary is never replaced by an older one |
| api-gateway: sign-in, keys, rate limit, proxies | `api_key`, the cookie, a counter per window | sign in, issue, use and revoke keys | the identity provider | a key's use and its revocation end, whatever rows they contend for |
| a process of any service | one event loop, one pool of 30 connections, row locks of its transactions | run a dependency in a thread, a handler on the loop, commit in a thread | the liveness probe of the deployment | every request ends; connections come back |
| web-ui, SDKs | none that the program shares | - | - | - |

`PROJECT.json` lists every component with its status, and the hazards, each at the
line where it bites, with the properties that watch it.

## What is modelled

| Module | Models | Composes with |
|---|---|---|
| `Conversation` | what a session's message rows promise: a turn asks, then settles at once or drops | abstract specification of the next |
| `AgentTurn` | the turns of one session: both routes, the ReAct loop, the gate, the tool registry's rows, the short-term buffer | `Conversation` through a refinement mapping |
| `AuditChain` | emitters of several processes, the table, an edit of it, the verification walk | |
| `ModelRegistry` | the table, the copy of each process, administrators' transactions, calls that resolve | |
| `Membership` | workspaces, roles, requests that read, check and commit | |
| `PolicyBundles` | rows of one (tenant, package), row locks, OPA, requests that overlap and fail | |
| `Ingestion` | one document: the upload request, the queue, the worker, deletion | |
| `ChatSocket` | one socket: its reader, the tasks of its runs, the frames it sends | |
| `AgentVersions` | one agent: row, snapshots, join rows, concurrent edits and deletions of tools | |
| `Inference` | the calls of one workspace: the gateway's limit, a process of llm-gateway, its quota in Redis, a provider, the usage rows | |
| `ChatSessions` | one session: its row, its ends, the summary jobs, their puts and the memory items | `Conversation` for the rows of its turns |
| `RequestLoop` | processes of the gateway: event loop, pool, row locks, probe | |
| `Chunks`, `Fusion` | what ingestion and search compute: operators, on one document or query that is chosen at the start | `Ingestion`, in `MCIngestion` |
| `Orders`, `Sums` | the sequence of a set in a given order; sums and products over finite sets | `Chunks`, `Fusion`, `Inference`, `ChatSessions` |
| `MC...` | the instances for TLC: definitions of function-valued constants and symmetry sets; `MCAuditChain` and `MCIngestion` hold several modules that share no state, of which a behaviour takes one | |
| `AgentTurnProofs`, `AgentVersionsProofs`, `PolicyBundlesProofs` | theorems about the module they are named for | it and `TLAPS` |
| `LlmGatewayProofs` | theorems about `ModelRegistry` and `Inference` | both, `SumTheorems` |
| `GatewayProofs` | theorems about `Membership`, `AuditChain` and `RequestLoop` | all three |
| `ChatProofs` | theorems about `ChatSocket` and `ChatSessions` | both |
| `KnowledgeProofs` | theorems about `Ingestion`, `Fusion` and `Chunks` | all three, `SumTheorems` |
| `SumTheorems` | what sums, products and cardinalities over finite sets obey | `Sums` |

### AgentTurn

State: `pc`, the position of each turn in its handler; `events`, what its generator
has yielded; the bookkeeping of the loop (iteration, calls pending); `rows`, the
`message` table of the session in order of insertion; the short-term buffer; the
registry's rows; and as history what ran. Each action is the code between two
awaits at which another turn or an administrator can act: `ReadShortTerm`,
`SaveUser` (the first commit), `RememberUser`, `Prepare` (the retrieval and the list of tools),
`ModelCalls`, `AllowCall` / `DenyCall` (the policy check), `RunTool` (inside the
registry, which resolves the name again), `ToolAnswer` / `LoseAnswer` (the answer
arrives, or is lost and raises), `RememberAnswer`, `CommitTurn`. `Interrupt` is a
stream whose client leaves or a process that dies; `CreateTool`, `UpdateTool`,
`DeleteTool` are the registry's routes; `Expire` is Redis' TTL and eviction. Text,
tokens, citations, delta and thought events are abstracted away. What a model
answers is nondeterministic, and so is OPA's answer, within what `PolicyMayAllow` says the
rule of `policies/tool_access.rego` and the fallback of `policy.py` allow.

### AuditChain

An emit builds its event (`Create`: stamped by this process's clock, up to `Skew`
behind), reads and locks the last row (`LockLast`: `FOR UPDATE SKIP LOCKED`, so a
row that another emit holds is passed over), commits (`Write`), or fails (`Drop`).
A hash is the sequence of what it covers, so equal hashes mean equal contents.
`Edit` changes a row in the database, its own hash left alone or redone. `Sound`
and `Broken` are `verify_chain` on the table as it is. The variable `orderly` is
history: no two emits have been in flight together and the clocks agreed.

### ModelRegistry

`Flush`, `ReloadCache` and `Commit` are the three parts of an administrator's
request: the statement is sent, the copy is reloaded through another session, and
`get_db` commits. `Rollback` and `Restart` may come in between. `Resolve` is a
call, with its reload on a miss.

### Membership

`Authorize` reads the caller's rights, `Decide` reads the row and makes the
handler's checks, `CommitMember` / `CommitDelete` flush and commit, so what was
checked may have changed. Where the ORM raises (the row is gone, the key exists) the
guard `Writable` fails and only `Abandon` is left.

### PolicyBundles

A request reads (`Upload`, `ReadToActivate`, `ReadToDelete`), deactivates the others
(`Scan` takes the statement's snapshot, `Lock` waits for row locks and re-evaluates,
as READ COMMITTED does), calls OPA (`Push`, `RemovePolicy`), and commits. `Abort`
rolls back anywhere, and what OPA was told stays. `alone` and `past` are history: the
requests that no other one has overlapped, and whether anything overlapped or failed.

### Ingestion

`Upload` stands for the three routes up to the commit of the row: two of them ingest
inline (`step["route"]`), the third stores the blob (`StoreBlob`) and enqueues a job
(`Enqueue`, whose answer may be lost: then the route ingests what the worker ingests
too). Route and worker cut the text with sizes of their own (the job calls `ingest_document` with
400, 60 and 5000, whatever the service is configured with), into `Pieces` of which the first
`Limit` are `Kept`: a text with more chunks than `max_chunks` is cut off there and says ready all
the same. `Deliver`, `FetchBlob` and `Acknowledge` are the job; `Begin`, `Chunked`, `Save`,
`Fail` are the commits of `ingest_document`, which route and worker share, and
`Orphaned` its statement that finds the document deleted. `JobTimeout` is arq's
cancellation, which no handler sees; `WorkerStops` (external) delivers the job again up to
`MaxTries` times. `past` is history: what has gone wrong.

### ChatSocket

`reader` is the coroutine of the socket: it receives a message (`UserMessage`, `Cancel`,
`Ping`), and after it has cancelled a run it awaits the task (`Settled`) before it goes on.
A task that has been cancelled runs no further than its await: `Interrupted` is the
handler of `CancelledError`, or the end of a task that never took its first step.
`StreamEnds` is a response without a closing line, `StreamFails` one that raises. A
reader that sees the disconnect may leave a run behind (`Disconnected`).

### AgentVersions

An edit is a record of what it read and what it will write. `Patch`, `Publish`, `Bind`,
`Unbind` and `Delete` read the row; `SyncToolBindings` reads the join rows later;
`CommitEdit` is the flush and commit: only columns that changed in memory are updated
(`Updated`), the snapshot is taken of the object in memory (`InMemory`), join rows must
reference tools that exist and be new, and the version must be `Free`. A list holds any strings
(`Lists`): a join row is written for those that `UUID()` reads as a tool (`Parsed`), and what it
cannot read is skipped and stays on the list, so it never had a row. `DeleteTool` is
the registry's deletion with its cascade, `ReadToPrune` and `CommitPrune` the pruning
of the lists that follows in the gateway. `Abort` is any failure. `past` is history:
deletions of tools that met another request, or that pruned nothing.

### Inference

A call goes through `Dispatch` (the middleware of api-gateway), `Count` (the INCR of its
minute), `Peek` (the day's tokens), a provider (`Chunk` and `SendDone` for a stream,
`EmbedInput` for ollama's one text at a time, `AnswerChat`, `AnswerEmbeddings`,
`ProviderFails`), `Charge` (`add_tokens`, under the key of the day it is by then) and
`Record` (the `token_usage` row, whose failure only a stream survives). Between the INCR
and the charge of one call no other call of its process runs, because the Redis client is
synchronous (`Scheduled`); calls of other processes do. `Consume` and `Leave` are the
client of a stream: the code after `[DONE]` runs only when it asks for more. `InitState` is
`init_state`: a process that does not reach Redis has the no-op quota until it starts
again, which `blind` remembers. With a limit of 0 requests per minute neither the minute nor the
day's tokens are looked at, though the day is still charged. `peak` and `unread` are history: how
many `Metered` calls were open at once, and which of them went on without having read the day's
tokens, because the read failed or was never made. A whole call may raise after its row is
written, when the commit or the answer fails: then the row is there for a call that did not succeed.

### ChatSessions

The gateway's side is `CreateSession`, `Run` / `RunReturns` (a session is created and committed
when none is named; the runtime goes on if the gateway gives up) and `EndSession`,
`Enqueue`, `CommitEnd`: the job is queued before the end is committed, again at every
end, and whether or not the commit succeeds. `Turn` is the runtime, of which no more is
known here than `Conversation` says, with an answer, or a call, its result and an answer, as all
that it says. `TakeJob` reads the rows that have content (`Said`: a call of a tool has none, and
`Silent` names others whose text is empty), of which the oldest that fit in 6000 characters are in
the transcript (`Heard`, at most `Fits`); the job ends there if there are none. `Summarise` asks the model, `HearOfPut` is
the job's wait for memory-svc, `WorkerStops` (external) a delivery that is repeated.
`Embed`, `Upsert`, `CommitPut`, `RollbackPut` are the put: it goes on when its job has given up, an
insert is not seen by another one, an update waits for the row's lock. A failed `Embed` gives no
embedding, or an empty one, which is written over the one before. `past` is
history: whether jobs (or a job and an orphaned put) have overlapped, or an embedding failed.

### RequestLoop

A request's dependencies (`Authenticate`) and its commit (`Commit`) run in threads, its
handler on the event loop (`Handle`, `Emit`, `Return`), which each of these leaves between two
awaits. A flush that meets another transaction's row lock, and an audit event that meets
an empty pool, wait *on the loop* (`Waiting`), and nothing else of that process's handlers
runs (`LoopFree`). An audit event has a connection of its own (`auditing`, until `CloseAudit`), which
`Connections` counts beside its request's. The rows a request locks are its API key's (`last_used_at` is written with
whatever is flushed next) and the one it is about. `Restart` is what the deployment's
liveness probe does to a process whose `/healthz`, a coroutine of the same loop, does not
answer.

### Chunks and Fusion

`Chunks` is `chunker.py` on token positions: a text is the lengths of its paragraphs, a
chunk an interval; `Cut` is the cut at `max_chunks`, across the pages; and the batches of
`embed_batch` with answers in any order. A chunk is its token positions: that a hard split inside
a character decodes to replacement characters (`chunker.py:134`) is not seen. `Fusion` is
the reciprocal rank fusion of `search.py`, on SQLite and on PostgreSQL, where the lists are
cut at twice `top_k` before they are fused. Scores are integers: `Weight` multiplies
`1 / (k + pos)` by what makes it whole. Both sort with `Orders`: a sequence of a set in an
order, in which `at[i]` is the element with `i - 1` others before it. `Parse` and `Search` choose the input; in `MCIngestion` a
behaviour takes one of them, or goes through `Ingestion`.

## Runs

| Run | Instance | Shows |
|---|---|---|
| `AgentTurn_overlap` | 3 turns, one streamed; a model may ask for tools nobody has; the buffer works | the runtime implements `Conversation` (a turn's rows are nothing, its question, or everything); the buffer holds only what has a row; a turn is given the messages of every turn done before it began |
| `AgentTurn_tools` | 1 streamed turn, 2 rounds, 2 calls, a workspace tool and a global tool of the same name, both created, toggled and deleted; the buffer loses, expires and trims | what ran was announced and gated, runs once and is reported truthfully; one terminal event; the turn ends |
| `AuditChain_registry` | 4 events, one older than the chain, skew 1, a verification of 4 rows; or, of `ModelRegistry`, 2 processes, 2 aliases, 2 values, 2 administrators | as long as emits come one at a time the chain verifies; forked or not, no row hangs from a lost event, and an edit shows; no call is routed by a row that was never committed |
| `Membership_removal` | 1 workspace, 2 users, 2 requests | **violated**: a removal commits after another request has taken away the owner it counted |
| `PolicyBundles_requests` | 3 uploads of a name and one of another, 2 requests, faults | serially: one active bundle, distinct versions, and without faults OPA has nothing the table lacks; and after any history a lone activation leaves its bundle alone active |
| `Ingestion_uploads` | a text that the route cuts into 4 pieces, of which it keeps 2, and the worker into 3, all kept; 2 deliveries, any loss, stop, timeout, failure and deletion; every text of up to 3 paragraphs of up to 5 tokens, every `chunk_size` up to 5 and overlap, `max_chunks` 2 or more than there are chunks; batches of 2, answered in order or reversed; every two rankings of 4 chunks, `top_k` up to 2, `k` = 60 | a document that says ready has all that one of its ingesters keeps; a deleted one leaves no chunk; nothing is stored twice without a loss or a stop; an upload comes to an end the client can see; chunks tile the text, up to where `max_chunks` cuts them; each has its own embedding; no chunk that is ahead of a hit everywhere is missed |
| `ChatSocket_frames` | 3 messages, 1 event each, 1 reply of the reader | frames of two runs are not mixed; a run that ended is not heard of again, a late cancellation excepted; the reader does not wait for the runtime |
| `AgentVersions_edits` | 2 tools, 1 string that is no UUID, 2 values, 2 requests, 2 versions | the newest snapshot is the agent; no edit is lost; join rows are the existing tools of the list unless the prune of a deleted one met a request |
| `Inference_quota` | a streamed and a whole call on one process, a third call (streamed without a limit, or embedding for no workspace) on another, 2 minutes that are 2 days, 1 fault; limits 1, 2 and 1 token | no minute lets more than its limit through; a day overruns by no more than the calls open at once can use; a refusal is due; counters hold what was charged, and a call that succeeded or has a row was charged what it used |
| `Inference_recorded` | the same instance | **violated**: a stream whose client has left, or whose row could not be written, has none |
| `ChatSessions_summaries` | 1 turn, 2 messages that fit in a transcript, 2 ends, 2 deliveries each, 1 fault | unless jobs overlap: one summary, never replaced by one that was given less, and what was queued is summarised as far as a transcript goes; unless an embedding failed, a search ranks each summary by its own |
| `RequestLoop_rows` | 3 requests on one process, or 2 on one and 1 on another; one key, one other row, 2 connections each | every request ends; every way out, of a request and of an audit event, gives its connection back |

### Bounds, and why they are enough

- Turns: three, because what a turn is given when it starts needs a done turn, one that
  overlaps, and the one that reads. Tool rows: two of one name, the least that can
  shadow one another. Two rounds of up to two calls reach every way from one call to
  the next, and a second request to the model. `StmCap` is one row below what the turns write in
  the run where the buffer trims, and above it where history is claimed.
- Events: three on the chain and one before it. A fork needs two, and a row after the fork
  the third; ids are not in order of emission, so ties of `created_at` occur.
- Two slots, two processes, two administrators: each violated property falls with
  two, and each invariant that holds with two overlapping requests is proved for any number.
- Bundles: three versions of a name, so that a middle one may be deleted and a
  version number come again, and one of another name.

- Ingestion: two and three pieces kept, so that a document may be half stored, and two left out by
  one ingester's `max_chunks` and none by the other's; two deliveries, the least at which a job runs
  again.
- Chunks and rankings: three paragraphs are a window, its successor that carries an
  overlap, and a third that carries from that one; sizes up to the longest paragraph give
  windows that fit, that fill up and that are split; a `max_chunks` of two cuts within a page and
  between two. Four chunks are two more than `top_k`,
  and as many as the cut of one hit leaves out.
- Calls: two on one process and one beside it, with a limit of two requests, so that the third
  is one too many, in a minute or across the end of it; one token is the whole budget, so that two
  open calls overrun it. One fault, because what it breaks (a peek, a charge, a start) each
  needs one. The run has a limit of requests; that it may be 0 is covered by the proofs.
- Sessions: two ends are two jobs, two deliveries the least that repeats one; the turn's rows, two
  with content and a third if it calls a tool, are what the jobs differ in, and the last of three no
  longer fits. `Silent` is empty: an empty text is left out like the call of a tool, which the run
  has; the proofs cover both.
- Requests: two on one process for the deadlock of a loop, and a third one on another, so that
  a lock is also held where the loop is free, or on the same, so that it finds no connection;
  two connections, which two requests fill, so that an audit event finds none either.
- Socket: three messages, so that a run is replaced while its predecessor is still
  settling; events and replies of each kind once.
- Agent: two requests, which is what the unique constraint is for, and two versions,
  so that an edit can be overtaken by another. The proofs cover any number.

`CHECK_DEADLOCK FALSE` stands where turns, events or uploads run out and the system may
stop. Symmetry is used in runs without liveness, over values that the definitions
do not tell apart.

### Fairness

Five modules have a `FairSpec`.

- `AgentTurn`: weak fairness of `Serve(t)`, the process that serves turn `t`. Every
  await of the handler is an HTTP call with a client timeout (`proxies.py`, `react.py`)
  or a database statement, and asyncio resumes a coroutine whose call has returned.
  Nothing is assumed of administrators, of Redis or of the model: in `TurnsEnd` the model
  may ask for tools for ever, and the iteration bound is what ends the turn.
- `Ingestion`: weak fairness of `Route` and of `Worker`, for the same reason; arq polls
  its queue for as long as it runs. Losses, stops and timeouts are not fair, and `Settles`
  is not claimed after one that no handler catches.
- `ChatSocket`: weak fairness of `Settled` and of `Interrupted(r)`, both steps of the
  event loop alone: a task whose `cancel()` was called is scheduled, and a reader whose
  awaited task is over is resumed. Nothing is assumed of the runtime, which is the point
  of `CancelDoesNotWait`.
- `ChatSessions`: weak fairness of the steps of each job and of each put. arq polls its queue, and
  every call of a job, as the put's own call of the model, has a timeout; `Upsert` waits for
  nothing but the end of another put. Nothing is assumed of turns, ends or failures:
  `QueuedIsSummarised` is not claimed after a failure, a deletion or an overlap.
- `RequestLoop`: strong fairness of `GoesOn(r)`, the steps of one request, since asyncio runs ready
  callbacks in the order they came, and PostgreSQL grants a row to those that wait in turn, so
  that a step that is possible again and again is taken; weak fairness of `Restart(p)`, the probe,
  which tries every 20 seconds for as long as the loop is blocked. `CommitFails` and `Arrive`
  are not fair.

## What is proved

TLAPS checks the following for every value of the constants that satisfies the
`ASSUME` of the module (types of constants and finiteness; nothing about sizes, except where
it is said). Every safety invariant and every action property that a passing run checks is among
them: the run shows it on the instance, the theorem for any number of turns, requests,
processes, calls, rows, chunks or faults.

| Theorem | Statement | Argument |
|---|---|---|
| `AgentTurnProofs!TypeCorrect` | `Spec => []TypeOK` | one step per action |
| `RowsAllOrNothing` | `[]TurnRowsAllOrNothing` | `StageInv`: while a turn runs the table has its question at most, and what will be saved is what it has yielded |
| `RunsGated`, `RunsOnce` | `[]RunsAreGated`, `[]RunsAtMostOnce` | `WireInv`, `RunInv`: the call awaited is the one last announced, allowed and not yet run |
| `TerminalOnce`, `AnswersCalls` | `[]OneTerminalEvent`, `[]CallsAnswered` | `PairInv`: the yielded events form calls and their results in pairs, with at most the call in progress open |
| `ReportsAreTrue` | `[]DoneTurnReportsItsRuns` | `ReportInv`: an answer that says ok, on the wire or yielded, stands for an execution |
| `BufferIsBacked` | `[]BufferBackedByRows` | `BufferInv`: an answer is pushed after it was yielded, by a turn with nothing but its commit left |
| `HistoryIsKept` | under `BufferWorks`, `[]HistoryKeepsDoneTurns` | `KeepInv`: each message is pushed once, so the buffer holds two per turn at most, and nothing is trimmed before the last turn has read |
| `Implements` | `Spec => ImplementsConversation` | each action maps to `Ask`, `Settle`, `Drop` or a stutter |
| `GatewayProofs!ChainTypes`, `NoDanglingLink` | `[]ChainTypeOK`, `[]ChainRooted` | `RootInv`: the hash an emit has read is that of a committed row, as long as no row has been edited |
| `OrderlyChain` | `[]OrderlyChainVerifies` | `SerialInv`: while emits are orderly the last row by time is the last written, and each row was chained to the one before it |
| `EditsShow` | `ChainSpec => EditShows` | `EditInv`: no hash in the table is that of an edit still to be made, so the row after an edited one cannot match it; the walk is broken at either |
| `MembershipTyped`, `SerialOwnership` | `[]TypeOK`; with one request at a time `RemovalKeepsAnOwner` and `OnlyOwnersChangeOwners` (which no run repeats: serially it follows from the guard) | `FreshInv`: what a decided request read still stands |
| `PoolAccounted` | `[]ConnectionsComeBack` | `LoopInv`, the types and the count itself: each step takes or gives back exactly the connections of the request and of the event that it moves |
| `LlmGatewayProofs!RegistryTypes`, `NoDirtyRoute`, `NoFalseMissing` | `[]TypeOK`, `[]ServesCommittedOnly`, `MissingIsAbsent` | `CommittedInv`: every value of a copy is one its row has had. `MissingIsAbsent` says that a call is told "missing" only when the table lacks the alias; of "disabled", which a stale copy may say of an enabled model, it says nothing |
| `WindowKept` | `[]WindowHolds` | `WindowInv`: a minute's counter is the number of calls that met it, and those it let pass are no more than its limit, where there is one |
| `OverrunIsBounded`, `RefusedWhenDue` | `[]OverrunBounded`, `[]RefusalsDue` | `BudgetInv`: from the moment a day's tokens are used up, its counter and all that the open calls may still add stay within what is allowed, which grows with every call that did not read it: all of them when the limit of requests is 0 |
| `LedgerKept` | `[]LedgerAgrees` | `LedgerInv`: the day counters sum up to what the calls were charged, each in one step, after which only its row is left; that a stream has a row it does not say, and `Inference_recorded` shows why |
| `PolicyBundlesProofs!BundlesTyped`, `LoneActivation` | `[]TypeOK`, `LoneActivationRepairs`, any number of slots | `LoneInv`: a request that is alone knows the tables |
| `OneBundleIsActive`, `VersionsAreDistinct`, `ActiveIsSpared` | `[]OneActiveSerially`, `[]VersionsDistinctSerially`, `DeleteSparesActive` | `SerialInv`: while nothing has overlapped, every request in flight is alone |
| `LoadedWasStored` | `[]LoadedIsStored` | `LoadedInv`: what OPA was told and the table lacks is what the request in progress will write |
| `ChatProofs!SocketTyped`, `FramesInOrder`, `EndIsLast` | `[]TypeOK`, `[]RunsDoNotInterleave`, `[]NothingAfterTheEnd` | only the current run is live; what is on the wire belongs to it or to runs before it |
| `SessionsTyped`, `SummaryIsAlone`, `SummariesNeverRecede` | `[]SessionsTypeOK`, `[]OneSummary`, `SummariesAdvance` | `AloneInv`: until jobs overlap there is one job or put at a time, who is about to insert has seen no item, and the put in progress knows the most messages |
| `SummariesRanked` | `[]SearchRanksSummaries` | `RankInv`: unless an embedding failed, a put that has one has its own |
| `KnowledgeProofs!IngestionTyped`, `WholeDocuments`, `NothingIsLeft` | `[]TypeOK`, `[]ReadyIsWhole`, `[]DeletedLeavesNothing` | `WholeInv`: every commit of an ingestion that finds its row writes status, count and chunks together, and ready only with the last chunk that it keeps |
| `OnceWithoutLosses` | `[]IngestedOnce` | `OnceInv`: without a loss or a stop route and worker never both ingest, and each does once |
| `HitsAreTheBest` | `FusionSpec => []NoBetterChunkIsMissed` | an earlier place weighs more, so who is ahead in every list scores more; the hits are a prefix of a strict order of the fused chunks; the cut of a list drops nobody before whom it keeps |
| `ChunksTile` | `ChunksSpec => []ChunksTileTheText` | `Packed`: after each paragraph the windows have every token so far, and each starts within the overlap of the one before; `Cuts`: their pieces too, and none is longer than `chunk_size`; a cut at `max_chunks` leaves the first of them |
| `OwnEmbeddings` | `ChunksSpec => []EmbeddingsAreTheirOwn` | sorted by an index that each text has to itself, a batch is back in order; batches joined so far are the first texts |
| `AgentVersionsProofs!AgentTypes`, `VersionsCount`, `SnapshotsFollow`, `BindingsFollow` | `[]TypeOK`; `VersionsContiguous`, `NewestSnapshotIsAgent`, `BindingsFollowTheList`, any number of requests and any strings on the lists | `EditKnows`: an edit knows the agent until another one has committed a version, after which its own number is taken |
| `EditsAreNotLost` | `Spec => NoLostEdit` | the same invariant |

Why strengthened invariants: none of the properties is inductive as it stands,
because each relates what is committed to what a request in flight read some steps earlier;
the strengthening says, for each stage of a request, what it still knows. `IInv`, `QuotaInv`,
`SessionsInv` and `LoopInv` are the conjunctions that the steps preserve together.

`HistoryIsKept` has a hypothesis on constants, `BufferWorks`: memory-svc answers, there are
finitely many turns, and `max_messages` is two for each other turn at least. `AgentTurn_overlap`
satisfies it. Without it the property is false: the buffer that expires is one of the
behaviours listed below.

How recursion is dealt with. The library's induction theorems cannot be used here (they take an
operator), so what needs induction goes through a smallest counterexample: `SumTheorems` takes a
subset of least cardinality for which a fold differs from what is claimed, and
`KnowledgeProofs!UpToInduction` the least number outside of a set. From these come sums and products
over finite sets, functions defined by recursion (`RecursionExists`), `FlattenSeq` (`FlattenFacts`),
and the sequence of a set in an order (`OrderedFacts`). `SortSeq` and `SelectSeq` are defined in
terms that the prover does not expand, which is why `Chunks` and `Fusion` sort and select with
`Orders`.

The type invariants, `TurnRowsAllOrNothing`, `CallsAnswered`, `MissingIsAbsent`,
`VersionsContiguous`, `DeleteSparesActive` and the serial case of `Membership` are proved for every
value of the constants and no run repeats them.

Only model-checked: liveness (`TurnsEnd`, `Settles`, `CancelDoesNotWait`, `QueuedIsSummarised`,
`RequestsEnd`), which the prover does not handle under fairness. No module declares a
RECURSIVE operator, so each may be proved about.

## What the violated runs show

Each disagrees with a sentence of the repository, quoted in `findings`:

- `Membership_removal`: `docs/api.md:63` "cannot remove the last owner" and `workspaces.py:340`
  "Don't let the last owner be removed", against a removal whose count of owners is out of date by
  the time it commits. In TLC's trace the other request changes the role of the owner it counted; a
  second removal does the same.
- `Inference_recorded`: `docs/api.md:122` "Token usage is recorded in the `token_usage` table for
  every call", against streams: their row is written after `[DONE]`, only if the client still reads,
  and a failure to write it is logged and dropped.

Two more sentences do not hold, and are dealt with in the properties themselves:
`docs/api.md:118` has the daily budget enforced, but with a limit of 0 requests per minute nothing
reads it (`Count`, and `unread` in `OverrunBounded`); `agents.py:166` has the join rows match the
list, but strings that are no UUID stay on the list without one (`SyncToolBindings`, and `Parsed` in
`BindingsFollowTheList`).

Several properties are claimed of histories in which nothing has overlapped, failed or been lost
(`orderly`, `past`, `alone`), because the code does not keep more: the effect that a hazard names is
then outside of the property, and the property says that nothing else brings it about. The `note` of
each such hazard in `PROJECT.json` says so.

The models also contain behaviour that a reader should know of:

- two emits in flight fork the audit chain, since SKIP LOCKED hands the second one an older
  row, and an untouched table then fails its verification, against the comment at
  `audit_bus.py:81-84` (`AuditChain`; checking `ChainVerifies` shows it);
- a model is reloaded into the copy of its process before its change is committed, and
  other processes are not told at all, so a copy stays one change behind, against
  `registry.py:3-4` (`ModelRegistry`, `Flush`, `ReloadCache`, `Commit`);
- a session that is ended again is summarised again, against the docstring at
  `summarize_session.py:125` (`ChatSessions`, `TakeJob`), and since nothing makes the key of an
  item unique, two puts at once leave two items, after which every put of the key fails;
- a put whose embedding failed keeps the embedding of the summary before, and one that was answered
  with an item but no vector (`embedder.py:24`) writes an empty one over it, or fails where the column
  has a dimension, which is a rollback (`CommitPut`, `RollbackPut`);
- a transcript has the oldest 6000 characters of a session, so what was said after them is in no
  summary (`ChatSessions`, `Heard`);
- a text with more chunks than `max_chunks` is cut off and its document says ready; the worker has a
  limit and sizes of its own (`Ingestion`, `Kept`). A negative `max_chunks`, which would drop chunks
  from the end, is not modelled;
- two requests of one process that flush before they await, with one API key or one row between
  them, block its event loop until the probe restarts it (`RequestLoop`, `Waiting`), and with it
  every other request it serves;
- a stream whose client does not read past `[DONE]` is neither charged nor recorded
  (`Inference`, `Leave`), a whole call may raise after its row is written, and a process that starts without Redis has no quota;
- on PostgreSQL a larger `top_k` can change the first hit, because the lists are cut before they are
  fused, and chunks without an embedding close the list of the nearest (`Fusion`); the last piece of a
  hard split may repeat the end of the one before and nothing else, and no overlap is carried out of
  a window that is not longer than it (`Chunks`);
- the buffer expires after an hour: the first turn after that reads the table, the next one a buffer
  of one turn (`AgentTurn`, `Expire`);
- the audit trail commits an event before the request's own commit, which may fail; a verification
  with a limit cannot see an edit of the last row it reads if the hash was redone;
- a role is read, checked and overwritten at the commit, so two requests may leave what neither was
  allowed (`Membership`), and a deletion of a bundle that overlaps its activation deletes the
  active one (`PolicyBundles`);
- the registry resolves a tool's name again after the gate, so the row that runs may be
  one of the same name that the agent is not bound to (`AgentTurn`, `Resolve`);
- deleting an inactive version of a bundle unloads the active one, since all
  versions share one OPA id, and two activations of different names in one package may
  both commit (`PolicyBundles`);
- a job that arq cancels after its timeout leaves its document in `parsing` or
  `embedding` (`Ingestion`, `JobTimeout`): a cancellation is not an `Exception`;
- a deletion of a tool that meets an edit, or of a global tool used by agents of other
  workspaces, leaves its id on the list without a join row; binding any other tool then
  fails as "not found" until that id is taken off (`AgentVersions`);
- a response without data lines ends a run of the socket without a frame, and a
  disconnect leaves the run going (`ChatSocket`).

## Plan

In this order:

1. `SignIn` (`auth/`, `routes/auth.py`): the state of the OIDC flow, the cookie and its refresh, the
   cache of the provider's keys.
2. Composition: `ChatSocket` over `AgentTurn`, with the turn as the source of the
   socket's events, so that what the user saw is related to the rows of the session. An abstract
   specification of a budget, which `Inference` implements while Redis is there; its steps are those
   that `WindowInv` and `BudgetInv` already follow.
3. `Collections`: the join rows of documents, their primary collection and the deletion of either.
4. What the liveness properties rest on, as invariants with theorems: that a turn, a job, a put or
   a request that is not over always has a step of its own to take.

## Not modelled

What a builtin tool, an HTTP plugin or an MCP server does; the text of prompts, answers and
documents; parsers; sign-in and collections, which are planned; proxies that keep no state; metrics,
logs and traces; the browser client and the SDKs; the rest of the deployment. `PROJECT.json` gives
the reason for each.
