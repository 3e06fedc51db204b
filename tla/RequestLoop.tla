----------------------------- MODULE RequestLoop -----------------------------
(***************************************************************************)
(* How the processes of api-gateway run requests that change something.    *)
(* The dependencies of a request and its commit run in threads, and its    *)
(* handler on the process's event loop, where it may flush what it writes, *)
(* and so take row locks, before it awaits.  A statement on the loop that  *)
(* waits for a lock, or for a connection, holds up every other request of  *)
(* its process, and with them whoever would release it: what ends that is  *)
(* the liveness probe, which the loop does not answer either.              *)
(***************************************************************************)
EXTENDS Naturals, FiniteSets

CONSTANTS
  Requests,
  Processes,
  Homes,    \* the processes that requests may be sent to, one for each request
  Keys,     \* API keys: each is a row, which its use writes to
  Others,   \* the other rows that requests write to
  PoolSize  \* connections of a process, the overflow included

ASSUME RequestLoopAssumption ==
  /\ IsFiniteSet(Requests)
  /\ Homes \subseteq [Requests -> Processes] /\ Keys \cap Others = {} /\ PoolSize \in Nat

VARIABLES
  home,     \* the process that each request is sent to
  asked,    \* what each request is
  place,    \* where it is
  used,     \* connections of each process that are out
  revoked   \* api_key.revoked_at, where it is set

loopVars == <<home, asked, place, used, revoked>>

-----------------------------------------------------------------------------
NoKey == "none"
Nothing == [key |-> NoKey]

\* A request with the key it comes with, or none, the row it is about, and
\* whether its handler flushes: the revocation of a key does not.
Asks ==
  {r \in [key : Keys \cup {NoKey}, row : Keys \cup Others, flushes : BOOLEAN] :
     r.row \in Keys => ~r.flushes}

LoopTypeOK ==
  /\ home \in Homes
  /\ asked \in [Requests -> Asks \cup {Nothing}]
  /\ place \in [Requests -> {"new", "connecting", "ready", "flushing", "flushed", "emitting",
                          "auditing", "emitted", "committing", "over"}]
  /\ used \in [Processes -> 0..PoolSize]
  /\ revoked \subseteq Keys

LoopInit ==
  /\ home \in Homes
  /\ asked = [r \in Requests |-> Nothing]
  /\ place = [r \in Requests |-> "new"]
  /\ used = [p \in Processes |-> 0]
  /\ revoked = {}

RowsOf(r) == {asked[r].key, asked[r].row} \ {NoKey}

\* get_db's session keeps its connection from the first statement to its end; emit
\* takes another one for the audit row.
Connected(r) == place[r] \notin {"new", "connecting", "over"}
Connections(p) ==
  {<<r, "request">> : r \in {q \in Requests : Connected(q) /\ home[q] = p}}
    \cup {<<r, "audit">> : r \in {q \in Requests : place[q] = "auditing" /\ home[q] = p}}
Full(p) == used[p] = PoolSize

\* the row locks of a request that has flushed
Locks(r) ==
  IF place[r] \in {"flushed", "emitting", "auditing", "emitted", "committing"} /\ asked[r].flushes
  THEN RowsOf(r) ELSE {}
CanLock(r) == \A q \in Requests \ {r} : Locks(q) \cap RowsOf(r) = {}

\* What a loop waits in, if anything: a flush, the connection of an emit, its row.
Waiting(r) == place[r] \in {"flushing", "emitting", "auditing"}
LoopFree(p) == \A r \in Requests : Waiting(r) => home[r] # p

Goto(r, to) == place' = [place EXCEPT ![r] = to]

\* MUTANT of End: a session is closed by a handler that returns.
EndUnclosed(r) ==
  /\ Goto(r, "over")
  /\ asked' = [asked EXCEPT ![r] = Nothing]
  /\ used' = IF place[r] \in {"committing"} THEN [used EXCEPT ![home[r]] = @ - 1] ELSE used

\* get_db's finally.
End(r) ==
  /\ Goto(r, "over")
  /\ asked' = [asked EXCEPT ![r] = Nothing]
  /\ used' = IF Connected(r) THEN [used EXCEPT ![home[r]] = @ - 1] ELSE used

-----------------------------------------------------------------------------
\* The request arrives and its dependencies are given to a thread.
Arrive(r) ==
  /\ place[r] = "new"
  /\ LoopFree(home[r])
  /\ \E new \in Asks : asked' = [asked EXCEPT ![r] = new]
  /\ Goto(r, "connecting")
  /\ UNCHANGED <<home, used, revoked>>

\* current_principal: the first statement takes a connection.  A key that is
\* revoked is refused, the use of another one is noted.
Authenticate(r) ==
  /\ place[r] = "connecting" /\ ~Full(home[r])
  /\ IF asked[r].key \in revoked
     THEN End(r)
     ELSE /\ Goto(r, "ready")
          /\ used' = [used EXCEPT ![home[r]] = @ + 1]
          /\ UNCHANGED asked
  /\ UNCHANGED <<home, revoked>>

\* pool_timeout
ConnectTimesOut(r) ==
  /\ place[r] = "connecting" /\ Full(home[r])
  /\ End(r)
  /\ UNCHANGED <<home, revoked>>

\* The handler as far as its first await, or its refusal.
Handle(r) ==
  /\ place[r] = "ready" /\ LoopFree(home[r])
  /\ \/ Goto(r, IF asked[r].flushes /\ ~CanLock(r) THEN "flushing" ELSE "flushed")
        /\ UNCHANGED <<asked, used>>
     \/ End(r)
  /\ UNCHANGED <<home, revoked>>

\* The locks are free: the flush goes on, unless what the other request has
\* committed makes it fail.
Flush(r) ==
  /\ place[r] = "flushing" /\ CanLock(r)
  /\ \/ Goto(r, "flushed") /\ UNCHANGED <<asked, used>>
     \/ End(r)
  /\ UNCHANGED <<home, revoked>>

\* GatewayAuditEmitter.emit, after the publication it awaits: a session of its own.
OpenAudit(r) ==
  /\ ~Full(home[r])
  /\ Goto(r, "auditing")
  /\ used' = [used EXCEPT ![home[r]] = @ + 1]

Emit(r) ==
  /\ place[r] = "flushed" /\ LoopFree(home[r])
  /\ \/ OpenAudit(r)
     \/ Full(home[r]) /\ Goto(r, "emitting") /\ UNCHANGED used
  /\ UNCHANGED <<home, asked, revoked>>

EmitLate(r) ==
  /\ place[r] = "emitting" /\ OpenAudit(r)
  /\ UNCHANGED <<home, asked, revoked>>

\* pool_timeout: the event is dropped and the request goes on.
EmitTimesOut(r) ==
  /\ place[r] = "emitting" /\ Full(home[r])
  /\ Goto(r, "emitted")
  /\ UNCHANGED <<home, asked, used, revoked>>

\* MUTANT of CloseAudit: the session of an audit row is left open.
LeaveAuditOpen(r) ==
  /\ place[r] = "auditing"
  /\ Goto(r, "emitted")
  /\ UNCHANGED <<home, asked, used, revoked>>

\* The row is committed or the event dropped: session_scope closes the session.
CloseAudit(r) ==
  /\ place[r] = "auditing"
  /\ Goto(r, "emitted")
  /\ used' = [used EXCEPT ![home[r]] = @ - 1]
  /\ UNCHANGED <<home, asked, revoked>>

\* The handler returns, and the end of get_db is given to a thread.
Return(r) ==
  /\ place[r] = "emitted" /\ LoopFree(home[r])
  /\ Goto(r, "committing")
  /\ UNCHANGED <<home, asked, used, revoked>>

\* last_used_at and revoked_at are columns of their own.
Committed(r) == IF asked[r].row \in Keys THEN revoked \cup {asked[r].row} ELSE revoked

\* The commit, which flushes what the handler has not.
Commit(r) ==
  /\ place[r] = "committing"
  /\ asked[r].flushes \/ CanLock(r)
  /\ revoked' = Committed(r)
  /\ End(r)
  /\ UNCHANGED home

CommitFails(r) ==
  /\ place[r] = "committing"
  /\ End(r)
  /\ UNCHANGED <<home, revoked>>

\* MUTANT of Restart: the probe is answered while the loop waits for a lock.
RestartIfStarved(p) ==
  /\ \E r \in Requests : home[r] = p /\ place[r] = "emitting"
  /\ place' = [r \in Requests |-> IF home[r] = p /\ place[r] # "new" THEN "over" ELSE place[r]]
  /\ asked' = [r \in Requests |-> IF home[r] = p THEN Nothing ELSE asked[r]]
  /\ used' = [used EXCEPT ![p] = 0]
  /\ UNCHANGED <<home, revoked>>

\* /healthz has not answered for as long as the probe allows: the process is
\* stopped, its transactions are rolled back, and it is started again.
Restart(p) ==
  /\ ~LoopFree(p)
  /\ place' = [r \in Requests |-> IF home[r] = p /\ place[r] # "new" THEN "over" ELSE place[r]]
  /\ asked' = [r \in Requests |-> IF home[r] = p THEN Nothing ELSE asked[r]]
  /\ used' = [used EXCEPT ![p] = 0]
  /\ UNCHANGED <<home, revoked>>

-----------------------------------------------------------------------------
GoesOn(r) ==
  \/ Authenticate(r) \/ ConnectTimesOut(r)
  \/ Handle(r) \/ Flush(r) \/ Emit(r) \/ EmitLate(r) \/ EmitTimesOut(r)
  \/ CloseAudit(r) \/ Return(r)
  \/ Commit(r)

LoopNext ==
  \/ \E r \in Requests : Arrive(r) \/ GoesOn(r) \/ CommitFails(r)
  \/ \E p \in Processes : Restart(p)

LoopSpec == LoopInit /\ [][LoopNext]_loopVars

\* A loop that is free now and then runs what is ready in turn, waits for a lock
\* are served in turn, those for a connection have a timeout, and the probe
\* does not give up.
LoopFairSpec ==
  /\ LoopSpec
  /\ \A r \in Requests : SF_loopVars(GoesOn(r))
  /\ \A p \in Processes : WF_loopVars(Restart(p))

-----------------------------------------------------------------------------
(* Properties.                                                             *)

\* Requests that wait for each other's rows on one loop do stop it, but not for
\* ever: every request is answered or lost with its process.
RequestsEnd == \A r \in Requests : place[r] # "new" ~> place[r] = "over"

\* Each way out of a request, a refusal, a timeout, a failed flush or commit and
\* the stop of the process, gives back the connection it has taken, and so does each
\* audit event: a pool that has been full does not stay so.
ConnectionsComeBack == \A p \in Processes : used[p] = Cardinality(Connections(p))
=============================================================================
