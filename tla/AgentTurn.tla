----------------------------- MODULE AgentTurn -----------------------------
(***************************************************************************)
(* One chat session as agent-runtime serves it: several turns, each a      *)
(* request to /run or /run/stream, run the ReAct loop against the tool     *)
(* registry, write the session's message rows and its short-term buffer.   *)
(* Turns of one session overlap: the WebSocket layer starts a new turn as  *)
(* soon as it has cancelled the previous one, and nothing in the runtime   *)
(* serialises them.  Administrators edit the registry meanwhile.           *)
(*                                                                         *)
(* One action is the code between two awaits whose order matters.  Text,   *)
(* tokens, citations and delta/thought/step events are abstracted away: an *)
(* event is kept only if a route persists it.                              *)
(***************************************************************************)
EXTENDS Naturals, Sequences

CONSTANTS
  Turns,          \* requests of the session
  Streaming,      \* those served by /run/stream, the others by /run
  Tools,          \* ids a tool row may have
  Names,          \* names a model may put in a tool call
  NameOf,         \* the name of each tool row (no route renames one)
  Global,         \* rows with workspace_id NULL
  Bound,          \* agent.tool_ids
  Editable,       \* rows that administrators create, toggle and delete
  MaxIterations,  \* AGENT_MAX_ITERATIONS
  MaxCalls,       \* bound: tool calls in one assistant message
  StmCap,         \* max_messages of the short-term buffer
  FailOpen,       \* AGENTICOS_ENV is test or development, or no OPA is set
  MemoryLossy     \* memory-svc or Redis may fail, the buffer may expire

ASSUME ConstantsAssumption ==
  /\ Streaming \subseteq Turns
  /\ NameOf \in [Tools -> Names]
  /\ Global \subseteq Tools
  /\ Bound \subseteq Tools
  /\ Editable \subseteq Tools
  /\ MaxIterations \in Nat \ {0}
  /\ MaxCalls \in Nat \ {0}
  /\ StmCap \in Nat \ {0}
  /\ FailOpen \in BOOLEAN
  /\ MemoryLossy \in BOOLEAN

VARIABLES
  pc,        \* where each turn is
  iter,      \* iterations of its loop begun
  calls,     \* tool calls of the current assistant message still to handle
  events,    \* persistable events yielded so far
  snapshot,  \* ids of the tool descriptors listed when the turn was prepared
  seen,      \* history handed to the model: pairs <<turn, role>>
  wire,      \* the turn's request to the tool registry
  ran,       \* tool executions: what the outside world has seen
  rows,      \* message rows of each turn, by created_at
  stm,       \* the session's short-term buffer
  registry   \* state of each tool row

turnVars == <<pc, iter, calls, events, snapshot, seen, wire>>
vars == <<turnVars, ran, rows, stm, registry>>

-----------------------------------------------------------------------------
Live == {"loaded", "saved", "preparing", "thinking", "invoking",
         "remembering", "committing"}
Ended == {"rejected", "done", "failed", "stopped"}

Terminal == {"final", "empty", "error"}

\* A tool_result names its call by the call's position among the events.
Event == [kind : {"tool_call", "tool_result"} \cup Terminal, n : Nat, ok : BOOLEAN]
Row == Event \cup {[kind |-> "user"]}
Run == [turn : Turns, call : Nat, tool : Tools]
Message == Turns \X {"user", "assistant"}

Ev(kind, n, ok) == [kind |-> kind, n |-> n, ok |-> ok]
UserRow == [kind |-> "user"]
IsTerminal(e) == e.kind \in Terminal

TypeOK ==
  /\ pc \in [Turns -> {"new"} \cup Live \cup Ended]
  /\ iter \in [Turns -> 0..MaxIterations]
  /\ calls \in [Turns -> Seq(Names)]
  /\ events \in [Turns -> Seq(Event)]
  /\ snapshot \in [Turns -> SUBSET Tools]
  /\ seen \in [Turns -> SUBSET Message]
  /\ wire \in [Turns -> {"idle", "sent", "ok", "bad"}]
  /\ ran \subseteq Run
  /\ rows \in [Turns -> Seq(Row)]
  /\ stm \in Seq(Message)
  /\ registry \in [Tools -> {"absent", "enabled", "disabled"}]

Init ==
  /\ pc = [t \in Turns |-> "new"]
  /\ iter = [t \in Turns |-> 0]
  /\ calls = [t \in Turns |-> <<>>]
  /\ events = [t \in Turns |-> <<>>]
  /\ snapshot = [t \in Turns |-> {}]
  /\ seen = [t \in Turns |-> {}]
  /\ wire = [t \in Turns |-> "idle"]
  /\ ran = {}
  /\ rows = [t \in Turns |-> <<>>]
  /\ stm = <<>>
  /\ registry \in [Tools -> {"absent", "enabled"}]
  /\ \A d, e \in Tools \ Global :
        NameOf[d] = NameOf[e] /\ d # e => "absent" \in {registry[d], registry[e]}

-----------------------------------------------------------------------------
(* The two stores of the conversation.                                     *)

Goto(t, from, to) ==
  /\ pc[t] = from
  /\ pc' = [pc EXCEPT ![t] = to]

\* RPUSH, then LTRIM to the last StmCap entries.
Pushed(m) ==
  LET s == Append(stm, m)
  IN  IF Len(s) > StmCap THEN Tail(s) ELSE s

\* append_short_term swallows every failure.
Remember(m) ==
  \/ stm' = Pushed(m)
  \/ MemoryLossy /\ UNCHANGED stm

\* What _load_history returns, its tool rows and empty texts aside.
DbHistory ==
  {m \in Message :
     \E i \in DOMAIN rows[m[1]] :
        rows[m[1]][i].kind = IF m[2] = "user" THEN "user" ELSE "final"}

\* The rows the persistence loop of the turn's route adds.  /run adds no
\* assistant row for a final answer that is empty, /run/stream does.
Saved(t) ==
  LET n == Len(events[t])
  IN  IF t \notin Streaming /\ n > 0 /\ events[t][n].kind = "empty"
      THEN SubSeq(events[t], 1, n - 1)
      ELSE events[t]

-----------------------------------------------------------------------------
(* Accepting a turn.                                                       *)

\* The agent or the session does not exist: 404.
Reject(t) ==
  /\ Goto(t, "new", "rejected")
  /\ UNCHANGED <<iter, calls, events, snapshot, seen, wire, ran, rows, stm, registry>>

\* get_short_term answers the buffer, or nothing when memory-svc fails.
ReadShortTerm(t) ==
  /\ Goto(t, "new", "loaded")
  /\ \/ seen' = [seen EXCEPT ![t] = {stm[i] : i \in DOMAIN stm}]
     \/ MemoryLossy /\ UNCHANGED seen
  /\ UNCHANGED <<iter, calls, events, snapshot, wire, ran, rows, stm, registry>>

\* MUTANT of SaveUser: the row is added but not committed.
SaveUserUncommitted(t) ==
  /\ Goto(t, "loaded", "saved")
  /\ seen' = [seen EXCEPT ![t] = IF @ = {} THEN DbHistory ELSE @]
  /\ UNCHANGED <<iter, calls, events, snapshot, wire, ran, rows, stm, registry>>

\* An empty buffer falls back to the rows; the user's row is committed.
SaveUser(t) ==
  /\ Goto(t, "loaded", "saved")
  /\ seen' = [seen EXCEPT ![t] = IF @ = {} THEN DbHistory ELSE @]
  /\ rows' = [rows EXCEPT ![t] = Append(@, UserRow)]
  /\ UNCHANGED <<iter, calls, events, snapshot, wire, ran, stm, registry>>

RememberUser(t) ==
  /\ Goto(t, "saved", "preparing")
  /\ Remember(<<t, "user">>)
  /\ UNCHANGED <<iter, calls, events, snapshot, seen, wire, ran, rows, registry>>

-----------------------------------------------------------------------------
(* run_react.                                                              *)

\* Retrieval, then the registry's list, cut to the agent's enabled tools.
Prepare(t) ==
  /\ Goto(t, "preparing", "thinking")
  /\ snapshot' = [snapshot EXCEPT ![t] = {d \in Bound : registry[d] = "enabled"}]
  /\ UNCHANGED <<iter, calls, events, seen, wire, ran, rows, stm, registry>>

\* knowledge.search or tools.list_for raises: the generator dies.
PrepareFails(t) ==
  /\ Goto(t, "preparing", "failed")
  /\ UNCHANGED <<iter, calls, events, snapshot, seen, wire, ran, rows, stm, registry>>

Yield(t, e) == events' = [events EXCEPT ![t] = Append(@, e)]

\* MUTANT of ModelEnds: an error event is not followed by a return.
ModelEndsGoesOn(t) ==
  /\ pc[t] = "thinking"
  /\ calls[t] = <<>>
  /\ iter[t] < MaxIterations
  /\ iter' = [iter EXCEPT ![t] = @ + 1]
  /\ \E k \in Terminal :
        /\ Yield(t, Ev(k, 0, k # "error"))
        /\ pc' = IF k = "error" THEN pc ELSE [pc EXCEPT ![t] = "remembering"]
  /\ UNCHANGED <<calls, snapshot, seen, wire, ran, rows, stm, registry>>

\* A model round that ends the turn: a final answer, with text or empty,
\* or an error (exception, no choices).
ModelEnds(t) ==
  /\ Goto(t, "thinking", "remembering")
  /\ calls[t] = <<>>
  /\ iter[t] < MaxIterations
  /\ iter' = [iter EXCEPT ![t] = @ + 1]
  /\ \E k \in Terminal : Yield(t, Ev(k, 0, k # "error"))
  /\ UNCHANGED <<calls, snapshot, seen, wire, ran, rows, stm, registry>>

AskedCalls == UNION {[1..k -> Names] : k \in 1..MaxCalls}

\* A model round that asks for tools, by any name.
ModelCalls(t) ==
  /\ pc[t] = "thinking"
  /\ calls[t] = <<>>
  /\ iter[t] < MaxIterations
  /\ iter' = [iter EXCEPT ![t] = @ + 1]
  /\ calls' \in {[calls EXCEPT ![t] = s] : s \in AskedCalls}
  /\ UNCHANGED <<pc, events, snapshot, seen, wire, ran, rows, stm, registry>>

OutOfIterations(t) ==
  /\ Goto(t, "thinking", "remembering")
  /\ calls[t] = <<>>
  /\ iter[t] = MaxIterations
  /\ Yield(t, Ev("error", 0, FALSE))
  /\ UNCHANGED <<iter, calls, snapshot, seen, wire, ran, rows, stm, registry>>

\* td_by_name, built from the descriptors listed by Prepare.
Descriptors(t, name) == {d \in snapshot[t] : NameOf[d] = name}

\* MUTANT of PolicyMayAllow: a name without a descriptor passes the gate.
PolicyIgnoresUnknown(t, name) ==
  \/ \A d \in Descriptors(t, name) : d \in Bound
  \/ FailOpen

\* The default policy bundle allows what the agent is bound to; an
\* unreachable OPA allows everything when FailOpen.
PolicyMayAllow(t, name) ==
  \/ \E d \in Descriptors(t, name) : d \in Bound
  \/ FailOpen

AllowCall(t) ==
  /\ Goto(t, "thinking", "invoking")
  /\ calls[t] # <<>>
  /\ PolicyMayAllow(t, Head(calls[t]))
  /\ Yield(t, Ev("tool_call", Len(events[t]) + 1, TRUE))
  /\ wire' = [wire EXCEPT ![t] = "sent"]
  /\ UNCHANGED <<iter, calls, snapshot, seen, ran, rows, stm, registry>>

\* MUTANT of DenyCall: the loop continues before the tool_result is yielded.
DenyCallSilently(t) ==
  /\ pc[t] = "thinking"
  /\ calls[t] # <<>>
  /\ Yield(t, Ev("tool_call", Len(events[t]) + 1, TRUE))
  /\ calls' = [calls EXCEPT ![t] = Tail(@)]
  /\ UNCHANGED <<pc, iter, snapshot, seen, wire, ran, rows, stm, registry>>

\* No rule allows the call, or OPA answers an error: the denial is the result.
DenyCall(t) ==
  LET n == Len(events[t]) + 1
  IN  /\ pc[t] = "thinking"
      /\ calls[t] # <<>>
      /\ events' = [events EXCEPT ![t] = @ \o <<Ev("tool_call", n, TRUE),
                                                Ev("tool_result", n, FALSE)>>]
      /\ calls' = [calls EXCEPT ![t] = Tail(@)]
      /\ UNCHANGED <<pc, iter, snapshot, seen, wire, ran, rows, stm, registry>>

\* MUTANT of ToolAnswer: a refusal counts as success.
ToolAnswerOptimistic(t) ==
  /\ Goto(t, "invoking", "thinking")
  /\ wire[t] \in {"ok", "bad"}
  /\ Yield(t, Ev("tool_result", Len(events[t]), TRUE))
  /\ calls' = [calls EXCEPT ![t] = Tail(@)]
  /\ wire' = [wire EXCEPT ![t] = "idle"]
  /\ UNCHANGED <<iter, snapshot, seen, ran, rows, stm, registry>>

ToolAnswer(t) ==
  /\ Goto(t, "invoking", "thinking")
  /\ wire[t] \in {"ok", "bad"}
  /\ Yield(t, Ev("tool_result", Len(events[t]), wire[t] = "ok"))
  /\ calls' = [calls EXCEPT ![t] = Tail(@)]
  /\ wire' = [wire EXCEPT ![t] = "idle"]
  /\ UNCHANGED <<iter, snapshot, seen, ran, rows, stm, registry>>

\* MUTANT of LoseAnswer: the call is sent again.
LoseAnswerRetries(t) ==
  /\ pc[t] = "invoking"
  /\ wire' = [wire EXCEPT ![t] = "sent"]
  /\ UNCHANGED <<pc, iter, calls, events, snapshot, seen, ran, rows, stm, registry>>

\* MUTANT of LoseAnswer: the client has no timeout.
LoseAnswerLate(t) ==
  /\ Goto(t, "invoking", "failed")
  /\ wire[t] \in {"ok", "bad"}
  /\ UNCHANGED <<iter, calls, events, snapshot, seen, wire, ran, rows, stm, registry>>

\* Timeout or transport error: ProxyError leaves run_react uncaught, whatever
\* the registry does with the request.
LoseAnswer(t) ==
  /\ Goto(t, "invoking", "failed")
  /\ UNCHANGED <<iter, calls, events, snapshot, seen, wire, ran, rows, stm, registry>>

-----------------------------------------------------------------------------
(* The tool registry.                                                      *)

\* invoke_tool looks the name up again; NULL workspaces sort first.
Resolve(name) ==
  LET named == {d \in Tools : NameOf[d] = name /\ registry[d] # "absent"}
  IN  IF named \cap Global # {} THEN named \cap Global ELSE named

\* The tool runs, whether or not the runtime still waits, and succeeds or not.
RunTool(t) ==
  /\ wire[t] = "sent"
  /\ \E d \in Resolve(Head(calls[t])) :
        /\ registry[d] = "enabled"
        /\ ran' = ran \cup {[turn |-> t, call |-> Len(events[t]), tool |-> d]}
  /\ wire' \in {[wire EXCEPT ![t] = "ok"], [wire EXCEPT ![t] = "bad"]}
  /\ UNCHANGED <<pc, iter, calls, events, snapshot, seen, rows, stm, registry>>

\* Not found, disabled, or arguments that do not match the schema.
RefuseTool(t) ==
  /\ wire[t] = "sent"
  /\ wire' = [wire EXCEPT ![t] = "bad"]
  /\ UNCHANGED <<pc, iter, calls, events, snapshot, seen, ran, rows, stm, registry>>

\* create_tool: unique (workspace, name), which NULL workspaces escape.
CreateTool(d) ==
  /\ d \in Editable
  /\ registry[d] = "absent"
  /\ d \in Global \/ \A e \in Tools \ Global :
                        NameOf[e] = NameOf[d] => registry[e] = "absent"
  /\ registry' = [registry EXCEPT ![d] = "enabled"]
  /\ UNCHANGED <<turnVars, ran, rows, stm>>

UpdateTool(d) ==
  /\ d \in Editable
  /\ registry[d] # "absent"
  /\ registry' \in {[registry EXCEPT ![d] = s] : s \in {"enabled", "disabled"}}
  /\ UNCHANGED <<turnVars, ran, rows, stm>>

DeleteTool(d) ==
  /\ d \in Editable
  /\ registry[d] # "absent"
  /\ registry' = [registry EXCEPT ![d] = "absent"]
  /\ UNCHANGED <<turnVars, ran, rows, stm>>

-----------------------------------------------------------------------------
(* Persisting a turn.                                                      *)

\* MUTANT of RememberAnswer: the streaming route forgets the buffer.
RememberAnswerUnlessStreaming(t) ==
  /\ Goto(t, "remembering", "committing")
  /\ IF events[t][Len(events[t])].kind = "final" /\ t \notin Streaming
     THEN Remember(<<t, "assistant">>)
     ELSE UNCHANGED stm
  /\ UNCHANGED <<iter, calls, events, snapshot, seen, wire, ran, rows, registry>>

\* A final answer with text goes to the buffer before the rows are committed.
RememberAnswer(t) ==
  /\ Goto(t, "remembering", "committing")
  /\ IF events[t][Len(events[t])].kind = "final"
     THEN Remember(<<t, "assistant">>)
     ELSE UNCHANGED stm
  /\ UNCHANGED <<iter, calls, events, snapshot, seen, wire, ran, rows, registry>>

CommitTurn(t) ==
  /\ Goto(t, "committing", "done")
  /\ rows' = [rows EXCEPT ![t] = @ \o Saved(t)]
  /\ UNCHANGED <<iter, calls, events, snapshot, seen, wire, ran, stm, registry>>

\* The client of a stream goes away, or the process does.
Interrupt(t) ==
  /\ pc[t] \in Live
  /\ pc' = [pc EXCEPT ![t] = "stopped"]
  /\ UNCHANGED <<iter, calls, events, snapshot, seen, wire, ran, rows, stm, registry>>

\* The Redis key reaches its TTL.
Expire ==
  /\ MemoryLossy
  /\ stm # <<>>
  /\ stm' = <<>>
  /\ UNCHANGED <<turnVars, ran, rows, registry>>

-----------------------------------------------------------------------------
\* What the runtime does for a turn it has accepted.
Serve(t) ==
  \/ SaveUser(t) \/ RememberUser(t)
  \/ Prepare(t) \/ PrepareFails(t)
  \/ ModelEnds(t) \/ ModelCalls(t) \/ OutOfIterations(t)
  \/ AllowCall(t) \/ DenyCall(t) \/ ToolAnswer(t) \/ LoseAnswer(t)
  \/ RememberAnswer(t) \/ CommitTurn(t)

Next ==
  \/ \E t \in Turns :
        Reject(t) \/ ReadShortTerm(t) \/ Serve(t) \/ Interrupt(t)
        \/ RunTool(t) \/ RefuseTool(t)
  \/ \E d \in Tools : CreateTool(d) \/ UpdateTool(d) \/ DeleteTool(d)
  \/ Expire

Spec == Init /\ [][Next]_vars

\* Every await of the runtime has a client timeout, so a turn moves on.
FairSpec == Spec /\ \A t \in Turns : WF_vars(Serve(t))

-----------------------------------------------------------------------------
(* Properties.                                                             *)

\* The rows of a turn are all or nothing: none before the user's message is
\* committed, then that message alone, then, once the turn is done, the whole
\* of what it yielded.  A turn cut short anywhere leaves no partial trace.
TurnRowsAllOrNothing ==
  \A t \in Turns :
     rows[t] = CASE pc[t] \in {"new", "rejected", "loaded"} -> <<>>
                 [] pc[t] = "done" -> <<UserRow>> \o Saved(t)
                 [] pc[t] = "stopped" /\ rows[t] = <<>> -> <<>>
                 [] OTHER -> <<UserRow>>

\* In the persisted conversation every tool call is directly followed by its
\* own result, denied calls included, and no result stands without its call:
\* the model providers reject a history where one is missing.
CallsAnswered ==
  \A t \in Turns : \A i \in DOMAIN rows[t] :
     /\ rows[t][i].kind = "tool_call" =>
           /\ i < Len(rows[t])
           /\ rows[t][i + 1].kind = "tool_result"
           /\ rows[t][i + 1].n = rows[t][i].n
     /\ rows[t][i].kind = "tool_result" =>
           i > 1 /\ rows[t][i - 1].kind = "tool_call"

\* A turn that is about to be persisted, or was, yielded exactly one
\* terminal event, its last one: /run and /run/stream both rely on it to
\* write one assistant answer per turn.
OneTerminalEvent ==
  \A t \in Turns :
     LET n == Len(events[t])
     IN  /\ \A i \in 1..n : IsTerminal(events[t][i]) =>
               i = n /\ pc[t] \in {"remembering", "committing", "done", "stopped"}
         /\ pc[t] \in {"remembering", "committing", "done"} =>
               n > 0 /\ IsTerminal(events[t][n])

\* Every execution of a tool was announced by a tool_call of that turn, for a
\* name the policy allowed on the strength of a bound descriptor the turn had
\* listed, whatever the registry has become since.
RunsAreGated ==
  ~FailOpen =>
     \A r \in ran :
        /\ r.call \in DOMAIN events[r.turn]
        /\ events[r.turn][r.call].kind = "tool_call"
        /\ \E d \in snapshot[r.turn] \cap Bound : NameOf[d] = NameOf[r.tool]

\* A call runs at most one tool, although its name is resolved again by the
\* registry: the runtime never sends a call twice, even after a timeout.
RunsAtMostOnce ==
  \A r, q \in ran : r.turn = q.turn /\ r.call = q.call => r = q

\* What a finished turn tells about its tools is the truth: each result that
\* says ok stands for an execution, and each execution has its result.
DoneTurnReportsItsRuns ==
  \A t \in Turns : pc[t] = "done" =>
     /\ \A i \in DOMAIN events[t] :
           events[t][i].kind = "tool_result" /\ events[t][i].ok =>
              \E r \in ran : r.turn = t /\ r.call = events[t][i].n
     /\ \A r \in ran : r.turn = t =>
           \E i \in DOMAIN events[t] :
              events[t][i].kind = "tool_result" /\ events[t][i].n = r.call

\* The buffer never runs ahead of the database for the user's side of the
\* conversation, and what it says a finished turn answered is what the
\* database says too.
BufferBackedByRows ==
  \A i \in DOMAIN stm :
     LET t == stm[i][1]
     IN  /\ rows[t] # <<>>
         /\ stm[i][2] = "assistant" /\ pc[t] = "done" =>
               \E j \in DOMAIN rows[t] : rows[t][j].kind = "final"

\* While the buffer works, a turn that reads a non-empty one is given every
\* message and every answer of the turns that were done by then.
HistoryKeepsDoneTurns ==
  [][\A t \in Turns :
       pc[t] = "new" /\ pc'[t] = "loaded" /\ seen'[t] # {} =>
          \A m \in DbHistory : pc[m[1]] = "done" => m \in seen'[t]]_vars

\* A turn that was accepted ends: the loop is bounded and every await of it
\* is answered, fails or times out.
TurnsEnd == \A t \in Turns : pc[t] = "loaded" ~> pc[t] \in Ended

-----------------------------------------------------------------------------
(* The rows of the session, seen as the conversation they record.          *)

Phase(t) ==
  CASE pc[t] \in {"new", "loaded"} -> "new"
    [] pc[t] = "done" -> "settled"
    [] pc[t] \in {"rejected", "failed", "stopped"} -> "dropped"
    [] OTHER -> "asked"

phaseBar == [t \in Turns |-> Phase(t)]

C == INSTANCE Conversation WITH phase <- phaseBar, log <- rows

\* The runtime implements the two-write conversation: whatever the overlap of
\* turns, lost answers and interruptions, each turn's rows follow it.
ImplementsConversation == C!Spec

=============================================================================
