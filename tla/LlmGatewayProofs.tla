-------------------------- MODULE LlmGatewayProofs --------------------------
(***************************************************************************)
(* Theorems about llm-gateway: about ModelRegistry for any number of       *)
(* processes, aliases and administrators, and about Inference for any      *)
(* calls, processes, limits and clock.                                     *)
(***************************************************************************)
EXTENDS ModelRegistry, Inference, SumTheorems

(* The model registry.                                                     *)

\* ServesCommittedOnly, strengthened: what a row is now, it has been.
CommittedInv ==
  /\ ServesCommittedOnly
  /\ \A a \in Aliases : row[a] \in ever[a] /\ Absent \in ever[a]

IInv == TypeOK /\ CommittedInv

LEMMA RequestType ==
  ASSUME TypeOK, NEW w \in Busy
  PROVE  /\ req[w] \in Request
         /\ \A s \in {"flushed", "reloaded"} : [req[w] EXCEPT !.stage = s] \in Request
BY DEF TypeOK, Busy, Request

LEMMA OutcomeType ==
  ASSUME NEW p \in Processes, NEW a \in Aliases, NEW v \in Values \cup {Absent}
  PROVE  [process |-> p, alias |-> a, value |-> v,
          outcome |-> CASE v = Absent -> "missing"
                        [] v \in EnabledIn -> "served"
                        [] OTHER -> "disabled"] \in Resolved
BY DEF Resolved

LEMMA RegistryInit == Init => IInv
BY DEF Init, IInv, TypeOK, CommittedInv, ServesCommittedOnly, Table

LEMMA RegistryStep ==
  ASSUME IInv, [Next]_vars
  PROVE  IInv'
<1> USE DEF IInv, CommittedInv, ServesCommittedOnly
<1>1. ASSUME NEW w \in Admins, Flush(w) PROVE IInv'
  BY <1>1 DEF Flush, TypeOK, Request
<1>2. ASSUME NEW w \in Admins, ReloadCache(w) PROVE IInv'
  <2>1. w \in Busy /\ req[w].process \in Processes /\ [req[w] EXCEPT !.stage = "reloaded"] \in Request
    BY <1>2, RequestType DEF ReloadCache, Request
  <2>2. /\ cache' = [cache EXCEPT ![req[w].process] = row]
        /\ req' = [req EXCEPT ![w] = [req[w] EXCEPT !.stage = "reloaded"]]
        /\ row' = row /\ last' = last /\ ever' = ever
    BY <1>2 DEF ReloadCache, Reloaded
  <2>3. TypeOK'
    BY <2>1, <2>2 DEF TypeOK
  <2>4. \A p \in Processes, a \in Aliases : cache'[p][a] \in ever'[a]
    BY <2>2 DEF TypeOK
  <2> QED
    BY <2>2, <2>3, <2>4
<1>3. ASSUME NEW w \in Admins, Commit(w) PROVE IInv'
  <2>1. w \in Busy /\ req[w].alias \in Aliases /\ req[w].value \in Values \cup {Absent}
    BY <1>3, RequestType DEF Commit, Request
  <2> DEFINE a == req[w].alias
             v == req[w].value
  <2>2. /\ row' = [row EXCEPT ![a] = v]
        /\ ever' = [ever EXCEPT ![a] = @ \cup {v}]
        /\ req' = [req EXCEPT ![w] = Idle]
        /\ cache' = cache /\ last' = last
    BY <1>3 DEF Commit
  <2> HIDE DEF a, v
  <2>3. a \in Aliases /\ v \in Values \cup {Absent}
    BY <2>1 DEF a, v
  <2>4. TypeOK'
    BY <2>2, <2>3 DEF TypeOK, Table
  <2>5. \A b \in Aliases : ever[b] \subseteq ever'[b] /\ row'[b] \in ever'[b]
    BY <2>2, <2>3 DEF TypeOK, Table
  <2>6. last' # Idle => last'.value \in ever'[last'.alias]
    <3>1. last # Idle => last.alias \in Aliases
      BY DEF TypeOK, Resolved
    <3> QED
      BY <2>2, <2>5, <3>1
  <2> QED
    BY <2>2, <2>4, <2>5, <2>6
<1>4. ASSUME NEW w \in Admins, Rollback(w) PROVE IInv'
  BY <1>4 DEF Rollback, TypeOK
<1>5. ASSUME NEW p \in Processes, Restart(p) PROVE IInv'
  <2>1. PICK t \in Table : cache' = [cache EXCEPT ![p] = t] /\ \A a \in Aliases : t[a] \in ever[a]
    <3>1. row \in Table /\ [a \in Aliases |-> Absent] \in Table
      BY DEF TypeOK, Table
    <3> QED
      BY <1>5, <3>1 DEF Restart
  <2>2. TypeOK'
    BY <1>5, <2>1 DEF Restart, TypeOK
  <2>3. \A q \in Processes, a \in Aliases : cache'[q][a] \in ever'[a]
    BY <1>5, <2>1 DEF Restart, TypeOK
  <2> QED
    BY <1>5, <2>2, <2>3 DEF Restart
<1>6. ASSUME NEW p \in Processes, NEW a \in Aliases, Resolve(p, a) PROVE IInv'
  <2>1. /\ cache' \in [Processes -> Table]
        /\ \A q \in Processes, b \in Aliases : cache'[q][b] \in ever[b]
    BY <1>6 DEF Resolve, Reloaded, TypeOK
  <2>2. cache'[p][a] \in Values \cup {Absent}
    BY <2>1 DEF Table
  <2>3. /\ last' \in Resolved
        /\ last'.alias = a /\ last'.value = cache'[p][a]
    BY <1>6, <2>2, OutcomeType DEF Resolve
  <2>4. TypeOK'
    BY <1>6, <2>1, <2>3 DEF Resolve, TypeOK
  <2> QED
    BY <1>6, <2>1, <2>3, <2>4 DEF Resolve
<1>7. CASE UNCHANGED vars
  BY <1>7 DEF vars, TypeOK
<1> QED
  BY <1>1, <1>2, <1>3, <1>4, <1>5, <1>6, <1>7 DEF Next

\* Every state of the table, the copies and the transactions has its type.
THEOREM RegistryTypes == Spec => []TypeOK
BY RegistryInit, RegistryStep, PTL DEF Spec, IInv

\* No process ever routes a call by a change that was not committed.
THEOREM NoDirtyRoute == Spec => []ServesCommittedOnly
BY RegistryInit, RegistryStep, PTL DEF Spec, IInv, CommittedInv

\* A call is reported missing only for an alias that the table does not have by
\* then; a stale copy may still refuse an enabled model as disabled
\* (MissingIsAbsent).
THEOREM NoFalseMissing == Spec => MissingIsAbsent
<1>1. ASSUME IInv, [Next]_vars
      PROVE  last' # last /\ last'.outcome = "missing" => row[last'.alias] = Absent
  <2>1. SUFFICES ASSUME NEW p \in Processes, NEW a \in Aliases, Resolve(p, a),
                        last'.outcome = "missing"
                 PROVE  row[last'.alias] = Absent
    BY <1>1 DEF Next, Flush, ReloadCache, Commit, Rollback, Restart, vars
  <2>2. last'.alias = a /\ last'.value = cache'[p][a]
    BY <2>1 DEF Resolve
  <2>3. cache'[p][a] = Absent
    BY <2>1 DEF Resolve
  <2>4. cache'[p] = row
    BY <1>1, <2>1, <2>3 DEF Resolve, Reloaded, IInv, TypeOK
  <2> QED
    BY <2>2, <2>3, <2>4
<1>2. IInv /\ [Next]_vars =>
        [last' # last /\ last'.outcome = "missing" => row[last'.alias] = Absent]_vars
  BY <1>1
<1> QED
  BY <1>2, RegistryInit, RegistryStep, PTL DEF Spec, MissingIsAbsent
-----------------------------------------------------------------------------
(* The calls and their quota.                                              *)

\* What a call is, as far as it has come.
CallState == [at : Steps, counted : Minutes \cup {-1}, used : 0..MaxTokens]

LEMMA Bounds ==
  /\ RatePerMinute \in Int /\ RpmLimit \in Int /\ TokenLimit \in Int
  /\ MaxTokens \in Nat \ {0} /\ MinutesPerDay \in Nat \ {0}
  /\ LastMinute \in Nat /\ MaxFaults \in Nat
BY InferenceAssumption

LEMMA DayMonotonic ==
  ASSUME NEW m \in Nat, NEW n \in Nat, m <= n
  PROVE  Day(m) \in Nat /\ Day(m) <= Day(n)
BY Bounds DEF Day


\* The steps that a call has behind it when it is counted or does not have to be.
Underway == {"reserving", "asking", "sent", "answered", "charged"}

\* One call moves, and the others stay where they are.
Moves(c) ==
  /\ call' \in [Calls -> CallState]
  /\ \A d \in Calls \ {c} : call'[d] = call[d]

LEMMA CallType ==
  ASSUME InferenceTypeOK
  PROVE  /\ call \in [Calls -> CallState]
         /\ \A c \in Calls : /\ call[c] \in CallState /\ call[c].at \in Steps
                             /\ call[c].counted \in Minutes \cup {-1}
                             /\ call[c].used \in 0..MaxTokens
BY DEF InferenceTypeOK, CallState

Served == {"asking", "sent", "answered", "charged"}

\* Where a call that is let through goes, until its usage is recorded.
LEMMA ServedMoves ==
  ASSUME InferenceTypeOK, NEW c \in Calls,
         \/ Chunk(c) \/ EmbedInput(c) \/ AnswerChat(c) \/ AnswerEmbeddings(c)
         \/ ProviderFails(c) \/ SendDone(c) \/ Consume(c) \/ Leave(c) \/ Charge(c) \/ Record(c)
  PROVE  /\ call[c].at \in Served
         /\ Moves(c)
         /\ call'[c].counted = call[c].counted
         /\ call'[c].at \in Served \cup {"raised", "left", "ok"}
         /\ call'[c].at \in Served \ {"charged"} => call[c].at \in Served \ {"charged"}
<1>1. call[c] \in CallState /\ call \in [Calls -> CallState]
  BY CallType
<1>2. ASSUME NEW place \in Steps, call' = [call EXCEPT ![c].at = place]
      PROVE  Moves(c) /\ call'[c].counted = call[c].counted /\ call'[c].at = place
  BY <1>1, <1>2 DEF CallState, Moves
<1>3. ASSUME NEW n \in 0..MaxTokens, call' = [call EXCEPT ![c].used = n]
      PROVE  Moves(c) /\ call'[c].counted = call[c].counted /\ call'[c].at = call[c].at
  BY <1>1, <1>3 DEF CallState, Moves
<1>4. ASSUME NEW place \in Steps, NEW n \in 0..MaxTokens,
             call' = [call EXCEPT ![c].at = place, ![c].used = n]
      PROVE  Moves(c) /\ call'[c].counted = call[c].counted /\ call'[c].at = place
  BY <1>1, <1>4 DEF CallState, Moves
<1>5. call[c].at \in Steps /\ call[c].used \in 0..MaxTokens
  BY CallType
<1> USE DEF Served, Steps, Over
<1>6. CASE Chunk(c)
  <2>1. call[c].used + 1 \in 0..MaxTokens
    BY <1>5, <1>6, Bounds DEF Chunk
  <2> QED
    BY <1>3, <1>6, <2>1 DEF Chunk
<1>7. CASE EmbedInput(c)
  <2>1. call[c].used + 1 \in 0..MaxTokens
    BY <1>5, <1>7, Bounds DEF EmbedInput
  <2> QED
    BY <1>3, <1>7, <2>1 DEF EmbedInput
<1>8. CASE AnswerChat(c)
  <2>1. PICK n \in 0..MaxTokens : call' = [call EXCEPT ![c].at = "answered", ![c].used = n]
    BY <1>8 DEF AnswerChat, Reported
  <2>2. Moves(c) /\ call'[c].counted = call[c].counted /\ call'[c].at = "answered"
    BY <1>4, <2>1
  <2> QED
    BY <1>8, <2>2 DEF AnswerChat
<1>9. CASE AnswerEmbeddings(c) \/ ProviderFails(c) \/ SendDone(c) \/ Consume(c) \/ Leave(c)
  BY <1>2, <1>5, <1>9 DEF AnswerEmbeddings, ProviderFails, SendDone, Consume, Leave
<1>10. CASE Charge(c)
  BY <1>2, <1>5, <1>10 DEF Charge
<1>11. CASE Record(c)
  <2>1. PICK place \in {"ok", "raised"} : call' = [call EXCEPT ![c].at = place]
    BY <1>11 DEF Record
  <2> QED
    BY <1>2, <1>11, <2>1 DEF Record
<1> QED
  BY <1>6, <1>7, <1>8, <1>9, <1>10, <1>11

LEMMA PeekMoves ==
  ASSUME InferenceTypeOK, NEW c \in Calls, Peek(c)
  PROVE  /\ call[c].at = "reserving" /\ Moves(c) /\ call'[c].counted = call[c].counted
         /\ \/ call'[c].at = "exhausted" /\ redis /\ tokens[Day(now)] >= TokenLimit
            \/ call'[c].at = "asking" /\ ~(redis /\ TokenLimit > 0 /\ tokens[Day(now)] >= TokenLimit)
<1>1. call[c] \in CallState /\ call \in [Calls -> CallState]
  BY CallType
<1>2. ASSUME NEW place \in Steps, call' = [call EXCEPT ![c].at = place]
      PROVE  Moves(c) /\ call'[c].counted = call[c].counted /\ call'[c].at = place
  BY <1>1, <1>2 DEF CallState, Moves
<1> QED
  BY <1>2 DEF Peek, Steps, Over

\* Where a call goes that has been counted, or does not have to be.
LEMMA LaterMoves ==
  ASSUME InferenceTypeOK, NEW c \in Calls,
         \/ Peek(c) \/ Chunk(c) \/ EmbedInput(c) \/ AnswerChat(c) \/ AnswerEmbeddings(c)
         \/ ProviderFails(c) \/ SendDone(c) \/ Consume(c) \/ Leave(c) \/ Charge(c) \/ Record(c)
  PROVE  /\ call[c].at \in Underway
         /\ Moves(c)
         /\ call'[c].counted = call[c].counted
         /\ call'[c].at \in Served \cup {"exhausted", "raised", "left", "ok"}
BY ServedMoves, PeekMoves DEF Served, Underway

LEMMA DispatchMoves ==
  ASSUME InferenceTypeOK, NEW c \in Calls, Dispatch(c)
  PROVE  /\ call[c].at = "new" /\ call'[c].at \in {"limited", "passed"}
         /\ Moves(c) /\ call'[c].counted = call[c].counted
<1>1. call \in [Calls -> CallState] /\ call[c] \in CallState
  BY CallType
<1>2. ASSUME NEW place \in {"limited", "passed"}, call' = [call EXCEPT ![c].at = place]
      PROVE  Moves(c) /\ call'[c].counted = call[c].counted /\ call'[c].at = place
  BY <1>1, <1>2 DEF CallState, Moves, Steps, Over
<1> QED
  BY <1>2 DEF Dispatch

LEMMA CountMoves ==
  ASSUME InferenceTypeOK, NEW c \in Calls, Count(c)
  PROVE  /\ call[c].at = "passed" /\ Moves(c)
         /\ UNCHANGED <<now, servers, rl, tokens, usage, plan, paid>>
         /\ \/ /\ call'[c].counted = call[c].counted /\ UNCHANGED <<rpm, history>>
               /\ (call'[c].at = "asking" /\ ~Limited(c)) \/ call'[c].at = "raised"
            \/ /\ call'[c].counted = call[c].counted /\ UNCHANGED rpm /\ call'[c].at = "asking"
               /\ unread' = unread \cup {c} /\ peak' = Watermark(Open')
               /\ Limited(c) /\ RpmLimit <= 0
            \/ /\ call'[c].counted = now /\ rpm' = [rpm EXCEPT ![now] = @ + 1] /\ UNCHANGED history
               /\ Limited(c) /\ RpmLimit > 0
               /\ \/ call'[c].at = "exceeded" /\ rpm'[now] > RpmLimit
                  \/ call'[c].at = "reserving" /\ rpm'[now] <= RpmLimit
<1>1. call \in [Calls -> CallState] /\ call[c] \in CallState /\ now \in Minutes /\ rpm'[now] \in Int
  <2>1. rpm \in [Minutes -> Nat] /\ now \in Minutes
    BY DEF InferenceTypeOK
  <2> QED
    BY <2>1, CallType DEF Count
<1>2. ASSUME NEW place \in {"asking", "raised"}, call' = [call EXCEPT ![c].at = place]
      PROVE  Moves(c) /\ call'[c].counted = call[c].counted /\ call'[c].at = place
  BY <1>1, <1>2 DEF CallState, Moves, Steps, Over
<1>3. ASSUME NEW place \in {"exceeded", "reserving"},
             call' = [call EXCEPT ![c].counted = now, ![c].at = place]
      PROVE  Moves(c) /\ call'[c].counted = now /\ call'[c].at = place
  BY <1>1, <1>3 DEF CallState, Moves, Steps, Over
<1>4. CASE ~Limited(c) \/ (Limited(c) /\ RpmLimit > 0 /\ ~redis)
  BY <1>2, <1>4, Bounds DEF Count, history
<1>5. CASE Limited(c) /\ RpmLimit <= 0
  BY <1>2, <1>5, Bounds DEF Count, history
<1>6. CASE Limited(c) /\ RpmLimit > 0 /\ redis
  BY <1>1, <1>3, <1>6, Bounds DEF Count, history
<1> QED
  BY <1>4, <1>5, <1>6, Bounds

LEMMA RestartMoves ==
  ASSUME InferenceTypeOK, NEW p \in Gateways, InitState(p)
  PROVE  /\ call' \in [Calls -> CallState]
         /\ \A c \in Calls :
              /\ call'[c].counted = call[c].counted /\ call'[c].used = call[c].used
              /\ call'[c].at = call[c].at \/ (call'[c].at = "killed" /\ call[c].at \in Underway)
              /\ plan[c].on = p => call'[c].at \notin Underway
<1>1. \A c \in Calls : [call[c] EXCEPT !.at = "killed"] \in CallState
  BY CallType DEF CallState, Steps, Over
<1>2. \A c \in Calls :
        call'[c] = IF plan[c].on = p /\ call[c].at \in Underway
                   THEN [call[c] EXCEPT !.at = "killed"] ELSE call[c]
  BY DEF InitState, Underway
<1>3. call' \in [Calls -> CallState]
  BY <1>1, <1>2, CallType DEF InitState
<1>4. ASSUME NEW c \in Calls
      PROVE  /\ call'[c].counted = call[c].counted /\ call'[c].used = call[c].used
             /\ call'[c].at = call[c].at \/ (call'[c].at = "killed" /\ call[c].at \in Underway)
             /\ plan[c].on = p => call'[c].at \notin Underway
  <2>1. call[c] \in CallState
    BY CallType
  <2>2. CASE plan[c].on = p /\ call[c].at \in Underway
    BY <1>2, <2>1, <2>2 DEF CallState, Underway
  <2>3. CASE ~(plan[c].on = p /\ call[c].at \in Underway)
    <3>1. call'[c] = call[c]
      BY <1>2, <2>3
    <3> QED
      BY <2>3, <3>1
  <2> QED
    BY <2>2, <2>3
<1> QED
  BY <1>3, <1>4

\* Every state of the counters, the processes and the calls has its type.
LEMMA InferenceTypesInit == InferenceInit => InferenceTypeOK
<1> SUFFICES ASSUME InferenceInit PROVE InferenceTypeOK
  OBVIOUS
<1>1. Cardinality(Calls) \in Nat
  BY InferenceAssumption, FS_CardinalityType
<1> QED
  BY <1>1, Bounds DEF InferenceInit, InferenceTypeOK, Minutes, Steps

LEMMA FiniteCalls ==
  ASSUME NEW S \in SUBSET Calls
  PROVE  IsFiniteSet(S) /\ Cardinality(S) \in Nat /\ Cardinality(S) <= Cardinality(Calls)
         /\ Cardinality(Calls) \in Nat
BY InferenceAssumption, FS_Subset, FS_CardinalityType

LEMMA InferenceTypesStep ==
  ASSUME InferenceTypeOK, [InferenceNext]_inferenceVars
  PROVE  InferenceTypeOK'
<1>1. /\ now \in Minutes /\ now \in Nat /\ Minutes \subseteq Nat /\ redis \in BOOLEAN /\ blind \in BOOLEAN
      /\ faults \in 0..MaxFaults /\ quota \in [Gateways -> {"redis", "noop"}]
      /\ rl \in [Minutes -> Nat] /\ rpm \in [Minutes -> Nat] /\ tokens \in [Days -> Nat]
      /\ plan \in Plans /\ paid \in [Calls -> 0..MaxTokens] /\ usage \in [Calls -> 0..1]
      /\ peak \in 0..Cardinality(Calls) /\ unread \subseteq Calls
  BY DEF InferenceTypeOK, Minutes
<1>2. InferenceTypeOK' <=>
        /\ now' \in Minutes /\ redis' \in BOOLEAN /\ blind' \in BOOLEAN
        /\ faults' \in 0..MaxFaults /\ quota' \in [Gateways -> {"redis", "noop"}]
        /\ rl' \in [Minutes -> Nat] /\ rpm' \in [Minutes -> Nat] /\ tokens' \in [Days -> Nat]
        /\ call' \in [Calls -> CallState]
        /\ plan' \in Plans /\ paid' \in [Calls -> 0..MaxTokens] /\ usage' \in [Calls -> 0..1]
        /\ peak' \in 0..Cardinality(Calls) /\ unread' \subseteq Calls
  BY DEF InferenceTypeOK, CallState
<1> USE DEF servers, counters, history
<1>3. ASSUME NEW c \in Calls, Dispatch(c) PROVE InferenceTypeOK'
  BY <1>1, <1>2, <1>3, DispatchMoves DEF Dispatch, Moves
<1>4. ASSUME NEW c \in Calls, Count(c) PROVE InferenceTypeOK'
  <2>1. Open' \in SUBSET Calls
    BY DEF Open, Metered
  <2>2. peak' \in 0..Cardinality(Calls) /\ unread' \subseteq Calls
    BY <1>1, <1>4, <2>1, CountMoves, FiniteCalls DEF Watermark
  <2>3. rpm' \in [Minutes -> Nat] /\ call' \in [Calls -> CallState]
    BY <1>1, <1>4, CountMoves DEF Moves
  <2> QED
    BY <1>1, <1>2, <1>4, <2>2, <2>3, CountMoves
<1>5. ASSUME NEW c \in Calls, Peek(c) PROVE InferenceTypeOK'
  <2>1. Open' \in SUBSET Calls
    BY DEF Open, Metered
  <2>2. peak' \in 0..Cardinality(Calls)
    BY <1>1, <1>5, <2>1, FiniteCalls DEF Peek, Watermark
  <2> QED
    BY <1>1, <1>2, <1>5, <2>2, LaterMoves DEF Peek, Moves
<1>6. ASSUME NEW c \in Calls,
             \/ Chunk(c) \/ EmbedInput(c) \/ AnswerChat(c) \/ AnswerEmbeddings(c)
             \/ ProviderFails(c) \/ SendDone(c) \/ Consume(c) \/ Leave(c)
      PROVE  InferenceTypeOK'
  BY <1>1, <1>2, <1>6, LaterMoves
     DEF Chunk, EmbedInput, AnswerChat, AnswerEmbeddings, ProviderFails, SendDone, Consume, Leave, Moves
<1>7. ASSUME NEW c \in Calls, Charge(c) PROVE InferenceTypeOK'
  <2>1. call[c].used \in 0..MaxTokens /\ call[c].used \in Nat
    BY CallType, Bounds
  <2>2. tokens' \in [Days -> Nat] /\ paid' \in [Calls -> 0..MaxTokens]
    BY <1>1, <1>7, <2>1 DEF Charge
  <2> QED
    BY <1>1, <1>2, <1>7, <2>2, LaterMoves DEF Charge, Moves
<1>8. ASSUME NEW c \in Calls, Record(c) PROVE InferenceTypeOK'
  <2>1. usage' \in [Calls -> 0..1] /\ UNCHANGED <<now, servers, counters, history, plan>>
    BY <1>1, <1>8 DEF Record
  <2>2. call' \in [Calls -> CallState]
    BY <1>8, LaterMoves DEF Moves
  <2> QED
    BY <1>1, <1>2, <2>1, <2>2
<1>9. ASSUME NEW p \in Gateways, InitState(p) PROVE InferenceTypeOK'
  <2>1. faults' \in 0..MaxFaults
    BY <1>1, <1>9, Bounds DEF InitState
  <2> QED
    BY <1>1, <1>2, <1>9, <2>1, RestartMoves DEF InitState
<1>10. CASE RedisStops \/ RedisReturns
  <2>1. faults' \in 0..MaxFaults
    BY <1>1, <1>10, Bounds DEF RedisStops, RedisReturns
  <2> QED
    BY <1>1, <1>2, <1>10, <2>1, CallType DEF RedisStops, RedisReturns
<1>11. CASE Tick
  <2>1. now' \in Minutes
    BY <1>1, <1>11, Bounds DEF Tick, Minutes
  <2> QED
    BY <1>1, <1>2, <1>11, <2>1, CallType DEF Tick
<1>12. CASE UNCHANGED inferenceVars
  BY <1>1, <1>2, <1>12, CallType DEF inferenceVars
<1> QED
  BY <1>3, <1>4, <1>5, <1>6, <1>7, <1>8, <1>9, <1>10, <1>11, <1>12 DEF InferenceNext, Handler

\* Every state of the calls, the counters and the usage rows has its type.
THEOREM InferenceTyped == InferenceSpec => []InferenceTypeOK
BY InferenceTypesInit, InferenceTypesStep, PTL DEF InferenceSpec
-----------------------------------------------------------------------------
(* The requests of a minute.                                               *)

Counted(m) == {c \in Calls : call[c].counted = m}
Admitted(m) == {c \in Calls : call[c].counted = m /\ call[c].at # "exceeded"}

\* What has been counted: each minute's counter says how many calls met it, and
\* those it did not refuse are no more than the limit, if there is one; a call
\* gets to a provider without being counted only where there is no quota for it.
WindowInv ==
  /\ \A m \in Minutes : rpm[m] = Cardinality(Counted(m))
  /\ RpmLimit > 0 => \A m \in Minutes : Cardinality(Admitted(m)) <= RpmLimit
  /\ \A c \in Calls : call[c].counted <= now
  /\ \A c \in Calls : call[c].at \in {"new", "passed"} => call[c].counted = -1
  /\ \A c \in Calls : call[c].at = "reserving" => call[c].counted # -1
  /\ \A c \in Calls : call[c].at = "exceeded" =>
        call[c].counted # -1 /\ rpm[call[c].counted] > RpmLimit
  /\ ~blind => \A p \in Gateways : quota[p] = "redis"
  /\ RpmLimit > 0 /\ ~blind => \A c \in Calls :
        call[c].at \in Underway \cup {"ok"} /\ plan[c].workspace => call[c].counted # -1

LEMMA WindowInit == InferenceInit => WindowInv
<1> SUFFICES ASSUME InferenceInit PROVE WindowInv
  OBVIOUS
<1>1. \A m \in Minutes : Counted(m) = {} /\ Admitted(m) = {}
  BY DEF InferenceInit, Counted, Admitted, Minutes
<1>2. \A m \in Minutes : Cardinality(Counted(m)) = 0 /\ Cardinality(Admitted(m)) = 0
  BY <1>1, FS_EmptySet
<1>3. \A c \in Calls : call[c].at = "new" /\ call[c].counted = -1 /\ call[c].counted <= now
  BY DEF InferenceInit
<1>4. \A m \in Minutes : rpm[m] = 0
  BY DEF InferenceInit
<1>5. ~blind => \A p \in Gateways : quota[p] = "redis"
  BY DEF InferenceInit
<1> QED
  BY <1>2, <1>3, <1>4, <1>5, Bounds DEF WindowInv, Underway

\* A step that counts no call.
LEMMA SameWindow ==
  ASSUME InferenceTypeOK, WindowInv, UNCHANGED <<rpm, plan, quota, blind>>,
         now' = now \/ now' = now + 1,
         \A c \in Calls :
            /\ call'[c].counted = call[c].counted
            /\ \/ call'[c].at = call[c].at
               \/ /\ call'[c].at \notin {"new", "reserving", "exceeded"}
                  /\ call[c].at # "exceeded"
                  /\ call'[c].at = "passed" => call[c].at = "new"
                  /\ call'[c].at \in Underway \cup {"ok"} =>
                       call[c].at \in Underway \/ ~Limited(c) \/ RpmLimit <= 0
  PROVE  WindowInv'
<1>1. \A m \in Minutes : Counted(m)' = Counted(m) /\ Admitted(m)' = Admitted(m)
  BY DEF Counted, Admitted
<1>2. plan \in Plans /\ \A c \in Calls : plan[c].on \in Gateways
  BY InferenceAssumption DEF InferenceTypeOK
<1>3. \A c \in Calls : call'[c].counted <= now'
  <2>1. now \in Int /\ \A c \in Calls : call[c].counted \in Int
    BY CallType DEF InferenceTypeOK, Minutes
  <2> QED
    BY <2>1 DEF WindowInv
<1>4. RpmLimit > 0 => ~(RpmLimit <= 0)
  BY Bounds
<1> QED
  BY <1>1, <1>2, <1>3, <1>4 DEF WindowInv, Limited

LEMMA WindowStep ==
  ASSUME InferenceTypeOK, WindowInv, [InferenceNext]_inferenceVars
  PROVE  WindowInv'
<1> USE DEF servers, counters, history, Moves
<1>1. ASSUME NEW c \in Calls, Dispatch(c) PROVE WindowInv'
  BY <1>1, DispatchMoves, SameWindow DEF Dispatch, Underway
<1>2. ASSUME NEW c \in Calls, Count(c) PROVE WindowInv'
  <2>1. /\ call[c].at = "passed" /\ Moves(c) /\ call[c].counted = -1
        /\ now \in Minutes /\ -1 \notin Minutes /\ rpm \in [Minutes -> Nat]
        /\ UNCHANGED <<now, plan, quota, blind>>
    <3>1. call[c].at = "passed" /\ Moves(c)
      BY <1>2, CountMoves
    <3>2. call[c].counted = -1
      BY <3>1 DEF WindowInv
    <3>3. now \in Minutes /\ -1 \notin Minutes /\ rpm \in [Minutes -> Nat]
      BY Bounds DEF InferenceTypeOK, Minutes
    <3> QED
      BY <1>2, <3>1, <3>2, <3>3, CountMoves
  <2>2. CASE call'[c].counted = call[c].counted /\ UNCHANGED rpm
    <3>1. call'[c].at \in {"asking", "raised"}
      BY <1>2, <2>1, <2>2, CountMoves
    <3>2. call'[c].at = "asking" => ~Limited(c) \/ RpmLimit <= 0
      BY <1>2, <2>1, <2>2, CountMoves
    <3> QED
      BY <2>1, <2>2, <3>1, <3>2, SameWindow DEF Underway
  <2>3. CASE /\ call'[c].counted = now /\ rpm' = [rpm EXCEPT ![now] = @ + 1]
             /\ RpmLimit > 0
             /\ \/ call'[c].at = "exceeded" /\ rpm'[now] > RpmLimit
                \/ call'[c].at = "reserving" /\ rpm'[now] <= RpmLimit
    <3>1. /\ Counted(now)' = Counted(now) \cup {c} /\ c \notin Counted(now)
          /\ \A m \in Minutes \ {now} : Counted(m)' = Counted(m) /\ Admitted(m)' = Admitted(m)
          /\ Admitted(now)' \subseteq Counted(now)'
          /\ call'[c].at = "exceeded" => Admitted(now)' = Admitted(now)
      <4>1. Counted(now)' = Counted(now) \cup {c} /\ c \notin Counted(now)
        BY <2>1, <2>3 DEF Counted
      <4>2. ASSUME NEW m \in Minutes \ {now}
            PROVE  Counted(m)' = Counted(m) /\ Admitted(m)' = Admitted(m)
        BY <2>1, <2>3 DEF Counted, Admitted
      <4>3. Admitted(now)' \subseteq Counted(now)'
        BY DEF Counted, Admitted
      <4>4. call'[c].at = "exceeded" => Admitted(now)' = Admitted(now)
        BY <2>1, <2>3 DEF Admitted
      <4> QED
        BY <4>1, <4>2, <4>3, <4>4
    <3>2. /\ Counted(now) \in SUBSET Calls /\ Counted(now)' \in SUBSET Calls
          /\ Admitted(now)' \in SUBSET Counted(now)'
      BY <3>1 DEF Counted
    <3>3. /\ Cardinality(Counted(now)') = Cardinality(Counted(now)) + 1
          /\ Cardinality(Admitted(now)') <= Cardinality(Counted(now)')
          /\ Cardinality(Counted(now)') \in Nat /\ Cardinality(Admitted(now)') \in Nat
      <4>1. IsFiniteSet(Counted(now)) /\ IsFiniteSet(Counted(now)')
        BY <3>2, FiniteCalls
      <4>2. Cardinality(Counted(now)') = Cardinality(Counted(now)) + 1
        BY <3>1, <4>1, FS_AddElement
      <4>3. IsFiniteSet(Admitted(now)') /\ Cardinality(Admitted(now)') <= Cardinality(Counted(now)')
        BY <3>2, <4>1, FS_Subset
      <4> QED
        BY <4>1, <4>2, <4>3, FS_CardinalityType
    <3>4. \A m \in Minutes : rpm'[m] = Cardinality(Counted(m)')
      <4>1. \A m \in Minutes : rpm[m] = Cardinality(Counted(m))
        BY DEF WindowInv
      <4> QED
        BY <2>1, <2>3, <3>1, <3>3, <4>1
    <3>5. \A m \in Minutes : Cardinality(Admitted(m)') <= RpmLimit
      <4>1. \A m \in Minutes : Cardinality(Admitted(m)) <= RpmLimit
        BY <2>3 DEF WindowInv
      <4>2. CASE call'[c].at = "exceeded"
        BY <2>1, <3>1, <4>1, <4>2
      <4>3. CASE rpm'[now] <= RpmLimit
        <5>1. Cardinality(Admitted(now)') <= RpmLimit
          BY <2>1, <3>3, <3>4, <4>3, Bounds
        <5> QED
          BY <2>1, <3>1, <4>1, <5>1
      <4> QED
        BY <2>3, <4>2, <4>3
    <3>6. \A d \in Calls : call'[d].at = "exceeded" =>
             call'[d].counted # -1 /\ rpm'[call'[d].counted] > RpmLimit
      <4>1. ASSUME NEW d \in Calls \ {c}, call'[d].at = "exceeded"
            PROVE  call'[d].counted # -1 /\ rpm'[call'[d].counted] > RpmLimit
        <5>1. call'[d] = call[d] /\ call[d].counted \in Minutes /\ rpm[call[d].counted] > RpmLimit
              /\ call[d].counted # -1
          BY <2>1, <4>1, CallType DEF WindowInv
        <5>2. rpm'[call[d].counted] >= rpm[call[d].counted] /\ rpm[call[d].counted] \in Nat
              /\ rpm'[call[d].counted] \in Nat
          BY <2>1, <2>3, <5>1
        <5> QED
          BY <5>1, <5>2, Bounds
      <4> QED
        BY <2>1, <2>3, <4>1
    <3> QED
      <4>1. \A d \in Calls : call'[d].counted <= now'
        BY <2>1, <2>3, Bounds DEF WindowInv, Minutes
      <4> QED
        BY <2>1, <2>3, <3>4, <3>5, <3>6, <4>1 DEF WindowInv, Underway
  <2> QED
    BY <1>2, <2>2, <2>3, CountMoves
<1>3. ASSUME NEW c \in Calls,
             \/ Peek(c) \/ Chunk(c) \/ EmbedInput(c) \/ AnswerChat(c) \/ AnswerEmbeddings(c)
             \/ ProviderFails(c) \/ SendDone(c) \/ Consume(c) \/ Leave(c) \/ Charge(c) \/ Record(c)
      PROVE  WindowInv'
  <2>1. UNCHANGED <<now, rpm, plan, quota, blind>>
    BY <1>3 DEF Peek, Chunk, EmbedInput, AnswerChat, AnswerEmbeddings, ProviderFails, SendDone,
                Consume, Leave, Charge, Record
  <2> QED
    BY <1>3, <2>1, LaterMoves, SameWindow DEF Underway, Served
<1>4. ASSUME NEW p \in Gateways, InitState(p) PROVE WindowInv'
  <2>1. \A m \in Minutes : Counted(m)' = Counted(m) /\ Admitted(m)' = Admitted(m)
    BY <1>4, RestartMoves DEF Counted, Admitted, Underway
  <2>2. /\ UNCHANGED <<rpm, plan, redis>> /\ quota' = [quota EXCEPT ![p] = IF redis THEN "redis" ELSE "noop"]
        /\ blind' = (blind \/ ~redis) /\ quota \in [Gateways -> {"redis", "noop"}]
    BY <1>4 DEF InitState, InferenceTypeOK
  <2>3. blind' = FALSE => blind = FALSE /\ redis
    BY <2>2 DEF InferenceTypeOK
  <2>4. ~blind' => \A q \in Gateways : quota'[q] = "redis"
    BY <2>2, <2>3 DEF WindowInv
  <2>5. RpmLimit > 0 /\ ~blind' => \A c \in Calls :
          call'[c].at \in Underway \cup {"ok"} /\ plan'[c].workspace => call'[c].counted # -1
    BY <1>4, <2>2, <2>3, RestartMoves DEF WindowInv, Underway
  <2>6. \A c \in Calls :
          /\ call'[c].counted <= now'
          /\ call'[c].at \in {"new", "passed"} => call'[c].counted = -1
          /\ call'[c].at = "reserving" => call'[c].counted # -1
          /\ call'[c].at = "exceeded" => call'[c].counted # -1 /\ rpm'[call'[c].counted] > RpmLimit
    BY <1>4, <2>2, RestartMoves DEF WindowInv, InitState
  <2> QED
    BY <2>1, <2>2, <2>4, <2>5, <2>6 DEF WindowInv
<1>5. CASE RedisStops \/ RedisReturns \/ Tick
  BY <1>5, SameWindow DEF RedisStops, RedisReturns, Tick
<1>6. CASE UNCHANGED inferenceVars
  BY <1>6, SameWindow DEF inferenceVars
<1> QED
  BY <1>1, <1>2, <1>3, <1>4, <1>5, <1>6 DEF InferenceNext, Handler

\* However the processes interleave, and whatever fails, a minute lets no more
\* calls through than its limit, where it has one (WindowHolds).
THEOREM WindowKept == InferenceSpec => []WindowHolds
<1>1. InferenceTypeOK /\ WindowInv => WindowHolds
  <2> SUFFICES ASSUME InferenceTypeOK, WindowInv, RpmLimit > 0 PROVE WindowHolds
    BY DEF WindowHolds
  <2>1. ASSUME NEW m \in Minutes
        PROVE  Cardinality({c \in Asked : call[c].counted = m}) <= RpmLimit
    <3> DEFINE A == {c \in Asked : call[c].counted = m}
    <3>1. A \in SUBSET Admitted(m) /\ Admitted(m) \in SUBSET Calls
      BY DEF Asked, Admitted
    <3>2. Cardinality(A) <= Cardinality(Admitted(m)) /\ Cardinality(A) \in Nat
          /\ Cardinality(Admitted(m)) \in Nat
      BY <3>1, FiniteCalls, FS_Subset, FS_CardinalityType
    <3> QED
      BY <3>2, Bounds DEF WindowInv
  <2>2. ~blind => \A c \in Asked : plan[c].workspace => call[c].counted # -1
    BY DEF Asked, WindowInv, Underway
  <2> QED
    BY <2>1, <2>2 DEF WindowHolds
<1> QED
  BY <1>1, WindowInit, WindowStep, InferenceTypesInit, InferenceTypesStep, PTL DEF InferenceSpec
-----------------------------------------------------------------------------
(* The tokens of a day.                                                    *)

\* While it is under way, a call is counted, or goes on without having read the
\* day's tokens, if and only if its process has a quota for it.
MeteredIfLimited ==
  \A c \in Calls : call[c].at \in Underway => (c \in Metered <=> Limited(c))

Early == {"new", "passed", "reserving"}

\* What a day's counter may come to.
Allowed == TokenLimit - 1 + MaxTokens * (peak + Cardinality(unread))

\* Once the day's tokens are used up, what the open calls may still add to them
\* is within what is allowed: each of them was open when they were used up, or
\* could not read them.
BudgetInv ==
  /\ \A c \in unread : call[c].at \notin Early
  /\ Cardinality(Open) <= peak
  /\ \A d \in Days : d > Day(now) => tokens[d] = 0
  /\ TokenLimit > 0 => \A d \in Days : tokens[d] <= Allowed
  /\ TokenLimit > 0 /\ tokens[Day(now)] >= TokenLimit =>
       tokens[Day(now)] + MaxTokens * Cardinality(Open) <= Allowed
  /\ \A c \in Calls : call[c].at = "exhausted" =>
       \E d \in Days : Day(call[c].counted) <= d /\ tokens[d] >= TokenLimit

LEMMA Times ==
  ASSUME NEW a \in Nat, NEW b \in Nat, a <= b
  PROVE  /\ MaxTokens * a \in Nat /\ MaxTokens * b \in Nat
         /\ MaxTokens * a <= MaxTokens * b
         /\ MaxTokens * (a + 1) = MaxTokens * a + MaxTokens
<1>1. MaxTokens \in Nat
  BY Bounds
<1>2. MaxTokens * (b - a) \in Nat /\ MaxTokens * b = MaxTokens * a + MaxTokens * (b - a)
  BY <1>1
<1> QED
  BY <1>1, <1>2

LEMMA BudgetTypes ==
  ASSUME InferenceTypeOK
  PROVE  /\ now \in Nat /\ Day(now) \in Days /\ Day(now) \in Nat /\ Days \subseteq Nat
         /\ peak \in Nat /\ Cardinality(unread) \in Nat /\ Cardinality(Open) \in Nat
         /\ IsFiniteSet(unread) /\ IsFiniteSet(Open)
         /\ tokens \in [Days -> Nat] /\ Allowed \in Int
<1>1. now \in Nat /\ LastMinute \in Nat /\ now <= LastMinute
  BY Bounds DEF InferenceTypeOK, Minutes
<1>2. Day(now) \in Nat /\ Day(LastMinute) \in Nat /\ Day(now) <= Day(LastMinute)
  BY <1>1, DayMonotonic
<1>3. unread \in SUBSET Calls /\ Open \in SUBSET Calls
  BY DEF InferenceTypeOK, Open, Metered
<1>4. /\ IsFiniteSet(unread) /\ IsFiniteSet(Open)
      /\ Cardinality(unread) \in Nat /\ Cardinality(Open) \in Nat /\ Cardinality(Calls) \in Nat
  BY <1>3, FiniteCalls
<1>5. peak \in Nat /\ tokens \in [Days -> Nat]
  BY <1>4 DEF InferenceTypeOK
<1>6. MaxTokens * (peak + Cardinality(unread)) \in Int /\ TokenLimit - 1 \in Int
  BY <1>4, <1>5, Bounds
<1> QED
  BY <1>1, <1>2, <1>4, <1>5, <1>6 DEF Days, Allowed

LEMMA BudgetInit == InferenceInit => BudgetInv /\ MeteredIfLimited
<1> SUFFICES ASSUME InferenceInit PROVE BudgetInv /\ MeteredIfLimited
  OBVIOUS
<1>1. /\ \A c \in Calls : call[c].at = "new" /\ call[c].counted = -1
      /\ \A d \in Days : tokens[d] = 0
      /\ peak = 0 /\ unread = {}
  BY DEF InferenceInit
<1>2. Open = {} /\ Cardinality(Open) = 0 /\ Cardinality(unread) = 0
  <2>1. Open = {} /\ unread = {}
    BY <1>1 DEF Open, Metered
  <2> QED
    BY <2>1, FS_EmptySet
<1>3. TokenLimit > 0 => Allowed = TokenLimit - 1 /\ Allowed >= 0
  BY <1>1, <1>2, Bounds DEF Allowed
<1>4. Day(now) \in Days
  BY BudgetTypes, InferenceTypesInit
<1>5. MeteredIfLimited
  BY <1>1 DEF MeteredIfLimited, Underway
<1> QED
  BY <1>1, <1>2, <1>3, <1>4, <1>5, Bounds DEF BudgetInv, Early

LEMMA MeteredStep ==
  ASSUME InferenceTypeOK, WindowInv, BudgetInv, MeteredIfLimited, [InferenceNext]_inferenceVars
  PROVE  MeteredIfLimited'
<1> USE DEF servers, counters, history, Moves
<1>1. ASSUME UNCHANGED <<plan, quota>>,
             \A c \in Calls : call'[c].at \in Underway =>
                /\ call[c].at \in Underway
                /\ c \in Metered' <=> c \in Metered
      PROVE  MeteredIfLimited'
  BY <1>1 DEF MeteredIfLimited, Limited
<1>2. ASSUME NEW c \in Calls, Dispatch(c) PROVE MeteredIfLimited'
  BY <1>1, <1>2, DispatchMoves DEF Dispatch, Underway, Metered
<1>3. ASSUME NEW c \in Calls, Count(c) PROVE MeteredIfLimited'
  <2>1. UNCHANGED <<plan, quota>> /\ now # -1 /\ Moves(c) /\ call[c].counted = -1 /\ c \notin unread
    <3>1. call[c].at = "passed" /\ Moves(c) /\ UNCHANGED <<plan, quota>>
      BY <1>3, CountMoves
    <3>2. call[c].counted = -1 /\ c \notin unread
      BY <3>1 DEF WindowInv, BudgetInv, Early
    <3>3. now # -1
      BY Bounds DEF InferenceTypeOK, Minutes
    <3> QED
      BY <3>1, <3>2, <3>3
  <2>2. call'[c].at \in Underway => (c \in Metered' <=> Limited(c)')
    BY <1>3, <2>1, CountMoves DEF Underway, Limited, Metered
  <2>3. \A d \in Calls \ {c} : (d \in Metered' <=> d \in Metered) /\ call'[d].at = call[d].at
    BY <1>3, <2>1, CountMoves DEF Metered
  <2> QED
    BY <2>1, <2>2, <2>3 DEF MeteredIfLimited, Limited
<1>4. ASSUME NEW c \in Calls, Peek(c) PROVE MeteredIfLimited'
  <2>1. UNCHANGED <<plan, quota>> /\ unread' \in {unread, unread \cup {c}} /\ call[c].counted # -1
        /\ call[c].at = "reserving" /\ Moves(c) /\ call'[c].counted = call[c].counted
    BY <1>4, PeekMoves DEF Peek, WindowInv
  <2> QED
    BY <1>1, <2>1 DEF Underway, Metered
<1>5. ASSUME NEW c \in Calls,
             \/ Chunk(c) \/ EmbedInput(c) \/ AnswerChat(c) \/ AnswerEmbeddings(c)
             \/ ProviderFails(c) \/ SendDone(c) \/ Consume(c) \/ Leave(c) \/ Charge(c) \/ Record(c)
      PROVE  MeteredIfLimited'
  <2>1. UNCHANGED <<plan, quota, unread>>
    BY <1>5 DEF Chunk, EmbedInput, AnswerChat, AnswerEmbeddings, ProviderFails, SendDone,
                Consume, Leave, Charge, Record
  <2>2. \A d \in Calls : d \in Metered' <=> d \in Metered
    BY <1>5, <2>1, LaterMoves DEF Metered
  <2> QED
    BY <1>1, <1>5, <2>1, <2>2, LaterMoves
<1>6. ASSUME NEW p \in Gateways, InitState(p) PROVE MeteredIfLimited'
  <2>1. quota \in [Gateways -> {"redis", "noop"}] /\ plan \in Plans /\ unread' = unread
    BY <1>6 DEF InferenceTypeOK, InitState
  <2>2. \A c \in Calls : plan[c].on # p => Limited(c)' = Limited(c)
    BY <1>6, <2>1, InferenceAssumption DEF InitState, Limited
  <2>3. \A c \in Calls : call'[c].at \in Underway =>
           plan[c].on # p /\ call[c].at \in Underway /\ call'[c].counted = call[c].counted
    BY <1>6, RestartMoves DEF Underway
  <2> QED
    BY <2>1, <2>2, <2>3 DEF MeteredIfLimited, Metered
<1>7. CASE RedisStops \/ RedisReturns \/ Tick
  BY <1>1, <1>7 DEF RedisStops, RedisReturns, Tick, Metered
<1>8. CASE UNCHANGED inferenceVars
  BY <1>1, <1>8 DEF inferenceVars, Metered
<1> QED
  BY <1>2, <1>3, <1>4, <1>5, <1>6, <1>7, <1>8 DEF InferenceNext, Handler

\* A step that opens no call and charges nothing.
LEMMA SameBudget ==
  ASSUME InferenceTypeOK, InferenceTypeOK', BudgetInv, UNCHANGED <<now, tokens, peak, unread>>,
         Open' \subseteq Open,
         \A c \in Calls : call'[c].at \in Early \cup {"exhausted"} =>
            \/ call[c].at = call'[c].at /\ call'[c].counted = call[c].counted
            \/ call[c].at \in Early /\ call'[c].at \in Early
  PROVE  BudgetInv'
<1>1. /\ Cardinality(Open') \in Nat /\ Cardinality(Open) \in Nat
      /\ Cardinality(Open') <= Cardinality(Open) /\ peak \in Nat /\ tokens[Day(now)] \in Nat
      /\ Allowed \in Int
  <2>1. IsFiniteSet(Open) /\ Open' \in SUBSET Open
    BY BudgetTypes
  <2> QED
    BY <2>1, BudgetTypes, FS_Subset, FS_CardinalityType
<1>2. /\ MaxTokens * Cardinality(Open') <= MaxTokens * Cardinality(Open)
      /\ MaxTokens * Cardinality(Open') \in Nat /\ MaxTokens * Cardinality(Open) \in Nat
  BY <1>1, Times
<1>3. Day(now)' = Day(now) /\ Allowed' = Allowed
  BY DEF Day, Allowed
<1>4. Cardinality(Open') <= peak'
  BY <1>1 DEF BudgetInv
<1>5. TokenLimit > 0 /\ tokens'[Day(now)'] >= TokenLimit =>
        tokens'[Day(now)'] + MaxTokens * Cardinality(Open') <= Allowed'
  BY <1>1, <1>2, <1>3 DEF BudgetInv
<1>6. \A c \in unread' : call'[c].at \notin Early
  BY DEF BudgetInv, Early, InferenceTypeOK
<1>7. \A c \in Calls : call'[c].at = "exhausted" =>
        \E d \in Days : Day(call'[c].counted) <= d /\ tokens'[d] >= TokenLimit
  BY DEF BudgetInv, Early, Day
<1> QED
  BY <1>3, <1>4, <1>5, <1>6, <1>7 DEF BudgetInv, Early, Day

\* A call is refused as the day's tokens are used up, or goes on if there are
\* some left, or without having read them.
LEMMA OpensBudget ==
  ASSUME InferenceTypeOK, InferenceTypeOK', BudgetInv, NEW c \in Calls,
         call[c].at \in Early, Moves(c), call'[c].counted = call[c].counted,
         UNCHANGED <<now, tokens>>,
         unread' \in {unread, unread \cup {c}}, c \in Metered', peak' = Watermark(Open'),
         \/ /\ call'[c].at = "exhausted" /\ unread' = unread
            /\ call[c].counted \in Nat /\ call[c].counted <= now /\ tokens[Day(now)] >= TokenLimit
         \/ /\ call'[c].at = "asking"
            /\ unread' = unread => ~(TokenLimit > 0 /\ tokens[Day(now)] >= TokenLimit)
  PROVE  BudgetInv'
<1> DEFINE n == Cardinality(Open)
           m == Cardinality(Open')
           u == Cardinality(unread)
           today == tokens[Day(now)]
           unmet == unread' # unread
<1>1. /\ n \in Nat /\ u \in Nat /\ peak \in Nat /\ today \in Nat /\ n <= peak
      /\ m \in Nat /\ Cardinality(unread') \in Nat /\ peak' \in Nat
      /\ IsFiniteSet(Open) /\ IsFiniteSet(unread)
      /\ TokenLimit \in Int /\ MaxTokens \in Nat
  <2>1. Open' \in SUBSET Calls /\ unread' \in SUBSET Calls
    BY DEF Open, Metered, InferenceTypeOK
  <2>2. m \in Nat /\ Cardinality(unread') \in Nat /\ Cardinality(Calls) \in Nat
    BY <2>1, FiniteCalls
  <2>3. peak' \in Nat
    BY <2>2 DEF InferenceTypeOK
  <2> QED
    BY <2>2, <2>3, BudgetTypes, Bounds DEF BudgetInv
<1>2. /\ c \notin unread /\ c \notin Open
      /\ peak' = (IF m > peak THEN m ELSE peak)
      /\ unread' = IF unmet THEN unread \cup {c} ELSE unread
      /\ unmet \in BOOLEAN
  BY DEF BudgetInv, Early, Open, Watermark
<1>3. \/ call'[c].at = "exhausted" /\ ~unmet /\ today >= TokenLimit
      \/ call'[c].at = "asking" /\ (~unmet => ~(TokenLimit > 0 /\ today >= TokenLimit))
  OBVIOUS
<1>4. /\ Cardinality(unread') = (IF unmet THEN u + 1 ELSE u)
  BY <1>1, <1>2, FS_AddElement
<1>5. /\ call'[c].at = "exhausted" => m = n
      /\ call'[c].at = "asking" => m = n + 1
  <2>1. call'[c].at = "exhausted" => Open' = Open
    BY <1>2 DEF Open, Metered, Moves
  <2>2. call'[c].at = "asking" => Open' = Open \cup {c}
    BY <1>2 DEF Open, Metered, Moves
  <2> QED
    BY <1>1, <1>2, <2>1, <2>2, FS_AddElement
<1>6. Allowed = TokenLimit - 1 + MaxTokens * (peak + u)
      /\ Allowed' = TokenLimit - 1 + MaxTokens * (peak' + Cardinality(unread'))
  BY DEF Allowed
<1>7. Day(now)' = Day(now)
  BY DEF Day
<1> HIDE DEF n, m, u, today, unmet
<1>8. Allowed \in Int /\ Allowed' \in Int /\ Allowed <= Allowed' /\ (unmet => Allowed + MaxTokens <= Allowed')
  <2> DEFINE a == peak + u
             b == peak' + Cardinality(unread')
  <2>1. a \in Nat /\ b \in Nat /\ a <= b /\ (unmet => a + 1 <= b) /\ a + 1 \in Nat
    BY <1>1, <1>2, <1>4
  <2>2. Allowed = TokenLimit - 1 + MaxTokens * a /\ Allowed' = TokenLimit - 1 + MaxTokens * b
    BY <1>6
  <2> HIDE DEF a, b
  <2>3. /\ MaxTokens * a <= MaxTokens * b /\ MaxTokens * a \in Nat /\ MaxTokens * b \in Nat
        /\ MaxTokens * (a + 1) = MaxTokens * a + MaxTokens
    BY <2>1, Times
  <2>4. unmet => MaxTokens * (a + 1) <= MaxTokens * b
    BY <2>1, Times
  <2> QED
    BY <1>1, <2>2, <2>3, <2>4
<1>9. m <= peak'
  BY <1>1, <1>2
<1>10. MaxTokens * (n + 1) = MaxTokens * n + MaxTokens /\ MaxTokens * n \in Nat
  BY <1>1, Times
<1>11. TokenLimit > 0 /\ today >= TokenLimit => today + MaxTokens * m <= Allowed'
  <2>1. TokenLimit > 0 /\ today >= TokenLimit => today + MaxTokens * n <= Allowed
    BY DEF BudgetInv, today, n
  <2> QED
    BY <1>1, <1>3, <1>5, <1>8, <1>10, <2>1
<1>12. TokenLimit > 0 => \A d \in Days : tokens'[d] <= Allowed'
  BY <1>2, <1>8, BudgetTypes DEF BudgetInv
<1>13. \A d \in unread' : call'[d].at \notin Early
  <2>1. call'[c].at \notin Early
    BY <1>3 DEF Early
  <2>2. \A d \in unread : d \in Calls /\ d # c
    BY <1>2 DEF InferenceTypeOK
  <2> QED
    BY <1>2, <2>1, <2>2 DEF BudgetInv, Moves
<1>14. \A d \in Calls : call'[d].at = "exhausted" =>
          \E e \in Days : Day(call'[d].counted) <= e /\ tokens'[e] >= TokenLimit
  <2>1. call'[c].at = "exhausted" => Day(call'[c].counted) <= Day(now) /\ today >= TokenLimit
    <3>1. ASSUME call[c].counted \in Nat, call[c].counted <= now
          PROVE  Day(call[c].counted) <= Day(now)
      BY <3>1, BudgetTypes, DayMonotonic
    <3>2. call'[c].at = "exhausted" => call[c].counted \in Nat /\ call[c].counted <= now
      OBVIOUS
    <3> QED
      BY <1>3, <3>1, <3>2 DEF Day
  <2>2. Day(now) \in Days /\ tokens'[Day(now)] = today
    BY BudgetTypes DEF today
  <2>3. \A d \in Calls \ {c} : call'[d] = call[d]
    BY DEF Moves
  <2>4. \A d \in Calls \ {c} : call[d].at = "exhausted" =>
          \E e \in Days : Day(call[d].counted) <= e /\ tokens[e] >= TokenLimit
    BY DEF BudgetInv
  <2>5. ASSUME NEW d \in Calls \ {c}, call'[d].at = "exhausted"
        PROVE  \E e \in Days : Day(call'[d].counted) <= e /\ tokens'[e] >= TokenLimit
    BY <2>3, <2>4, <2>5 DEF Day
  <2> QED
    BY <2>1, <2>2, <2>5
<1> QED
  BY <1>2, <1>7, <1>9, <1>11, <1>12, <1>13, <1>14 DEF BudgetInv, m, today, Day

\* An open call is charged: what it adds was counted as what it might add.
LEMMA ChargeBudget ==
  ASSUME InferenceTypeOK, InferenceTypeOK', MeteredIfLimited, BudgetInv, NEW c \in Calls, Charge(c),
         tokens' # tokens
  PROVE  BudgetInv'
<1> DEFINE n == Cardinality(Open)
           today == tokens[Day(now)]
           used == call[c].used
<1>1. /\ n \in Nat /\ peak \in Nat /\ today \in Nat /\ n <= peak /\ Cardinality(unread) \in Nat
      /\ IsFiniteSet(Open) /\ Day(now) \in Days /\ tokens \in [Days -> Nat]
      /\ TokenLimit \in Int /\ MaxTokens \in Nat /\ Allowed \in Int
  BY BudgetTypes, Bounds DEF BudgetInv
<1>2. /\ call[c].at = "answered" /\ Limited(c) /\ TokenLimit > 0 /\ Moves(c)
      /\ call'[c].at \in {"charged", "raised"} /\ call'[c].counted = call[c].counted
      /\ used \in Nat /\ used <= MaxTokens
      /\ UNCHANGED <<now, peak, unread>>
      /\ tokens' = [tokens EXCEPT ![Day(now)] = today + used]
  <2>1. used \in Nat /\ used <= MaxTokens /\ call[c] \in CallState
    BY CallType, Bounds
  <2> QED
    <3>1. call'[c].at \in {"charged", "raised"}
      BY <2>1, CallType DEF Charge, CallState
    <3>2. Moves(c) /\ call'[c].counted = call[c].counted
      BY ServedMoves
    <3>3. call[c].at = "answered" /\ Limited(c) /\ ~(TokenLimit <= 0) /\ tokens' = [tokens EXCEPT ![Day(now)] = today + used]
          /\ UNCHANGED <<now, peak, unread>>
      BY DEF Charge
    <3> QED
      BY <2>1, <3>1, <3>2, <3>3, Bounds
<1>3. c \in Open /\ Open' = Open \ {c}
  <2>1. \A d \in Calls : call'[d].counted = call[d].counted
    BY <1>2 DEF Moves
  <2>2. c \in Metered /\ Metered' = Metered
    BY <1>2, <2>1 DEF MeteredIfLimited, Underway, Metered
  <2>3. \A d \in Calls \ {c} : call'[d].at = call[d].at
    BY <1>2 DEF Moves
  <2> QED
    BY <1>2, <2>1, <2>2, <2>3 DEF Open, Metered
<1>4. n >= 1 /\ Cardinality(Open') = n - 1
  <2>1. Cardinality(Open') = n - 1
    BY <1>1, <1>3, FS_RemoveElement
  <2>2. n # 0
    BY <1>1, <1>3, FS_EmptySet
  <2> QED
    BY <1>1, <2>1, <2>2
<1>5. Allowed = TokenLimit - 1 + MaxTokens * (peak + Cardinality(unread)) /\ Allowed' = Allowed
  BY <1>2 DEF Allowed
<1>6. Day(now)' = Day(now)
  BY <1>2 DEF Day
<1>7. today >= TokenLimit => today + MaxTokens * n <= Allowed
  BY <1>2 DEF BudgetInv
<1> HIDE DEF n, today, used
<1>8. /\ MaxTokens * n = MaxTokens * (n - 1) + MaxTokens
      /\ MaxTokens * (n - 1) \in Nat /\ MaxTokens * n \in Nat
  <2> DEFINE k == n - 1
  <2>1. k \in Nat /\ n = k + 1 /\ n \in Nat
    BY <1>1, <1>4
  <2> HIDE DEF k
  <2>2. MaxTokens * (k + 1) = MaxTokens * k + MaxTokens /\ MaxTokens * k \in Nat
    BY <2>1, Times
  <2> QED
    BY <1>1, <2>1, <2>2 DEF k
<1>9. TokenLimit - 1 + MaxTokens * n <= Allowed
  <2> DEFINE b == peak + Cardinality(unread)
  <2>1. b \in Nat /\ n <= b
    BY <1>1
  <2>2. Allowed = TokenLimit - 1 + MaxTokens * b
    BY <1>5
  <2> HIDE DEF b
  <2>3. MaxTokens * n <= MaxTokens * b /\ MaxTokens * n \in Nat /\ MaxTokens * b \in Nat
    BY <1>1, <2>1, Times
  <2> QED
    BY <1>1, <2>2, <2>3
<1>10. today + used + MaxTokens * (n - 1) <= Allowed
  <2>1. CASE today >= TokenLimit
    BY <1>1, <1>2, <1>7, <1>8, <2>1
  <2>2. CASE today < TokenLimit
    BY <1>1, <1>2, <1>8, <1>9, <2>2
  <2> QED
    BY <1>1, <2>1, <2>2
<1>11. today + used <= Allowed
  BY <1>1, <1>2, <1>8, <1>10
<1>12. tokens'[Day(now)] = today + used
  BY <1>1, <1>2
<1>13. tokens'[Day(now)'] + MaxTokens * Cardinality(Open') <= Allowed'
  BY <1>4, <1>5, <1>6, <1>10, <1>12
<1>14. \A d \in Days : tokens'[d] <= Allowed'
  BY <1>1, <1>2, <1>5, <1>11 DEF BudgetInv
<1>15. \A d \in Days : d > Day(now)' => tokens'[d] = 0
  BY <1>1, <1>2, <1>6 DEF BudgetInv, Days
<1>16. \A d \in unread' : call'[d].at \notin Early
  BY <1>2 DEF BudgetInv, Early, Moves, InferenceTypeOK
<1>17. \A d \in Calls : call'[d].at = "exhausted" =>
          \E e \in Days : Day(call'[d].counted) <= e /\ tokens'[e] >= TokenLimit
  <2>1. \A d \in Days : tokens'[d] \in Nat /\ tokens[d] \in Nat /\ tokens'[d] >= tokens[d]
    BY <1>1, <1>2 DEF today
  <2>2. \A d \in Calls : call'[d].at = "exhausted" => call'[d] = call[d]
    BY <1>2 DEF Moves
  <2>3. ASSUME NEW d \in Calls, call'[d].at = "exhausted"
        PROVE  \E e \in Days : Day(call'[d].counted) <= e /\ tokens'[e] >= TokenLimit
    <3>1. PICK e \in Days : Day(call[d].counted) <= e /\ tokens[e] >= TokenLimit
      BY <2>2, <2>3 DEF BudgetInv
    <3> QED
      BY <1>1, <2>1, <2>2, <2>3, <3>1
  <2> QED
    BY <2>3
<1>18. Cardinality(Open') <= peak'
  BY <1>1, <1>2, <1>4
<1> QED
  BY <1>13, <1>14, <1>15, <1>16, <1>17, <1>18 DEF BudgetInv

LEMMA TickBudget ==
  ASSUME InferenceTypeOK, InferenceTypeOK', BudgetInv, Tick
  PROVE  BudgetInv'
<1>1. now \in Nat /\ now' = now + 1 /\ UNCHANGED <<call, tokens, peak, unread>>
  BY BudgetTypes DEF Tick, counters, history
<1>2. Day(now) \in Nat /\ Day(now)' \in Nat /\ Day(now) <= Day(now)'
  <2>1. Day(now') \in Nat /\ Day(now) \in Nat /\ Day(now) <= Day(now')
    BY <1>1, DayMonotonic
  <2> QED
    BY <2>1 DEF Day
<1>3. Day(now)' \in Days
  <2>1. now' \in Nat /\ LastMinute \in Nat /\ now' <= LastMinute
    BY Bounds DEF InferenceTypeOK, Minutes
  <2>2. Day(now') <= Day(LastMinute) /\ Day(LastMinute) \in Nat
    BY <2>1, DayMonotonic
  <2> QED
    BY <1>2, <2>2 DEF Days, Day
<1>4. Open' = Open /\ Allowed' = Allowed
  BY <1>1 DEF Open, Metered, Allowed
<1>5. CASE Day(now)' = Day(now)
  BY <1>1, <1>4, <1>5 DEF BudgetInv, Early
<1>6. CASE Day(now)' > Day(now)
  <2>1. tokens'[Day(now)'] = 0
    BY <1>1, <1>3, <1>6 DEF BudgetInv
  <2>2. \A d \in Days : d > Day(now)' => tokens'[d] = 0
    BY <1>1, <1>2, BudgetTypes DEF BudgetInv
  <2>3. ~(TokenLimit > 0 /\ tokens'[Day(now)'] >= TokenLimit)
    BY <2>1, Bounds
  <2> QED
    BY <1>1, <1>4, <2>2, <2>3 DEF BudgetInv, Early
<1> QED
  BY <1>2, <1>5, <1>6

LEMMA BudgetStep ==
  ASSUME InferenceTypeOK, InferenceTypeOK', WindowInv, MeteredIfLimited, BudgetInv,
         [InferenceNext]_inferenceVars
  PROVE  BudgetInv'
<1> USE DEF servers, counters, history
<1>1. ASSUME NEW c \in Calls, Moves(c), UNCHANGED <<now, tokens, peak, unread>>,
             call'[c].counted = call[c].counted \/ call'[c].at \notin {"asking", "sent", "answered"},
             call'[c].at \in {"asking", "sent", "answered"} =>
               call[c].at \in {"asking", "sent", "answered"} \/ c \notin Metered,
             call'[c].at \notin Early \cup {"exhausted"} \/ (call[c].at \in Early /\ call'[c].at \in Early)
      PROVE  BudgetInv'
  <2>1. Open' \subseteq Open
    BY <1>1 DEF Open, Metered, Moves
  <2> QED
    BY <1>1, <2>1, SameBudget DEF Moves
<1>2. ASSUME NEW c \in Calls, Dispatch(c) PROVE BudgetInv'
  <2>1. call[c].at = "new" /\ call'[c].at \in {"limited", "passed"} /\ Moves(c)
    BY <1>2, DispatchMoves
  <2> QED
    BY <1>1, <1>2, <2>1 DEF Dispatch, Early
<1>3. ASSUME NEW c \in Calls, Count(c) PROVE BudgetInv'
  <2>1. /\ call[c].at = "passed" /\ call[c].counted = -1 /\ c \notin Metered /\ Moves(c)
        /\ UNCHANGED <<now, tokens>>
    <3>1. call[c].at = "passed" /\ Moves(c) /\ UNCHANGED <<now, tokens>>
      BY <1>3, CountMoves
    <3> QED
      BY <3>1 DEF WindowInv, BudgetInv, Early, Metered
  <2>2. CASE unread' = unread \cup {c} /\ peak' = Watermark(Open') /\ call'[c].at = "asking"
             /\ call'[c].counted = call[c].counted
    <3>1. c \in Metered' /\ unread' # unread
      BY <2>1, <2>2 DEF Metered
    <3> QED
      BY <2>1, <2>2, <3>1, OpensBudget DEF Early
  <2>3. CASE UNCHANGED <<peak, unread>>
    <3>1. /\ call'[c].at \in {"exceeded", "reserving", "asking", "raised"}
          /\ call'[c].at = "asking" => call'[c].counted = call[c].counted
      <4>1. c \notin unread
        BY <2>1 DEF Metered
      <4> QED
        BY <1>3, <2>3, <4>1, CountMoves
    <3> QED
      BY <1>1, <2>1, <2>3, <3>1 DEF Early
  <2> QED
    BY <1>3, <2>2, <2>3, CountMoves
<1>4. ASSUME NEW c \in Calls, Peek(c) PROVE BudgetInv'
  <2>1. /\ call[c].at = "reserving" /\ Moves(c) /\ call'[c].counted = call[c].counted
        /\ call[c].counted # -1 /\ call[c].counted <= now
        /\ UNCHANGED <<now, tokens>>
        /\ unread' = (IF redis THEN unread ELSE unread \cup {c}) /\ peak' = Watermark(Open')
    BY <1>4, PeekMoves DEF Peek, WindowInv
  <2>2. c \in Metered' /\ c \notin unread /\ call[c].counted \in Nat
    BY <2>1, CallType, Bounds DEF Metered, BudgetInv, Early, Minutes
  <2>3. \/ call'[c].at = "exhausted" /\ redis /\ tokens[Day(now)] >= TokenLimit
        \/ call'[c].at = "asking" /\ ~(redis /\ TokenLimit > 0 /\ tokens[Day(now)] >= TokenLimit)
    BY <1>4, PeekMoves
  <2> QED
    BY <2>1, <2>2, <2>3, OpensBudget DEF Early
<1>5. ASSUME NEW c \in Calls,
             \/ Chunk(c) \/ EmbedInput(c) \/ AnswerChat(c) \/ AnswerEmbeddings(c)
             \/ ProviderFails(c) \/ SendDone(c) \/ Consume(c) \/ Leave(c)
             \/ (Charge(c) /\ UNCHANGED tokens) \/ Record(c)
      PROVE  BudgetInv'
  <2>1. UNCHANGED <<now, tokens, peak, unread>>
    BY <1>5 DEF Chunk, EmbedInput, AnswerChat, AnswerEmbeddings, ProviderFails, SendDone, Consume,
                Leave, Charge, Record
  <2> QED
    BY <1>1, <1>5, <2>1, ServedMoves DEF Served, Early
<1>6. ASSUME NEW c \in Calls, Charge(c), tokens' # tokens PROVE BudgetInv'
  BY <1>6, ChargeBudget
<1>7. ASSUME NEW p \in Gateways, InitState(p) PROVE BudgetInv'
  <2>1. Open' \subseteq Open
    BY <1>7, RestartMoves DEF Open, Metered, InitState
  <2> QED
    BY <1>7, <2>1, RestartMoves, SameBudget DEF InitState, Early
<1>8. CASE Tick
  BY <1>8, TickBudget
<1>9. CASE RedisStops \/ RedisReturns \/ UNCHANGED inferenceVars
  <2>1. UNCHANGED <<now, tokens, peak, unread, call>>
    BY <1>9 DEF RedisStops, RedisReturns, inferenceVars
  <2>2. Open' \subseteq Open
    BY <2>1 DEF Open, Metered
  <2> QED
    BY <2>1, <2>2, SameBudget
<1> QED
  BY <1>2, <1>3, <1>4, <1>5, <1>6, <1>7, <1>8, <1>9 DEF InferenceNext, Handler

QuotaInv == InferenceTypeOK /\ WindowInv /\ MeteredIfLimited /\ BudgetInv

LEMMA QuotaInductive == InferenceSpec => []QuotaInv
<1>1. InferenceInit => QuotaInv
  BY InferenceTypesInit, WindowInit, BudgetInit DEF QuotaInv
<1>2. QuotaInv /\ [InferenceNext]_inferenceVars => QuotaInv'
  BY InferenceTypesStep, WindowStep, MeteredStep, BudgetStep DEF QuotaInv
<1> QED
  BY <1>1, <1>2, PTL DEF InferenceSpec

\* Where a day has a budget: however many calls read it before another one adds to
\* it, and across midnight, what the day comes to is bounded by the calls open at
\* one moment and those that went on without reading it, which are all of them
\* where the request limit is off (OverrunBounded).
THEOREM OverrunIsBounded == InferenceSpec => []OverrunBounded
<1>1. QuotaInv => OverrunBounded
  BY DEF QuotaInv, BudgetInv, OverrunBounded, Allowed
<1> QED
  BY <1>1, QuotaInductive, PTL

\* No call is refused before its window, or the tokens of a day no earlier than
\* its minute, are used up (RefusalsDue).
THEOREM RefusedWhenDue == InferenceSpec => []RefusalsDue
<1>1. QuotaInv => RefusalsDue
  <2> SUFFICES ASSUME QuotaInv, NEW c \in Calls, call[c].at = "exceeded"
               PROVE  Cardinality({d \in Calls : call[d].counted = call[c].counted}) > RpmLimit
    BY DEF QuotaInv, BudgetInv, RefusalsDue
  <2>1. call[c].counted \in Minutes /\ rpm[call[c].counted] > RpmLimit
    BY CallType DEF QuotaInv, WindowInv
  <2>2. rpm[call[c].counted] = Cardinality(Counted(call[c].counted))
    BY <2>1 DEF QuotaInv, WindowInv
  <2> QED
    BY <2>1, <2>2 DEF Counted
<1> QED
  BY <1>1, QuotaInductive, PTL
-----------------------------------------------------------------------------
(* What the calls were charged.                                            *)

Unpaid == Early \cup {"asking", "sent", "answered", "left", "limited", "exceeded", "exhausted"}

\* The day's counters add up to what the calls have been charged, and a call is
\* charged what it used in one step, after which only its row is left to write.
LedgerInv ==
  /\ Sum(tokens, Days) = Sum(paid, Calls)
  /\ \A c \in Calls :
       /\ call[c].at \in Unpaid => paid[c] = 0
       /\ (call[c].at \in {"charged", "ok"} \/ usage[c] = 1) /\ c \in Metered /\ TokenLimit > 0 =>
            paid[c] = call[c].used
       /\ call[c].at = "ok" /\ plan[c].kind # "stream" => usage[c] = 1
       /\ usage[c] = 1 => call[c].at \in {"ok", "raised"}

LEMMA LedgerInit == InferenceInit => LedgerInv
<1> SUFFICES ASSUME InferenceInit PROVE LedgerInv
  OBVIOUS
<1>1. IsFiniteSet(Days) /\ IsFiniteSet(Calls)
  <2>1. Day(LastMinute) \in Nat
    BY Bounds, DayMonotonic
  <2> QED
    BY <2>1, FS_Interval, InferenceAssumption DEF Days
<1>2. \A c \in Calls : call[c].at = "new" /\ paid[c] = 0 /\ usage[c] = 0
  BY DEF InferenceInit
<1>3. \A d \in Days : tokens[d] = 0
  BY DEF InferenceInit
<1>4. Sum(tokens, Days) = 0 /\ Sum(paid, Calls) = 0
  BY <1>1, <1>2, <1>3, SumOfZeros
<1> QED
  BY <1>2, <1>4 DEF LedgerInv

LEMMA ChargeLedger ==
  ASSUME InferenceTypeOK, MeteredIfLimited, LedgerInv, NEW c \in Calls, Charge(c)
  PROVE  LedgerInv'
<1>1. /\ call[c].at = "answered" /\ paid[c] = 0 /\ usage[c] # 1 /\ Moves(c)
      /\ call'[c].at \in {"charged", "raised"} /\ call'[c].used = call[c].used
      /\ call'[c].counted = call[c].counted
      /\ c \in Metered <=> Limited(c)
      /\ call[c].used \in Nat /\ UNCHANGED <<plan, usage, unread>>
  <2>1. call[c] \in CallState /\ call \in [Calls -> CallState] /\ call[c].used \in Nat
    BY CallType, Bounds
  <2>2. call[c].at = "answered" /\ paid[c] = 0 /\ usage[c] # 1 /\ UNCHANGED <<plan, usage, unread>>
    BY DEF Charge, LedgerInv, Unpaid
  <2>3. call'[c].at \in {"charged", "raised"} /\ call'[c].used = call[c].used
    BY <2>1 DEF Charge, CallState
  <2>4. c \in Metered <=> Limited(c)
    BY <2>2 DEF MeteredIfLimited, Underway
  <2> QED
    BY <2>1, <2>2, <2>3, <2>4, ServedMoves
<1>2. \A d \in Calls \ {c} : call'[d] = call[d] /\ paid'[d] = paid[d]
  BY <1>1 DEF Charge, Moves, InferenceTypeOK
<1>3. CASE UNCHANGED <<tokens, paid>>
  <2>1. call'[c].at = "charged" => ~Limited(c) \/ TokenLimit <= 0 \/ call[c].used = 0
    <3>1. call'[c].at = "charged" /\ Limited(c) /\ ~(TokenLimit <= 0) /\ call[c].used # 0 /\ ~redis
            => FALSE
      BY CallType DEF Charge, CallState
    <3>2. Limited(c) /\ ~(TokenLimit <= 0) /\ call[c].used # 0 /\ redis => FALSE
      BY <1>1, <1>3 DEF Charge, InferenceTypeOK
    <3> QED
      BY <3>1, <3>2 DEF InferenceTypeOK
  <2>2. call'[c].at = "charged" /\ c \in Metered /\ TokenLimit > 0 => paid'[c] = call'[c].used
    BY <1>1, <1>3, <2>1, Bounds
  <2>3. \A d \in Calls : d \in Metered' <=> d \in Metered
    BY <1>1, <1>2 DEF Metered
  <2> QED
    BY <1>1, <1>2, <1>3, <2>2, <2>3 DEF LedgerInv, Unpaid, Early
<1>4. CASE /\ tokens' = [tokens EXCEPT ![Day(now)] = @ + call[c].used]
           /\ paid' = [paid EXCEPT ![c] = call[c].used]
  <2>1. /\ Day(now) \in Days /\ tokens \in [Days -> Int] /\ paid \in [Calls -> Int]
        /\ IsFiniteSet(Days) /\ IsFiniteSet(Calls)
    <3>1. Day(LastMinute) \in Nat /\ tokens \in [Days -> Nat] /\ Day(now) \in Days
      BY Bounds, DayMonotonic, BudgetTypes
    <3>2. paid \in [Calls -> Int] /\ tokens \in [Days -> Int]
      BY <3>1 DEF InferenceTypeOK
    <3>3. IsFiniteSet(0..Day(LastMinute))
      BY <3>1, FS_Interval
    <3> QED
      BY <3>1, <3>2, <3>3, InferenceAssumption DEF Days
  <2>2. paid' = [paid EXCEPT ![c] = @ + call[c].used]
    <3>1. paid[c] + call[c].used = call[c].used
      BY <1>1
    <3> QED
      BY <1>4, <3>1
  <2>3. /\ Sum([tokens EXCEPT ![Day(now)] = @ + call[c].used], Days) = Sum(tokens, Days) + call[c].used
        /\ Sum([paid EXCEPT ![c] = @ + call[c].used], Calls) = Sum(paid, Calls) + call[c].used
    <3> DEFINE k == call[c].used
    <3>1. k \in Int
      BY <1>1
    <3> HIDE DEF k
    <3>2. Sum([tokens EXCEPT ![Day(now)] = @ + k], Days) = Sum(tokens, Days) + k
      BY <2>1, <3>1, SumAdds
    <3>3. Sum([paid EXCEPT ![c] = @ + k], Calls) = Sum(paid, Calls) + k
      BY <2>1, <3>1, SumAdds
    <3> QED
      BY <3>2, <3>3 DEF k
  <2>4. Sum(tokens', Days) = Sum(paid', Calls)
    BY <1>4, <2>2, <2>3 DEF LedgerInv
  <2>5. paid'[c] = call'[c].used
    BY <1>1, <1>4, <2>1
  <2>6. \A d \in Calls : d \in Metered' <=> d \in Metered
    BY <1>1, <1>2 DEF Metered
  <2> QED
    BY <1>1, <1>2, <2>4, <2>5, <2>6 DEF LedgerInv, Unpaid, Early
<1> QED
  BY <1>3, <1>4 DEF Charge

\* A step that charges and records nothing, and by which no call succeeds.
LEMMA SameLedger ==
  ASSUME LedgerInv, UNCHANGED <<tokens, paid, usage, plan>>,
         \A c \in Calls :
            \/ call'[c] = call[c] /\ (c \in unread' <=> c \in unread)
            \/ /\ call'[c].at \notin {"charged", "ok"} /\ call[c].at \notin {"ok", "raised"}
               /\ call'[c].at \in Unpaid => call[c].at \in Unpaid
  PROVE  LedgerInv'
BY DEF LedgerInv, Metered

LEMMA LedgerStep ==
  ASSUME InferenceTypeOK, MeteredIfLimited, LedgerInv, [InferenceNext]_inferenceVars
  PROVE  LedgerInv'
<1> USE DEF servers, counters, history, Moves
<1>1. ASSUME NEW c \in Calls, Dispatch(c) PROVE LedgerInv'
  BY <1>1, DispatchMoves, SameLedger DEF Dispatch, Unpaid, Early
<1>2. ASSUME NEW c \in Calls, Count(c) PROVE LedgerInv'
  BY <1>2, CountMoves, SameLedger DEF Count, Unpaid, Early
<1>3. ASSUME NEW c \in Calls, Peek(c) PROVE LedgerInv'
  BY <1>3, PeekMoves, SameLedger DEF Peek, Unpaid, Early
<1>4. ASSUME NEW c \in Calls,
             \/ Chunk(c) \/ EmbedInput(c) \/ AnswerChat(c) \/ AnswerEmbeddings(c)
             \/ ProviderFails(c) \/ SendDone(c) \/ Consume(c) \/ Leave(c)
      PROVE  LedgerInv'
  <2>1. /\ UNCHANGED <<tokens, paid, usage, plan, unread>>
        /\ call[c].at \in {"asking", "sent"}
    BY <1>4 DEF Chunk, EmbedInput, AnswerChat, AnswerEmbeddings, ProviderFails, SendDone, Consume,
                Leave
  <2>2. call'[c].at \in {"asking", "sent", "answered", "raised", "left"}
    BY <1>4, CallType
       DEF Chunk, EmbedInput, AnswerChat, AnswerEmbeddings, ProviderFails, SendDone, Consume,
           Leave, CallState
  <2> QED
    BY <1>4, <2>1, <2>2, ServedMoves, SameLedger DEF Unpaid
<1>5. ASSUME NEW c \in Calls, Charge(c) PROVE LedgerInv'
  BY <1>5, ChargeLedger
<1>6. ASSUME NEW c \in Calls, Record(c) PROVE LedgerInv'
  <2>1. call[c].at = "charged" /\ Moves(c) /\ UNCHANGED <<tokens, paid, plan>>
        /\ call'[c].counted = call[c].counted
    BY <1>6, ServedMoves DEF Record
  <2>2. /\ call'[c].used = call[c].used
        /\ \/ call'[c].at \in {"ok", "raised"} /\ usage' = [usage EXCEPT ![c] = 1]
           \/ /\ UNCHANGED usage
              /\ call'[c].at = IF plan[c].kind = "stream" THEN "ok" ELSE "raised"
    <3>1. ASSUME NEW place \in {"ok", "raised"}, call' = [call EXCEPT ![c].at = place]
          PROVE  call'[c].used = call[c].used /\ call'[c].at = place
      BY <3>1, CallType DEF CallState
    <3> QED
      BY <1>6, <3>1 DEF Record
  <2>3. usage \in [Calls -> 0..1]
    BY DEF InferenceTypeOK
  <2>4. /\ c \in Metered /\ TokenLimit > 0 => paid'[c] = call'[c].used
        /\ call'[c].at \in {"ok", "raised"}
        /\ call'[c].at = "ok" /\ plan'[c].kind # "stream" => usage'[c] = 1
    BY <2>1, <2>2, <2>3 DEF LedgerInv
  <2>5. \A d \in Calls \ {c} : call'[d] = call[d] /\ usage'[d] = usage[d]
    BY <2>1, <2>2, <2>3
  <2>6. \A d \in Calls : d \in Metered' <=> d \in Metered
    BY <1>6, <2>1, <2>5 DEF Record, Metered
  <2> QED
    BY <2>1, <2>4, <2>5, <2>6 DEF LedgerInv, Unpaid, Early
<1>7. ASSUME NEW p \in Gateways, InitState(p) PROVE LedgerInv'
  <2>1. \A c \in Calls : call'[c] = call[c] \/ (call'[c].at = "killed" /\ call[c].at \in Underway)
    BY <1>7, CallType DEF InitState, Underway, CallState
  <2> QED
    BY <1>7, <2>1, SameLedger DEF InitState, Unpaid, Early, Underway
<1>8. CASE RedisStops \/ RedisReturns \/ Tick
  BY <1>8, SameLedger DEF RedisStops, RedisReturns, Tick
<1>9. CASE UNCHANGED inferenceVars
  BY <1>9, SameLedger DEF inferenceVars
<1> QED
  BY <1>1, <1>2, <1>3, <1>4, <1>5, <1>6, <1>7, <1>8, <1>9 DEF InferenceNext, Handler

\* Whatever fails between the charge and the row, the counters hold exactly what
\* the calls were charged; a call that succeeds, or has a row, was charged what it
\* used where there is a budget, one that is refused or broken off nothing, and
\* one that succeeds without being streamed has its row.  A streamed one need not
\* have a row: that is EveryCallIsRecorded, which does not hold (LedgerAgrees).
THEOREM LedgerKept == InferenceSpec => []LedgerAgrees
<1>1. QuotaInv /\ LedgerInv => LedgerAgrees
  <2> SUFFICES ASSUME QuotaInv, LedgerInv PROVE LedgerAgrees
    OBVIOUS
  <2>1. \A c \in Calls : usage[c] \in 0..1
    BY DEF QuotaInv, InferenceTypeOK
  <2> QED
    BY <2>1 DEF LedgerInv, LedgerAgrees, Unpaid
<1>2. InferenceInit => LedgerInv
  BY LedgerInit
<1>3. QuotaInv /\ LedgerInv /\ [InferenceNext]_inferenceVars => LedgerInv'
  BY LedgerStep DEF QuotaInv
<1> QED
  BY <1>1, <1>2, <1>3, QuotaInductive, PTL DEF InferenceSpec
=============================================================================
