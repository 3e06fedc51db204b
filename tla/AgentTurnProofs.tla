-------------------------- MODULE AgentTurnProofs --------------------------
(***************************************************************************)
(* Theorems about AgentTurn for any number of turns, tools, iterations and *)
(* calls, whatever the registry, the policy and the memory do.             *)
(***************************************************************************)
EXTENDS AgentTurn, SequenceTheorems, FiniteSetTheorems, TLAPS

\* A request to the registry stands for the first call left, announced by
\* the last event; a turn that waits for the registry has one.
WireInv ==
  \A t \in Turns :
     /\ pc[t] = "invoking" => wire[t] # "idle"
     /\ wire[t] # "idle" =>
          /\ pc[t] \in {"invoking", "failed", "stopped"}
          /\ calls[t] # <<>>
          /\ Len(events[t]) > 0
          /\ events[t][Len(events[t])].kind = "tool_call"

LEMMA InitType == Init => TypeOK
BY ConstantsAssumption DEF Init, TypeOK, Live, Ended

LEMMA PushedType ==
  ASSUME TypeOK, NEW m \in Message
  PROVE  Pushed(m) \in Seq(Message)
<1>1. Append(stm, m) \in Seq(Message)
  BY DEF TypeOK
<1>2. ASSUME Len(Append(stm, m)) > StmCap
      PROVE  Tail(Append(stm, m)) \in Seq(Message)
  <2>1. Append(stm, m) # <<>>
    BY <1>1, <1>2, ConstantsAssumption
  <2> QED
    BY <1>1, <2>1
<1> QED
  BY <1>1, <1>2 DEF Pushed

LEMMA SavedType ==
  ASSUME TypeOK, NEW t \in Turns
  PROVE  Saved(t) \in Seq(Row)
<1>1. events[t] \in Seq(Row)
  BY DEF TypeOK, Row
<1>2. ASSUME Len(events[t]) > 0
      PROVE  SubSeq(events[t], 1, Len(events[t]) - 1) \in Seq(Row)
  BY <1>1, <1>2
<1> QED
  BY <1>1, <1>2 DEF Saved

LEMMA EvType ==
  ASSUME NEW k \in {"tool_call", "tool_result"} \cup Terminal,
         NEW n \in Nat, NEW b \in BOOLEAN
  PROVE  Ev(k, n, b) \in Event
BY DEF Ev, Event

LEMMA EventCount ==
  ASSUME TypeOK, NEW t \in Turns
  PROVE  Len(events[t]) \in Nat /\ Len(events[t]) + 1 \in Nat
BY DEF TypeOK

LEMMA YieldType ==
  ASSUME TypeOK, NEW t \in Turns, NEW e \in Event, Yield(t, e)
  PROVE  events' \in [Turns -> Seq(Event)]
BY DEF TypeOK, Yield

LEMMA TypeStep ==
  ASSUME TypeOK, WireInv, [Next]_vars
  PROVE  TypeOK'
<1> USE DEF TypeOK, Goto, Live, Ended
<1>1. ASSUME NEW t \in Turns, Reject(t) PROVE TypeOK'
  BY <1>1 DEF Reject
<1>2. ASSUME NEW t \in Turns, ReadShortTerm(t) PROVE TypeOK'
  <2>1. {stm[i] : i \in DOMAIN stm} \subseteq Message
    OBVIOUS
  <2> QED
    BY <1>2, <2>1 DEF ReadShortTerm
<1>3. ASSUME NEW t \in Turns, SaveUser(t) PROVE TypeOK'
  <2>1. DbHistory \subseteq Message
    BY DEF DbHistory
  <2>2. UserRow \in Row
    BY DEF UserRow, Row
  <2> QED
    BY <1>3, <2>1, <2>2 DEF SaveUser
<1>4. ASSUME NEW t \in Turns, RememberUser(t) PROVE TypeOK'
  <2>1. <<t, "user">> \in Message
    BY DEF Message
  <2>2. Pushed(<<t, "user">>) \in Seq(Message)
    BY <2>1, PushedType
  <2> QED
    BY <1>4, <2>2 DEF RememberUser, Remember
<1>5. ASSUME NEW t \in Turns, Prepare(t) PROVE TypeOK'
  BY <1>5, ConstantsAssumption DEF Prepare
<1>6. ASSUME NEW t \in Turns, PrepareFails(t) PROVE TypeOK'
  BY <1>6 DEF PrepareFails
<1>7. ASSUME NEW t \in Turns, ModelEnds(t) PROVE TypeOK'
  <2>1. PICK k \in Terminal : Yield(t, Ev(k, 0, k # "error"))
    BY <1>7 DEF ModelEnds
  <2>2. Ev(k, 0, k # "error") \in Event
    BY EvType
  <2>3. events' \in [Turns -> Seq(Event)]
    BY <2>1, <2>2, YieldType
  <2>4. iter' \in [Turns -> 0..MaxIterations]
    BY <1>7, ConstantsAssumption DEF ModelEnds
  <2> QED
    BY <1>7, <2>3, <2>4 DEF ModelEnds
<1>8. ASSUME NEW t \in Turns, ModelCalls(t) PROVE TypeOK'
  <2>1. AskedCalls \subseteq Seq(Names)
    BY ConstantsAssumption DEF AskedCalls
  <2>2. iter' \in [Turns -> 0..MaxIterations]
    BY <1>8, ConstantsAssumption DEF ModelCalls
  <2> QED
    BY <1>8, <2>1, <2>2 DEF ModelCalls
<1>9. ASSUME NEW t \in Turns, OutOfIterations(t) PROVE TypeOK'
  <2>1. Ev("error", 0, FALSE) \in Event
    BY EvType DEF Terminal
  <2>2. events' \in [Turns -> Seq(Event)]
    BY <1>9, <2>1, YieldType DEF OutOfIterations
  <2> QED
    BY <1>9, <2>2 DEF OutOfIterations
<1>10. ASSUME NEW t \in Turns, AllowCall(t) PROVE TypeOK'
  <2>1. Ev("tool_call", Len(events[t]) + 1, TRUE) \in Event
    BY EvType, EventCount
  <2>2. events' \in [Turns -> Seq(Event)]
    BY <1>10, <2>1, YieldType DEF AllowCall
  <2> QED
    BY <1>10, <2>2 DEF AllowCall
<1>11. ASSUME NEW t \in Turns, DenyCall(t) PROVE TypeOK'
  <2> DEFINE n == Len(events[t]) + 1
  <2>1. /\ Ev("tool_call", n, TRUE) \in Event
        /\ Ev("tool_result", n, FALSE) \in Event
    BY EvType, EventCount
  <2>2. Tail(calls[t]) \in Seq(Names)
    BY <1>11 DEF DenyCall
  <2>3. ASSUME NEW a \in Event, NEW b \in Event
        PROVE  events[t] \o <<a, b>> \in Seq(Event)
    OBVIOUS
  <2>4. events' = [events EXCEPT ![t] = @ \o <<Ev("tool_call", n, TRUE),
                                             Ev("tool_result", n, FALSE)>>]
    BY <1>11 DEF DenyCall
  <2>5. events' \in [Turns -> Seq(Event)]
    <3> HIDE DEF n
    <3> QED
      BY <2>1, <2>3, <2>4
  <2> QED
    BY <1>11, <2>2, <2>5 DEF DenyCall
<1>12. ASSUME NEW t \in Turns, ToolAnswer(t) PROVE TypeOK'
  <2>1. Ev("tool_result", Len(events[t]), wire[t] = "ok") \in Event
    BY EvType, EventCount
  <2>2. Tail(calls[t]) \in Seq(Names)
    BY <1>12 DEF ToolAnswer, WireInv
  <2>3. events' \in [Turns -> Seq(Event)]
    BY <1>12, <2>1, YieldType DEF ToolAnswer
  <2> QED
    BY <1>12, <2>2, <2>3 DEF ToolAnswer
<1>13. ASSUME NEW t \in Turns, LoseAnswer(t) PROVE TypeOK'
  BY <1>13 DEF LoseAnswer
<1>14. ASSUME NEW t \in Turns, RememberAnswer(t) PROVE TypeOK'
  <2>1. <<t, "assistant">> \in Message
    BY DEF Message
  <2>2. Pushed(<<t, "assistant">>) \in Seq(Message)
    BY <2>1, PushedType
  <2> QED
    BY <1>14, <2>2 DEF RememberAnswer, Remember
<1>15. ASSUME NEW t \in Turns, CommitTurn(t) PROVE TypeOK'
  BY <1>15, SavedType DEF CommitTurn
<1>16. ASSUME NEW t \in Turns, Interrupt(t) PROVE TypeOK'
  BY <1>16 DEF Interrupt
<1>17. ASSUME NEW t \in Turns, RunTool(t) PROVE TypeOK'
  <2>1. PICK d \in Resolve(Head(calls[t])) :
           ran' = ran \cup {[turn |-> t, call |-> Len(events[t]), tool |-> d]}
    BY <1>17 DEF RunTool
  <2>2. d \in Tools
    BY DEF Resolve
  <2>3. ran' \subseteq Run
    BY <2>1, <2>2 DEF Run
  <2> QED
    BY <1>17, <2>3 DEF RunTool
<1>18. ASSUME NEW t \in Turns, RefuseTool(t) PROVE TypeOK'
  BY <1>18 DEF RefuseTool
<1>19. ASSUME NEW d \in Tools, CreateTool(d) \/ UpdateTool(d) \/ DeleteTool(d)
       PROVE TypeOK'
  BY <1>19 DEF CreateTool, UpdateTool, DeleteTool, turnVars
<1>20. CASE Expire
  BY <1>20 DEF Expire, turnVars
<1>21. CASE UNCHANGED vars
  BY <1>21 DEF vars, turnVars
<1> QED
  BY <1>1, <1>2, <1>3, <1>4, <1>5, <1>6, <1>7, <1>8, <1>9, <1>10, <1>11, <1>12,
     <1>13, <1>14, <1>15, <1>16, <1>17, <1>18, <1>19, <1>20, <1>21
  DEF Next, Serve

-----------------------------------------------------------------------------
(* The shape of a turn's events.                                           *)

\* In the events s of a turn at p, calls and results alternate by position,
\* only the call that waits for its result is last, and a terminal event ends
\* the sequence.
Paired(s, p) ==
  \A i \in 1..Len(s) :
     /\ s[i].kind = "tool_call" =>
           /\ s[i].n = i
           /\ i < Len(s) => s[i + 1].kind = "tool_result" /\ s[i + 1].n = i
           /\ i = Len(s) => p \in {"invoking", "failed", "stopped"}
     /\ s[i].kind = "tool_result" =>
           i > 1 /\ s[i - 1].kind = "tool_call" /\ s[i].n = i - 1
     /\ s[i].kind \in Terminal =>
           i = Len(s) /\ p \in {"remembering", "committing", "done", "stopped"}

PairInv == \A t \in Turns : Paired(events[t], pc[t])

\* Events begin after the turn is prepared; what is persisted has an end.
StageInv ==
  \A t \in Turns :
     /\ pc[t] \in {"new", "rejected", "loaded", "saved", "preparing"} =>
           events[t] = <<>>
     /\ pc[t] \in {"remembering", "committing", "done"} =>
           /\ Len(events[t]) > 0
           /\ events[t][Len(events[t])].kind \in Terminal

LEMMA AppendFacts ==
  ASSUME NEW s \in Seq(Event), NEW e \in Event
  PROVE  /\ Append(s, e) \in Seq(Event)
         /\ Len(Append(s, e)) = Len(s) + 1
         /\ Append(s, e)[Len(s) + 1] = e
         /\ \A i \in 1..Len(s) : Append(s, e)[i] = s[i]
OBVIOUS

LEMMA PairedCall ==
  ASSUME NEW s \in Seq(Event), Paired(s, "thinking")
  PROVE  Paired(Append(s, Ev("tool_call", Len(s) + 1, TRUE)), "invoking")
<1> DEFINE e == Ev("tool_call", Len(s) + 1, TRUE)
           z == Append(s, e)
<1>0. e \in Event
  BY EvType, Len(s) + 1 \in Nat
<1>1. /\ Len(z) = Len(s) + 1
      /\ z[Len(s) + 1] = e
      /\ \A i \in 1..Len(s) : z[i] = s[i]
  BY <1>0, AppendFacts
<1>2. e.kind = "tool_call" /\ e.n = Len(s) + 1
  BY DEF Ev
<1> QED
  <2> HIDE DEF z, e
  <2> SUFFICES Paired(z, "invoking")
    BY DEF z, e
  <2> QED
    BY <1>1, <1>2 DEF Paired, Terminal

LEMMA PairedResult ==
  ASSUME NEW s \in Seq(Event), NEW b \in BOOLEAN, Paired(s, "invoking"),
         Len(s) > 0, s[Len(s)].kind = "tool_call"
  PROVE  Paired(Append(s, Ev("tool_result", Len(s), b)), "thinking")
<1> DEFINE e == Ev("tool_result", Len(s), b)
           z == Append(s, e)
<1>0. e \in Event
  BY EvType, Len(s) + 1 \in Nat
<1>1. /\ Len(z) = Len(s) + 1
      /\ z[Len(s) + 1] = e
      /\ \A i \in 1..Len(s) : z[i] = s[i]
  BY <1>0, AppendFacts
<1>2. e.kind = "tool_result" /\ e.n = Len(s)
  BY DEF Ev
<1> QED
  <2> HIDE DEF z, e
  <2> SUFFICES Paired(z, "thinking")
    BY DEF z, e
  <2> QED
    BY <1>1, <1>2 DEF Paired, Terminal

LEMMA PairedEnd ==
  ASSUME NEW s \in Seq(Event), NEW b \in BOOLEAN, NEW k \in Terminal, Paired(s, "thinking")
  PROVE  Paired(Append(s, Ev(k, 0, b)), "remembering")
<1> DEFINE e == Ev(k, 0, b)
           z == Append(s, e)
<1>0. e \in Event
  BY EvType, Len(s) + 1 \in Nat
<1>1. /\ Len(z) = Len(s) + 1
      /\ z[Len(s) + 1] = e
      /\ \A i \in 1..Len(s) : z[i] = s[i]
  BY <1>0, AppendFacts
<1>2. e.kind = k
  BY DEF Ev
<1> QED
  <2> HIDE DEF z, e
  <2> SUFFICES Paired(z, "remembering")
    BY DEF z, e
  <2> QED
    BY <1>1, <1>2 DEF Paired, Terminal

\* A denied call yields its call and its result in one step.
LEMMA PairedDenied ==
  ASSUME NEW s \in Seq(Event), Paired(s, "thinking")
  PROVE  Paired(s \o <<Ev("tool_call", Len(s) + 1, TRUE),
                       Ev("tool_result", Len(s) + 1, FALSE)>>, "thinking")
<1> DEFINE a == Ev("tool_call", Len(s) + 1, TRUE)
           b == Ev("tool_result", Len(s) + 1, FALSE)
           z == Append(s, a)
<1>1. a \in Event /\ a.kind = "tool_call"
  BY DEF Ev, Event
<1>2. z \in Seq(Event) /\ Len(z) = Len(s) + 1 /\ z[Len(z)] = a
  <2> HIDE DEF a
  <2> QED
    BY <1>1, AppendFacts
<1>3. Paired(z, "invoking")
  BY PairedCall
<1>4. Paired(Append(z, Ev("tool_result", Len(z), FALSE)), "thinking")
  <2> HIDE DEF z, a
  <2> QED
    BY <1>1, <1>2, <1>3, PairedResult, Len(z) > 0, z[Len(z)].kind = "tool_call"
<1>5. Append(z, b) = s \o <<a, b>>
  <2> HIDE DEF a, b
  <2> QED
    OBVIOUS
<1> QED
  BY <1>2, <1>4, <1>5

\* A turn that moves on without an event keeps its pairing.
LEMMA PairedMove ==
  ASSUME NEW s, NEW p, NEW q, Paired(s, p),
         \/ q = "stopped"
         \/ q = "failed" /\ p = "invoking"
         \/ q = "committing" /\ p = "remembering"
         \/ q = "done" /\ p = "committing"
         \/ s = <<>>
  PROVE  Paired(s, q)
BY DEF Paired, Terminal
LEMMA PairStep ==
  ASSUME TypeOK, WireInv, StageInv, PairInv, [Next]_vars
  PROVE  PairInv'
<1>1. ASSUME NEW t \in Turns, NEW e, NEW q,
             pc' = [pc EXCEPT ![t] = q], Yield(t, e),
             Paired(Append(events[t], e), q)
      PROVE  PairInv'
  BY <1>1 DEF PairInv, Yield, TypeOK
<1>2. ASSUME NEW t \in Turns, NEW q, pc' = [pc EXCEPT ![t] = q], UNCHANGED events,
             Paired(events[t], q)
      PROVE  PairInv'
  BY <1>2 DEF PairInv, TypeOK
<1>3. ASSUME UNCHANGED <<pc, events>> PROVE PairInv'
  BY <1>3 DEF PairInv
<1>4. ASSUME NEW t \in Turns,
             \/ Reject(t) \/ ReadShortTerm(t) \/ SaveUser(t) \/ RememberUser(t)
             \/ Prepare(t) \/ PrepareFails(t)
      PROVE  PairInv'
  <2>1. events[t] = <<>> /\ UNCHANGED events
    BY <1>4 DEF StageInv, Goto, Reject, ReadShortTerm, SaveUser, RememberUser,
                Prepare, PrepareFails
  <2>2. PICK q : pc' = [pc EXCEPT ![t] = q]
    BY <1>4 DEF Goto, Reject, ReadShortTerm, SaveUser, RememberUser, Prepare,
                PrepareFails
  <2>3. Paired(events[t], q)
    BY <2>1, PairedMove DEF PairInv
  <2> QED
    BY <1>2, <2>1, <2>2, <2>3
<1>5. ASSUME NEW t \in Turns, ModelEnds(t) \/ OutOfIterations(t) PROVE PairInv'
  <2>1. PICK k \in Terminal, b \in BOOLEAN : Yield(t, Ev(k, 0, b))
    BY <1>5 DEF ModelEnds, OutOfIterations, Terminal
  <2>2. Paired(events[t], "thinking")
    BY <1>5 DEF PairInv, ModelEnds, OutOfIterations, Goto
  <2>3. Paired(Append(events[t], Ev(k, 0, b)), "remembering")
    BY <2>2, PairedEnd DEF TypeOK
  <2> QED
    BY <1>1, <1>5, <2>1, <2>3 DEF ModelEnds, OutOfIterations, Goto
<1>6. ASSUME NEW t \in Turns, AllowCall(t) PROVE PairInv'
  <2>1. Paired(events[t], "thinking")
    BY <1>6 DEF PairInv, AllowCall, Goto
  <2>2. Paired(Append(events[t], Ev("tool_call", Len(events[t]) + 1, TRUE)), "invoking")
    BY <2>1, PairedCall DEF TypeOK
  <2> QED
    BY <1>1, <1>6, <2>2 DEF AllowCall, Goto
<1>7. ASSUME NEW t \in Turns, DenyCall(t) PROVE PairInv'
  <2>1. Paired(events[t], "thinking") /\ pc[t] = "thinking"
    BY <1>7 DEF PairInv, DenyCall
  <2> DEFINE n == Len(events[t]) + 1
             z == events[t] \o <<Ev("tool_call", n, TRUE), Ev("tool_result", n, FALSE)>>
  <2>2. Paired(z, "thinking")
    BY <2>1, PairedDenied DEF TypeOK
  <2>3. events' = [events EXCEPT ![t] = z] /\ UNCHANGED pc
    BY <1>7 DEF DenyCall
  <2> HIDE DEF z
  <2> QED
    BY <2>1, <2>2, <2>3 DEF PairInv, TypeOK
<1>8. ASSUME NEW t \in Turns, ToolAnswer(t) PROVE PairInv'
  <2>1. /\ Paired(events[t], "invoking")
        /\ Len(events[t]) > 0
        /\ events[t][Len(events[t])].kind = "tool_call"
    BY <1>8 DEF PairInv, WireInv, ToolAnswer, Goto
  <2>2. Paired(Append(events[t], Ev("tool_result", Len(events[t]), wire[t] = "ok")),
               "thinking")
    BY <2>1, PairedResult DEF TypeOK
  <2> QED
    BY <1>1, <1>8, <2>2 DEF ToolAnswer, Goto
<1>9. ASSUME NEW t \in Turns,
             LoseAnswer(t) \/ RememberAnswer(t) \/ CommitTurn(t) \/ Interrupt(t)
      PROVE  PairInv'
  <2>1. Paired(events[t], pc[t])
    BY DEF PairInv
  <2>2. CASE LoseAnswer(t)
    BY <1>2, <2>1, <2>2, PairedMove DEF LoseAnswer, Goto
  <2>3. CASE RememberAnswer(t)
    BY <1>2, <2>1, <2>3, PairedMove DEF RememberAnswer, Goto
  <2>4. CASE CommitTurn(t)
    BY <1>2, <2>1, <2>4, PairedMove DEF CommitTurn, Goto
  <2>5. CASE Interrupt(t)
    BY <1>2, <2>1, <2>5, PairedMove DEF Interrupt
  <2> QED
    BY <1>9, <2>2, <2>3, <2>4, <2>5
<1>10. ASSUME NEW t \in Turns, ModelCalls(t) \/ RunTool(t) \/ RefuseTool(t)
       PROVE  PairInv'
  BY <1>3, <1>10 DEF ModelCalls, RunTool, RefuseTool
<1>11. ASSUME NEW d \in Tools, CreateTool(d) \/ UpdateTool(d) \/ DeleteTool(d)
       PROVE  PairInv'
  BY <1>3, <1>11 DEF CreateTool, UpdateTool, DeleteTool, turnVars
<1>12. CASE Expire \/ UNCHANGED vars
  BY <1>3, <1>12 DEF Expire, vars, turnVars
<1> QED
  BY <1>4, <1>5, <1>6, <1>7, <1>8, <1>9, <1>10, <1>11, <1>12 DEF Next, Serve

\* Steps that leave a turn's loop alone.
LEMMA OtherSteps ==
  ASSUME [Next]_vars
  PROVE  \/ \E t \in Turns :
               \/ Reject(t) \/ ReadShortTerm(t) \/ Serve(t) \/ Interrupt(t)
               \/ RunTool(t) \/ RefuseTool(t)
         \/ UNCHANGED <<turnVars, ran, rows>>
BY DEF Next, CreateTool, UpdateTool, DeleteTool, Expire, vars

LEMMA WireStep ==
  ASSUME TypeOK, WireInv, [Next]_vars
  PROVE  WireInv'
<1> USE DEF TypeOK, Goto, WireInv
<1>1. ASSUME NEW t \in Turns,
             \/ Reject(t) \/ ReadShortTerm(t) \/ SaveUser(t) \/ RememberUser(t)
             \/ Prepare(t) \/ PrepareFails(t)
      PROVE  WireInv'
  BY <1>1 DEF Reject, ReadShortTerm, SaveUser, RememberUser, Prepare, PrepareFails
<1>2. ASSUME NEW t \in Turns,
             \/ ModelEnds(t) \/ ModelCalls(t) \/ OutOfIterations(t) \/ DenyCall(t)
             \/ RememberAnswer(t) \/ CommitTurn(t)
      PROVE  WireInv'
  <2>1. wire[t] = "idle" /\ wire' = wire /\ pc'[t] # "invoking"
    BY <1>2 DEF ModelEnds, ModelCalls, OutOfIterations, DenyCall, RememberAnswer, CommitTurn
  <2>2. \A u \in Turns \ {t} :
           pc'[u] = pc[u] /\ calls'[u] = calls[u] /\ events'[u] = events[u]
    BY <1>2 DEF ModelEnds, ModelCalls, OutOfIterations, DenyCall, RememberAnswer,
                CommitTurn, Yield
  <2> QED
    BY <2>1, <2>2
<1>3. ASSUME NEW t \in Turns, AllowCall(t) PROVE WireInv'
  <2>1. Ev("tool_call", Len(events[t]) + 1, TRUE) \in Event
    BY EvType, EventCount
  <2>2. /\ Len(events'[t]) > 0
        /\ events'[t][Len(events'[t])].kind = "tool_call"
    BY <1>3, <2>1, AppendFacts DEF AllowCall, Yield, Ev
  <2>3. /\ pc'[t] = "invoking" /\ wire'[t] = "sent" /\ calls'[t] # <<>>
        /\ \A u \in Turns \ {t} : /\ pc'[u] = pc[u] /\ wire'[u] = wire[u]
                                 /\ calls'[u] = calls[u] /\ events'[u] = events[u]
    BY <1>3 DEF AllowCall, Yield
  <2> SUFFICES ASSUME NEW u \in Turns
               PROVE  /\ pc'[u] = "invoking" => wire'[u] # "idle"
                      /\ wire'[u] # "idle" =>
                           /\ pc'[u] \in {"invoking", "failed", "stopped"}
                           /\ calls'[u] # <<>>
                           /\ Len(events'[u]) > 0
                           /\ events'[u][Len(events'[u])].kind = "tool_call"
    OBVIOUS
  <2>4. CASE u = t
    BY <2>2, <2>3, <2>4
  <2>5. CASE u # t
    BY <2>3, <2>5
  <2> QED
    BY <2>4, <2>5
<1>4. ASSUME NEW t \in Turns, ToolAnswer(t) PROVE WireInv'
  BY <1>4 DEF ToolAnswer, Yield
<1>5. ASSUME NEW t \in Turns, LoseAnswer(t) \/ Interrupt(t) PROVE WireInv'
  BY <1>5 DEF LoseAnswer, Interrupt, Live
<1>6. ASSUME NEW t \in Turns, RunTool(t) \/ RefuseTool(t) PROVE WireInv'
  BY <1>6 DEF RunTool, RefuseTool
<1>7. CASE UNCHANGED <<turnVars, ran, rows>>
  BY <1>7 DEF turnVars
<1> QED
  BY <1>1, <1>2, <1>3, <1>4, <1>5, <1>6, <1>7, OtherSteps DEF Serve

LEMMA StageStep ==
  ASSUME TypeOK, WireInv, StageInv, [Next]_vars
  PROVE  StageInv'
<1> USE DEF TypeOK, Goto, StageInv
<1>1. ASSUME NEW t \in Turns,
             \/ Reject(t) \/ ReadShortTerm(t) \/ SaveUser(t) \/ RememberUser(t)
             \/ Prepare(t) \/ PrepareFails(t) \/ LoseAnswer(t) \/ Interrupt(t)
             \/ RememberAnswer(t) \/ CommitTurn(t)
      PROVE  StageInv'
  BY <1>1 DEF Reject, ReadShortTerm, SaveUser, RememberUser, Prepare, PrepareFails,
              LoseAnswer, Interrupt, RememberAnswer, CommitTurn
<1>2. ASSUME NEW t \in Turns, ModelEnds(t) \/ OutOfIterations(t) PROVE StageInv'
  <2>1. PICK k \in Terminal, b \in BOOLEAN : Yield(t, Ev(k, 0, b))
    BY <1>2 DEF ModelEnds, OutOfIterations, Terminal
  <2>2. Ev(k, 0, b) \in Event /\ Ev(k, 0, b).kind = k
    BY EvType DEF Ev
  <2>3. /\ Len(events'[t]) > 0
        /\ events'[t][Len(events'[t])].kind \in Terminal
    BY <2>1, <2>2, AppendFacts DEF Yield
  <2>4. /\ pc'[t] = "remembering"
        /\ \A u \in Turns \ {t} : pc'[u] = pc[u] /\ events'[u] = events[u]
    BY <1>2, <2>1 DEF ModelEnds, OutOfIterations, Yield
  <2> QED
    BY <2>3, <2>4
<1>3. ASSUME NEW t \in Turns,
             \/ ModelCalls(t) \/ AllowCall(t) \/ DenyCall(t) \/ ToolAnswer(t)
      PROVE  StageInv'
  <2>1. /\ pc'[t] \in {"thinking", "invoking"}
        /\ \A u \in Turns \ {t} : pc'[u] = pc[u] /\ events'[u] = events[u]
    BY <1>3 DEF ModelCalls, AllowCall, DenyCall, ToolAnswer, Yield
  <2> QED
    BY <2>1
<1>4. ASSUME NEW t \in Turns, RunTool(t) \/ RefuseTool(t) PROVE StageInv'
  BY <1>4 DEF RunTool, RefuseTool
<1>5. CASE UNCHANGED <<turnVars, ran, rows>>
  BY <1>5 DEF turnVars
<1> QED
  BY <1>1, <1>2, <1>3, <1>4, <1>5, OtherSteps DEF Serve

LEMMA RowsStep ==
  ASSUME TypeOK, TurnRowsAllOrNothing, [Next]_vars
  PROVE  TurnRowsAllOrNothing'
<1> USE DEF TypeOK, Goto, TurnRowsAllOrNothing
<1>1. ASSUME NEW t \in Turns, NEW q, pc' = [pc EXCEPT ![t] = q],
             UNCHANGED <<events, rows>>,
             \/ pc[t] = "new" /\ q \in {"rejected", "loaded"}
             \/ /\ pc[t] \in {"saved", "preparing", "thinking", "invoking", "remembering"}
                /\ q \in {"preparing", "thinking", "failed", "committing"}
             \/ pc[t] \in Live /\ q = "stopped"
      PROVE  TurnRowsAllOrNothing'
  <2>1. \A u \in Turns : Saved(u)' = Saved(u)
    BY <1>1 DEF Saved
  <2>2. \A u \in Turns \ {t} : rows'[u] = rows[u] /\ pc'[u] = pc[u]
    BY <1>1
  <2>3. rows'[t] = rows[t] /\ pc'[t] = q
    BY <1>1
  <2>4. CASE pc[t] = "new"
    BY <1>1, <2>1, <2>2, <2>3, <2>4
  <2>5. CASE pc[t] \in {"saved", "preparing", "thinking", "invoking", "remembering"}
    BY <1>1, <2>1, <2>2, <2>3, <2>5
  <2>6. CASE pc[t] \in Live /\ q = "stopped"
    <3>1. rows[t] \in {<<>>, <<UserRow>>}
      BY <2>6 DEF Live
    <3> QED
      BY <2>1, <2>2, <2>3, <2>6, <3>1
  <2> QED
    BY <1>1, <2>4, <2>5, <2>6
<1>2. ASSUME NEW t \in Turns, SaveUser(t) PROVE TurnRowsAllOrNothing'
  <2>1. \A u \in Turns : Saved(u)' = Saved(u)
    BY <1>2 DEF Saved, SaveUser
  <2>2. rows[t] = <<>>
    BY <1>2 DEF SaveUser
  <2>3. rows'[t] = <<UserRow>> /\ pc'[t] = "saved"
    BY <1>2, <2>2 DEF SaveUser
  <2>4. \A u \in Turns \ {t} : rows'[u] = rows[u] /\ pc'[u] = pc[u]
    BY <1>2 DEF SaveUser
  <2> QED
    BY <2>1, <2>3, <2>4
<1>7. ASSUME NEW t \in Turns,
             \/ Reject(t) \/ ReadShortTerm(t) \/ RememberUser(t)
             \/ Prepare(t) \/ PrepareFails(t) \/ LoseAnswer(t) \/ Interrupt(t)
             \/ RememberAnswer(t)
      PROVE  TurnRowsAllOrNothing'
  BY <1>1, <1>7 DEF Reject, ReadShortTerm, RememberUser, Prepare, PrepareFails,
                    LoseAnswer, Interrupt, RememberAnswer
<1>3. ASSUME NEW t \in Turns, CommitTurn(t) PROVE TurnRowsAllOrNothing'
  <2>1. \A u \in Turns : Saved(u)' = Saved(u)
    BY <1>3 DEF Saved, CommitTurn
  <2> QED
    BY <1>3, <2>1 DEF CommitTurn
<1>4. ASSUME NEW t \in Turns,
             \/ ModelEnds(t) \/ ModelCalls(t) \/ OutOfIterations(t)
             \/ AllowCall(t) \/ DenyCall(t) \/ ToolAnswer(t)
      PROVE  TurnRowsAllOrNothing'
  <2>1. /\ UNCHANGED rows
        /\ pc[t] \in {"thinking", "invoking"}
        /\ pc'[t] \in {"thinking", "invoking", "remembering"}
        /\ \A u \in Turns \ {t} : pc'[u] = pc[u] /\ events'[u] = events[u]
    BY <1>4 DEF ModelEnds, ModelCalls, OutOfIterations, AllowCall, DenyCall,
                ToolAnswer, Yield
  <2>2. \A u \in Turns \ {t} : Saved(u)' = Saved(u)
    BY <2>1 DEF Saved
  <2> QED
    BY <2>1, <2>2
<1>5. ASSUME NEW t \in Turns, RunTool(t) \/ RefuseTool(t) PROVE TurnRowsAllOrNothing'
  BY <1>5 DEF RunTool, RefuseTool, Saved
<1>6. CASE UNCHANGED <<turnVars, ran, rows>>
  BY <1>6 DEF turnVars, Saved
<1> QED
  BY <1>2, <1>3, <1>4, <1>5, <1>6, <1>7, OtherSteps DEF Serve

-----------------------------------------------------------------------------
(* Executions of tools.                                                    *)

\* Executions belong to calls already announced; the call now on the wire has
\* not run yet, and was let through by a bound descriptor of its name.
RunInv ==
  /\ \A r \in ran :
        /\ r.call \in 1..Len(events[r.turn])
        /\ events[r.turn][r.call].kind = "tool_call"
        /\ wire[r.turn] = "sent" => r.call # Len(events[r.turn])
  /\ ~FailOpen => \A t \in Turns : wire[t] # "idle" =>
        \E d \in snapshot[t] \cap Bound : NameOf[d] = Head(calls[t])

\* Events are never rewritten, so a call keeps its place.
LEMMA EventsGrow ==
  ASSUME TypeOK, WireInv, [Next]_vars, NEW t \in Turns
  PROVE  /\ Len(events[t]) <= Len(events'[t])
         /\ \A i \in 1..Len(events[t]) : events'[t][i] = events[t][i]
<1> USE DEF TypeOK
<1>1. ASSUME NEW u \in Turns, NEW e \in Event, Yield(u, e)
      PROVE  /\ Len(events[t]) <= Len(events'[t])
             /\ \A i \in 1..Len(events[t]) : events'[t][i] = events[t][i]
  <2>1. CASE u = t
    <3>1. events'[t] = Append(events[t], e)
      BY <1>1, <2>1 DEF Yield
    <3> QED
      BY <3>1, AppendFacts
  <2>2. CASE u # t
    BY <1>1, <2>2 DEF Yield
  <2> QED
    BY <2>1, <2>2
<1>2. CASE UNCHANGED events
  BY <1>2
<1>3. ASSUME NEW u \in Turns, ModelEnds(u) \/ OutOfIterations(u) \/ AllowCall(u)
      PROVE  \E e \in Event : Yield(u, e)
  <2>1. CASE ModelEnds(u)
    <3>1. PICK k \in Terminal : Yield(u, Ev(k, 0, k # "error"))
      BY <2>1 DEF ModelEnds
    <3> QED
      BY <3>1, EvType
  <2>2. CASE OutOfIterations(u)
    <3>1. Ev("error", 0, FALSE) \in Event
      BY EvType DEF Terminal
    <3> QED
      BY <2>2, <3>1 DEF OutOfIterations
  <2>3. CASE AllowCall(u)
    <3>1. Ev("tool_call", Len(events[u]) + 1, TRUE) \in Event
      BY EvType, EventCount
    <3> QED
      BY <2>3, <3>1 DEF AllowCall
  <2> QED
    BY <1>3, <2>1, <2>2, <2>3
<1>4. ASSUME NEW u \in Turns, ToolAnswer(u)
      PROVE  \E e \in Event : Yield(u, e)
  <2>1. Ev("tool_result", Len(events[u]), wire[u] = "ok") \in Event
    BY EvType, EventCount
  <2> QED
    BY <1>4, <2>1 DEF ToolAnswer
<1>5. ASSUME NEW u \in Turns, DenyCall(u)
      PROVE  /\ Len(events[t]) <= Len(events'[t])
             /\ \A i \in 1..Len(events[t]) : events'[t][i] = events[t][i]
  <2> DEFINE n == Len(events[u]) + 1
             a == Ev("tool_call", n, TRUE)
             b == Ev("tool_result", n, FALSE)
  <2>1. events' = [events EXCEPT ![u] = @ \o <<a, b>>]
    BY <1>5 DEF DenyCall
  <2> HIDE DEF a, b
  <2> QED
    BY <2>1
<1>6. ASSUME NEW u \in Turns,
             \/ Reject(u) \/ ReadShortTerm(u) \/ SaveUser(u) \/ RememberUser(u)
             \/ Prepare(u) \/ PrepareFails(u) \/ ModelCalls(u) \/ LoseAnswer(u)
             \/ Interrupt(u) \/ RememberAnswer(u) \/ CommitTurn(u)
             \/ RunTool(u) \/ RefuseTool(u)
      PROVE  UNCHANGED events
  BY <1>6 DEF Reject, ReadShortTerm, SaveUser, RememberUser, Prepare, PrepareFails,
              ModelCalls, LoseAnswer, Interrupt, RememberAnswer, CommitTurn, RunTool,
              RefuseTool
<1>7. UNCHANGED <<turnVars, ran, rows>> => UNCHANGED events
  BY DEF turnVars
<1> QED
  BY <1>1, <1>2, <1>3, <1>4, <1>5, <1>6, <1>7, OtherSteps DEF Serve

LEMMA RunStep ==
  ASSUME TypeOK, WireInv, StageInv, RunInv, RunsAtMostOnce, RunsAreGated, [Next]_vars
  PROVE  RunInv' /\ RunsAtMostOnce' /\ RunsAreGated'
<1> USE DEF TypeOK, Goto
<1>1. \A r \in ran :
         /\ r.turn \in Turns /\ r.call \in Nat
         /\ r.call \in 1..Len(events'[r.turn])
         /\ events'[r.turn][r.call].kind = "tool_call"
  BY EventsGrow DEF RunInv, Run
\* A step that runs nothing and lists nothing anew keeps the three.
<1>2. ASSUME UNCHANGED <<ran, snapshot>>,
             \A t \in Turns : wire'[t] = "sent" =>
                /\ \A r \in ran : r.turn = t => r.call # Len(events'[t]),
             ~FailOpen => \A t \in Turns : wire'[t] # "idle" =>
                \E d \in snapshot[t] \cap Bound : NameOf[d] = Head(calls'[t])
      PROVE  RunInv' /\ RunsAtMostOnce' /\ RunsAreGated'
  <2>1. RunInv'
    BY <1>1, <1>2 DEF RunInv
  <2>2. RunsAtMostOnce'
    BY <1>2 DEF RunsAtMostOnce
  <2>3. RunsAreGated'
    BY <1>1, <1>2 DEF RunsAreGated
  <2> QED
    BY <2>1, <2>2, <2>3
<1>3. ASSUME NEW t \in Turns,
             \/ Reject(t) \/ ReadShortTerm(t) \/ SaveUser(t) \/ RememberUser(t)
             \/ PrepareFails(t) \/ LoseAnswer(t) \/ Interrupt(t)
             \/ RememberAnswer(t) \/ CommitTurn(t)
      PROVE  RunInv' /\ RunsAtMostOnce' /\ RunsAreGated'
  <2>1. UNCHANGED <<ran, snapshot, wire, calls, events>>
    BY <1>3 DEF Reject, ReadShortTerm, SaveUser, RememberUser, PrepareFails,
                LoseAnswer, Interrupt, RememberAnswer, CommitTurn
  <2> QED
    BY <1>2, <2>1 DEF RunInv
<1>4. ASSUME NEW t \in Turns, Prepare(t)
      PROVE  RunInv' /\ RunsAtMostOnce' /\ RunsAreGated'
  <2>1. events[t] = <<>> /\ wire[t] = "idle"
    BY <1>4 DEF Prepare, StageInv, WireInv
  <2>2. ASSUME NEW r \in ran PROVE r.turn # t
    <3>1. r.call \in 1..Len(events[r.turn])
      BY DEF RunInv
    <3>2. 1..Len(<<>>) = {}
      OBVIOUS
    <3> QED
      BY <2>1, <3>1, <3>2
  <2>3. /\ UNCHANGED <<ran, wire, calls, events>>
        /\ \A u \in Turns \ {t} : snapshot'[u] = snapshot[u]
    BY <1>4 DEF Prepare
  <2>4. RunInv'
    BY <2>1, <2>2, <2>3 DEF RunInv, Run
  <2>5. RunsAtMostOnce'
    BY <2>3 DEF RunsAtMostOnce
  <2>6. RunsAreGated'
    BY <2>2, <2>3 DEF RunsAreGated, Run
  <2> QED
    BY <2>4, <2>5, <2>6
<1>5. ASSUME NEW t \in Turns,
             \/ ModelEnds(t) \/ ModelCalls(t) \/ OutOfIterations(t) \/ DenyCall(t)
             \/ ToolAnswer(t)
      PROVE  RunInv' /\ RunsAtMostOnce' /\ RunsAreGated'
  <2>1. /\ UNCHANGED <<ran, snapshot>>
        /\ wire'[t] = "idle"
        /\ \A u \in Turns \ {t} : /\ wire'[u] = wire[u] /\ calls'[u] = calls[u]
                                /\ events'[u] = events[u]
    BY <1>5 DEF ModelEnds, ModelCalls, OutOfIterations, DenyCall, ToolAnswer, Yield,
                WireInv
  <2>2. ASSUME NEW u \in Turns, wire'[u] = "sent"
        PROVE  \A r \in ran : r.turn = u => r.call # Len(events'[u])
    <3>1. u # t
      BY <2>1, <2>2
    <3> QED
      BY <2>1, <2>2, <3>1 DEF RunInv
  <2>3. ASSUME ~FailOpen, NEW u \in Turns, wire'[u] # "idle"
        PROVE  \E d \in snapshot[u] \cap Bound : NameOf[d] = Head(calls'[u])
    <3>1. u # t
      BY <2>1, <2>3
    <3> QED
      BY <2>1, <2>3, <3>1 DEF RunInv
  <2> QED
    BY <1>2, <2>1, <2>2, <2>3
<1>6. ASSUME NEW t \in Turns, AllowCall(t)
      PROVE  RunInv' /\ RunsAtMostOnce' /\ RunsAreGated'
  <2>1. Ev("tool_call", Len(events[t]) + 1, TRUE) \in Event
    BY EvType, EventCount
  <2>2. Len(events'[t]) = Len(events[t]) + 1
    BY <1>6, <2>1, AppendFacts DEF AllowCall, Yield
  <2>3. /\ UNCHANGED <<ran, snapshot, calls>>
        /\ \A u \in Turns \ {t} : wire'[u] = wire[u] /\ events'[u] = events[u]
    BY <1>6 DEF AllowCall, Yield
  <2>4. ~FailOpen => \E d \in snapshot[t] \cap Bound : NameOf[d] = Head(calls[t])
    BY <1>6 DEF AllowCall, PolicyMayAllow, Descriptors
  <2>5. \A r \in ran : r.turn = t => r.call # Len(events'[t])
    BY <2>2 DEF RunInv
  <2>6. ASSUME NEW u \in Turns, wire'[u] = "sent"
        PROVE  \A r \in ran : r.turn = u => r.call # Len(events'[u])
    <3>1. CASE u = t
      BY <2>5, <3>1
    <3>2. CASE u # t
      BY <2>3, <2>6, <3>2 DEF RunInv
    <3> QED
      BY <3>1, <3>2
  <2>7. ASSUME ~FailOpen, NEW u \in Turns, wire'[u] # "idle"
        PROVE  \E d \in snapshot[u] \cap Bound : NameOf[d] = Head(calls'[u])
    <3>1. CASE u = t
      BY <2>3, <2>4, <2>7, <3>1
    <3>2. CASE u # t
      BY <2>3, <2>7, <3>2 DEF RunInv
    <3> QED
      BY <3>1, <3>2
  <2> QED
    BY <1>2, <2>3, <2>6, <2>7
<1>7. ASSUME NEW t \in Turns, RunTool(t)
      PROVE  RunInv' /\ RunsAtMostOnce' /\ RunsAreGated'
  <2>1. PICK d \in Resolve(Head(calls[t])) :
           ran' = ran \cup {[turn |-> t, call |-> Len(events[t]), tool |-> d]}
    BY <1>7 DEF RunTool
  <2> DEFINE q == [turn |-> t, call |-> Len(events[t]), tool |-> d]
  <2>2. NameOf[d] = Head(calls[t])
    BY DEF Resolve
  <2>3. /\ UNCHANGED <<calls, events, snapshot>>
        /\ wire[t] = "sent" /\ wire'[t] \in {"ok", "bad"}
        /\ \A u \in Turns \ {t} : wire'[u] = wire[u]
    BY <1>7 DEF RunTool
  <2>4. \A r \in ran : r.turn = t => r.call # Len(events[t])
    BY <2>3 DEF RunInv
  <2>5. /\ Len(events[t]) \in 1..Len(events[t])
        /\ events[t][Len(events[t])].kind = "tool_call"
    BY <2>3 DEF WireInv
  <2>6. RunInv'
    <3>1. ASSUME NEW r \in ran'
          PROVE  /\ r.call \in 1..Len(events'[r.turn])
                 /\ events'[r.turn][r.call].kind = "tool_call"
                 /\ wire'[r.turn] = "sent" => r.call # Len(events'[r.turn])
      <4>1. CASE r = q
        BY <2>3, <2>5, <4>1
      <4>2. CASE r \in ran
        BY <2>3, <4>2 DEF RunInv, Run
      <4> QED
        BY <2>1, <4>1, <4>2
    <3>2. ASSUME ~FailOpen, NEW u \in Turns, wire'[u] # "idle"
          PROVE  \E e \in snapshot'[u] \cap Bound : NameOf[e] = Head(calls'[u])
      BY <2>3, <3>2 DEF RunInv
    <3> QED
      BY <3>1, <3>2 DEF RunInv
  <2>7. RunsAtMostOnce'
    BY <2>1, <2>4 DEF RunsAtMostOnce
  <2>8. RunsAreGated'
    <3>1. ~FailOpen => \E e \in snapshot[t] \cap Bound : NameOf[e] = NameOf[d]
      BY <2>2, <2>3 DEF RunInv
    <3> QED
      BY <2>1, <2>3, <2>5, <3>1 DEF RunsAreGated
  <2> QED
    BY <2>6, <2>7, <2>8
<1>8. ASSUME NEW t \in Turns, RefuseTool(t)
      PROVE  RunInv' /\ RunsAtMostOnce' /\ RunsAreGated'
  BY <1>2, <1>8 DEF RefuseTool, RunInv
<1>9. CASE UNCHANGED <<turnVars, ran, rows>>
  BY <1>2, <1>9 DEF turnVars, RunInv
<1> QED
  BY <1>3, <1>4, <1>5, <1>6, <1>7, <1>8, <1>9, OtherSteps DEF Serve

-----------------------------------------------------------------------------
(* What a turn reports of its tools.                                       *)

\* An answer that says ok stands for an execution, on its way and as a result.
ReportInv ==
  \A t \in Turns :
     /\ wire[t] = "ok" => \E r \in ran : r.turn = t /\ r.call = Len(events[t])
     /\ \A i \in 1..Len(events[t]) :
           events[t][i].kind = "tool_result" /\ events[t][i].ok =>
              \E r \in ran : r.turn = t /\ r.call = events[t][i].n

LEMMA ReportStep ==
  ASSUME TypeOK, WireInv, ReportInv, [Next]_vars
  PROVE  ReportInv'
<1> USE DEF TypeOK, Goto
\* A turn that yields one event, and awaits no ok.
<1>1. ASSUME NEW t \in Turns, NEW e \in Event, Yield(t, e), UNCHANGED ran,
             wire'[t] # "ok", \A u \in Turns \ {t} : wire'[u] = wire[u],
             e.kind = "tool_result" /\ e.ok => \E r \in ran : r.turn = t /\ r.call = e.n
      PROVE  ReportInv'
  <2>1. /\ Len(events'[t]) = Len(events[t]) + 1
        /\ events'[t][Len(events[t]) + 1] = e
        /\ \A i \in 1..Len(events[t]) : events'[t][i] = events[t][i]
    BY <1>1, AppendFacts DEF Yield
  <2>2. \A u \in Turns \ {t} : events'[u] = events[u]
    BY <1>1 DEF Yield
  <2>3. ASSUME NEW i \in 1..Len(events'[t]), events'[t][i].kind = "tool_result", events'[t][i].ok
        PROVE  \E r \in ran : r.turn = t /\ r.call = events'[t][i].n
    <3>1. CASE i = Len(events[t]) + 1
      BY <1>1, <2>1, <2>3, <3>1
    <3>2. CASE i \in 1..Len(events[t])
      <4>1. events[t][i].kind = "tool_result" /\ events[t][i].ok
        BY <2>1, <2>3, <3>2
      <4> HIDE DEF TypeOK
      <4>2. \E r \in ran : r.turn = t /\ r.call = events[t][i].n
        BY <3>2, <4>1 DEF ReportInv
      <4> QED
        BY <2>1, <3>2, <4>2
    <3> QED
      BY <2>1, <3>1, <3>2
  <2> HIDE DEF TypeOK
  <2>4. ASSUME NEW u \in Turns, u # t
        PROVE  /\ wire'[u] = "ok" => \E r \in ran : r.turn = u /\ r.call = Len(events'[u])
               /\ \A i \in 1..Len(events'[u]) :
                     events'[u][i].kind = "tool_result" /\ events'[u][i].ok =>
                        \E r \in ran : r.turn = u /\ r.call = events'[u][i].n
    BY <1>1, <2>2, <2>4 DEF ReportInv
  <2> QED
    BY <1>1, <2>3, <2>4 DEF ReportInv
<1>2. ASSUME UNCHANGED <<events, ran>>, \A t \in Turns : wire'[t] = "ok" => wire[t] = "ok"
      PROVE  ReportInv'
  BY <1>2 DEF ReportInv
<1>3. ASSUME NEW t \in Turns, ModelEnds(t) PROVE ReportInv'
  <2>1. PICK k \in Terminal : Yield(t, Ev(k, 0, k # "error"))
    BY <1>3 DEF ModelEnds
  <2> DEFINE e == Ev(k, 0, k # "error")
  <2>2. e \in Event /\ e.kind # "tool_result"
    BY EvType DEF Ev, Terminal
  <2>3. wire' = wire /\ wire[t] = "idle" /\ UNCHANGED ran
    BY <1>3 DEF ModelEnds, WireInv
  <2> HIDE DEF e
  <2> QED
    BY <1>1, <2>1, <2>2, <2>3 DEF e
<1>4. ASSUME NEW t \in Turns, OutOfIterations(t) PROVE ReportInv'
  <2> DEFINE e == Ev("error", 0, FALSE)
  <2>1. e \in Event /\ e.kind # "tool_result"
    BY EvType DEF Ev, Terminal
  <2>2. wire' = wire /\ wire[t] = "idle" /\ UNCHANGED ran /\ Yield(t, e)
    BY <1>4 DEF OutOfIterations, WireInv
  <2> HIDE DEF e
  <2> QED
    BY <1>1, <2>1, <2>2
<1>5. ASSUME NEW t \in Turns, AllowCall(t) PROVE ReportInv'
  <2> DEFINE e == Ev("tool_call", Len(events[t]) + 1, TRUE)
  <2>1. e \in Event /\ e.kind # "tool_result"
    BY EvType, EventCount DEF Ev
  <2>2. /\ wire'[t] = "sent" /\ UNCHANGED ran /\ Yield(t, e)
        /\ \A u \in Turns \ {t} : wire'[u] = wire[u]
    BY <1>5 DEF AllowCall
  <2> HIDE DEF e
  <2> QED
    BY <1>1, <2>1, <2>2
<1>6. ASSUME NEW t \in Turns, ToolAnswer(t) PROVE ReportInv'
  <2> DEFINE e == Ev("tool_result", Len(events[t]), wire[t] = "ok")
  <2>1. e \in Event /\ e.n = Len(events[t]) /\ (e.ok => wire[t] = "ok")
    BY EvType, EventCount DEF Ev
  <2>2. /\ wire'[t] = "idle" /\ UNCHANGED ran /\ Yield(t, e)
        /\ \A u \in Turns \ {t} : wire'[u] = wire[u]
    BY <1>6 DEF ToolAnswer
  <2>3. wire[t] = "ok" => \E r \in ran : r.turn = t /\ r.call = Len(events[t])
    <3> HIDE DEF TypeOK, e
    <3> QED
      BY DEF ReportInv
  <2> HIDE DEF e
  <2> QED
    BY <1>1, <2>1, <2>2, <2>3, ran' = ran
<1>7. ASSUME NEW t \in Turns, DenyCall(t) PROVE ReportInv'
  <2> DEFINE a == Ev("tool_call", Len(events[t]) + 1, TRUE)
             b == Ev("tool_result", Len(events[t]) + 1, FALSE)
             s == events[t]
  <2>1. a \in Event /\ b \in Event /\ a.kind # "tool_result" /\ ~b.ok
    BY EvType, EventCount DEF Ev
  <2>2. /\ events' = [events EXCEPT ![t] = @ \o <<a, b>>]
        /\ wire' = wire /\ wire[t] = "idle" /\ UNCHANGED ran
    BY <1>7 DEF DenyCall, WireInv
  <2> HIDE DEF a, b
  <2>3. s \in Seq(Event)
    OBVIOUS
  <2> HIDE DEF s
  <2>4. /\ Len(s \o <<a, b>>) = Len(s) + 2
        /\ (s \o <<a, b>>)[Len(s) + 1] = a /\ (s \o <<a, b>>)[Len(s) + 2] = b
        /\ \A i \in 1..Len(s) : (s \o <<a, b>>)[i] = s[i]
    BY <2>1, <2>3
  <2>5. events'[t] = s \o <<a, b>> /\ \A u \in Turns \ {t} : events'[u] = events[u]
    BY <2>2 DEF s
  <2>6. ASSUME NEW i \in 1..Len(events'[t]), events'[t][i].kind = "tool_result", events'[t][i].ok
        PROVE  i \in 1..Len(s) /\ events'[t][i] = s[i]
    BY <2>1, <2>3, <2>4, <2>5, <2>6
  <2> HIDE DEF TypeOK
  <2>7. \A i \in 1..Len(s) : s[i].kind = "tool_result" /\ s[i].ok =>
           \E r \in ran : r.turn = t /\ r.call = s[i].n
    BY DEF ReportInv, s
  <2>8. ASSUME NEW u \in Turns, u # t
        PROVE  /\ wire'[u] = "ok" => \E r \in ran : r.turn = u /\ r.call = Len(events'[u])
               /\ \A i \in 1..Len(events'[u]) :
                     events'[u][i].kind = "tool_result" /\ events'[u][i].ok =>
                        \E r \in ran : r.turn = u /\ r.call = events'[u][i].n
    <3>1. wire'[u] = wire[u] /\ events'[u] = events[u] /\ ran' = ran
      BY <2>2, <2>5, <2>8
    <3>2. /\ wire[u] = "ok" => \E r \in ran : r.turn = u /\ r.call = Len(events[u])
          /\ \A i \in 1..Len(events[u]) :
                events[u][i].kind = "tool_result" /\ events[u][i].ok =>
                   \E r \in ran : r.turn = u /\ r.call = events[u][i].n
      BY DEF ReportInv
    <3> QED
      BY <3>1, <3>2
  <2>9. \A i \in 1..Len(events'[t]) : events'[t][i].kind = "tool_result" /\ events'[t][i].ok =>
           \E r \in ran : r.turn = t /\ r.call = events'[t][i].n
    BY <2>6, <2>7
  <2> QED
    <3>1. ran' = ran /\ wire'[t] = "idle"
      BY <2>2
    <3> QED
      BY <2>8, <2>9, <3>1 DEF ReportInv
<1>8. ASSUME NEW t \in Turns, RunTool(t) PROVE ReportInv'
  <2>1. PICK d \in Resolve(Head(calls[t])) :
           ran' = ran \cup {[turn |-> t, call |-> Len(events[t]), tool |-> d]}
    BY <1>8 DEF RunTool
  <2> DEFINE q == [turn |-> t, call |-> Len(events[t]), tool |-> d]
  <2>2. q \in ran' /\ q.turn = t /\ q.call = Len(events[t])
    BY <2>1
  <2>3. ran \subseteq ran' /\ UNCHANGED events /\ \A u \in Turns \ {t} : wire'[u] = wire[u]
    BY <1>8, <2>1 DEF RunTool
  <2> QED
    <3> HIDE DEF TypeOK, q
    <3>1. ASSUME NEW u \in Turns, wire'[u] = "ok"
          PROVE  \E r \in ran' : r.turn = u /\ r.call = Len(events[u])
      BY <2>2, <2>3, <3>1 DEF ReportInv
    <3>2. ASSUME NEW u \in Turns, NEW i \in 1..Len(events[u]),
                 events[u][i].kind = "tool_result", events[u][i].ok
          PROVE  \E r \in ran' : r.turn = u /\ r.call = events[u][i].n
      BY <2>3, <3>2 DEF ReportInv
    <3> QED
      BY <2>3, <3>1, <3>2 DEF ReportInv
<1>9. ASSUME NEW t \in Turns,
             \/ Reject(t) \/ ReadShortTerm(t) \/ SaveUser(t) \/ RememberUser(t)
             \/ Prepare(t) \/ PrepareFails(t) \/ ModelCalls(t) \/ LoseAnswer(t)
             \/ RememberAnswer(t) \/ CommitTurn(t) \/ Interrupt(t) \/ RefuseTool(t)
      PROVE  ReportInv'
  <2>1. UNCHANGED <<events, ran>> /\ (UNCHANGED wire \/ wire' = [wire EXCEPT ![t] = "bad"])
    BY <1>9 DEF Reject, ReadShortTerm, SaveUser, RememberUser, Prepare, PrepareFails,
                ModelCalls, LoseAnswer, RememberAnswer, CommitTurn, Interrupt, RefuseTool
  <2> QED
    BY <1>2, <2>1
<1>10. CASE UNCHANGED <<turnVars, ran, rows>>
  BY <1>2, <1>10 DEF turnVars
<1> QED
  BY <1>3, <1>4, <1>5, <1>6, <1>7, <1>8, <1>9, <1>10, OtherSteps DEF Serve

-----------------------------------------------------------------------------
(* The buffer and the rows.                                                *)

AnsweredWithText(t) ==
  Len(events[t]) > 0 /\ events[t][Len(events[t])].kind = "final"

\* A message of the buffer has its turn's row, an answer a turn that has yielded
\* it and goes on to nothing but its commit.
Backed(m) ==
  /\ rows[m[1]] # <<>>
  /\ m[2] = "assistant" =>
       pc[m[1]] \in {"committing", "done", "stopped"} /\ AnsweredWithText(m[1])

BufferInv == \A i \in DOMAIN stm : Backed(stm[i])

LEMMA PushedFrom ==
  ASSUME TypeOK, NEW m \in Message, NEW i \in DOMAIN Pushed(m)
  PROVE  Pushed(m)[i] = m \/ \E j \in DOMAIN stm : Pushed(m)[i] = stm[j]
<1> DEFINE s == Append(stm, m)
<1>1. /\ stm \in Seq(Message) /\ s \in Seq(Message) /\ Len(s) = Len(stm) + 1
      /\ s[Len(s)] = m /\ \A j \in 1..Len(stm) : s[j] = stm[j]
  BY DEF TypeOK
<1> HIDE DEF s
<1>2. Pushed(m) = s \/ (Len(s) > 0 /\ Pushed(m) = Tail(s))
  BY <1>1 DEF Pushed, s
<1>3. CASE Pushed(m) = s
  BY <1>1, <1>3
<1>4. CASE Len(s) > 0 /\ Pushed(m) = Tail(s)
  <2>1. s # <<>> /\ Len(Tail(s)) = Len(s) - 1 /\ DOMAIN Tail(s) = 1..(Len(s) - 1)
    BY <1>1, <1>4
  <2>2. i + 1 \in 1..Len(s) /\ Pushed(m)[i] = s[i + 1]
    BY <1>1, <1>4, <2>1
  <2> QED
    BY <1>1, <2>2
<1> QED
  BY <1>2, <1>3, <1>4

\* Whatever a turn does, its message stays backed.
LEMMA BackedStays ==
  ASSUME TypeOK, WireInv, [Next]_vars, NEW m \in Message, Backed(m)
  PROVE  Backed(m)'
<1> USE DEF TypeOK, Goto
<1>0. m[1] \in Turns
  BY DEF Message
<1>1. ASSUME rows'[m[1]] # <<>>, pc'[m[1]] = pc[m[1]], events'[m[1]] = events[m[1]]
      PROVE  Backed(m)'
  BY <1>1 DEF Backed, AnsweredWithText
<1>2. CASE UNCHANGED <<turnVars, ran, rows>>
  BY <1>1, <1>2 DEF turnVars, Backed
<1>3. ASSUME NEW t \in Turns, t # m[1],
             \/ Reject(t) \/ ReadShortTerm(t) \/ Serve(t) \/ Interrupt(t)
             \/ RunTool(t) \/ RefuseTool(t)
      PROVE  Backed(m)'
  <2>1. rows'[m[1]] = rows[m[1]] /\ pc'[m[1]] = pc[m[1]] /\ events'[m[1]] = events[m[1]]
    BY <1>0, <1>3
       DEF Reject, ReadShortTerm, SaveUser, RememberUser, Prepare, PrepareFails, ModelCalls,
           LoseAnswer, RememberAnswer, CommitTurn, Interrupt, RefuseTool, RunTool, ModelEnds,
           OutOfIterations, AllowCall, DenyCall, ToolAnswer, Yield, Serve
  <2> QED
    BY <1>1, <2>1 DEF Backed
<1>4. ASSUME NEW t \in Turns, t = m[1],
             \/ Reject(t) \/ ReadShortTerm(t) \/ RememberUser(t) \/ SaveUser(t)
             \/ Prepare(t) \/ PrepareFails(t) \/ ModelCalls(t) \/ LoseAnswer(t)
             \/ ModelEnds(t) \/ OutOfIterations(t) \/ AllowCall(t) \/ DenyCall(t)
             \/ ToolAnswer(t) \/ RememberAnswer(t)
      PROVE  Backed(m)'
  <2>1. pc[t] \notin {"committing", "done", "stopped"}
    BY <1>4
       DEF Reject, ReadShortTerm, SaveUser, RememberUser, Prepare, PrepareFails, ModelCalls,
           LoseAnswer, RememberAnswer, ModelEnds, OutOfIterations, AllowCall, DenyCall, ToolAnswer
  <2>2. m[2] # "assistant"
    BY <1>4, <2>1 DEF Backed
  <2>3. rows'[t] # <<>>
    <3>1. rows[t] # <<>> /\ rows[t] \in Seq(Row)
      BY <1>4 DEF Backed
    <3>2. CASE SaveUser(t)
      <4>1. UserRow \in Row
        BY DEF UserRow, Row
      <4>2. rows'[t] = Append(rows[t], UserRow)
        BY <3>2 DEF SaveUser
      <4> HIDE DEF TypeOK
      <4> QED
        BY <3>1, <4>1, <4>2
    <3>3. CASE UNCHANGED rows
      BY <3>1, <3>3
    <3> QED
      BY <1>4, <3>2, <3>3
         DEF Reject, ReadShortTerm, RememberUser, Prepare, PrepareFails, ModelCalls,
             LoseAnswer, RememberAnswer, ModelEnds, OutOfIterations, AllowCall, DenyCall, ToolAnswer
  <2> QED
    BY <1>4, <2>2, <2>3 DEF Backed
<1>5. ASSUME NEW t \in Turns, t = m[1], CommitTurn(t) PROVE Backed(m)'
  <2>1. rows[t] # <<>> /\ rows[t] \in Seq(Row) /\ Saved(t) \in Seq(Row)
    BY <1>5, SavedType DEF Backed
  <2>2. rows'[t] = rows[t] \o Saved(t) /\ pc'[t] = "done" /\ UNCHANGED events
    BY <1>5 DEF CommitTurn
  <2>3. rows'[t] # <<>>
    <3> HIDE DEF TypeOK
    <3> QED
      BY <2>1, <2>2
  <2> QED
    BY <1>5, <2>2, <2>3 DEF Backed, AnsweredWithText
<1>6. ASSUME NEW t \in Turns, t = m[1], Interrupt(t) PROVE Backed(m)'
  BY <1>6 DEF Interrupt, Backed, AnsweredWithText
<1>7. ASSUME NEW t \in Turns, RunTool(t) \/ RefuseTool(t) PROVE Backed(m)'
  BY <1>1, <1>7 DEF RunTool, RefuseTool, Backed
<1> QED
  BY <1>2, <1>3, <1>4, <1>5, <1>6, <1>7, OtherSteps DEF Serve

LEMMA BufferStep ==
  ASSUME TypeOK, WireInv, StageInv, TurnRowsAllOrNothing, BufferInv, [Next]_vars
  PROVE  BufferInv'
<1>0. stm \in Seq(Message)
  BY DEF TypeOK
<1>1. ASSUME NEW m \in Message, NEW i \in DOMAIN stm, stm[i] = m PROVE Backed(m)'
  BY <1>1, BackedStays DEF BufferInv
<1>2. ASSUME \A i \in DOMAIN stm' :
                \/ \E m \in Message : stm'[i] = m /\ (Backed(m)')
                \/ \E j \in DOMAIN stm : stm'[i] = stm[j]
      PROVE  BufferInv'
  <2>1. ASSUME NEW i \in DOMAIN stm' PROVE Backed(stm[i])'
    <3>1. PICK m \in Message : stm'[i] = m /\ Backed(m)'
      BY <1>0, <1>1, <1>2, <2>1
    <3> QED
      BY <3>1 DEF Backed, AnsweredWithText
  <2> QED
    BY <2>1 DEF BufferInv
<1>3. CASE UNCHANGED stm
  BY <1>2, <1>3
<1>4. ASSUME NEW m \in Message, Backed(m)',
             \A i \in DOMAIN stm' : (stm'[i] = m) \/ \E j \in DOMAIN stm : stm'[i] = stm[j]
      PROVE  BufferInv'
  BY <1>2, <1>4
<1>5. ASSUME NEW m \in Message, Remember(m), Backed(m)' PROVE BufferInv'
  <2>1. CASE stm' = stm
    BY <1>3, <2>1
  <2>2. CASE stm' = Pushed(m)
    <3>1. ASSUME NEW i \in DOMAIN stm' PROVE (stm'[i] = m) \/ \E j \in DOMAIN stm : stm'[i] = stm[j]
      BY <2>2, <3>1, PushedFrom
    <3> QED
      BY <1>4, <1>5, <3>1
  <2> QED
    BY <1>5, <2>1, <2>2 DEF Remember
<1>6. CASE Expire
  BY <1>6 DEF Expire, BufferInv
<1>7. ASSUME NEW t \in Turns, RememberUser(t) PROVE BufferInv'
  <2>1. PICK m \in Message : m = <<t, "user">> /\ m[1] = t /\ m[2] # "assistant"
    <3>1. <<t, "user">> \in Message
      BY DEF Message
    <3> QED
      BY <3>1
  <2>2. rows[t] = <<UserRow>> /\ UNCHANGED rows /\ Remember(m)
    BY <1>7, <2>1 DEF RememberUser, Goto, TurnRowsAllOrNothing
  <2> QED
    BY <1>5, <2>1, <2>2 DEF Backed
<1>8. ASSUME NEW t \in Turns, RememberAnswer(t) PROVE BufferInv'
  <2>1. PICK m \in Message : m = <<t, "assistant">> /\ m[1] = t
    <3>1. <<t, "assistant">> \in Message
      BY DEF Message
    <3> QED
      BY <3>1
  <2>2. CASE events[t][Len(events[t])].kind = "final" /\ Remember(m)
    <3>1. rows[t] = <<UserRow>> /\ UNCHANGED <<events, rows>> /\ pc'[t] = "committing"
      BY <1>8 DEF RememberAnswer, Goto, TurnRowsAllOrNothing, TypeOK
    <3>2. Len(events[t]) > 0
      BY <1>8 DEF StageInv, RememberAnswer, Goto
    <3>3. Backed(m)'
      <4>1. rows'[t] # <<>>
        BY <3>1
      <4>2. AnsweredWithText(t)'
        BY <2>2, <3>1, <3>2 DEF AnsweredWithText
      <4> QED
        BY <2>1, <3>1, <4>1, <4>2 DEF Backed
    <3> QED
      BY <1>5, <2>1, <2>2, <3>3
  <2> QED
    BY <1>3, <1>8, <2>1, <2>2 DEF RememberAnswer
<1> QED
  BY <1>3, <1>6, <1>7, <1>8
     DEF Next, Serve, vars, turnVars, Reject, ReadShortTerm, SaveUser, Prepare, PrepareFails,
         ModelCalls, LoseAnswer, CommitTurn, Interrupt, RefuseTool, RunTool, ModelEnds,
         OutOfIterations, AllowCall, DenyCall, ToolAnswer, CreateTool, UpdateTool, DeleteTool

-----------------------------------------------------------------------------
(* The theorems.                                                           *)

IInv == TypeOK /\ WireInv /\ StageInv /\ PairInv /\ TurnRowsAllOrNothing
        /\ RunInv /\ RunsAtMostOnce /\ RunsAreGated /\ ReportInv /\ BufferInv

\* The inductive invariant: types, the shape of a turn's events at each of its
\* stages, what is on the wire, and what that says of rows and executions.
THEOREM Inductive == Spec => []IInv
<1>1. Init => IInv
  <2> SUFFICES ASSUME Init PROVE IInv
    OBVIOUS
  <2>1. TypeOK
    BY InitType
  <2>2. WireInv /\ StageInv
    BY DEF Init, WireInv, StageInv
  <2>3. PairInv
    BY DEF Init, PairInv, Paired
  <2>4. TurnRowsAllOrNothing
    BY DEF Init, TurnRowsAllOrNothing
  <2>5. RunInv /\ RunsAtMostOnce /\ RunsAreGated
    BY DEF Init, RunInv, RunsAtMostOnce, RunsAreGated
  <2>6. ReportInv /\ BufferInv
    BY DEF Init, ReportInv, BufferInv
  <2> QED
    BY <2>1, <2>2, <2>3, <2>4, <2>5, <2>6 DEF IInv
<1>2. IInv /\ [Next]_vars => IInv'
  BY TypeStep, WireStep, StageStep, PairStep, RowsStep, RunStep, ReportStep, BufferStep DEF IInv
<1> QED
  BY <1>1, <1>2, PTL DEF Spec

\* Every variable keeps its type: iterations never exceed their bound.
THEOREM TypeCorrect == Spec => []TypeOK
BY Inductive, PTL DEF IInv

\* A turn's rows are all or nothing, wherever it is cut short.
THEOREM RowsAllOrNothing == Spec => []TurnRowsAllOrNothing
BY Inductive, PTL DEF IInv

\* A tool runs only for a call the turn announced and the policy let pass
\* (RunsAreGated).
THEOREM RunsGated == Spec => []RunsAreGated
BY Inductive, PTL DEF IInv

\* A call runs one tool at most, although its name is resolved again by the
\* registry and its answer may be lost (RunsAtMostOnce).
THEOREM RunsOnce == Spec => []RunsAtMostOnce
BY Inductive, PTL DEF IInv

\* A turn about to be persisted has one terminal event, its last.
LEMMA TerminalLast ==
  ASSUME IInv
  PROVE  OneTerminalEvent
BY DEF IInv, TypeOK, PairInv, Paired, StageInv, OneTerminalEvent, IsTerminal

\* A turn yields one terminal event, and nothing after it (OneTerminalEvent).
THEOREM TerminalOnce == Spec => []OneTerminalEvent
BY Inductive, TerminalLast, PTL

LEMMA ButLast ==
  ASSUME NEW s \in Seq(Event), Len(s) > 0
  PROVE  /\ SubSeq(s, 1, Len(s) - 1) \in Seq(Event)
         /\ Len(SubSeq(s, 1, Len(s) - 1)) = Len(s) - 1
         /\ \A i \in 1..(Len(s) - 1) : SubSeq(s, 1, Len(s) - 1)[i] = s[i]
<1> DEFINE n == Len(s) - 1
<1>1. n \in Int /\ \A i \in 1..n : s[i] \in Event
  OBVIOUS
<1>2. /\ SubSeq(s, 1, n) \in Seq(Event)
      /\ Len(SubSeq(s, 1, n)) = IF 1 <= n THEN n - 1 + 1 ELSE 0
      /\ \A i \in 1..(n - 1 + 1) : SubSeq(s, 1, n)[i] = s[1 + i - 1]
  <2> HIDE DEF n
  <2> QED
    BY <1>1, SubSeqProperties
<1>3. n \in Nat
  OBVIOUS
<1> HIDE DEF n
<1>4. /\ Len(SubSeq(s, 1, n)) = n
      /\ \A i \in 1..n : SubSeq(s, 1, n)[i] = s[i]
  BY <1>2, <1>3
<1> QED
  BY <1>2, <1>4 DEF n

\* What is saved is the events, less an empty answer that ends them.
LEMMA SavedEvents ==
  ASSUME TypeOK, NEW t \in Turns
  PROVE  LET e == events[t]
         IN  /\ Saved(t) \in Seq(Event)
             /\ Len(Saved(t)) <= Len(e)
             /\ \A i \in 1..Len(Saved(t)) : Saved(t)[i] = e[i]
             /\ Saved(t) # e =>
                  /\ Len(e) > 0 /\ e[Len(e)].kind = "empty"
                  /\ Len(Saved(t)) = Len(e) - 1
<1> DEFINE e == events[t]
<1>1. e \in Seq(Event)
  BY DEF TypeOK
<1>2. CASE Saved(t) = e
  BY <1>1, <1>2
<1>3. CASE Saved(t) # e
  <2>1. /\ Len(e) > 0 /\ e[Len(e)].kind = "empty"
        /\ Saved(t) = SubSeq(e, 1, Len(e) - 1)
    BY <1>3 DEF Saved
  <2> HIDE DEF e
  <2>2. /\ SubSeq(e, 1, Len(e) - 1) \in Seq(Event)
        /\ Len(SubSeq(e, 1, Len(e) - 1)) = Len(e) - 1
        /\ \A i \in 1..(Len(e) - 1) : SubSeq(e, 1, Len(e) - 1)[i] = e[i]
    BY <1>1, <2>1, ButLast
  <2> QED
    BY <1>1, <2>1, <2>2 DEF e
<1> QED
  BY <1>2, <1>3

\* A done turn's rows, one by one.
LEMMA DoneRows ==
  ASSUME IInv, NEW t \in Turns, pc[t] = "done"
  PROVE  /\ Len(rows[t]) = Len(Saved(t)) + 1
         /\ rows[t][1] = UserRow
         /\ \A i \in 2..Len(rows[t]) : rows[t][i] = events[t][i - 1]
<1>1. rows[t] = <<UserRow>> \o Saved(t)
  BY DEF IInv, TurnRowsAllOrNothing
<1>2. Saved(t) \in Seq(Event) /\ \A i \in 1..Len(Saved(t)) : Saved(t)[i] = events[t][i]
  BY SavedEvents DEF IInv
<1> DEFINE s == Saved(t)
<1> HIDE DEF s
<1>3. /\ Len(<<UserRow>> \o s) = Len(s) + 1
      /\ (<<UserRow>> \o s)[1] = UserRow
      /\ \A i \in 2..(Len(s) + 1) : (<<UserRow>> \o s)[i] = s[i - 1]
  <2>1. s \in Seq(Event)
    BY <1>2 DEF s
  <2> QED
    BY <2>1
<1> QED
  BY <1>1, <1>2, <1>3 DEF s

LEMMA WholeRows ==
  ASSUME IInv, NEW t \in Turns, pc[t] = "done"
  PROVE  C!Whole(rows[t])
<1> DEFINE e == events[t]
           r == rows[t]
<1>1. /\ Len(r) = Len(Saved(t)) + 1
      /\ r[1] = UserRow
      /\ \A i \in 2..Len(r) : r[i] = e[i - 1]
  BY DoneRows
<1>2. /\ e \in Seq(Event) /\ r \in Seq(Row)
      /\ Len(Saved(t)) \in Nat /\ Len(Saved(t)) <= Len(e)
      /\ Len(Saved(t)) # Len(e) => Len(Saved(t)) = Len(e) - 1
  BY SavedEvents DEF IInv, TypeOK
<1>3. Paired(e, "done") /\ Len(e) > 0 /\ e[Len(e)].kind \in Terminal
  BY DEF IInv, PairInv, StageInv
<1> HIDE DEF e, r
<1>4. r # <<>> /\ r[1] = C!Question
  BY <1>1, <1>2 DEF UserRow, C!Question
<1>5. ASSUME NEW i \in 2..Len(r)
      PROVE  /\ r[i].kind # "user"
             /\ r[i].kind = "tool_call" =>
                  i < Len(r) /\ r[i + 1].kind = "tool_result" /\ r[i + 1].n = r[i].n
             /\ r[i].kind = "tool_result" => r[i - 1].kind = "tool_call"
             /\ r[i].kind \notin {"tool_call", "tool_result"} => i = Len(r)
  <2>1. i - 1 \in 1..Len(e) /\ r[i] = e[i - 1]
    BY <1>1, <1>2
  <2>2. e[i - 1] \in Event
    BY <1>2, <2>1
  <2>3. r[i].kind \in {"tool_call", "tool_result"} \cup Terminal
    BY <2>1, <2>2 DEF Event
  <2>4. r[i].kind # "user"
    BY <2>3 DEF Terminal
  <2>5. ASSUME r[i].kind = "tool_call"
        PROVE  i < Len(r) /\ r[i + 1].kind = "tool_result" /\ r[i + 1].n = r[i].n
    <3>1. i - 1 < Len(e) /\ e[i - 1].n = i - 1
      BY <1>3, <2>1, <2>5 DEF Paired, Terminal
    <3>2. e[i].kind = "tool_result" /\ e[i].n = i - 1
      BY <1>3, <2>1, <2>5, <3>1 DEF Paired
    <3>3. i < Len(e)
      BY <1>2, <1>3, <2>1, <3>1, <3>2 DEF Terminal
    <3>4. i < Len(r)
      BY <1>1, <1>2, <3>3
    <3>5. r[i + 1] = e[i]
      BY <1>1, <1>2, <3>4
    <3> QED
      BY <2>1, <3>1, <3>2, <3>4, <3>5
  <2>6. ASSUME r[i].kind = "tool_result"
        PROVE  r[i - 1].kind = "tool_call"
    <3>1. i - 1 > 1 /\ e[i - 2].kind = "tool_call"
      BY <1>3, <2>1, <2>6 DEF Paired
    <3>2. r[i - 1] = e[i - 2]
      BY <1>1, <1>2, <3>1
    <3> QED
      BY <3>1, <3>2
  <2>7. ASSUME r[i].kind \notin {"tool_call", "tool_result"} PROVE i = Len(r)
    <3>1. i - 1 = Len(e)
      BY <1>3, <2>1, <2>3, <2>7 DEF Paired
    <3> QED
      BY <1>1, <1>2, <3>1
  <2> QED
    BY <2>4, <2>5, <2>6, <2>7
<1>6. C!Whole(r)
  BY <1>4, <1>5 DEF C!Whole
<1> QED
  BY <1>6 DEF r

DoneRowsWhole == \A t \in Turns : pc[t] = "done" => C!Whole(rows[t])

LEMMA AllWhole == IInv => DoneRowsWhole
BY WholeRows DEF DoneRowsWhole

\* Every turn's rows answer every call they hold: nothing but a done turn has
\* rows beyond the user's message.
LEMMA AnsweredRows == IInv => CallsAnswered
<1> SUFFICES ASSUME IInv, NEW t \in Turns, NEW i \in DOMAIN rows[t]
             PROVE  /\ rows[t][i].kind = "tool_call" =>
                         /\ i < Len(rows[t])
                         /\ rows[t][i + 1].kind = "tool_result"
                         /\ rows[t][i + 1].n = rows[t][i].n
                    /\ rows[t][i].kind = "tool_result" =>
                         i > 1 /\ rows[t][i - 1].kind = "tool_call"
  BY DEF CallsAnswered
<1>1. CASE pc[t] = "done"
  <2>1. rows[t] \in Seq(Row) /\ rows[t][1] = UserRow
    BY <1>1, DoneRows DEF IInv, TypeOK
  <2>2. C!Whole(rows[t])
    BY <1>1, WholeRows
  <2> DEFINE r == rows[t]
  <2> HIDE DEF r
  <2>3. r \in Seq(Row) /\ r[1].kind = "user" /\ C!Whole(r) /\ i \in DOMAIN r
    BY <2>1, <2>2 DEF UserRow, r
  <2>4. i = 1 \/ i \in 2..Len(r)
    BY <2>3
  <2>5. /\ r[i].kind = "tool_call" =>
             /\ i < Len(r)
             /\ r[i + 1].kind = "tool_result"
             /\ r[i + 1].n = r[i].n
        /\ r[i].kind = "tool_result" => i > 1 /\ r[i - 1].kind = "tool_call"
    BY <2>3, <2>4 DEF C!Whole
  <2> QED
    BY <2>5 DEF r
<1>2. CASE pc[t] # "done"
  <2>1. rows[t] = <<>> \/ rows[t] = <<UserRow>>
    BY <1>2 DEF IInv, TurnRowsAllOrNothing
  <2> QED
    BY <2>1 DEF UserRow
<1> QED
  BY <1>1, <1>2

\* No conversation a session can hold lacks the result of a tool call.
THEOREM AnswersCalls == Spec => []CallsAnswered
BY Inductive, AnsweredRows, PTL

\* Each result of a done turn that says ok stands for an execution, and each of
\* its executions has a result: a call whose turn went on has been answered, and
\* what was not answered ended its turn.
LEMMA ReportIsWhole == IInv => DoneTurnReportsItsRuns
<1> SUFFICES ASSUME IInv, NEW t \in Turns, pc[t] = "done"
             PROVE  /\ \A i \in DOMAIN events[t] :
                         events[t][i].kind = "tool_result" /\ events[t][i].ok =>
                            \E r \in ran : r.turn = t /\ r.call = events[t][i].n
                    /\ \A r \in ran : r.turn = t =>
                         \E i \in DOMAIN events[t] :
                            events[t][i].kind = "tool_result" /\ events[t][i].n = r.call
  BY DEF DoneTurnReportsItsRuns
<1>1. events[t] \in Seq(Event) /\ Paired(events[t], "done")
  BY DEF IInv, TypeOK, PairInv
<1>2. \A i \in DOMAIN events[t] :
         events[t][i].kind = "tool_result" /\ events[t][i].ok =>
            \E r \in ran : r.turn = t /\ r.call = events[t][i].n
  <2>1. DOMAIN events[t] = 1..Len(events[t])
    BY <1>1
  <2> QED
    BY <2>1 DEF IInv, ReportInv
<1>3. ASSUME NEW r \in ran, r.turn = t
      PROVE  \E i \in DOMAIN events[t] :
                events[t][i].kind = "tool_result" /\ events[t][i].n = r.call
  <2>1. r.call \in 1..Len(events[t]) /\ events[t][r.call].kind = "tool_call"
    BY <1>3 DEF IInv, RunInv
  <2>2. /\ r.call + 1 \in 1..Len(events[t])
        /\ events[t][r.call + 1].kind = "tool_result" /\ events[t][r.call + 1].n = r.call
    BY <1>1, <2>1 DEF Paired
  <2> QED
    BY <1>1, <2>2
<1> QED
  BY <1>2, <1>3

\* A result that says ok stands for an execution, and each execution of a done
\* turn has its result (DoneTurnReportsItsRuns).
THEOREM ReportsAreTrue == Spec => []DoneTurnReportsItsRuns
BY Inductive, ReportIsWhole, PTL

\* The rows of a done turn hold its answer, if it has one with text.
LEMMA AnswerInRows ==
  ASSUME IInv, NEW t \in Turns, pc[t] = "done", AnsweredWithText(t)
  PROVE  \E j \in DOMAIN rows[t] : rows[t][j].kind = "final"
<1> DEFINE n == Len(events[t])
<1>1. n \in Nat /\ n > 0 /\ events[t][n].kind = "final" /\ rows[t] \in Seq(Row)
  BY DEF AnsweredWithText, IInv, TypeOK
<1>2. Saved(t) = events[t]
  BY <1>1 DEF Saved
<1>3. /\ Len(rows[t]) = n + 1
      /\ \A i \in 2..Len(rows[t]) : rows[t][i] = events[t][i - 1]
  BY <1>2, DoneRows
<1> HIDE DEF n
<1>4. n + 1 \in DOMAIN rows[t] /\ rows[t][n + 1] = events[t][n]
  BY <1>1, <1>3
<1> QED
  BY <1>1, <1>4

\* Nothing stands in the buffer that the rows do not have, once its turn is done
\* (BufferBackedByRows), whatever is trimmed, lost or expires.
THEOREM BufferIsBacked == Spec => []BufferBackedByRows
<1>1. IInv => BufferBackedByRows
  <2> SUFFICES ASSUME IInv, NEW i \in DOMAIN stm
               PROVE  /\ rows[stm[i][1]] # <<>>
                      /\ stm[i][2] = "assistant" /\ pc[stm[i][1]] = "done" =>
                           \E j \in DOMAIN rows[stm[i][1]] : rows[stm[i][1]][j].kind = "final"
    BY DEF BufferBackedByRows
  <2>1. stm[i] \in Message /\ stm[i][1] \in Turns
    BY DEF IInv, TypeOK, Message
  <2>2. Backed(stm[i])
    BY DEF IInv, BufferInv
  <2> QED
    BY <2>1, <2>2, AnswerInRows DEF Backed
<1> QED
  BY <1>1, Inductive, PTL

-----------------------------------------------------------------------------
(* What the buffer keeps, as long as it works: memory-svc answers, nothing *)
(* expires, and max_messages leaves room for the turns that may be over.   *)

BufferWorks ==
  /\ ~MemoryLossy
  /\ IsFiniteSet(Turns)
  /\ 2 * (Cardinality(Turns) - 1) <= StmCap

Holds(m) == \E i \in DOMAIN stm : stm[i] = m

Kept(t) ==
  /\ pc[t] \in {"preparing", "thinking", "invoking", "remembering", "committing", "done"} =>
       Holds(<<t, "user">>)
  /\ pc[t] \in {"committing", "done"} /\ AnsweredWithText(t) => Holds(<<t, "assistant">>)

\* Each message is pushed once; while a turn has yet to read the buffer, nothing
\* has been trimmed that the turns before it have pushed.
KeepInv ==
  /\ \A i, j \in DOMAIN stm : stm[i] = stm[j] => i = j
  /\ \A t \in Turns : pc[t] \in {"new", "loaded", "saved"} => ~Holds(<<t, "user">>)
  /\ (\E t \in Turns : pc[t] = "new") => \A t \in Turns : Kept(t)

LEMMA NoDoublesFit ==
  ASSUME NEW S, IsFiniteSet(S), NEW s \in Seq(S),
         \A i, j \in DOMAIN s : s[i] = s[j] => i = j
  PROVE  Len(s) <= Cardinality(S)
<1>1. /\ IsFiniteSet(1..Len(s)) /\ Cardinality(1..Len(s)) = Len(s)
      /\ Cardinality(S) \in Nat /\ Len(s) \in Nat
  <2> DEFINE n == Len(s)
  <2>1. n \in Nat /\ 1 \in Int /\ n \in Int
    OBVIOUS
  <2> HIDE DEF n
  <2>2. IsFiniteSet(1..n) /\ Cardinality(1..n) = (IF 1 > n THEN 0 ELSE n - 1 + 1)
    BY <2>1, FS_Interval
  <2>3. Cardinality(1..n) = n
    BY <2>1, <2>2
  <2>4. Cardinality(S) \in Nat
    BY FS_CardinalityType
  <2> QED
    BY <2>1, <2>2, <2>3, <2>4 DEF n
<1>2. s \in [1..Len(s) -> S]
  OBVIOUS
<1>3. CASE Cardinality(S) < Len(s)
  <2>1. \E i, j \in 1..Len(s) : i # j /\ s[i] = s[j]
    BY <1>1, <1>2, <1>3, FS_PigeonHole
  <2> QED
    BY <1>2, <2>1
<1> QED
  BY <1>1, <1>3

\* While t is new, the buffer and one message more of another turn fit.
LEMMA RoomLeft ==
  ASSUME BufferWorks, NEW t \in Turns, NEW s \in Seq(Message),
         \A i, j \in DOMAIN s : s[i] = s[j] => i = j,
         \A i \in DOMAIN s : s[i][1] # t
  PROVE  Len(s) <= StmCap
<1> DEFINE Roles == {"user", "assistant"}
           Others == Turns \ {t}
<1>1. IsFiniteSet(Others) /\ Cardinality(Others) = Cardinality(Turns) - 1
  BY FS_RemoveElement DEF BufferWorks
<1>2. IsFiniteSet(Roles) /\ Cardinality(Roles) = 2
  <2>1. IsFiniteSet({"user"}) /\ Cardinality({"user"}) = 1
    BY FS_Singleton
  <2>2. Roles = {"user"} \cup {"assistant"} /\ "assistant" \notin {"user"}
    OBVIOUS
  <2>3. /\ IsFiniteSet({"user"} \cup {"assistant"})
        /\ Cardinality({"user"} \cup {"assistant"}) =
             IF "assistant" \in {"user"} THEN Cardinality({"user"}) ELSE Cardinality({"user"}) + 1
    BY <2>1, FS_AddElement
  <2>4. Cardinality({"user"} \cup {"assistant"}) = 2
    BY <2>1, <2>2, <2>3
  <2> HIDE DEF Roles
  <2> QED
    BY <2>2, <2>3, <2>4
<1>3. IsFiniteSet(Others \X Roles) /\ Cardinality(Others \X Roles) = Cardinality(Others) * 2
  BY <1>1, <1>2, FS_Product
<1>4. s \in Seq(Others \X Roles)
  BY DEF Message
<1> HIDE DEF Others, Roles
<1>5. Len(s) <= Cardinality(Others \X Roles)
  BY <1>3, <1>4, NoDoublesFit
<1>6. /\ Cardinality(Turns) \in Nat /\ StmCap \in Nat /\ Len(s) \in Nat
      /\ 2 * (Cardinality(Turns) - 1) <= StmCap
  BY FS_CardinalityType, ConstantsAssumption DEF BufferWorks
<1> QED
  BY <1>1, <1>3, <1>5, <1>6

\* A message that is pushed for the first time is held once, and while a turn is
\* new so are all the others.
LEMMA PushKeeps ==
  ASSUME BufferWorks, IInv, KeepInv, NEW m \in Message, ~Holds(m), Remember(m)
  PROVE  /\ \A i, j \in DOMAIN stm' : stm'[i] = stm'[j] => i = j
         /\ \A n \in Message : Holds(n)' => Holds(n) \/ n = m
         /\ \A t \in Turns : pc[t] = "new" /\ m[1] # t =>
              \A n \in Message : Holds(n) \/ n = m => Holds(n)'
<1> DEFINE s == Append(stm, m)
<1>1. /\ stm \in Seq(Message) /\ s \in Seq(Message) /\ Len(s) = Len(stm) + 1
      /\ s[Len(s)] = m /\ \A j \in 1..Len(stm) : s[j] = stm[j]
  BY DEF IInv, TypeOK
<1>2. /\ stm' = Pushed(m)
      /\ (Len(s) > StmCap /\ stm' = Tail(s)) \/ (Len(s) <= StmCap /\ stm' = s)
  <2>1. stm' = IF Len(s) > StmCap THEN Tail(s) ELSE s
    BY DEF Remember, Pushed, BufferWorks
  <2>2. stm' = Pushed(m)
    BY DEF Remember, BufferWorks
  <2>3. Len(s) \in Nat /\ StmCap \in Nat
    BY <1>1, ConstantsAssumption
  <2> HIDE DEF s
  <2> QED
    BY <2>1, <2>2, <2>3
<1> HIDE DEF s
<1>3. ASSUME NEW i \in DOMAIN s, NEW j \in DOMAIN s, s[i] = s[j] PROVE i = j
  <2>1. \A k \in 1..Len(stm) : stm[k] # m
    BY <1>1 DEF Holds
  <2>2. \A k, l \in 1..Len(stm) : stm[k] = stm[l] => k = l
    BY <1>1 DEF KeepInv
  <2>3. i \in 1..Len(stm) \/ i = Len(s)
    BY <1>1
  <2>4. j \in 1..Len(stm) \/ j = Len(s)
    BY <1>1
  <2> QED
    BY <1>1, <1>3, <2>1, <2>2, <2>3, <2>4
<1>4. \A i, j \in DOMAIN stm' : stm'[i] = stm'[j] => i = j
  <2>1. CASE stm' = s
    BY <1>3, <2>1
  <2>2. CASE Len(s) > StmCap /\ stm' = Tail(s)
    <3>1. s # <<>> /\ DOMAIN stm' = 1..(Len(s) - 1) /\ \A i \in DOMAIN stm' : stm'[i] = s[i + 1]
      BY <1>1, <2>2
    <3>2. \A i \in DOMAIN stm' : i \in Nat /\ i + 1 \in DOMAIN s
      BY <1>1, <3>1
    <3> QED
      BY <1>3, <3>1, <3>2
  <2> QED
    BY <1>2, <2>1, <2>2
<1>5. \A n \in Message : Holds(n)' => Holds(n) \/ n = m
  BY <1>2, PushedFrom DEF Holds, IInv
<1>6. ASSUME NEW t \in Turns, pc[t] = "new", m[1] # t, NEW n \in Message, Holds(n) \/ n = m
      PROVE  Holds(n)'
  <2>1. rows[t] = <<>>
    BY <1>6 DEF IInv, TurnRowsAllOrNothing
  <2>2. \A i \in DOMAIN stm : stm[i][1] # t
    BY <2>1 DEF IInv, BufferInv, Backed
  <2>3. \A i \in DOMAIN s : s[i][1] # t
    <3>1. \A i \in DOMAIN s : i \in 1..Len(stm) \/ i = Len(s)
      BY <1>1
    <3> QED
      BY <1>1, <1>6, <2>2, <3>1
  <2>4. Len(s) <= StmCap
    BY <1>1, <1>3, <2>3, RoomLeft
  <2>5. stm' = s
    BY <1>1, <1>2, <2>4, ConstantsAssumption
  <2>6. CASE n = m
    <3>1. Len(s) \in DOMAIN stm'
      BY <1>1, <2>5
    <3> QED
      BY <1>1, <2>5, <2>6, <3>1 DEF Holds
  <2>7. ASSUME NEW j \in DOMAIN stm, stm[j] = n PROVE Holds(n)'
    <3>1. j \in DOMAIN stm' /\ stm'[j] = n
      BY <1>1, <2>5, <2>7
    <3> QED
      BY <3>1 DEF Holds
  <2> QED
    BY <1>6, <2>6, <2>7 DEF Holds
<1> QED
  BY <1>4, <1>5, <1>6

\* A turn that moves on is kept: its message was pushed when it began, its
\* answer before its commit.
LEMMA KeepsMoving ==
  ASSUME IInv, [Next]_vars, NEW t \in Turns, ~RememberUser(t)
  PROVE  /\ pc'[t] \in {"new", "loaded", "saved"} => pc[t] \in {"new", "loaded", "saved"}
         /\ pc'[t] = "new" => pc[t] = "new"
         /\ pc'[t] \in {"preparing", "thinking", "invoking", "remembering", "committing", "done"} =>
              pc[t] \in {"preparing", "thinking", "invoking", "remembering", "committing", "done"}
         /\ pc'[t] \in {"committing", "done"} /\ AnsweredWithText(t)' =>
              \/ pc[t] \in {"committing", "done"} /\ AnsweredWithText(t)
              \/ RememberAnswer(t) /\ Remember(<<t, "assistant">>)
<1> USE DEF Goto
<1>0. pc \in [Turns -> {"new"} \cup Live \cup Ended] /\ events \in [Turns -> Seq(Event)]
  BY DEF IInv, TypeOK
<1>1. CASE UNCHANGED <<turnVars, ran, rows>>
  BY <1>1 DEF turnVars, AnsweredWithText
<1>2. ASSUME NEW u \in Turns, u # t,
             \/ Reject(u) \/ ReadShortTerm(u) \/ Serve(u) \/ Interrupt(u)
             \/ RunTool(u) \/ RefuseTool(u)
      PROVE  pc'[t] = pc[t] /\ events'[t] = events[t]
  BY <1>0, <1>2
     DEF Reject, ReadShortTerm, SaveUser, RememberUser, Prepare, PrepareFails, ModelCalls,
         LoseAnswer, RememberAnswer, CommitTurn, Interrupt, RefuseTool, RunTool, ModelEnds,
         OutOfIterations, AllowCall, DenyCall, ToolAnswer, Yield, Serve
<1>3. CASE Reject(t) \/ ReadShortTerm(t) \/ SaveUser(t)
  BY <1>0, <1>3 DEF Reject, ReadShortTerm, SaveUser
<1>4. CASE \/ Prepare(t) \/ PrepareFails(t) \/ ModelEnds(t) \/ ModelCalls(t) \/ OutOfIterations(t)
           \/ AllowCall(t) \/ DenyCall(t) \/ ToolAnswer(t) \/ LoseAnswer(t)
  BY <1>0, <1>4
     DEF Prepare, PrepareFails, ModelEnds, ModelCalls, OutOfIterations, AllowCall, DenyCall,
         ToolAnswer, LoseAnswer
<1>5. CASE RememberAnswer(t)
  BY <1>0, <1>5 DEF RememberAnswer, AnsweredWithText
<1>6. CASE CommitTurn(t)
  BY <1>0, <1>6 DEF CommitTurn, AnsweredWithText
<1>7. CASE Interrupt(t)
  BY <1>0, <1>7 DEF Interrupt
<1>8. CASE RunTool(t) \/ RefuseTool(t)
  BY <1>8 DEF RunTool, RefuseTool, AnsweredWithText
<1>9. ASSUME pc'[t] = pc[t], events'[t] = events[t]
      PROVE  AnsweredWithText(t)' <=> AnsweredWithText(t)
  BY <1>9 DEF AnsweredWithText
<1> QED
  BY <1>1, <1>2, <1>3, <1>4, <1>5, <1>6, <1>7, <1>8, <1>9, OtherSteps DEF Serve

LEMMA KeepStep ==
  ASSUME BufferWorks, IInv, KeepInv, [Next]_vars
  PROVE  KeepInv'
<1>0. \A t \in Turns : <<t, "user">> \in Message /\ <<t, "assistant">> \in Message
  BY DEF Message
<1>1. ASSUME UNCHANGED stm, \A t \in Turns : ~RememberUser(t),
             \A t \in Turns : RememberAnswer(t) => ~Remember(<<t, "assistant">>)
      PROVE  KeepInv'
  <2>1. \A m \in Message : Holds(m)' <=> Holds(m)
    BY <1>1 DEF Holds
  <2>2. \A t \in Turns :
          /\ pc'[t] \in {"new", "loaded", "saved"} => pc[t] \in {"new", "loaded", "saved"}
          /\ pc'[t] = "new" => pc[t] = "new"
          /\ Kept(t) => Kept(t)'
    BY <1>0, <1>1, <2>1, KeepsMoving DEF Kept
  <2> QED
    BY <1>0, <1>1, <2>1, <2>2 DEF KeepInv
<1>2. ASSUME NEW t \in Turns, RememberUser(t) PROVE KeepInv'
  <2>1. PICK m \in Message : m = <<t, "user">> /\ m[1] = t
    BY <1>0
  <2>2. /\ pc[t] = "saved" /\ pc'[t] = "preparing" /\ Remember(m) /\ UNCHANGED events
        /\ \A u \in Turns \ {t} : pc'[u] = pc[u]
    BY <1>2, <2>1 DEF RememberUser, Goto, IInv, TypeOK
  <2>3. ~Holds(m)
    BY <2>1, <2>2 DEF KeepInv
  <2>4. /\ \A i, j \in DOMAIN stm' : stm'[i] = stm'[j] => i = j
        /\ \A n \in Message : Holds(n)' => Holds(n) \/ n = m
        /\ \A u \in Turns : pc[u] = "new" /\ u # t =>
             \A n \in Message : Holds(n) \/ n = m => Holds(n)'
    BY <2>1, <2>2, <2>3, PushKeeps
  <2>5. \A u \in Turns : pc'[u] \in {"new", "loaded", "saved"} => ~Holds(<<u, "user">>)'
    BY <1>0, <2>1, <2>2, <2>4 DEF KeepInv
  <2>6. ASSUME NEW v \in Turns, pc'[v] = "new", NEW u \in Turns PROVE Kept(u)'
    <3>1. pc[v] = "new" /\ v # t /\ Kept(u)
      BY <2>2, <2>6 DEF KeepInv
    <3>2. \A n \in Message : Holds(n) \/ n = m => Holds(n)'
      BY <2>4, <3>1
    <3>3. AnsweredWithText(u)' <=> AnsweredWithText(u)
      BY <2>2 DEF AnsweredWithText
    <3> QED
      BY <1>0, <2>1, <2>2, <3>1, <3>2, <3>3 DEF Kept
  <2> QED
    BY <2>4, <2>5, <2>6 DEF KeepInv
<1>3. ASSUME NEW t \in Turns, RememberAnswer(t), Remember(<<t, "assistant">>) PROVE KeepInv'
  <2>1. PICK m \in Message : m = <<t, "assistant">> /\ m[1] = t /\ m[2] = "assistant"
    BY <1>0
  <2>2. /\ pc[t] = "remembering" /\ pc'[t] = "committing" /\ Remember(m) /\ UNCHANGED events
        /\ \A u \in Turns \ {t} : pc'[u] = pc[u]
    BY <1>3, <2>1 DEF RememberAnswer, Goto, IInv, TypeOK
  <2>3. ~Holds(m)
    BY <2>1, <2>2 DEF Holds, IInv, BufferInv, Backed
  <2>4. /\ \A i, j \in DOMAIN stm' : stm'[i] = stm'[j] => i = j
        /\ \A n \in Message : Holds(n)' => Holds(n) \/ n = m
        /\ \A u \in Turns : pc[u] = "new" /\ u # t =>
             \A n \in Message : Holds(n) \/ n = m => Holds(n)'
    BY <2>1, <2>2, <2>3, PushKeeps
  <2>5. \A u \in Turns : pc'[u] \in {"new", "loaded", "saved"} => ~Holds(<<u, "user">>)'
    BY <1>0, <2>1, <2>2, <2>4 DEF KeepInv
  <2>6. ASSUME NEW v \in Turns, pc'[v] = "new", NEW u \in Turns PROVE Kept(u)'
    <3>1. pc[v] = "new" /\ v # t /\ Kept(u)
      BY <2>2, <2>6 DEF KeepInv
    <3>2. \A n \in Message : Holds(n) \/ n = m => Holds(n)'
      BY <2>4, <3>1
    <3>3. AnsweredWithText(u)' <=> AnsweredWithText(u)
      BY <2>2 DEF AnsweredWithText
    <3> QED
      BY <1>0, <2>1, <2>2, <3>1, <3>2, <3>3 DEF Kept
  <2> QED
    BY <2>4, <2>5, <2>6 DEF KeepInv
<1>4. \/ \E t \in Turns : RememberUser(t)
      \/ \E t \in Turns : RememberAnswer(t) /\ Remember(<<t, "assistant">>)
      \/ UNCHANGED stm
  BY DEF Next, Serve, vars, turnVars, Reject, ReadShortTerm, SaveUser, Prepare, PrepareFails,
         ModelCalls, LoseAnswer, CommitTurn, Interrupt, RefuseTool, RunTool, ModelEnds,
         OutOfIterations, AllowCall, DenyCall, ToolAnswer, CreateTool, UpdateTool, DeleteTool,
         RememberAnswer, Expire, BufferWorks
<1> QED
  BY <1>1, <1>2, <1>3, <1>4

\* Each message and each answer of a done turn that the rows hold is one the
\* buffer has kept.
LEMMA HistoryInBuffer ==
  ASSUME BufferWorks, IInv, KeepInv, NEW t \in Turns, pc[t] = "new",
         NEW m \in DbHistory, pc[m[1]] = "done"
  PROVE  Holds(m)
<1>1. /\ m \in Message /\ m[1] \in Turns /\ m = <<m[1], m[2]>> /\ m[2] \in {"user", "assistant"}
      /\ \E i \in DOMAIN rows[m[1]] :
            rows[m[1]][i].kind = IF m[2] = "user" THEN "user" ELSE "final"
  BY DEF DbHistory, Message
<1>2. Kept(m[1])
  BY <1>1 DEF KeepInv
<1>3. CASE m[2] = "user"
  BY <1>1, <1>2, <1>3 DEF Kept
<1>4. CASE m[2] = "assistant"
  <2> DEFINE u == m[1]
             e == events[u]
             r == rows[u]
  <2>1. PICK i \in DOMAIN r : r[i].kind = "final"
    BY <1>1, <1>4
  <2>2. /\ e \in Seq(Event) /\ r \in Seq(Row) /\ Paired(e, "done")
        /\ Len(r) = Len(Saved(u)) + 1 /\ r[1] = UserRow
        /\ \A j \in 2..Len(r) : r[j] = e[j - 1]
        /\ Len(Saved(u)) <= Len(e) /\ Len(Saved(u)) \in Nat
    <3>1. TypeOK /\ u \in Turns /\ pc[u] = "done" /\ Paired(e, "done")
      BY <1>1 DEF IInv, PairInv
    <3>2. e \in Seq(Event) /\ r \in Seq(Row)
      BY <3>1 DEF TypeOK
    <3>3. Len(r) = Len(Saved(u)) + 1 /\ r[1] = UserRow /\ \A j \in 2..Len(r) : r[j] = e[j - 1]
      BY <3>1, DoneRows
    <3>4. Saved(u) \in Seq(Event) /\ Len(Saved(u)) <= Len(e)
      BY <3>1, SavedEvents
    <3> HIDE DEF u, e, r
    <3>5. Len(Saved(u)) \in Nat
      BY <3>4
    <3> QED
      BY <3>1, <3>2, <3>3, <3>4, <3>5
  <2> HIDE DEF e, r
  <2>3. i \in 2..Len(r)
    BY <2>1, <2>2 DEF UserRow
  <2>4. i - 1 \in 1..Len(e) /\ e[i - 1].kind = "final"
    BY <2>1, <2>2, <2>3
  <2>5. i - 1 = Len(e)
    BY <2>2, <2>4 DEF Paired, Terminal
  <2>6. AnsweredWithText(u)
    BY <2>4, <2>5 DEF AnsweredWithText, e
  <2> QED
    BY <1>1, <1>2, <1>4, <2>6 DEF Kept
<1> QED
  BY <1>1, <1>3, <1>4

\* While the buffer works, a turn that reads it is given every message and every
\* answer of the turns that were done by then (HistoryKeepsDoneTurns), however
\* turns overlap: for max_messages no less than two per other turn.
THEOREM HistoryIsKept ==
  ASSUME BufferWorks
  PROVE  Spec => HistoryKeepsDoneTurns
<1>1. Init => KeepInv
  BY DEF Init, KeepInv, Holds, Kept
<1>2. IInv /\ KeepInv /\ [Next]_vars => KeepInv'
  BY KeepStep
<1>3. ASSUME IInv, KeepInv, [Next]_vars, NEW t \in Turns,
             pc[t] = "new", pc'[t] = "loaded", seen'[t] # {},
             NEW m \in DbHistory, pc[m[1]] = "done"
      PROVE  m \in seen'[t]
  <2>1. ReadShortTerm(t)
    <3>1. \E u \in Turns : \/ Reject(u) \/ ReadShortTerm(u) \/ Serve(u) \/ Interrupt(u)
                           \/ RunTool(u) \/ RefuseTool(u)
      BY <1>3, OtherSteps DEF turnVars
    <3>2. pc \in [Turns -> {"new"} \cup Live \cup Ended]
      BY <1>3 DEF IInv, TypeOK
    <3>3. \A u \in Turns : \A x : pc' = [pc EXCEPT ![u] = x] => (x = "loaded" \/ u # t)
      BY <1>3, <3>2
    <3>4. \A u \in Turns : \A x : pc' = [pc EXCEPT ![u] = x] => u = t
      BY <1>3, <3>2
    <3>5. pc' # pc
      BY <1>3
    <3>6. ASSUME NEW u \in Turns, ~ReadShortTerm(u),
                 \/ Reject(u) \/ ReadShortTerm(u) \/ Serve(u) \/ Interrupt(u)
                 \/ RunTool(u) \/ RefuseTool(u)
          PROVE  \E x : x # "loaded" /\ (pc' = [pc EXCEPT ![u] = x] \/ UNCHANGED pc)
      BY <3>6
         DEF Goto, Reject, SaveUser, RememberUser, Prepare, PrepareFails, ModelCalls,
             LoseAnswer, RememberAnswer, CommitTurn, Interrupt, RefuseTool, RunTool, ModelEnds,
             OutOfIterations, AllowCall, DenyCall, ToolAnswer, Serve
    <3>7. PICK u \in Turns : \/ Reject(u) \/ ReadShortTerm(u) \/ Serve(u) \/ Interrupt(u)
                              \/ RunTool(u) \/ RefuseTool(u)
      BY <3>1
    <3>8. ReadShortTerm(u)
      BY <3>3, <3>4, <3>5, <3>6, <3>7
    <3> QED
      BY <3>4, <3>8 DEF ReadShortTerm, Goto
  <2>2. seen'[t] = {stm[i] : i \in DOMAIN stm}
    <3>1. seen \in [Turns -> SUBSET Message]
      BY <1>3 DEF IInv, TypeOK
    <3> QED
      BY <2>1, <3>1 DEF ReadShortTerm, BufferWorks
  <2>3. Holds(m)
    BY <1>3, HistoryInBuffer
  <2> QED
    BY <2>2, <2>3 DEF Holds
<1>4. IInv /\ KeepInv /\ [Next]_vars =>
        [\A t \in Turns :
           pc[t] = "new" /\ pc'[t] = "loaded" /\ seen'[t] # {} =>
              \A m \in DbHistory : pc[m[1]] = "done" => m \in seen'[t]]_vars
  BY <1>3
<1> QED
  BY <1>1, <1>2, <1>4, Inductive, PTL DEF Spec, HistoryKeepsDoneTurns

-----------------------------------------------------------------------------
(* Refinement.                                                             *)

\* A step that moves one turn t from one phase to another, and changes no
\* rows but t's, is seen through phaseBar and rows alone.
LEMMA BarMove ==
  ASSUME TypeOK, NEW t \in Turns, NEW to,
         pc' = [pc EXCEPT ![t] = to]
  PROVE  phaseBar' = [phaseBar EXCEPT ![t] = Phase(t)']
<1>1. \A u \in Turns \ {t} : pc'[u] = pc[u]
  BY DEF TypeOK
<1>2. \A u \in Turns \ {t} : Phase(u)' = Phase(u)
  BY <1>1 DEF Phase
<1> QED
  BY <1>2 DEF phaseBar

LEMMA BarSame ==
  ASSUME pc' = pc
  PROVE  phaseBar' = phaseBar
BY DEF phaseBar, Phase

\* A move inside a phase is a stutter.
LEMMA BarStutter ==
  ASSUME TypeOK, NEW t \in Turns, NEW to,
         pc' = [pc EXCEPT ![t] = to], rows' = rows,
         Phase(t)' = Phase(t)
  PROVE  UNCHANGED C!vars
<1>1. phaseBar' = [phaseBar EXCEPT ![t] = Phase(t)]
  BY BarMove
<1>2. phaseBar' = phaseBar
  BY <1>1 DEF phaseBar
<1> QED
  BY <1>2 DEF C!vars

LEMMA BarDrop ==
  ASSUME TypeOK, NEW t \in Turns, NEW to,
         pc' = [pc EXCEPT ![t] = to], rows' = rows,
         Phase(t) \in {"new", "asked"}, Phase(t)' = "dropped"
  PROVE  C!Drop(t)
<1>1. phaseBar' = [phaseBar EXCEPT ![t] = "dropped"]
  BY BarMove
<1>2. phaseBar[t] \in {"new", "asked"}
  BY DEF phaseBar
<1> QED
  BY <1>1, <1>2 DEF C!Drop

LEMMA BarInit == Init => C!Init
<1> SUFFICES ASSUME Init PROVE C!Init
  OBVIOUS
<1>1. \A t \in Turns : Phase(t) = "new"
  BY DEF Init, Phase
<1> QED
  BY <1>1 DEF C!Init, phaseBar, Init

LEMMA BarStep ==
  ASSUME IInv, DoneRowsWhole', [Next]_vars
  PROVE  [C!Next]_(C!vars)
<1> USE DEF Goto
<1>0. TypeOK
  BY DEF IInv
<1>t. \A x : \A u \in Turns : pc' = [pc EXCEPT ![u] = x] => pc'[u] = x
  BY <1>0 DEF TypeOK
<1>1. ASSUME NEW t \in Turns, Reject(t) PROVE C!Drop(t)
  <2>1. Phase(t) = "new" /\ Phase(t)' = "dropped"
    BY <1>1, <1>t DEF Reject, Phase
  <2> QED
    BY <1>0, <1>1, <2>1, BarDrop DEF Reject
<1>2. ASSUME NEW t \in Turns, ReadShortTerm(t) PROVE UNCHANGED C!vars
  <2>1. Phase(t)' = Phase(t)
    BY <1>2, <1>t DEF ReadShortTerm, Phase
  <2> QED
    BY <1>0, <1>2, <2>1, BarStutter DEF ReadShortTerm
<1>3. ASSUME NEW t \in Turns, SaveUser(t) PROVE C!Ask(t)
  <2>1. Phase(t) = "new" /\ Phase(t)' = "asked"
    BY <1>3, <1>t DEF SaveUser, Phase
  <2>2. phaseBar' = [phaseBar EXCEPT ![t] = "asked"]
    BY <1>0, <1>3, <2>1, BarMove DEF SaveUser
  <2>3. phaseBar[t] = "new"
    BY <2>1 DEF phaseBar
  <2>4. rows[t] = <<>>
    BY <1>3 DEF IInv, TurnRowsAllOrNothing, SaveUser
  <2>5. rows' = [rows EXCEPT ![t] = <<C!Question>>]
    BY <1>0, <1>3, <2>4 DEF SaveUser, TypeOK, UserRow, C!Question
  <2> QED
    BY <2>2, <2>3, <2>5 DEF C!Ask
<1>4. ASSUME NEW t \in Turns,
             \/ RememberUser(t) \/ Prepare(t) \/ ModelEnds(t) \/ OutOfIterations(t)
             \/ AllowCall(t) \/ ToolAnswer(t) \/ RememberAnswer(t)
      PROVE  UNCHANGED C!vars
  <2>1. PICK to \in {"preparing", "thinking", "invoking", "remembering", "committing"} :
           pc' = [pc EXCEPT ![t] = to]
    BY <1>4 DEF RememberUser, Prepare, ModelEnds, OutOfIterations, AllowCall,
                ToolAnswer, RememberAnswer
  <2>2. pc[t] \in {"saved", "preparing", "thinking", "invoking", "remembering"}
    BY <1>4 DEF RememberUser, Prepare, ModelEnds, OutOfIterations, AllowCall,
                ToolAnswer, RememberAnswer
  <2>3. rows' = rows
    BY <1>4 DEF RememberUser, Prepare, ModelEnds, OutOfIterations, AllowCall,
                ToolAnswer, RememberAnswer
  <2>4. pc'[t] = to
    BY <1>t, <2>1
  <2>5. Phase(t) = "asked" /\ Phase(t)' = "asked"
    BY <2>2, <2>4 DEF Phase
  <2> QED
    BY <1>0, <2>1, <2>3, <2>5, BarStutter
<1>5. ASSUME NEW t \in Turns, PrepareFails(t) \/ LoseAnswer(t) PROVE C!Drop(t)
  <2>1. /\ pc' = [pc EXCEPT ![t] = "failed"]
        /\ pc[t] \in {"preparing", "invoking"}
        /\ rows' = rows
    BY <1>5 DEF PrepareFails, LoseAnswer
  <2>2. Phase(t) = "asked" /\ Phase(t)' = "dropped"
    BY <1>t, <2>1 DEF Phase
  <2> QED
    BY <1>0, <2>1, <2>2, BarDrop
<1>6. ASSUME NEW t \in Turns, CommitTurn(t) PROVE C!Settle(t)
  <2>1. /\ pc' = [pc EXCEPT ![t] = "done"]
        /\ pc[t] = "committing" /\ pc'[t] = "done"
        /\ rows' = [rows EXCEPT ![t] = @ \o Saved(t)]
    BY <1>6, <1>t DEF CommitTurn
  <2>2. Phase(t) = "asked" /\ Phase(t)' = "settled"
    BY <2>1 DEF Phase
  <2>3. phaseBar' = [phaseBar EXCEPT ![t] = "settled"] /\ phaseBar[t] = "asked"
    BY <1>0, <2>1, <2>2, BarMove DEF phaseBar
  <2>4. rows' = [rows EXCEPT ![t] = rows'[t]]
    BY <1>0, <2>1 DEF TypeOK
  <2>5. C!Whole(rows'[t])
    BY <2>1 DEF DoneRowsWhole
  <2> QED
    BY <2>3, <2>4, <2>5 DEF C!Settle
<1>7. ASSUME NEW t \in Turns, Interrupt(t) PROVE C!Drop(t)
  <2>1. Phase(t) \in {"new", "asked"} /\ Phase(t)' = "dropped"
    BY <1>7, <1>t DEF Interrupt, Live, Phase
  <2> QED
    BY <1>0, <1>7, <2>1, BarDrop DEF Interrupt
<1>8. ASSUME NEW t \in Turns, ModelCalls(t) \/ DenyCall(t) \/ RunTool(t) \/ RefuseTool(t)
      PROVE  UNCHANGED C!vars
  BY <1>8, BarSame DEF ModelCalls, DenyCall, RunTool, RefuseTool, C!vars
<1>9. ASSUME NEW d \in Tools, CreateTool(d) \/ UpdateTool(d) \/ DeleteTool(d)
      PROVE  UNCHANGED C!vars
  BY <1>9, BarSame DEF CreateTool, UpdateTool, DeleteTool, turnVars, C!vars
<1>10. CASE Expire
  BY <1>10, BarSame DEF Expire, turnVars, C!vars
<1>11. CASE UNCHANGED vars
  BY <1>11, BarSame DEF vars, turnVars, C!vars
<1> QED
  BY <1>1, <1>2, <1>3, <1>4, <1>5, <1>6, <1>7, <1>8, <1>9, <1>10, <1>11
     DEF Next, Serve, C!Next

\* agent-runtime implements the two-write conversation, for every number of
\* turns and whatever overlaps, failures and edits of the registry occur.
THEOREM Implements == Spec => ImplementsConversation
<1>1. Init => C!Init
  BY BarInit
<1>2. IInv /\ DoneRowsWhole' /\ [Next]_vars => [C!Next]_(C!vars)
  BY BarStep
<1> QED
  BY <1>1, <1>2, AllWhole, Inductive, PTL DEF Spec, ImplementsConversation, C!Spec
=============================================================================
