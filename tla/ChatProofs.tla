----------------------------- MODULE ChatProofs -----------------------------
(***************************************************************************)
(* Theorems about the chat of api-gateway: about ChatSocket for any number *)
(* of messages and events, and about ChatSessions for any number of turns, *)
(* requests to end the session, deliveries and failures.                   *)
(***************************************************************************)
EXTENDS ChatSocket, ChatSessions, SumTheorems

(* The frames of a socket.                                                 *)

\* One task at a time, the last one started, and no frame of a run to come.
Ordered ==
  /\ \A r \in Runs : task[r] = "none" <=> r > current
  /\ \A r \in Runs : task[r] \in Live => r = current
  /\ reader \in {"settling", "settling_to_start"} => current # 0
  /\ reader = "settling_to_start" => current < MaxRuns
  /\ \A i \in 1..Len(wire) :
        wire[i].run <= current /\ (wire[i].run = 0 => wire[i].type \notin Terminal)

\* What the client has been told of a run that may still send.
Told ==
  \A i \in 1..Len(wire), r \in Runs :
     wire[i].run = r /\ wire[i].type \in Terminal =>
        /\ task[r] \notin {"created", "streaming"}
        /\ task[r] = "done_sent" => wire[i].type = "done"

IInv == TypeOK /\ Ordered /\ Told /\ RunsDoNotInterleave /\ NothingAfterTheEnd

LEMMA SocketInit == Init => IInv
BY ChatSocketAssumption
   DEF Init, IInv, TypeOK, Ordered, Told, RunsDoNotInterleave, NothingAfterTheEnd, Runs, Live

\* A frame that is sent is the last one, and the others stay.
LEMMA SendAppends ==
  ASSUME TypeOK, NEW r \in {0} \cup Runs,
         NEW type \in Terminal \cup {"event", "no_active_run", "pong"}, Send(r, type)
  PROVE  /\ wire' \in Seq(Frame)
         /\ \A i \in 1..Len(wire') :
               \/ i \in 1..Len(wire) /\ wire'[i] = wire[i]
               \/ i = Len(wire) + 1 /\ wire'[i].run = r /\ wire'[i].type = type
<1> DEFINE f == [run |-> r, type |-> type]
<1>1. f \in Frame
  BY DEF Frame
<1>2. wire \in Seq(Frame)
  BY DEF TypeOK
<1> HIDE DEF f
<1>3. CASE open
  <2>1. wire' = Append(wire, f)
    BY <1>3 DEF Send, f
  <2>2. wire' \in Seq(Frame) /\ Len(wire') = Len(wire) + 1
    BY <1>1, <1>2, <2>1
  <2>3. \A i \in 1..Len(wire) : wire'[i] = wire[i]
    BY <1>1, <1>2, <2>1
  <2>4. wire'[Len(wire) + 1] = f
    BY <1>1, <1>2, <2>1
  <2>5. Len(wire) \in Nat
    BY <1>2
  <2> QED
    BY <2>2, <2>3, <2>4, <2>5 DEF f
<1>4. CASE ~open
  BY <1>2, <1>4 DEF Send
<1> QED
  BY <1>3, <1>4

\* A frame of the run in flight, or of none, keeps the order of the frames, if
\* what was told of that run allows the frame.
LEMMA SendKeepsOrder ==
  ASSUME IInv, NEW r \in {0} \cup Runs, r = 0 \/ r = current,
         NEW type \in Terminal \cup {"event", "no_active_run", "pong"}, Send(r, type),
         \/ r = 0 /\ type \notin Terminal
         \/ task[r] = "streaming"
         \/ task[r] = "done_sent" /\ type = "cancelled"
  PROVE  RunsDoNotInterleave' /\ NothingAfterTheEnd'
<1>1. \A i \in 1..Len(wire') :
        \/ i \in 1..Len(wire) /\ wire'[i] = wire[i]
        \/ i = Len(wire) + 1 /\ wire'[i].run = r /\ wire'[i].type = type
  BY SendAppends DEF IInv
<1>2. Len(wire) \in Nat /\ Len(wire') \in Nat /\ current \in Nat
  BY SendAppends, ChatSocketAssumption DEF IInv, TypeOK, Runs
<1>3. \A i \in 1..Len(wire) : wire[i] \in Frame /\ wire[i].run \in Nat /\ wire[i].run <= current
  <2>1. \A i \in 1..Len(wire) : wire[i] \in Frame
    BY DEF IInv, TypeOK
  <2>2. \A f \in Frame : f.run \in Nat
    BY ChatSocketAssumption DEF Frame, Runs
  <2> QED
    BY <2>1, <2>2 DEF IInv, Ordered
<1>4. RunsDoNotInterleave'
  BY <1>1, <1>2, <1>3 DEF IInv, RunsDoNotInterleave
<1>5. ASSUME NEW i \in 1..Len(wire'), NEW j \in 1..Len(wire'), i < j,
             wire'[i].type \in Terminal, wire'[i].run = wire'[j].run
      PROVE  wire'[i].type = "done" /\ wire'[j].type = "cancelled"
  <2>1. i \in 1..Len(wire) /\ wire'[i] = wire[i]
    BY <1>1, <1>2, <1>5
  <2>2. CASE j \in 1..Len(wire) /\ wire'[j] = wire[j]
    BY <1>5, <2>1, <2>2 DEF IInv, NothingAfterTheEnd
  <2>3. CASE wire'[j].run = r /\ wire'[j].type = type
    <3>1. wire[i].run = r
      BY <1>5, <2>1, <2>3
    <3>2. CASE r = 0
      BY <1>5, <2>1, <3>1, <3>2 DEF IInv, Ordered
    <3>3. CASE r \in Runs
      BY <1>5, <2>1, <2>3, <3>1, <3>3, ChatSocketAssumption DEF IInv, Told, Runs
    <3> QED
      BY <3>2, <3>3
  <2> QED
    BY <1>1, <2>2, <2>3
<1> QED
  BY <1>4, <1>5 DEF NothingAfterTheEnd

-----------------------------------------------------------------------------
LEMMA TaskStep ==
  ASSUME IInv, NEW r \in Runs,
         \/ Open(r) \/ ForwardEvent(r) \/ ForwardDone(r) \/ StreamFails(r)
         \/ StreamEnds(r) \/ Return(r) \/ Interrupted(r)
  PROVE  IInv'
<1> USE ChatSocketAssumption
<1>1. /\ r = current /\ current' = current /\ reader' = reader
      /\ task' \in [Runs -> Live \cup {"none", "over"}] /\ task[r] \in Live
      /\ \A q \in Runs : q # r => task'[q] = task[q]
      /\ task'[r] \in Live \cup {"over"}
  BY DEF IInv, TypeOK, Ordered, Live, Running, Open, ForwardEvent, ForwardDone, StreamFails,
         StreamEnds, Return, Interrupted
<1>2. ASSUME wire' = wire, ~(task'[r] = "done_sent"),
             task'[r] = "streaming" => task[r] \in {"created", "streaming"}, task'[r] # "created",
             cancelled' \subseteq Runs, events' \in [Runs -> 0..MaxEvents], open' \in BOOLEAN
      PROVE  IInv'
  <2>1. TypeOK'
    BY <1>1, <1>2 DEF IInv, TypeOK
  <2>2. Ordered'
    BY <1>1, <1>2 DEF IInv, TypeOK, Ordered, Live
  <2>3. Told'
    BY <1>1, <1>2 DEF IInv, Told
  <2> QED
    BY <1>2, <2>1, <2>2, <2>3 DEF IInv, RunsDoNotInterleave, NothingAfterTheEnd
<1>3. ASSUME NEW type \in Terminal \cup {"event"}, Send(r, type),
             \/ task[r] = "streaming"
             \/ task[r] = "done_sent" /\ type = "cancelled",
             \/ type = "event" /\ task'[r] = "streaming"
             \/ type = "done" /\ task'[r] = "done_sent"
             \/ task'[r] \in {"error_sent", "over"},
             cancelled' \subseteq Runs, events' \in [Runs -> 0..MaxEvents], open' \in BOOLEAN
      PROVE  IInv'
  <2>1. /\ wire' \in Seq(Frame)
        /\ \A i \in 1..Len(wire') :
              \/ i \in 1..Len(wire) /\ wire'[i] = wire[i]
              \/ i = Len(wire) + 1 /\ wire'[i].run = r /\ wire'[i].type = type
    BY <1>3, SendAppends DEF IInv
  <2>2. RunsDoNotInterleave' /\ NothingAfterTheEnd'
    BY <1>1, <1>3, SendKeepsOrder
  <2>3. TypeOK'
    BY <1>1, <1>3, <2>1 DEF IInv, TypeOK
  <2>4. r # 0 /\ r <= current
    BY <1>1 DEF Runs
  <2>5. \A i \in 1..Len(wire') :
          wire'[i].run <= current' /\ (wire'[i].run = 0 => wire'[i].type \notin Terminal)
    BY <1>1, <2>1, <2>4 DEF IInv, Ordered
  <2>6. Ordered'
    BY <1>1, <2>5 DEF IInv, TypeOK, Ordered, Live
  <2>7. Told'
    BY <1>1, <1>3, <2>1 DEF IInv, Told, Terminal
  <2> QED
    BY <2>2, <2>3, <2>6, <2>7 DEF IInv
<1>4. cancelled' \subseteq Runs /\ events' \in [Runs -> 0..MaxEvents] /\ open' \in BOOLEAN
  BY DEF IInv, TypeOK, Open, ForwardEvent, ForwardDone, StreamFails, StreamEnds, Return,
         Interrupted
<1>5. task \in [Runs -> Live \cup {"none", "over"}]
  BY DEF IInv, TypeOK
<1> USE DEF Running, Terminal
<1>6. CASE Open(r)
  BY <1>2, <1>4, <1>5, <1>6 DEF Open
<1>7. CASE ForwardEvent(r)
  BY <1>3, <1>4, <1>7 DEF ForwardEvent
<1>8. CASE ForwardDone(r)
  BY <1>3, <1>4, <1>5, <1>8 DEF ForwardDone
<1>9. CASE StreamFails(r)
  BY <1>3, <1>4, <1>5, <1>9 DEF StreamFails
<1>10. CASE StreamEnds(r) \/ Return(r)
  BY <1>2, <1>4, <1>5, <1>10 DEF StreamEnds, Return
<1>11. CASE Interrupted(r)
  BY <1>2, <1>3, <1>4, <1>5, <1>11 DEF Interrupted
<1> QED
  BY <1>6, <1>7, <1>8, <1>9, <1>10, <1>11

\* The next task is created when there is none in flight.
LEMMA StartStep ==
  ASSUME IInv, Start, UNCHANGED <<events, wire, open>>, cancelled' \subseteq Runs,
         current < MaxRuns, ~InFlight
  PROVE  IInv'
<1> USE ChatSocketAssumption
<1>1. /\ current \in Nat /\ current + 1 \in Runs /\ current' = current + 1
      /\ task' = [task EXCEPT ![current + 1] = "created"] /\ reader' = "receiving"
      /\ wire' = wire /\ events' = events /\ open' = open
  BY DEF IInv, TypeOK, Start, Runs
<1>2. TypeOK'
  BY <1>1 DEF IInv, TypeOK, Live
<1>3. \A r \in Runs : task[r] \notin Live
  BY DEF IInv, Ordered, InFlight, Runs
<1>4. \A i \in 1..Len(wire) : wire[i].run \in Nat /\ wire[i].run <= current
  <2>1. \A i \in 1..Len(wire) : wire[i] \in Frame
    BY DEF IInv, TypeOK
  <2> QED
    BY <2>1 DEF Frame, Runs, IInv, Ordered
<1>5. Ordered'
  <2>1. \A r \in Runs : task'[r] = "none" <=> r > current'
    BY <1>1 DEF IInv, TypeOK, Ordered, Runs
  <2>2. \A r \in Runs : task'[r] \in Live => r = current'
    BY <1>1, <1>3 DEF IInv, TypeOK
  <2>3. \A i \in 1..Len(wire) :
          wire[i].run <= current' /\ (wire[i].run = 0 => wire[i].type \notin Terminal)
    BY <1>1, <1>4 DEF IInv, Ordered
  <2> QED
    BY <1>1, <2>1, <2>2, <2>3 DEF Ordered
<1>6. Told'
  BY <1>1, <1>4 DEF IInv, TypeOK, Told
<1> QED
  BY <1>1, <1>2, <1>5, <1>6 DEF IInv, RunsDoNotInterleave, NothingAfterTheEnd

\* A reply of the reader itself.
LEMMA ReplyStep ==
  ASSUME IInv, NEW type \in {"no_active_run", "pong"}, Send(0, type),
         UNCHANGED <<reader, current, task, cancelled, events, open>>
  PROVE  IInv'
<1>1. /\ wire' \in Seq(Frame)
      /\ \A i \in 1..Len(wire') :
            \/ i \in 1..Len(wire) /\ wire'[i] = wire[i]
            \/ i = Len(wire) + 1 /\ wire'[i].run = 0 /\ wire'[i].type = type
  BY SendAppends DEF IInv
<1>2. RunsDoNotInterleave' /\ NothingAfterTheEnd'
  BY SendKeepsOrder DEF Terminal
<1>3. TypeOK'
  BY <1>1 DEF IInv, TypeOK
<1>4. current \in Nat
  BY ChatSocketAssumption DEF IInv, TypeOK, Runs
<1>5. Ordered'
  BY <1>1, <1>4 DEF IInv, Ordered, Terminal
<1>6. Told'
  BY <1>1 DEF IInv, Told, Runs, Terminal
<1> QED
  BY <1>2, <1>3, <1>5, <1>6 DEF IInv

LEMMA SocketStep ==
  ASSUME IInv, [Next]_vars
  PROVE  IInv'
<1> USE ChatSocketAssumption
<1>1. ASSUME UNCHANGED <<current, task, events, wire>>, cancelled' \subseteq Runs,
             open' \in BOOLEAN,
             \/ reader' = reader
             \/ reader' \in {"receiving", "returned"}
             \/ reader' = "settling" /\ current # 0
             \/ reader' = "settling_to_start" /\ current # 0 /\ current < MaxRuns
      PROVE  IInv'
  BY <1>1 DEF IInv, TypeOK, Ordered, Told, RunsDoNotInterleave, NothingAfterTheEnd
<1>2. /\ cancelled \subseteq Runs /\ open \in BOOLEAN /\ current \in {0} \cup Runs
      /\ (InFlight => current # 0 /\ cancelled \cup {current} \subseteq Runs)
  BY DEF IInv, TypeOK, InFlight
<1>3. CASE UserMessage
  <2>1. CASE InFlight
    BY <1>1, <1>2, <1>3, <2>1 DEF UserMessage
  <2>2. CASE ~InFlight
    BY <1>2, <1>3, <2>2, StartStep DEF UserMessage
  <2> QED
    BY <2>1, <2>2
<1>4. CASE Cancel
  <2>1. CASE InFlight
    BY <1>1, <1>2, <1>4, <2>1 DEF Cancel
  <2>2. CASE ~InFlight
    BY <1>4, <2>2, ReplyStep DEF Cancel
  <2> QED
    BY <2>1, <2>2
<1>5. CASE Settled
  <2>1. ~InFlight
    BY <1>5 DEF Settled, InFlight, Live
  <2>2. CASE reader = "settling"
    BY <1>1, <1>2, <1>5, <2>2 DEF Settled
  <2>3. CASE reader = "settling_to_start"
    BY <1>2, <1>5, <2>1, <2>3, StartStep DEF Settled, IInv, Ordered
  <2> QED
    BY <1>5, <2>2, <2>3 DEF Settled
<1>6. CASE Ping
  BY <1>6, ReplyStep DEF Ping
<1>7. CASE ClientLeaves
  BY <1>1, <1>2, <1>7 DEF ClientLeaves
<1>8. CASE Disconnected
  BY <1>1, <1>2, <1>8 DEF Disconnected
<1>9. CASE UNCHANGED vars
  BY <1>1, <1>2, <1>9 DEF vars
<1> QED
  BY <1>3, <1>4, <1>5, <1>6, <1>7, <1>8, <1>9, TaskStep DEF Next

LEMMA SocketInductive == Spec => []IInv
<1>1. IInv /\ [Next]_vars => IInv'
  BY SocketStep
<1> QED
  BY <1>1, SocketInit, PTL DEF Spec

\* Every state of the socket has its type.
THEOREM SocketTyped == Spec => []TypeOK
BY SocketInductive, PTL DEF IInv

\* The frames of two runs are never interleaved (RunsDoNotInterleave), however
\* messages, cancellations, answers of the runtime and failures come.
THEOREM FramesInOrder == Spec => []RunsDoNotInterleave
BY SocketInductive, PTL DEF IInv

\* What follows the end of a run is at most a cancellation that came too late
\* (NothingAfterTheEnd).
THEOREM EndIsLast == Spec => []NothingAfterTheEnd
BY SocketInductive, PTL DEF IInv

-----------------------------------------------------------------------------
(* The message rows of a session, its jobs and their puts.                 *)

JobState ==
  [at : {"none", "queued", "summarising", "putting", "done"}, tries : 0..MaxTries, seen : Nat]
PutState ==
  [at : {"new", "embedding", "writing", "locked", "over"},
   seen : Nat, embedding : Embeddings, row : Puts \cup {None}]

Row ==
  [kind : {"user", "answer"}] \cup [kind : {"tool_call", "tool_result"}, n : {1}]

\* The rows of a turn that has not begun are none.
LogInv ==
  /\ phase \in [Turns -> {"new", "asked", "settled", "dropped"}]
  /\ log \in [Turns -> Seq(Row)]
  /\ \A t \in Turns : phase[t] = "new" => log[t] = <<>>

\* A job is queued once by its request, and delivered max_tries times at most.
JobInv ==
  \A e \in Ends :
    /\ end[e] \in {"new", "sending"} => job[e].at = "none"
    /\ job[e].at = "none" => job[e].tries = 0
    /\ job[e].at = "queued" => job[e].tries < MaxTries
    /\ Working(e) => job[e].tries # 0

\* The embedding of a put that has one is its own.
RankInv ==
  "embedding" \notin past =>
    /\ \A p \in Puts : put[p].at \in {"writing", "locked"} => put[p].embedding = p
    /\ \A i \in items : i.embedding = i.summary

\* As long as no job has been taken while another one worked or a put was still
\* open: there is one job or put at a time, one item, and whoever is about to
\* insert has seen none; and the put in progress knows the most messages.
AloneInv ==
  "overlap" \notin past =>
    /\ \A e, f \in Ends : Working(e) /\ Working(f) => e = f
    /\ \A p, q \in Puts : PutOpen(p) /\ PutOpen(q) => p = q
    /\ \A e \in Ends, p \in Puts : job[e].at = "summarising" => ~PutOpen(p)
    /\ \A i, j \in items : i = j
    /\ \A p \in Puts : put[p].at = "locked" /\ put[p].row = None => items = {}
    /\ \A e \in Ends, p \in Puts : job[e].at = "summarising" => put[p].seen <= job[e].seen
    /\ \A p, q \in Puts : PutOpen(p) => put[q].seen <= put[p].seen

\* No put was given more messages than a job would be given now.
SeenInv ==
  /\ \A e \in Ends : job[e].seen <= Heard
  /\ \A p \in Puts : put[p].seen <= Heard

SessionsInv == SessionsTypeOK /\ LogInv /\ JobInv /\ RankInv /\ AloneInv /\ SeenInv

LEMMA SessionTypes ==
  ASSUME SessionsTypeOK
  PROVE  /\ job \in [Ends -> JobState] /\ put \in [Puts -> PutState]
         /\ \A e \in Ends : /\ job[e] \in JobState /\ job[e].tries \in 0..MaxTries
                            /\ job[e].seen \in Nat
         /\ \A p \in Puts : put[p] \in PutState /\ put[p].seen \in Nat
         /\ items \subseteq Item /\ \A i \in items : i.summary \in Puts /\ i.row \in Puts
         /\ None \notin Puts /\ MaxTries \in Nat /\ MaxFaults \in Nat
<1>1. job \in [Ends -> JobState] /\ put \in [Puts -> PutState] /\ items \subseteq Item
  BY DEF SessionsTypeOK, JobState, PutState
<1>2. \A e \in Ends : job[e].tries \in 0..MaxTries /\ job[e].seen \in Nat
  BY <1>1 DEF JobState
<1>3. \A p \in Puts : put[p].seen \in Nat
  BY <1>1 DEF PutState
<1>4. \A i \in items : i.summary \in Puts /\ i.row \in Puts
  BY <1>1 DEF Item
<1>5. None \notin Puts
  BY DEF None, Puts
<1> QED
  BY <1>1, <1>2, <1>3, <1>4, <1>5, ChatSessionsAssumption

\* The messages with content, and what becomes of them as a turn goes on.
LEMMA SpokenCounted ==
  ASSUME LogInv, NEW t \in Turns
  PROVE  IsFiniteSet(Spoken(t)) /\ Cardinality(Spoken(t)) \in Nat
<1>1. Len(log[t]) \in Nat /\ Spoken(t) \subseteq 1..Len(log[t])
  BY DEF LogInv, Spoken
<1>2. IsFiniteSet(1..Len(log[t]))
  BY <1>1, FS_Interval
<1>3. IsFiniteSet(Spoken(t))
  BY <1>1, <1>2, FS_Subset
<1> QED
  BY <1>3, FS_CardinalityType

LEMMA SaidCounted ==
  ASSUME LogInv
  PROVE  Said \in Nat /\ Heard \in Nat
<1> DEFINE f == [t \in Turns |-> Cardinality(Spoken(t))]
<1>1. \A t \in Turns : f[t] \in Nat
  BY SpokenCounted
<1> HIDE DEF f
<1>2. Sum(f, Turns) \in Nat
  BY <1>1, SumIsNatural, ChatSessionsAssumption
<1>3. Said \in Nat
  BY <1>2 DEF Said, f
<1> QED
  BY <1>3, ChatSessionsAssumption DEF Heard

\* rows are only appended
Prefix(s, u) == Len(s) <= Len(u) /\ \A i \in 1..Len(s) : u[i] = s[i]

LEMMA UpToIsFinite ==
  ASSUME NEW n \in Nat
  PROVE  IsFiniteSet(1..n)
<1>1. n \in Int /\ 1 \in Int
  OBVIOUS
<1> QED
  BY ONLY <1>1, FS_Interval

LEMMA SaidGrows ==
  ASSUME LogInv, LogInv', \A t \in Turns : Prefix(log[t], log'[t])
  PROVE  Heard \in Nat /\ Heard' \in Nat /\ Heard <= Heard'
<1> DEFINE f == [t \in Turns |-> Cardinality(Spoken(t))]
           g == [t \in Turns |-> Cardinality(Spoken(t)')]
<1>1. ASSUME NEW t \in Turns
      PROVE  /\ Cardinality(Spoken(t)) \in Nat /\ Cardinality(Spoken(t)') \in Nat
             /\ Cardinality(Spoken(t)) <= Cardinality(Spoken(t)')
  <2>1. Len(log[t]) \in Nat /\ Len(log'[t]) \in Nat
    BY DEF LogInv
  <2>2. Spoken(t) \subseteq Spoken(t)'
    BY <2>1 DEF Spoken, Prefix
  <2> DEFINE n == Len(log'[t])
  <2>3. Spoken(t)' \subseteq 1..n /\ n \in Nat
    BY <2>1 DEF Spoken
  <2> HIDE DEF n
  <2>4. IsFiniteSet(Spoken(t)')
    <3>1. IsFiniteSet(1..n)
      <4>1. n \in Nat
        BY <2>3
      <4> QED
        BY ONLY <4>1, UpToIsFinite
    <3> DEFINE S == Spoken(t)'
    <3>2. S \subseteq 1..n
      BY <2>3
    <3> HIDE DEF S
    <3>3. IsFiniteSet(S)
      BY <3>1, <3>2, FS_Subset
    <3> QED
      BY <3>3 DEF S
  <2> HIDE DEF Spoken
  <2> QED
    BY <2>2, <2>4, SpokenCounted, FS_Subset, FS_CardinalityType
<1>2. \A t \in Turns : f[t] \in Int /\ g[t] \in Int /\ g[t] \in Nat /\ f[t] <= g[t]
  BY <1>1
<1>3. Said = Sum(f, Turns) /\ Said' = Sum(g, Turns)
  BY DEF Said
<1> HIDE DEF f, g
<1>4. Sum(f, Turns) <= Sum(g, Turns)
  BY <1>2, SumMonotone, ChatSessionsAssumption
<1>5. Said' \in Nat
  BY <1>2, <1>3, SumIsNatural, ChatSessionsAssumption
<1> QED
  BY <1>3, <1>4, <1>5, SaidCounted, ChatSessionsAssumption DEF Heard

LEMMA SessionsStart == SessionsInit => SessionsInv
<1> SUFFICES ASSUME SessionsInit PROVE SessionsInv
  OBVIOUS
<1> USE DEF SessionsInit
<1>1. SessionsTypeOK
  BY ChatSessionsAssumption DEF SessionsTypeOK, Embeddings, Runtime!Init
<1>2. LogInv
  BY DEF LogInv, Runtime!Init
<1>3. JobInv
  BY ChatSessionsAssumption DEF JobInv, Working
<1>4. RankInv
  BY DEF RankInv
<1>5. AloneInv
  BY DEF AloneInv, Working, PutOpen
<1>6. SeenInv
  BY <1>2, SaidCounted DEF SeenInv
<1> QED
  BY <1>1, <1>2, <1>3, <1>4, <1>5, <1>6 DEF SessionsInv

\* What one job, and what one put, becomes.
LEMMA JobGoes ==
  ASSUME SessionsTypeOK, NEW e \in Ends, NEW x \in {"queued", "summarising", "putting", "done"},
         job' = [job EXCEPT ![e].at = x]
  PROVE  /\ job' \in [Ends -> JobState] /\ \A f \in Ends \ {e} : job'[f] = job[f]
         /\ job'[e].at = x /\ job'[e].tries = job[e].tries /\ job'[e].seen = job[e].seen
         /\ \A f \in Ends : job'[f].seen = job[f].seen
BY SessionTypes DEF JobState

LEMMA JobTaken ==
  ASSUME SessionsTypeOK, LogInv, JobInv, NEW e \in Ends, TakeJob(e)
  PROVE  /\ job' \in [Ends -> JobState] /\ \A f \in Ends \ {e} : job'[f] = job[f]
         /\ job[e].at = "queued" /\ job'[e].at \in {"done", "summarising"}
         /\ job'[e].tries = job[e].tries + 1 /\ job'[e].tries # 0 /\ job'[e].seen = Heard
<1>1. /\ job \in [Ends -> JobState] /\ job[e] \in JobState
      /\ job[e].tries + 1 \in 0..MaxTries /\ job[e].tries + 1 # 0 /\ Heard \in Nat
  BY SessionTypes, SaidCounted DEF TakeJob, JobInv
<1> DEFINE x == IF Said = 0 THEN "done" ELSE "summarising"
           new == [job[e] EXCEPT !.at = x, !.tries = job[e].tries + 1, !.seen = Heard]
<1>2. job' = [job EXCEPT ![e] = new]
  BY DEF TakeJob
<1>3. /\ new \in JobState /\ new.at = x /\ new.tries = job[e].tries + 1 /\ new.seen = Heard
      /\ x \in {"done", "summarising"}
  BY <1>1 DEF JobState
<1>4. job[e].at = "queued"
  BY DEF TakeJob
<1> HIDE DEF x, new
<1> QED
  BY <1>1, <1>2, <1>3, <1>4

LEMMA PutGoes ==
  ASSUME SessionsTypeOK, NEW p \in Puts, NEW x \in {"embedding", "writing", "locked", "over"}
  PROVE  /\ put' = [put EXCEPT ![p].at = x] =>
              /\ put' \in [Puts -> PutState] /\ \A q \in Puts \ {p} : put'[q] = put[q]
              /\ put'[p].at = x /\ put'[p].seen = put[p].seen
              /\ put'[p].embedding = put[p].embedding /\ put'[p].row = put[p].row
         /\ \A v \in Embeddings : put' = [put EXCEPT ![p].at = x, ![p].embedding = v] =>
              /\ put' \in [Puts -> PutState] /\ \A q \in Puts \ {p} : put'[q] = put[q]
              /\ put'[p].at = x /\ put'[p].seen = put[p].seen
              /\ put'[p].embedding = v /\ put'[p].row = put[p].row
         /\ \A v \in Puts : put' = [put EXCEPT ![p].at = x, ![p].row = v] =>
              /\ put' \in [Puts -> PutState] /\ \A q \in Puts \ {p} : put'[q] = put[q]
              /\ put'[p].at = x /\ put'[p].seen = put[p].seen
              /\ put'[p].embedding = put[p].embedding /\ put'[p].row = v
         /\ put' = Over(p) =>
              /\ put' \in [Puts -> PutState] /\ \A q \in Puts \ {p} : put'[q] = put[q]
              /\ put'[p].at = "over" /\ put'[p].seen = put[p].seen
<1>1. put \in [Puts -> PutState]
  BY SessionTypes
<1>2. ASSUME put' = [put EXCEPT ![p].at = x]
      PROVE  /\ put' \in [Puts -> PutState] /\ \A q \in Puts \ {p} : put'[q] = put[q]
             /\ put'[p].at = x /\ put'[p].seen = put[p].seen
             /\ put'[p].embedding = put[p].embedding /\ put'[p].row = put[p].row
  BY <1>1, <1>2 DEF PutState
<1>3. ASSUME NEW v \in Embeddings, put' = [put EXCEPT ![p].at = x, ![p].embedding = v]
      PROVE  /\ put' \in [Puts -> PutState] /\ \A q \in Puts \ {p} : put'[q] = put[q]
             /\ put'[p].at = x /\ put'[p].seen = put[p].seen
             /\ put'[p].embedding = v /\ put'[p].row = put[p].row
  BY <1>1, <1>3 DEF PutState
<1>4. ASSUME NEW v \in Puts, put' = [put EXCEPT ![p].at = x, ![p].row = v]
      PROVE  /\ put' \in [Puts -> PutState] /\ \A q \in Puts \ {p} : put'[q] = put[q]
             /\ put'[p].at = x /\ put'[p].seen = put[p].seen
             /\ put'[p].embedding = put[p].embedding /\ put'[p].row = v
  BY <1>1, <1>4 DEF PutState
<1>5. ASSUME put' = Over(p)
      PROVE  /\ put' \in [Puts -> PutState] /\ \A q \in Puts \ {p} : put'[q] = put[q]
             /\ put'[p].at = "over" /\ put'[p].seen = put[p].seen
  BY <1>1, <1>5 DEF PutState, Over, Embeddings
<1> QED
  BY <1>2, <1>3, <1>4, <1>5

LEMMA DeliveryIsAPut ==
  ASSUME SessionsTypeOK, JobInv, NEW e \in Ends, Working(e)
  PROVE  PutOf(e) \in Puts
<1>1. job[e].tries \in 1..MaxTries
  BY SessionTypes DEF JobInv
<1> QED
  BY <1>1 DEF PutOf, Puts

LEMMA PutBegins ==
  ASSUME SessionsTypeOK, JobInv, NEW e \in Ends, Summarise(e)
  PROVE  /\ PutOf(e) \in Puts /\ job[e].at = "summarising" /\ put' \in [Puts -> PutState]
         /\ \/ UNCHANGED put /\ job' = [job EXCEPT ![e].at = "done"] /\ Fault
            \/ /\ \A q \in Puts \ {PutOf(e)} : put'[q] = put[q]
               /\ put'[PutOf(e)].at = "embedding" /\ put'[PutOf(e)].seen = job[e].seen
               /\ job' = [job EXCEPT ![e].at = "putting"] /\ UNCHANGED faults
         /\ UNCHANGED <<session, turns, end, items, past>>
<1> DEFINE p == PutOf(e)
           n == job[e].seen
<1>1. p \in Puts /\ n \in Nat /\ put \in [Puts -> PutState]
  BY DeliveryIsAPut, SessionTypes DEF Summarise, Working
<1>2. /\ job[e].at = "summarising" /\ UNCHANGED <<session, turns, end, items, past>>
      /\ \/ /\ put' = [put EXCEPT ![p].at = "embedding", ![p].seen = n]
            /\ job' = [job EXCEPT ![e].at = "putting"] /\ UNCHANGED faults
         \/ UNCHANGED put /\ job' = [job EXCEPT ![e].at = "done"] /\ Fault
  BY DEF Summarise
<1> HIDE DEF p, n
<1>3. ASSUME put' = [put EXCEPT ![p].at = "embedding", ![p].seen = n]
      PROVE  /\ put' \in [Puts -> PutState] /\ \A q \in Puts \ {p} : put'[q] = put[q]
             /\ put'[p].at = "embedding" /\ put'[p].seen = n
  BY <1>1, <1>3 DEF PutState
<1> QED
  BY <1>1, <1>2, <1>3 DEF p, n

\* The requests and the runtime leave the jobs and the puts alone.
Gateway ==
  \/ CreateSession
  \/ \E t \in Turns : Run(t) \/ Turn(t) \/ RunReturns(t)
  \/ \E e \in Ends : EndSession(e) \/ CommitEnd(e)

LEMMA LogStep ==
  ASSUME LogInv, [SessionsNext]_sessionsVars
  PROVE  /\ LogInv'
         /\ Heard \in Nat /\ Heard' \in Nat /\ Heard <= Heard'
<1>1. LogInv' /\ \A t \in Turns : Prefix(log[t], log'[t])
  <2>1. CASE UNCHANGED <<phase, log>>
    BY <2>1 DEF LogInv, Prefix
  <2>2. ASSUME NEW t \in Turns, Turn(t)
        PROVE  LogInv' /\ \A u \in Turns : Prefix(log[u], log'[u])
    <3>1. \A u \in Turns : log[u] \in Seq(Row) /\ Len(log[u]) \in Nat /\ Prefix(log[u], log[u])
      BY DEF LogInv, Prefix
    <3>2. CASE Runtime!Ask(t)
      <4>1. Runtime!Question \in Row
        BY DEF Runtime!Question, Row
      <4> DEFINE s == <<Runtime!Question>>
      <4>2. s \in Seq(Row) /\ Prefix(log[t], s)
        BY <3>2, <4>1 DEF LogInv, Prefix, Runtime!Ask
      <4>3. log' = [log EXCEPT ![t] = s] /\ phase' = [phase EXCEPT ![t] = "asked"]
        BY <3>2 DEF Runtime!Ask
      <4> HIDE DEF s
      <4> QED
        BY <3>1, <4>2, <4>3 DEF LogInv
    <3>3. ASSUME NEW rest \in {<<Answer>>, <<ToolCall, ToolResult, Answer>>},
                 log' = [log EXCEPT ![t] = @ \o rest], Runtime!Settle(t)
          PROVE  LogInv' /\ \A u \in Turns : Prefix(log[u], log'[u])
      <4>1. rest \in Seq(Row)
        <5>1. Answer \in Row /\ ToolCall \in Row /\ ToolResult \in Row
          BY DEF Answer, ToolCall, ToolResult, Row
        <5> DEFINE a == Answer
                   b == ToolCall
                   c == ToolResult
        <5> HIDE DEF a, b, c
        <5>2. a \in Row /\ b \in Row /\ c \in Row /\ rest \in {<<a>>, <<b, c, a>>}
          BY <5>1, <3>3 DEF a, b, c
        <5>3. <<a>> \in Seq(Row) /\ <<b, c, a>> \in Seq(Row)
          BY <5>2
        <5> QED
          BY <5>2, <5>3
      <4> DEFINE s == log[t] \o rest
      <4>2. s \in Seq(Row) /\ Prefix(log[t], s)
        BY <3>1, <4>1 DEF Prefix
      <4>3. log' = [log EXCEPT ![t] = s] /\ phase' = [phase EXCEPT ![t] = "settled"]
        BY <3>3 DEF Runtime!Settle
      <4> HIDE DEF s
      <4> QED
        BY <3>1, <4>2, <4>3 DEF LogInv
    <3>4. CASE Runtime!Drop(t)
      BY <3>1, <3>4 DEF LogInv, Runtime!Drop
    <3> QED
      BY <2>2, <3>2, <3>3, <3>4 DEF Turn
  <2> QED
    BY <2>1, <2>2
       DEF SessionsNext, sessionsVars, turns, CreateSession, Run, RunReturns, EndSession, Enqueue,
           CommitEnd, TakeJob, Summarise, HearOfPut, WorkerStops, Embed, Upsert, CommitPut,
           RollbackPut, DeleteItem
<1> QED
  BY <1>1, SaidGrows

LEMMA SessionsTypeStep ==
  ASSUME SessionsTypeOK, LogInv, JobInv, [SessionsNext]_sessionsVars
  PROVE  SessionsTypeOK'
<1>1. /\ session \in {"absent", "open", "ended"}
      /\ run \in [Turns -> {"new", "called", "over"}]
      /\ phase \in [Turns -> {"new", "asked", "settled", "dropped"}]
      /\ end \in [Ends -> {"new", "sending", "committing", "over"}]
      /\ job \in [Ends -> JobState] /\ put \in [Puts -> PutState] /\ items \subseteq Item
      /\ faults \in 0..MaxFaults /\ past \subseteq {"overlap", "embedding"}
  BY DEF SessionsTypeOK, JobState, PutState
<1>2. SessionsTypeOK' <=>
        /\ session' \in {"absent", "open", "ended"}
        /\ run' \in [Turns -> {"new", "called", "over"}]
        /\ phase' \in [Turns -> {"new", "asked", "settled", "dropped"}]
        /\ end' \in [Ends -> {"new", "sending", "committing", "over"}]
        /\ job' \in [Ends -> JobState] /\ put' \in [Puts -> PutState] /\ items' \subseteq Item
        /\ faults' \in 0..MaxFaults /\ past' \subseteq {"overlap", "embedding"}
  BY DEF SessionsTypeOK, JobState, PutState
<1>3. phase' \in [Turns -> {"new", "asked", "settled", "dropped"}]
  BY LogStep DEF LogInv
<1>4. Fault => faults' \in 0..MaxFaults
  BY <1>1, ChatSessionsAssumption DEF Fault
<1>5. CASE Gateway
  BY <1>1, <1>2, <1>3, <1>5
     DEF Gateway, CreateSession, Run, Turn, RunReturns, EndSession, CommitEnd, turns
<1>6. ASSUME NEW e \in Ends, Enqueue(e) PROVE SessionsTypeOK'
  BY <1>1, <1>2, <1>3, <1>6, JobGoes DEF Enqueue, turns
<1>7. ASSUME NEW e \in Ends, TakeJob(e) PROVE SessionsTypeOK'
  <2>2. job' \in [Ends -> JobState]
    BY <1>7, JobTaken
  <2> QED
    BY <1>1, <1>2, <1>3, <1>7, <2>2 DEF TakeJob, turns
<1>8. ASSUME NEW e \in Ends, Summarise(e) PROVE SessionsTypeOK'
  <2>2. put' \in [Puts -> PutState]
    BY <1>8, PutBegins
  <2>3. job' \in [Ends -> JobState]
    BY <1>8, JobGoes DEF Summarise
  <2>4. faults' \in 0..MaxFaults
    BY <1>1, <1>4, <1>8 DEF Summarise
  <2> QED
    BY <1>1, <1>2, <1>3, <1>8, <2>2, <2>3, <2>4 DEF Summarise, turns
<1>9. ASSUME NEW e \in Ends, HearOfPut(e) \/ WorkerStops(e) PROVE SessionsTypeOK'
  <2>1. job' \in [Ends -> JobState]
    BY <1>9, JobGoes DEF HearOfPut, WorkerStops
  <2>2. faults' \in 0..MaxFaults
    BY <1>1, <1>4, <1>9 DEF HearOfPut, WorkerStops
  <2> QED
    BY <1>1, <1>2, <1>3, <1>9, <2>1, <2>2 DEF HearOfPut, WorkerStops, turns
<1>10. ASSUME NEW p \in Puts, Embed(p) PROVE SessionsTypeOK'
  <2>1. put' \in [Puts -> PutState]
    BY <1>10, PutGoes DEF Embed, Embeddings
  <2>2. faults' \in 0..MaxFaults
    BY <1>1, <1>4, <1>10 DEF Embed
  <2> QED
    BY <1>1, <1>2, <1>3, <1>10, <2>1, <2>2 DEF Embed, turns
<1>11. ASSUME NEW p \in Puts, Upsert(p) PROVE SessionsTypeOK'
  <2>1. put' \in [Puts -> PutState]
    BY <1>11, PutGoes, SessionTypes DEF Upsert
  <2> QED
    BY <1>1, <1>2, <1>3, <1>11, <2>1 DEF Upsert, turns
<1>12. ASSUME NEW p \in Puts, CommitPut(p) PROVE SessionsTypeOK'
  <2>1. put' \in [Puts -> PutState]
    BY <1>12, PutGoes DEF CommitPut
  <2>2. put[p].embedding \in Embeddings
    BY SessionTypes DEF PutState
  <2>3. [row |-> p, summary |-> p, embedding |-> put[p].embedding] \in Item
    BY <2>2 DEF Item
  <2>4. \A i \in items : [i EXCEPT !.summary = p,
                                   !.embedding = IF put[p].embedding = None THEN @
                                                 ELSE put[p].embedding] \in Item
    <3>1. ASSUME NEW i \in Item, NEW v \in Embeddings
          PROVE  [i EXCEPT !.summary = p, !.embedding = v] \in Item
      BY DEF Item
    <3>2. \A i \in items : i.embedding \in Embeddings
      BY <1>1 DEF Item
    <3> QED
      BY <1>1, <2>2, <3>1, <3>2
  <2>5. items' \subseteq Item
    <3>1. CASE put[p].row = None
      BY <1>1, <1>12, <2>3, <3>1 DEF CommitPut
    <3>2. CASE put[p].row # None
      <4>1. ASSUME NEW j \in items' PROVE j \in Item
        <5>1. PICK i \in items :
                j = IF i.row # put[p].row THEN i
                    ELSE [i EXCEPT !.summary = p,
                                   !.embedding = IF put[p].embedding = None THEN @
                                                 ELSE put[p].embedding]
          BY <1>12, <3>2, <4>1 DEF CommitPut
        <5> QED
          BY <1>1, <2>4, <5>1
      <4> QED
        BY <4>1
    <3> QED
      BY <3>1, <3>2
  <2> QED
    BY <1>1, <1>2, <1>3, <1>12, <2>1, <2>5 DEF CommitPut, turns
<1>13. ASSUME NEW p \in Puts, RollbackPut(p) PROVE SessionsTypeOK'
  <2>1. put' \in [Puts -> PutState]
    BY <1>13, PutGoes DEF RollbackPut
  <2> QED
    BY <1>1, <1>2, <1>3, <1>4, <1>13, <2>1 DEF RollbackPut, turns
<1>14. ASSUME NEW i \in items, DeleteItem(i) PROVE SessionsTypeOK'
  BY <1>1, <1>2, <1>3, <1>4, <1>14 DEF DeleteItem, turns
<1>15. CASE UNCHANGED sessionsVars
  BY <1>1, <1>2, <1>15 DEF sessionsVars, turns
<1> QED
  BY <1>5, <1>6, <1>7, <1>8, <1>9, <1>10, <1>11, <1>12, <1>13, <1>14, <1>15
     DEF SessionsNext, Gateway

LEMMA JobStep ==
  ASSUME SessionsTypeOK, LogInv, JobInv, [SessionsNext]_sessionsVars
  PROVE  JobInv'
<1> USE DEF JobInv, Working
<1>1. ASSUME UNCHANGED <<end, job>> PROVE JobInv'
  BY <1>1
<1>2. ASSUME NEW e \in Ends, EndSession(e) \/ CommitEnd(e) PROVE JobInv'
  BY <1>2 DEF EndSession, CommitEnd, SessionsTypeOK
<1>3. ASSUME NEW e \in Ends, Enqueue(e) PROVE JobInv'
  <2>1. /\ end' = [end EXCEPT ![e] = "committing"] /\ job[e].at = "none" /\ job[e].tries = 0
        /\ 0 < MaxTries
    BY <1>3, ChatSessionsAssumption DEF Enqueue
  <2>2. \/ UNCHANGED job
        \/ /\ \A f \in Ends \ {e} : job'[f] = job[f]
           /\ job'[e].at = "queued" /\ job'[e].tries = 0
    BY <1>3, <2>1, JobGoes DEF Enqueue
  <2>3. \A f \in Ends \ {e} : end'[f] = end[f]
    BY <2>1
  <2>4. end'[e] = "committing"
    BY <2>1 DEF SessionsTypeOK
  <2> QED
    BY <2>1, <2>2, <2>3, <2>4
<1>4. ASSUME NEW e \in Ends, TakeJob(e) PROVE JobInv'
  BY <1>4, JobTaken DEF TakeJob
<1>5. ASSUME NEW e \in Ends, Summarise(e) \/ HearOfPut(e) \/ WorkerStops(e) PROVE JobInv'
  <2>1. /\ Working(e) /\ UNCHANGED end
        /\ \/ job' = [job EXCEPT ![e].at = "putting"]
           \/ job' = [job EXCEPT ![e].at = "done"]
           \/ job' = [job EXCEPT ![e].at = "queued"] /\ job[e].tries < MaxTries
    BY <1>5 DEF Summarise, HearOfPut, WorkerStops
  <2>2. /\ \A f \in Ends \ {e} : job'[f] = job[f] /\ job'[e].tries = job[e].tries
        /\ \/ job'[e].at \in {"putting", "done"}
           \/ job'[e].at = "queued" /\ job[e].tries < MaxTries
    BY <2>1, JobGoes
  <2>3. job'[e].tries = job[e].tries
    BY <2>1, JobGoes
  <2> QED
    BY <2>1, <2>2, <2>3
<1>6. CASE UNCHANGED sessionsVars
  BY <1>1, <1>6 DEF sessionsVars
<1>7. ASSUME NEW t \in Turns, Run(t) \/ Turn(t) \/ RunReturns(t) PROVE JobInv'
  BY <1>1, <1>7 DEF Run, Turn, RunReturns
<1>8. ASSUME NEW p \in Puts, Embed(p) \/ Upsert(p) \/ CommitPut(p) \/ RollbackPut(p) PROVE JobInv'
  BY <1>1, <1>8 DEF Embed, Upsert, CommitPut, RollbackPut
<1>9. ASSUME CreateSession \/ \E i \in items : DeleteItem(i) PROVE JobInv'
  BY <1>1, <1>9 DEF CreateSession, DeleteItem
<1> QED
  BY <1>2, <1>3, <1>4, <1>5, <1>6, <1>7, <1>8, <1>9 DEF SessionsNext

\* The item that a put writes: a new one, or the one whose row it has locked.
LEMMA CommitWrites ==
  ASSUME SessionsTypeOK, NEW p \in Puts, CommitPut(p)
  PROVE  /\ put[p].row = None =>
              items' = items \cup {[row |-> p, summary |-> p, embedding |-> put[p].embedding]}
         /\ put[p].row # None => \A j \in items' : \E i \in items :
              \/ i.row # put[p].row /\ j = i
              \/ /\ i.row = put[p].row /\ j.row = i.row /\ j.summary = p
                 /\ j.embedding = (IF put[p].embedding = None THEN i.embedding
                                   ELSE put[p].embedding)
                 /\ j = [i EXCEPT !.summary = p,
                                  !.embedding = IF put[p].embedding = None THEN i.embedding
                                                ELSE put[p].embedding]
<1>1. put[p].row = None =>
        items' = items \cup {[row |-> p, summary |-> p, embedding |-> put[p].embedding]}
  BY DEF CommitPut
<1>2. ASSUME put[p].row # None, NEW j \in items'
      PROVE  \E i \in items :
              \/ i.row # put[p].row /\ j = i
              \/ /\ i.row = put[p].row /\ j.row = i.row /\ j.summary = p
                 /\ j.embedding = (IF put[p].embedding = None THEN i.embedding
                                   ELSE put[p].embedding)
                 /\ j = [i EXCEPT !.summary = p,
                                  !.embedding = IF put[p].embedding = None THEN i.embedding
                                                ELSE put[p].embedding]
  <2>1. PICK i \in items :
          j = IF i.row # put[p].row THEN i
              ELSE [i EXCEPT !.summary = p,
                             !.embedding = IF put[p].embedding = None THEN @
                                           ELSE put[p].embedding]
    BY <1>2 DEF CommitPut
  <2>2. CASE i.row # put[p].row
    BY <2>1, <2>2
  <2>3. CASE i.row = put[p].row
    <3> DEFINE v == IF put[p].embedding = None THEN i.embedding ELSE put[p].embedding
    <3>1. j = [i EXCEPT !.summary = p, !.embedding = v] /\ i \in Item
      BY <2>1, <2>3, SessionTypes
    <3> HIDE DEF v
    <3>2. j.row = i.row /\ j.summary = p /\ j.embedding = v
      BY <3>1 DEF Item
    <3> QED
      BY <2>3, <3>1, <3>2 DEF v
  <2> QED
    BY <2>2, <2>3
<1> QED
  BY <1>1, <1>2

LEMMA RankStep ==
  ASSUME SessionsTypeOK, JobInv, RankInv, [SessionsNext]_sessionsVars
  PROVE  RankInv'
<1>1. ASSUME past \subseteq past', items' \subseteq items,
             \A p \in Puts : put'[p].at \in {"writing", "locked"} =>
                put'[p].embedding = p \/ "embedding" \in past' \/
                   (put[p].at \in {"writing", "locked"} /\ put'[p].embedding = put[p].embedding)
      PROVE  RankInv'
  BY <1>1 DEF RankInv
<1>2. CASE Gateway \/ \E e \in Ends : Enqueue(e) \/ TakeJob(e) \/ HearOfPut(e) \/ WorkerStops(e)
  BY <1>1, <1>2
     DEF Gateway, CreateSession, Run, Turn, RunReturns, EndSession, CommitEnd, Enqueue, TakeJob,
         HearOfPut, WorkerStops
<1>3. ASSUME NEW e \in Ends, Summarise(e) PROVE RankInv'
  BY <1>1, <1>3, PutBegins
<1>4. ASSUME NEW p \in Puts, Embed(p) PROVE RankInv'
  <2>1. /\ UNCHANGED items /\ past \subseteq past' /\ \A q \in Puts \ {p} : put'[q] = put[q]
        /\ put'[p].embedding = p \/ "embedding" \in past'
    BY <1>4, PutGoes DEF Embed, Embeddings
  <2> QED
    BY <1>1, <2>1
<1>5. ASSUME NEW p \in Puts, Upsert(p) PROVE RankInv'
  <2>1. /\ UNCHANGED <<items, past>> /\ \A q \in Puts \ {p} : put'[q] = put[q]
        /\ put[p].at = "writing"
        /\ put'[p].at = "over" \/ put'[p].embedding = put[p].embedding
    BY <1>5, PutGoes, SessionTypes DEF Upsert
  <2> QED
    BY <1>1, <2>1
<1>6. ASSUME NEW p \in Puts, CommitPut(p) PROVE RankInv'
  <2>1. /\ UNCHANGED past /\ \A q \in Puts \ {p} : put'[q] = put[q] /\ put'[p].at = "over"
    BY <1>6, PutGoes DEF CommitPut
  <2>2. put'[p].at = "over" /\ p # None
    BY <1>6, PutGoes, SessionTypes DEF CommitPut
  <2>3. ASSUME "embedding" \notin past PROVE \A j \in items' : j.embedding = j.summary
    <3>1. put[p].embedding = p /\ \A i \in items : i.embedding = i.summary
      BY <1>6, <2>3 DEF RankInv, CommitPut
    <3>2. CASE put[p].row = None
      <4> DEFINE new == [row |-> p, summary |-> p, embedding |-> put[p].embedding]
      <4>1. new.embedding = p /\ new.summary = p
        BY <3>1
      <4>2. items' = items \cup {new}
        BY <1>6, <3>2, CommitWrites
      <4> HIDE DEF new
      <4> QED
        BY <3>1, <4>1, <4>2
    <3>3. CASE put[p].row # None
      <4>1. ASSUME NEW j \in items' PROVE j.embedding = j.summary
        <5>1. PICK i \in items :
              \/ i.row # put[p].row /\ j = i
              \/ /\ i.row = put[p].row /\ j.row = i.row /\ j.summary = p
                 /\ j.embedding = (IF put[p].embedding = None THEN i.embedding
                                   ELSE put[p].embedding)
                 /\ j = [i EXCEPT !.summary = p,
                                  !.embedding = IF put[p].embedding = None THEN i.embedding
                                                ELSE put[p].embedding]
          BY <1>6, <3>3, CommitWrites
        <5> QED
          BY <2>2, <3>1, <5>1
      <4> QED
        BY <4>1
    <3> QED
      BY <3>2, <3>3
  <2> QED
    BY <2>1, <2>2, <2>3 DEF RankInv
<1>7. ASSUME NEW p \in Puts, RollbackPut(p) PROVE RankInv'
  <2>1. /\ UNCHANGED <<items, past>> /\ \A q \in Puts \ {p} : put'[q] = put[q]
        /\ put'[p].at = "over"
    BY <1>7, PutGoes DEF RollbackPut
  <2> QED
    BY <1>1, <2>1
<1>8. ASSUME NEW i \in items, DeleteItem(i) PROVE RankInv'
  BY <1>1, <1>8 DEF DeleteItem
<1>9. CASE UNCHANGED sessionsVars
  BY <1>1, <1>9 DEF sessionsVars
<1> QED
  BY <1>2, <1>3, <1>4, <1>5, <1>6, <1>7, <1>8, <1>9 DEF SessionsNext, Gateway

\* seen is set when a job is taken, and handed on to its put.
LEMMA SeenStep ==
  ASSUME SessionsTypeOK, LogInv, JobInv, SeenInv, [SessionsNext]_sessionsVars
  PROVE  SeenInv'
<1>1. Heard \in Nat /\ Heard' \in Nat /\ Heard <= Heard'
  BY LogStep
<1>2. /\ \A e \in Ends : job[e].seen \in Nat /\ job[e].seen <= Heard
      /\ \A p \in Puts : put[p].seen \in Nat /\ put[p].seen <= Heard
  BY SessionTypes DEF SeenInv
<1>3. ASSUME \A e \in Ends : job'[e].seen = job[e].seen \/ job'[e].seen = Heard,
             \A p \in Puts : \/ put'[p].seen = put[p].seen
                             \/ \E e \in Ends : put'[p].seen = job[e].seen
      PROVE  SeenInv'
  BY <1>1, <1>2, <1>3 DEF SeenInv
<1>4. CASE UNCHANGED <<job, put>>
  BY <1>3, <1>4
<1>5. ASSUME NEW e \in Ends, Enqueue(e) \/ HearOfPut(e) \/ WorkerStops(e) PROVE SeenInv'
  <2>1. UNCHANGED put /\ \A f \in Ends : job'[f].seen = job[f].seen
    <3>1. \/ UNCHANGED job \/ job' = [job EXCEPT ![e].at = "queued"]
          \/ job' = [job EXCEPT ![e].at = "done"]
      BY <1>5 DEF Enqueue, HearOfPut, WorkerStops
    <3>2. UNCHANGED put
      BY <1>5 DEF Enqueue, HearOfPut, WorkerStops
    <3> QED
      BY <3>1, <3>2, JobGoes
  <2> QED
    BY <1>3, <2>1
<1>6. ASSUME NEW e \in Ends, TakeJob(e) PROVE SeenInv'
  <2>1. UNCHANGED put /\ \A f \in Ends : job'[f].seen = job[f].seen \/ job'[f].seen = Heard
    BY <1>6, JobTaken DEF TakeJob
  <2> QED
    BY <1>3, <2>1
<1>7. ASSUME NEW e \in Ends, Summarise(e) PROVE SeenInv'
  <2>1. \A f \in Ends : job'[f].seen = job[f].seen
    BY <1>7, PutBegins, JobGoes
  <2>2. \A q \in Puts : put'[q].seen = put[q].seen \/ put'[q].seen = job[e].seen
    BY <1>7, PutBegins
  <2> QED
    BY <1>3, <2>1, <2>2
<1>8. ASSUME NEW p \in Puts, Embed(p) \/ Upsert(p) \/ CommitPut(p) \/ RollbackPut(p)
      PROVE  SeenInv'
  <2>1. UNCHANGED job /\ \A q \in Puts : put'[q].seen = put[q].seen
    <3>1. UNCHANGED job
      BY <1>8 DEF Embed, Upsert, CommitPut, RollbackPut
    <3>2. CASE Embed(p)
      BY <3>2, PutGoes DEF Embed, Embeddings
    <3>3. CASE CommitPut(p) \/ RollbackPut(p)
      BY <3>3, PutGoes DEF CommitPut, RollbackPut
    <3>4. CASE Upsert(p)
      BY <3>4, PutGoes, SessionTypes DEF Upsert
    <3> QED
      BY <1>8, <3>1, <3>2, <3>3, <3>4
  <2> QED
    BY <1>3, <2>1
<1> QED
  BY <1>4, <1>5, <1>6, <1>7, <1>8
     DEF SessionsNext, sessionsVars, CreateSession, Run, Turn, RunReturns, EndSession, CommitEnd,
         DeleteItem

\* A step by which no job and no put begins.
LEMMA AloneStays ==
  ASSUME SessionsTypeOK, AloneInv, past \subseteq past',
         items' \subseteq items,
         \A e \in Ends : /\ Working(e)' => Working(e)
                         /\ job'[e].at = "summarising" => job[e].at = "summarising"
                         /\ job'[e].seen = job[e].seen,
         \A p \in Puts : /\ PutOpen(p)' => PutOpen(p)
                         /\ put'[p].seen = put[p].seen
                         /\ put'[p].at = "locked" /\ put'[p].row = None =>
                              (put[p].at = "locked" /\ put[p].row = None) \/ items = {}
  PROVE  AloneInv'
<1> SUFFICES ASSUME "overlap" \notin past' PROVE AloneInv'
  BY DEF AloneInv
<1>1. "overlap" \notin past
  OBVIOUS
<1>2. \A e, f \in Ends : Working(e)' /\ Working(f)' => e = f
  BY <1>1 DEF AloneInv
<1>3. \A p, q \in Puts : PutOpen(p)' /\ PutOpen(q)' => p = q
  BY <1>1 DEF AloneInv
<1>4. \A e \in Ends, p \in Puts : job'[e].at = "summarising" => ~PutOpen(p)'
  BY <1>1 DEF AloneInv
<1>5. \A i, j \in items' : i = j
  BY <1>1 DEF AloneInv
<1>6. \A p \in Puts : put'[p].at = "locked" /\ put'[p].row = None => items' = {}
  BY <1>1 DEF AloneInv
<1>7. \A e \in Ends, p \in Puts : job'[e].at = "summarising" => put'[p].seen <= job'[e].seen
  BY <1>1 DEF AloneInv
<1>8. \A p, q \in Puts : PutOpen(p)' => put'[q].seen <= put'[p].seen
  BY <1>1 DEF AloneInv
<1> QED
  BY <1>2, <1>3, <1>4, <1>5, <1>6, <1>7, <1>8 DEF AloneInv

\* A job that overlaps nothing is the only one, and is given all that is heard.
LEMMA AloneTakes ==
  ASSUME SessionsInv, NEW e \in Ends, TakeJob(e)
  PROVE  AloneInv'
<1> SUFFICES ASSUME "overlap" \notin past' PROVE AloneInv'
  BY DEF AloneInv
<1>1. SessionsTypeOK /\ LogInv /\ JobInv /\ AloneInv /\ SeenInv
  BY DEF SessionsInv
<1>2. "overlap" \notin past /\ ~Overlaps(e) /\ UNCHANGED <<items, put>>
  BY DEF TakeJob
<1>3. (\A f \in Ends \ {e} : ~Working(f)) /\ \A p \in Puts : ~PutOpen(p)
  BY <1>2 DEF Overlaps
<1>4. /\ \A f \in Ends \ {e} : job'[f] = job[f]
      /\ job'[e].seen = Heard
  BY <1>1, JobTaken
<1>5. \A f \in Ends \ {e} : ~Working(f)' /\ job'[f].at # "summarising"
  BY <1>3, <1>4 DEF Working
<1>6. \A p \in Puts : ~PutOpen(p)'
  BY <1>2, <1>3 DEF PutOpen
<1>7. \A p \in Puts : put'[p].seen <= job'[e].seen
  BY <1>1, <1>2, <1>4 DEF SeenInv
<1>8. \A f, g \in Ends : Working(f)' /\ Working(g)' => f = g
  BY <1>5
<1>9. \A f \in Ends, p \in Puts : job'[f].at = "summarising" => put'[p].seen <= job'[f].seen
  BY <1>5, <1>7
<1>10. /\ \A i, j \in items' : i = j
       /\ \A p \in Puts : put'[p].at = "locked" /\ put'[p].row = None => items' = {}
  BY <1>1, <1>2 DEF AloneInv
<1> QED
  BY <1>6, <1>8, <1>9, <1>10 DEF AloneInv

\* Its put is the only one, and knows what the job has read.
LEMMA AloneBegins ==
  ASSUME SessionsInv, NEW e \in Ends, Summarise(e)
  PROVE  AloneInv'
<1> SUFFICES ASSUME "overlap" \notin past' PROVE AloneInv'
  BY DEF AloneInv
<1>1. SessionsTypeOK /\ LogInv /\ JobInv /\ AloneInv
  BY DEF SessionsInv
<1> DEFINE P == PutOf(e)
<1>2. P \in Puts /\ job[e].at = "summarising" /\ UNCHANGED <<items, past>>
  BY <1>1, PutBegins
<1>3. CASE UNCHANGED put /\ job' = [job EXCEPT ![e].at = "done"]
  <2>1. /\ \A f \in Ends \ {e} : job'[f] = job[f]
        /\ job'[e].at = "done" /\ job'[e].seen = job[e].seen
    BY <1>1, <1>3, JobGoes
  <2> QED
    BY <1>1, <1>2, <1>3, <2>1, AloneStays DEF Working, PutOpen
<1>4. CASE /\ \A q \in Puts \ {P} : put'[q] = put[q]
           /\ put'[P].at = "embedding" /\ put'[P].seen = job[e].seen
           /\ job' = [job EXCEPT ![e].at = "putting"]
  <2> HIDE DEF P
  <2>1. /\ \A f \in Ends \ {e} : job'[f] = job[f]
        /\ job'[e].at = "putting" /\ job'[e].seen = job[e].seen
    BY <1>1, <1>4, JobGoes
  <2>2. /\ \A f \in Ends \ {e} : ~Working(f)
        /\ \A p \in Puts : ~PutOpen(p)
        /\ \A q \in Puts : put[q].seen <= job[e].seen
        /\ \A i, j \in items : i = j
    BY <1>1, <1>2 DEF AloneInv, Working
  <2>3. \A f \in Ends : job'[f].at # "summarising"
    BY <2>1, <2>2 DEF Working
  <2>4. \A f, g \in Ends : Working(f)' /\ Working(g)' => f = g
    BY <2>1, <2>2 DEF Working
  <2>5. \A p \in Puts \ {P} : ~PutOpen(p)' /\ put'[p].at # "locked"
    BY <1>4, <2>2 DEF PutOpen
  <2>6. \A q \in Puts : put'[q].seen <= put'[P].seen
    BY <1>1, <1>2, <1>4, <2>2, SessionTypes
  <2>7. \A p, q \in Puts : PutOpen(p)' => put'[q].seen <= put'[p].seen
    BY <2>5, <2>6
  <2>8. \A p, q \in Puts : PutOpen(p)' /\ PutOpen(q)' => p = q
    BY <2>5
  <2>9. \A p \in Puts : put'[p].at # "locked"
    BY <1>4, <2>5
  <2> QED
    BY <1>2, <2>2, <2>3, <2>4, <2>7, <2>8, <2>9 DEF AloneInv
<1> QED
  BY <1>1, <1>3, <1>4, PutBegins

\* The only put writes the only item.
LEMMA AloneCommits ==
  ASSUME SessionsInv, NEW p \in Puts, CommitPut(p)
  PROVE  AloneInv'
<1> SUFFICES ASSUME "overlap" \notin past' PROVE AloneInv'
  BY DEF AloneInv
<1>1. SessionsTypeOK /\ AloneInv
  BY DEF SessionsInv
<1>2. /\ "overlap" \notin past /\ put[p].at = "locked" /\ PutOpen(p) /\ UNCHANGED job
  BY DEF CommitPut, PutOpen
<1>3. /\ \A q \in Puts \ {p} : put'[q] = put[q]
      /\ put'[p].at = "over" /\ put'[p].seen = put[p].seen
  BY <1>1, PutGoes DEF CommitPut
<1>4. \A q \in Puts \ {p} : ~PutOpen(q)
  BY <1>1, <1>2 DEF AloneInv
<1>5. \A q \in Puts : ~PutOpen(q)' /\ put'[q].at # "locked"
  BY <1>3, <1>4 DEF PutOpen
<1>6. \A i, j \in items' : i = j
  <2>1. CASE put[p].row = None
    <3> DEFINE new == [row |-> p, summary |-> p, embedding |-> put[p].embedding]
    <3>1. items = {}
      BY <1>1, <1>2, <2>1 DEF AloneInv
    <3>2. items' = items \cup {new}
      BY <1>1, <2>1, CommitWrites
    <3> HIDE DEF new
    <3> QED
      BY <3>1, <3>2
  <2>2. CASE put[p].row # None
    <3> DEFINE upd(i) == [i EXCEPT !.summary = p,
                                   !.embedding = IF put[p].embedding = None THEN i.embedding
                                                 ELSE put[p].embedding]
    <3>1. \A j \in items' : \E i \in items :
             (i.row # put[p].row /\ j = i) \/ (i.row = put[p].row /\ j = upd(i))
      <4>1. ASSUME NEW j \in items'
            PROVE  \E i \in items :
                     (i.row # put[p].row /\ j = i) \/ (i.row = put[p].row /\ j = upd(i))
        <5>1. PICK i \in items :
                \/ i.row # put[p].row /\ j = i
                \/ /\ i.row = put[p].row /\ j.row = i.row /\ j.summary = p
                   /\ j.embedding = (IF put[p].embedding = None THEN i.embedding
                                     ELSE put[p].embedding)
                   /\ j = [i EXCEPT !.summary = p,
                                    !.embedding = IF put[p].embedding = None THEN i.embedding
                                                  ELSE put[p].embedding]
          BY <1>1, <2>2, <4>1, CommitWrites
        <5>2. i.row # put[p].row \/ j = upd(i)
          BY <5>1
        <5> HIDE DEF upd
        <5> QED
          BY <5>1, <5>2
      <4> QED
        BY <4>1
    <3>2. \A i, j \in items : i = j
      BY <1>1, <1>2 DEF AloneInv
    <3> HIDE DEF upd
    <3> QED
      BY <3>1, <3>2
  <2> QED
    BY <2>1, <2>2
<1>7. /\ \A e, f \in Ends : Working(e)' /\ Working(f)' => e = f
      /\ \A e \in Ends, q \in Puts : job'[e].at = "summarising" => put'[q].seen <= job'[e].seen
  <2>1. /\ \A e, f \in Ends : Working(e) /\ Working(f) => e = f
        /\ \A e \in Ends, q \in Puts : job[e].at = "summarising" => put[q].seen <= job[e].seen
    BY <1>1, <1>2 DEF AloneInv
  <2>2. \A q \in Puts : put'[q].seen = put[q].seen
    BY <1>3
  <2> QED
    BY <1>2, <2>1, <2>2 DEF Working
<1> QED
  BY <1>5, <1>6, <1>7 DEF AloneInv

LEMMA AloneStep ==
  ASSUME SessionsInv, [SessionsNext]_sessionsVars
  PROVE  AloneInv'
<1>1. SessionsTypeOK /\ LogInv /\ JobInv /\ AloneInv
  BY DEF SessionsInv
<1>2. ASSUME UNCHANGED <<job, put, items, past>> PROVE AloneInv'
  BY <1>1, <1>2 DEF AloneInv, Working, PutOpen
<1>3. ASSUME NEW e \in Ends, Enqueue(e) \/ HearOfPut(e) \/ WorkerStops(e) PROVE AloneInv'
  <2>1. /\ UNCHANGED <<put, items, past>>
        /\ \/ UNCHANGED job \/ job' = [job EXCEPT ![e].at = "queued"]
           \/ job' = [job EXCEPT ![e].at = "done"]
    BY <1>3 DEF Enqueue, HearOfPut, WorkerStops
  <2>2. \A f \in Ends : /\ job'[f].seen = job[f].seen
                        /\ job'[f] = job[f] \/ job'[f].at \in {"queued", "done"}
    BY <1>1, <2>1, JobGoes
  <2> QED
    BY <1>1, <2>1, <2>2, AloneStays DEF Working, PutOpen
<1>4. ASSUME NEW p \in Puts, Embed(p) \/ Upsert(p) \/ RollbackPut(p) PROVE AloneInv'
  <2>1. UNCHANGED <<job, items>> /\ past \subseteq past' /\ PutOpen(p)
    BY <1>4 DEF Embed, Upsert, RollbackPut, PutOpen
  <2>2. /\ \A q \in Puts \ {p} : put'[q] = put[q]
        /\ put'[p].seen = put[p].seen
        /\ put'[p].at = "locked" => put'[p].row # None \/ items = {}
    <3>1. CASE Embed(p)
      BY <1>1, <3>1, PutGoes DEF Embed, Embeddings
    <3>2. CASE RollbackPut(p)
      BY <1>1, <3>2, PutGoes DEF RollbackPut
    <3>3. CASE items = {} /\ put' = [put EXCEPT ![p].at = "locked"]
      BY <1>1, <3>3, PutGoes
    <3>4. ASSUME NEW i \in items, put' = [put EXCEPT ![p].at = "locked", ![p].row = i.row]
          PROVE  /\ \A q \in Puts \ {p} : put'[q] = put[q]
                 /\ put'[p].seen = put[p].seen /\ put'[p].row # None
      <4> DEFINE v == i.row
      <4>1. v \in Puts /\ v # None /\ put' = [put EXCEPT ![p].at = "locked", ![p].row = v]
        BY <1>1, <3>4, SessionTypes
      <4> HIDE DEF v
      <4>2. /\ \A q \in Puts \ {p} : put'[q] = put[q]
            /\ put'[p].seen = put[p].seen /\ put'[p].row = v
        BY <1>1, <4>1, SessionTypes DEF PutState
      <4> QED
        BY <4>1, <4>2
    <3>5. CASE put' = Over(p)
      BY <1>1, <3>5, PutGoes
    <3> QED
      BY <1>4, <3>1, <3>2, <3>3, <3>4, <3>5 DEF Upsert
  <2> QED
    BY <1>1, <2>1, <2>2, AloneStays DEF Working, PutOpen
<1>5. ASSUME NEW i \in items, DeleteItem(i) PROVE AloneInv'
  BY <1>1, <1>5, AloneStays DEF DeleteItem, Working, PutOpen
<1> QED
  BY <1>2, <1>3, <1>4, <1>5, AloneTakes, AloneBegins, AloneCommits
     DEF SessionsNext, sessionsVars, CreateSession, Run, Turn, RunReturns, EndSession, CommitEnd

LEMMA SessionsInductive == SessionsSpec => []SessionsInv
<1>1. SessionsInv /\ [SessionsNext]_sessionsVars => SessionsInv'
  BY SessionsTypeStep, LogStep, JobStep, RankStep, SeenStep, AloneStep DEF SessionsInv
<1> QED
  BY <1>1, SessionsStart, PTL DEF SessionsSpec

\* The state of a session, of its jobs and puts has its type, whatever fails.
THEOREM SessionsTyped == SessionsSpec => []SessionsTypeOK
BY SessionsInductive, PTL DEF SessionsInv

\* A session gets a second summary only when a job runs while another one, or a
\* put that has been given up, still does (OneSummary).
THEOREM SummaryIsAlone == SessionsSpec => []OneSummary
<1>1. SessionsInv => OneSummary
  <2> SUFFICES ASSUME SessionsInv, "overlap" \notin past PROVE Cardinality(items) <= 1
    BY DEF OneSummary
  <2>1. \A i, j \in items : i = j
    BY DEF SessionsInv, AloneInv
  <2>2. CASE items = {}
    BY <2>2, FS_EmptySet
  <2>3. ASSUME NEW i \in items PROVE Cardinality(items) <= 1
    <3>1. items = {i}
      BY <2>1
    <3>2. Cardinality({i}) = 1
      BY FS_Singleton
    <3> QED
      BY <3>1, <3>2
  <2> QED
    BY <2>2, <2>3
<1> QED
  BY <1>1, SessionsInductive, PTL

\* Unless an embedding fails, a summary is never stored with the embedding of
\* another one, even when puts overlap (SearchRanksSummaries).
THEOREM SummariesRanked == SessionsSpec => []SearchRanksSummaries
<1>1. SessionsInv => SearchRanksSummaries
  BY DEF SessionsInv, RankInv, SearchRanksSummaries
<1> QED
  BY <1>1, SessionsInductive, PTL

\* As long as no job overlaps, each summary that replaces another one was given at
\* least its messages (SummariesAdvance).
THEOREM SummariesNeverRecede == SessionsSpec => SummariesAdvance
<1>1. ASSUME SessionsInv, [SessionsNext]_sessionsVars, NEW i \in items, NEW j \in items',
             i.row = j.row, "overlap" \notin past'
      PROVE  put[i.summary].seen <= put[j.summary].seen
  <2>1. SessionsTypeOK /\ AloneInv /\ i.summary \in Puts
    BY <1>1, SessionTypes DEF SessionsInv
  <2>2. CASE items' \subseteq items /\ "overlap" \notin past
    <3>1. i = j
      BY <2>1, <2>2 DEF AloneInv
    <3> QED
      BY <2>1, <3>1, SessionTypes
  <2>3. ASSUME NEW p \in Puts, CommitPut(p)
        PROVE  put[i.summary].seen <= put[j.summary].seen
    <3>1. "overlap" \notin past /\ put[p].at = "locked" /\ PutOpen(p)
      BY <1>1, <2>3 DEF CommitPut, PutOpen
    <3>2. put[p].row # None
      BY <2>1, <3>1 DEF AloneInv
    <3>3. (j \in items) \/ j.summary = p
      BY <2>1, <2>3, <3>2, CommitWrites
    <3>4. CASE j \in items
      <4>1. i = j
        BY <2>1, <3>1, <3>4 DEF AloneInv
      <4> QED
        BY <2>1, <4>1, SessionTypes
    <3>5. CASE j.summary = p
      BY <2>1, <3>1, <3>5 DEF AloneInv
    <3> QED
      BY <3>3, <3>4, <3>5
  <2>4. (items' \subseteq items /\ past \subseteq past') \/ \E p \in Puts : CommitPut(p)
    BY <1>1
       DEF SessionsNext, sessionsVars, CreateSession, Run, Turn, RunReturns, EndSession, Enqueue,
           CommitEnd, TakeJob, Summarise, HearOfPut, WorkerStops, Embed, Upsert, RollbackPut,
           DeleteItem
  <2> QED
    BY <1>1, <2>2, <2>3, <2>4
<1>2. ASSUME SessionsInv, [SessionsNext]_sessionsVars
      PROVE  [\A i \in items, j \in items' :
                i.row = j.row /\ "overlap" \notin past'
                  => put[i.summary].seen <= put[j.summary].seen]_sessionsVars
  BY <1>1, <1>2
<1> QED
  BY <1>2, SessionsInductive, PTL DEF SessionsSpec, SummariesAdvance
=============================================================================
