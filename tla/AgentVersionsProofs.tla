------------------------ MODULE AgentVersionsProofs ------------------------
(***************************************************************************)
(* Theorems about AgentVersions for any number of requests, tools and      *)
(* values: the types, what the snapshots say of the agent however edits    *)
(* overlap, and where the join rows agree with the list of tools.          *)
(***************************************************************************)
EXTENDS AgentVersions, TLAPS

\* What a list may hold when all deletions have pruned: no tool that is deleted.
Live == existing \cup Others

\* The tables: versions count from 1 to the agent's; the newest snapshot is the
\* agent; and unless a prune met a request, the join rows are the tools on the list
\* that exist.
Newest(s) ==
  /\ s \in versions
  /\ s.version = agent.version
  /\ s.data = agent.data
  /\ past = {} => s.tools \cap Live = agent.tools \cap Live

TablesInv ==
  /\ life = "unborn" => agent.version = 1 /\ bindings = {}
  /\ life = "stored" =>
       /\ \A s \in versions : s.version <= agent.version
       /\ \A n \in 1..agent.version : \E s \in versions : s.version = n
       /\ \A s, u \in versions : s.version = u.version => s = u
       /\ \E s \in versions : Newest(s)
       /\ Tidy => agent.tools \subseteq Live
       /\ "overlap" \notin past => bindings = Parsed(agent.tools) \cap existing

CreateKnows(r) ==
  r.op = "create" =>
    r.stage = "ready" /\ r.read.version = 1 /\ r.add = Parsed(r.tools) /\ r.drop = {}

\* The join rows that an edit would leave among those of the tools that are there.
Synced(rows, r, tools) == (rows \cup (r.add \cap tools)) \ r.drop

\* An edit knows the agent until another one has committed a version.
EditKnows(r) ==
  r.op = "edit" =>
    /\ life # "unborn"
    /\ r.read.version <= agent.version
    /\ r.read.version < MaxVersion
    /\ life = "stored" /\ r.read.version = agent.version =>
         /\ r.read.data = agent.data
         /\ "overlap" \notin past => r.read.tools = agent.tools
         /\ "overlap" \notin past /\ r.stage = "ready" =>
              Synced(bindings, r, existing) = Parsed(r.tools) \cap existing
         /\ past = {} /\ r.stage = "ready" => r.tools \subseteq Live \cup r.add

\* Unless it met another request, the prune of a tool is alone and knows the list.
PruneKnows(w) ==
  request[w].op = "prune" /\ "overlap" \notin past =>
    /\ \A q \in Busy : q = w
    /\ life = "stored" =>
         IF request[w].stage = "read"
         THEN /\ request[w].tools \in SUBSET (Tools \ existing)
              /\ past = {} => agent.tools \subseteq Live \cup request[w].tools
         ELSE /\ request[w].read = agent
              /\ Parsed(request[w].tools) \cap existing = bindings
              /\ past = {} => /\ request[w].tools \subseteq Live
                              /\ request[w].tools \cap Live = agent.tools \cap Live

LEMMA ParsedTools ==
  ASSUME NEW list \in Lists
  PROVE  Parsed(list) \in SUBSET Tools
<1>1. \A o \in list \cap Others : Names[o] \subseteq Tools
  BY AgentVersionsAssumption
<1> QED
  BY <1>1 DEF Parsed

Inv ==
  /\ TypeOK
  /\ TablesInv
  /\ \A w \in Busy : CreateKnows(request[w]) /\ EditKnows(request[w]) /\ PruneKnows(w)

LEMMA InvInit == Init => Inv
<1> USE AgentVersionsAssumption
<1> SUFFICES ASSUME Init PROVE Inv
  OBVIOUS
<1>1. agent \in Agent /\ agent.version = 1
  BY DEF Init, Agent, Lists
<1>2. Busy = {}
  BY DEF Init, Busy
<1>3. TypeOK
  BY <1>1 DEF Init, TypeOK
<1> QED
  BY <1>1, <1>2, <1>3 DEF Inv, TablesInv, Init

\* A request as it begins.
LEMMA BeginKeeps ==
  ASSUME Inv, NEW w \in Requests, NEW op \in {"create", "edit", "delete"},
         NEW stage \in {"read", "ready"},
         NEW tools \in Lists, NEW data \in Values, NEW add \in SUBSET Tools,
         Begin(w, op, stage, tools, data, add),
         op = "create" => stage = "ready" /\ life = "unborn" /\ add = Parsed(tools),
         op = "edit" => /\ MayEdit
                        /\ add = {}
                        /\ stage = "ready" => tools = agent.tools
  PROVE  Inv'
<1> USE AgentVersionsAssumption
<1> DEFINE r == [op |-> op, stage |-> stage, read |-> agent, tools |-> tools,
                 data |-> data, add |-> add, drop |-> {}]
<1>1. r \in Request /\ r # Idle
  BY DEF Request, Inv, TypeOK, Idle
<1>2. /\ request' = [request EXCEPT ![w] = r] /\ w \notin Busy
      /\ UNCHANGED <<life, agent, versions, bindings, existing>>
      /\ past' = IF Pruning = {} THEN past ELSE past \cup {"overlap"}
  BY DEF Begin
<1>3. /\ r.op = op /\ r.stage = stage /\ r.read = agent /\ r.tools = tools
      /\ r.add = add /\ r.drop = {}
  OBVIOUS
<1> HIDE DEF r
<1>4. TypeOK'
  BY <1>1, <1>2 DEF Inv, TypeOK
<1>5. /\ past' = {} => past = {} /\ Pruning = {}
      /\ "overlap" \notin past' => "overlap" \notin past /\ Pruning = {}
  BY <1>2
<1>6. request'[w] = r /\ (\A q \in Requests : q # w => request'[q] = request[q])
  BY <1>2 DEF Inv, TypeOK
<1>7. Tidy' => Tidy
  BY <1>5 DEF Tidy
<1>8. TablesInv'
  <2>1. \A s : Newest(s) => Newest(s)'
    BY <1>2, <1>5 DEF Newest, Live
  <2> QED
    BY <1>2, <1>5, <1>7, <2>1 DEF Inv, TablesInv, Live, Parsed
<1>9. ASSUME NEW q \in Busy'
      PROVE  (CreateKnows(request[q]) /\ EditKnows(request[q]) /\ PruneKnows(q))'
  <2>1. CASE q = w
    <3>1. CreateKnows(request[q])'
      BY <2>1, <1>2, <1>3, <1>6 DEF CreateKnows, Inv, TablesInv
    <3>2. EditKnows(request[q])'
      <4>1. op = "edit" => life = "stored" /\ r.read = agent /\ agent.version \in Nat
                          /\ agent.version < MaxVersion /\ r.add = {}
                          /\ (r.stage = "ready" => r.tools = agent.tools)
        BY <1>3 DEF MayEdit, Inv, TypeOK, Agent
      <4>2. op = "edit" /\ "overlap" \notin past' => bindings = Parsed(agent.tools) \cap existing
        BY <4>1, <1>5 DEF Inv, TablesInv
      <4>3. op = "edit" /\ past' = {} => agent.tools \subseteq Live
        BY <4>1, <1>5 DEF Inv, TablesInv, Tidy
      <4>4. request'[q] = r /\ life' = life /\ agent' = agent /\ existing' = existing
            /\ bindings' = bindings
        BY <1>2, <1>6, <2>1
      <4>5. op = "edit" /\ r.stage = "ready" /\ "overlap" \notin past' =>
              Synced(bindings, r, existing) = Parsed(r.tools) \cap existing
        BY <4>1, <4>2, <1>3 DEF Synced
      <4>6. op = "edit" /\ r.stage = "ready" /\ past' = {} => r.tools \subseteq Live \cup r.add
        BY <4>1, <4>3
      <4> QED
        BY <4>1, <4>4, <4>5, <4>6, <1>3, <1>5 DEF EditKnows, Parsed, Synced, Live
    <3>3. PruneKnows(q)'
      BY <2>1, <1>3, <1>6 DEF PruneKnows
    <3> QED
      BY <3>1, <3>2, <3>3
  <2>2. CASE q # w
    <3>1. q \in Busy /\ request'[q] = request[q]
      BY <2>2, <1>6, <1>9 DEF Busy
    <3>2. request[q].op = "prune" => "overlap" \in past'
      BY <3>1, <1>5 DEF Pruning
    <3> QED
      BY <3>1, <3>2, <1>2, <1>5
         DEF CreateKnows, EditKnows, PruneKnows, Inv, Synced, Parsed, Live
  <2> QED
    BY <2>1, <2>2
<1> QED
  BY <1>4, <1>8, <1>9 DEF Inv

LEMMA Beginnings ==
  ASSUME Inv, NEW w \in Requests,
         Create(w) \/ Patch(w) \/ Publish(w) \/ Bind(w) \/ Unbind(w) \/ Delete(w)
  PROVE  Inv'
<1>0. agent.tools \in Lists /\ agent.data \in Values
  BY DEF Inv, TypeOK, Agent
<1>1. CASE Create(w)
  <2>1. PICK tools \in Lists, data \in Values :
          Begin(w, "create", "ready", tools, data, Parsed(tools))
    BY <1>1 DEF Create
  <2>2. Parsed(tools) \in SUBSET Tools
    BY ParsedTools
  <2> QED
    BY <2>1, <2>2, <1>1, BeginKeeps DEF Create
<1>2. CASE Patch(w)
  <2>1. CASE \E data \in Values : Begin(w, "edit", "ready", agent.tools, data, {})
    BY <2>1, <1>0, <1>2, BeginKeeps DEF Patch
  <2>2. CASE \E data \in Values, tools \in Lists : Begin(w, "edit", "read", tools, data, {})
    BY <2>2, <1>0, <1>2, BeginKeeps DEF Patch
  <2> QED
    BY <2>1, <2>2, <1>2 DEF Patch
<1>3. CASE Publish(w)
  BY <1>0, <1>3, BeginKeeps DEF Publish
<1>4. CASE Bind(w)
  BY <1>0, <1>4, BeginKeeps DEF Bind, Lists
<1>5. CASE Unbind(w)
  BY <1>0, <1>5, BeginKeeps DEF Unbind, Lists
<1>6. CASE Delete(w)
  BY <1>0, <1>6, BeginKeeps DEF Delete
<1> QED
  BY <1>1, <1>2, <1>3, <1>4, <1>5, <1>6

LEMMA SyncKeeps ==
  ASSUME Inv, NEW w \in Requests, SyncToolBindings(w)
  PROVE  Inv'
<1> DEFINE r == [request[w] EXCEPT !.stage = "ready", !.add = Parsed(request[w].tools) \ bindings,
                                   !.drop = bindings \ Parsed(request[w].tools)]
<1>1. request[w] \in Request /\ w \in Busy /\ request[w].stage = "read"
  BY DEF SyncToolBindings, Inv, TypeOK, Busy
<1>2. /\ r \in Request /\ r # Idle
      /\ r.op = request[w].op /\ r.read = request[w].read /\ r.tools = request[w].tools
      /\ r.stage = "ready" /\ r.add = Parsed(r.tools) \ bindings
      /\ r.drop = bindings \ Parsed(r.tools)
  <2>1. Parsed(request[w].tools) \in SUBSET Tools /\ bindings \in SUBSET Tools
    BY <1>1, ParsedTools DEF Request, Inv, TypeOK
  <2> QED
    BY <1>1, <2>1 DEF Request, Idle
<1>3. request' = [request EXCEPT ![w] = r]
  BY <1>1 DEF SyncToolBindings, Inv, TypeOK
<1>4. r.op # "prune" /\ r.op # "create"
  BY <1>1, <1>2 DEF SyncToolBindings, Pruning, Inv, CreateKnows
<1>5. UNCHANGED <<life, agent, versions, bindings, existing, past>>
  BY DEF SyncToolBindings
<1> HIDE DEF r
<1>6. request'[w] = r /\ (\A q \in Requests : q # w => request'[q] = request[q])
  BY <1>3 DEF Inv, TypeOK
<1>7. Busy' = Busy /\ Pruning' = Pruning
  BY <1>1, <1>2, <1>4, <1>6 DEF Busy, Pruning
<1>8. TypeOK'
  BY <1>2, <1>3, <1>5 DEF Inv, TypeOK
<1>9. TablesInv'
  BY <1>5, <1>7 DEF Inv, TablesInv, Newest, Tidy, Live, Parsed
<1>10. ASSUME NEW q \in Busy'
       PROVE  (CreateKnows(request[q]) /\ EditKnows(request[q]) /\ PruneKnows(q))'
  <2>1. CASE q = w
    <3>1. EditKnows(request[w]) /\ request'[q] = r
      BY <1>1, <1>6, <2>1 DEF Inv
    <3>2. life = "stored" /\ "overlap" \notin past => bindings \subseteq existing
      BY DEF Inv, TablesInv
    <3>3. life = "stored" /\ "overlap" \notin past =>
            Synced(bindings, r, existing) = Parsed(r.tools) \cap existing
      BY <3>2, <1>2 DEF Synced
    <3>4. r.tools \in Lists
      BY <1>1, <1>2 DEF Request
    <3>5. life = "stored" /\ past = {} => r.tools \subseteq Live \cup r.add
      BY <3>2, <3>4, <1>2 DEF Live, Lists, Parsed
    <3> QED
      BY <3>1, <3>3, <3>5, <1>2, <1>4, <1>5
         DEF CreateKnows, EditKnows, PruneKnows, Synced, Parsed, Live
  <2>2. CASE q # w
    <3>1. q \in Busy /\ request'[q] = request[q]
      BY <2>2, <1>6, <1>7, <1>10 DEF Busy
    <3> QED
      BY <3>1, <1>5, <1>7 DEF CreateKnows, EditKnows, PruneKnows, Inv, Synced, Parsed, Live
  <2> QED
    BY <2>1, <2>2
<1> QED
  BY <1>8, <1>9, <1>10 DEF Inv

\* A request that is over: the others stay as they were.
LEMMA Finished ==
  ASSUME Inv, NEW w \in Busy, Finish(w)
  PROVE  /\ request' \in [Requests -> Request \cup {Idle}]
         /\ Busy' = Busy \ {w} /\ Pruning' = Pruning \ {w}
         /\ \A q \in Busy' : q # w /\ q \in Busy /\ request'[q] = request[q]
<1>1. request' \in [Requests -> Request \cup {Idle}]
  BY DEF Finish, Inv, TypeOK
<1>2. w \in Requests /\ request'[w] = Idle
  BY DEF Finish, Inv, TypeOK, Busy
<1>3. \A q \in Requests : q # w => request'[q] = request[q]
  BY <1>2 DEF Finish, Inv, TypeOK
<1> QED
  BY <1>1, <1>2, <1>3 DEF Busy, Pruning, Idle

LEMMA CommitCreateKeeps ==
  ASSUME Inv, NEW w \in Requests, CommitCreate(w)
  PROVE  Inv'
<1> USE AgentVersionsAssumption
<1> DEFINE r == request[w]
<1>1. /\ w \in Busy /\ r \in Request /\ r.op = "create" /\ r.read.version = 1
      /\ r.add = Parsed(r.tools) /\ r.drop = {} /\ life = "unborn"
  BY DEF CommitCreate, Ready, Inv, TypeOK, Busy, CreateKnows
<1>2. /\ request' \in [Requests -> Request \cup {Idle}]
      /\ Busy' = Busy \ {w} /\ Pruning' = Pruning \ {w}
      /\ \A q \in Busy' : q # w /\ q \in Busy /\ request'[q] = request[q]
  BY <1>1, Finished DEF CommitCreate
<1>3. /\ agent' = [version |-> 1, tools |-> r.tools, data |-> r.data]
      /\ versions' = {agent'} /\ life' = "stored"
      /\ existing' = existing /\ past' = past
  BY <1>1 DEF CommitCreate
<1>4. Parsed(r.tools) \subseteq existing /\ bindings' = Parsed(r.tools)
  BY <1>1 DEF CommitCreate, WriteBindings, Inv, TablesInv
<1>5. r.tools \in Lists /\ r.data \in Values /\ Parsed(r.tools) \in SUBSET Tools
  BY <1>1, ParsedTools DEF Request
<1>5a. r.tools \subseteq Live
  BY <1>4, <1>5 DEF Lists, Parsed, Live
<1> HIDE DEF r
<1>6. agent' \in Agent /\ agent'.version = 1 /\ agent'.tools = r.tools
  BY <1>3, <1>5 DEF Agent
<1>7. TypeOK'
  BY <1>2, <1>3, <1>4, <1>5, <1>6 DEF Inv, TypeOK
<1>8. TablesInv'
  <2>1. \A s : s = agent' => Newest(s)'
    BY <1>3, <1>4, <1>6 DEF Newest
  <2>2. agent'.tools \subseteq Live' /\ bindings' = Parsed(agent.tools)' \cap existing'
    BY <1>3, <1>4, <1>5a, <1>6 DEF Live, Parsed
  <2> QED
    BY <2>1, <2>2, <1>3, <1>4, <1>6 DEF TablesInv
<1>9. ASSUME NEW q \in Busy'
      PROVE  (CreateKnows(request[q]) /\ EditKnows(request[q]) /\ PruneKnows(q))'
  <2>1. q # w /\ q \in Busy /\ w \in Busy /\ request'[q] = request[q]
    BY <1>1, <1>2, <1>9
  <2>2. request[q].op # "edit"
    BY <1>1, <2>1 DEF EditKnows, Inv
  <2>3. request[q].op = "prune" => "overlap" \in past
    BY <2>1 DEF PruneKnows, Inv
  <2> QED
    BY <2>1, <2>2, <2>3, <1>3 DEF CreateKnows, EditKnows, PruneKnows, Inv
<1> QED
  BY <1>7, <1>8, <1>9 DEF Inv

LEMMA CommitEditKeeps ==
  ASSUME Inv, NEW w \in Requests, CommitEdit(w)
  PROVE  /\ Inv'
         /\ request[w].read.version = agent.version
         /\ request[w].read.data = agent.data
         /\ "overlap" \notin past => request[w].read.tools = agent.tools
<1> USE AgentVersionsAssumption
<1> DEFINE r == request[w]
<1>1. /\ w \in Busy /\ r \in Request /\ r.op = "edit" /\ r.stage = "ready"
      /\ life = "stored" /\ EditKnows(r)
  BY DEF CommitEdit, Ready, Inv, TypeOK, Busy
<1>2. /\ r.read \in Agent /\ r.tools \in Lists /\ r.data \in Values
      /\ r.add \in SUBSET Tools /\ r.drop \in SUBSET Tools
      /\ r.read.version \in Nat /\ r.read.data \in Values
      /\ agent.version \in Nat /\ agent.tools \in Lists /\ agent.data \in Values
  BY <1>1 DEF Request, Agent, Inv, TypeOK
<1>3. r.read.version = agent.version
  <2>1. r.read.version + 1 \notin 1..agent.version
    BY <1>1 DEF CommitEdit, Free, Inv, TablesInv
  <2> QED
    BY <2>1, <1>1, <1>2 DEF EditKnows
<1>4. /\ r.read.data = agent.data
      /\ "overlap" \notin past => r.read.tools = agent.tools
      /\ "overlap" \notin past =>
            Synced(bindings, r, existing) = Parsed(r.tools) \cap existing
      /\ past = {} => r.tools \subseteq Live \cup r.add
  BY <1>1, <1>3 DEF EditKnows
<1>5. /\ request' \in [Requests -> Request \cup {Idle}]
      /\ Busy' = Busy \ {w} /\ Pruning' = Pruning \ {w}
      /\ \A q \in Busy' : q # w /\ q \in Busy /\ request'[q] = request[q]
  BY <1>1, Finished DEF CommitEdit
<1>6. /\ agent' = Updated(r) /\ versions' = versions \cup {InMemory(r)}
      /\ life' = life /\ existing' = existing /\ past' = past
      /\ r.add \subseteq existing \ bindings
      /\ bindings' = (bindings \cup r.add) \ r.drop
  BY DEF CommitEdit, WriteBindings
<1> HIDE DEF r
<1>7. /\ InMemory(r) \in Agent /\ agent' \in Agent
      /\ agent'.version = agent.version + 1 /\ InMemory(r).version = agent.version + 1
      /\ agent'.data = r.data /\ InMemory(r).data = r.data
      /\ InMemory(r).tools = r.tools /\ ("overlap" \notin past => agent'.tools = r.tools)
  <2>1. agent.version + 1 \in 1..MaxVersion
    BY <1>1, <1>2, <1>3 DEF EditKnows
  <2> QED
    BY <2>1, <1>2, <1>3, <1>4, <1>6 DEF InMemory, Updated, Agent
<1>8. "overlap" \notin past => bindings' = Parsed(r.tools) \cap existing
  BY <1>4, <1>6 DEF Synced
<1>9. past = {} => r.tools \subseteq Live
  BY <1>4, <1>6 DEF Live
<1>10. TypeOK'
  BY <1>2, <1>5, <1>6, <1>7 DEF Inv, TypeOK
<1>11. TablesInv'
  <2> DEFINE u == InMemory(r)
  <2>1. u \in versions' /\ u.version = agent'.version
    BY <1>6, <1>7
  <2>2. \A s : s = u => Newest(s)'
    BY <1>6, <1>7 DEF Newest
  <2>3. \A s \in versions' : s.version <= agent'.version
    BY <1>1, <1>2, <1>6, <1>7 DEF Inv, TablesInv, TypeOK, Agent
  <2>4. \A n \in 1..agent'.version : \E s \in versions' : s.version = n
    <3>1. \A n \in 1..agent'.version : n \in 1..agent.version \/ n = agent'.version
      BY <1>2, <1>7
    <3>2. \A n \in 1..agent.version : \E s \in versions : s.version = n
      BY <1>1 DEF Inv, TablesInv
    <3> QED
      BY <3>1, <3>2, <2>1, <1>6
  <2>5. \A s, v \in versions' : s.version = v.version => s = v
    <3>1. \A s \in versions : s.version # u.version
      BY <1>1, <1>2, <1>7 DEF Inv, TablesInv, TypeOK, Agent
    <3> HIDE DEF u
    <3> QED
      BY <3>1, <1>1, <1>6 DEF Inv, TablesInv, u
  <2>6. Tidy' => agent'.tools \subseteq Live'
    BY <1>6, <1>7, <1>9 DEF Tidy, Live
  <2>7. "overlap" \notin past' => bindings' = Parsed(agent.tools)' \cap existing'
    BY <1>6, <1>7, <1>8 DEF Parsed
  <2> HIDE DEF u
  <2> QED
    BY <1>1, <1>6, <2>1, <2>2, <2>3, <2>4, <2>5, <2>6, <2>7 DEF TablesInv
<1>12. ASSUME NEW q \in Busy'
       PROVE  (CreateKnows(request[q]) /\ EditKnows(request[q]) /\ PruneKnows(q))'
  <2>1. /\ q # w /\ q \in Busy /\ w \in Busy /\ request'[q] = request[q]
        /\ CreateKnows(request[q]) /\ EditKnows(request[q]) /\ PruneKnows(q)
    BY <1>1, <1>5, <1>12 DEF Inv
  <2>2. request[q].op = "prune" => "overlap" \in past
    BY <2>1 DEF PruneKnows
  <2>3. request[q].op = "edit" =>
          request[q].read.version \in Nat /\ request[q].read.version <= agent.version
    <3>1. request[q] \in Request
      BY <2>1 DEF Inv, TypeOK, Busy
    <3> QED
      BY <3>1, <2>1 DEF EditKnows, Request, Agent
  <2> QED
    BY <2>1, <2>2, <2>3, <1>1, <1>2, <1>6, <1>7 DEF CreateKnows, EditKnows, PruneKnows
<1> QED
  BY <1>3, <1>4, <1>10, <1>11, <1>12 DEF Inv, r

LEMMA EndingsKeep ==
  ASSUME Inv, NEW w \in Requests, CommitDelete(w) \/ Abort(w)
  PROVE  Inv'
<1>1. /\ w \in Busy /\ Finish(w)
      /\ \/ UNCHANGED <<life, versions, bindings>>
         \/ life' = "deleted" /\ versions' = {} /\ bindings' = {}
      /\ UNCHANGED <<agent, existing>>
      /\ past' = past \/ past' = past \cup {"unpruned"}
      /\ w \in Pruning => past' # {}
  BY DEF CommitDelete, Abort, Ready, Pruning
<1>2. /\ request' \in [Requests -> Request \cup {Idle}]
      /\ Busy' = Busy \ {w} /\ Pruning' = Pruning \ {w}
      /\ \A q \in Busy' : q # w /\ q \in Busy /\ request'[q] = request[q]
  BY <1>1, Finished
<1>3. /\ past' = {} => past = {} /\ w \notin Pruning
      /\ "overlap" \notin past' => "overlap" \notin past
  BY <1>1
<1>4. TypeOK'
  BY <1>1, <1>2 DEF Inv, TypeOK
<1>5. TablesInv'
  <2>1. CASE UNCHANGED <<life, versions, bindings>>
    <3>1. \A s : Newest(s) => Newest(s)'
      BY <2>1, <1>1, <1>3 DEF Newest, Live
    <3>2. Tidy' => Tidy
      BY <1>2, <1>3 DEF Tidy
    <3> QED
      BY <3>1, <3>2, <2>1, <1>1, <1>3 DEF Inv, TablesInv, Live, Parsed
  <2>2. CASE life' = "deleted"
    BY <2>2 DEF TablesInv
  <2> QED
    BY <2>1, <2>2, <1>1
<1>6. ASSUME NEW q \in Busy'
      PROVE  (CreateKnows(request[q]) /\ EditKnows(request[q]) /\ PruneKnows(q))'
  <2>1. /\ q # w /\ q \in Busy /\ request'[q] = request[q]
        /\ CreateKnows(request[q]) /\ EditKnows(request[q]) /\ PruneKnows(q)
    BY <1>2, <1>6 DEF Inv
  <2>2. request[q].op = "prune" => "overlap" \in past'
    BY <2>1, <1>1 DEF PruneKnows
  <2> QED
    BY <2>1, <2>2, <1>1, <1>3 DEF CreateKnows, EditKnows, PruneKnows, Synced, Parsed, Live
<1> QED
  BY <1>4, <1>5, <1>6 DEF Inv

LEMMA DeleteToolKeeps ==
  ASSUME Inv, NEW w \in Requests, DeleteTool(w)
  PROVE  Inv'
<1>1. PICK t \in existing :
        /\ existing' = existing \ {t} /\ bindings' = bindings \ {t}
        /\ \/ /\ request' = [request EXCEPT ![w] =
                   [op |-> "prune", stage |-> "read", read |-> agent, tools |-> {t},
                    data |-> agent.data, add |-> {}, drop |-> {}]]
              /\ past' = IF Busy = {} THEN past ELSE past \cup {"overlap"}
           \/ past' = past \cup {"unpruned"} /\ request' = request
  BY DEF DeleteTool
<1>2. w \notin Busy /\ UNCHANGED <<life, agent, versions>>
  BY DEF DeleteTool
<1> DEFINE r == [op |-> "prune", stage |-> "read", read |-> agent, tools |-> {t},
                 data |-> agent.data, add |-> {}, drop |-> {}]
<1>3. r \in Request /\ r # Idle /\ r.op = "prune" /\ r.stage = "read" /\ r.tools = {t}
  BY DEF Request, Idle, Inv, TypeOK, Agent, Lists
<1>4. /\ past' = {} => past = {} /\ Busy = {} /\ request' = [request EXCEPT ![w] = r]
      /\ "overlap" \notin past' => "overlap" \notin past /\ (Busy = {} \/ request' = request)
  BY <1>1
<1>5. request' = [request EXCEPT ![w] = r] \/ request' = request
  BY <1>1
<1> HIDE DEF r
<1>6. past' \subseteq {"overlap", "unpruned"}
  BY <1>1 DEF Inv, TypeOK
<1>7. TypeOK'
  BY <1>1, <1>2, <1>3, <1>5, <1>6 DEF Inv, TypeOK
<1>8. past' = {} => request'[w] = r /\ Busy' = {w} /\ w \in Pruning'
  BY <1>3, <1>4 DEF Inv, TypeOK, Busy, Pruning
<1>8a. Live' \subseteq Live /\ existing' \subseteq existing /\ t \notin existing' /\ t \in Tools
  BY <1>1 DEF Live, Inv, TypeOK
<1>9. TablesInv'
  <2>1. \A s : Newest(s) => Newest(s)'
    BY <1>2, <1>4, <1>8a DEF Newest
  <2>2. ~Tidy'
    BY <1>8 DEF Tidy
  <2>3. life = "stored" /\ "overlap" \notin past' =>
          bindings' = Parsed(agent.tools)' \cap existing'
    BY <1>1, <1>2, <1>4 DEF Inv, TablesInv, Parsed
  <2> QED
    BY <1>1, <1>2, <2>1, <2>2, <2>3 DEF Inv, TablesInv
<1>10. ASSUME NEW q \in Busy'
       PROVE  (CreateKnows(request[q]) /\ EditKnows(request[q]) /\ PruneKnows(q))'
  <2>1. CASE q = w
    <3>1. request'[q] = r
      BY <2>1, <1>2, <1>5, <1>10 DEF Busy, Inv, TypeOK
    <3>2. "overlap" \notin past' => Busy' = {w}
      BY <3>1, <2>1, <1>2, <1>3, <1>4, <1>5, <1>10 DEF Busy, Inv, TypeOK
    <3>3. life = "stored" /\ past' = {} => agent.tools \subseteq Live' \cup {t}
      <4>1. life = "stored" /\ past' = {} => agent.tools \subseteq Live
        BY <1>4 DEF Inv, TablesInv, Tidy, Pruning
      <4> QED
        BY <4>1, <1>1 DEF Live
    <3> QED
      BY <3>1, <3>2, <3>3, <1>2, <1>3, <1>8a, <2>1 DEF CreateKnows, EditKnows, PruneKnows
  <2>2. CASE q # w
    <3>1. /\ q \in Busy /\ request'[q] = request[q] /\ past' # {}
          /\ CreateKnows(request[q]) /\ EditKnows(request[q]) /\ PruneKnows(q)
      BY <2>2, <1>5, <1>8, <1>10 DEF Busy, Inv, TypeOK
    <3>2. "overlap" \notin past' => "overlap" \notin past /\ request' = request /\ Busy' = Busy
      BY <3>1, <1>4 DEF Busy
    <3>3. Synced(bindings, request[q], existing) = Parsed(request[q].tools) \cap existing =>
            Synced(bindings, request[q], existing)' = Parsed(request[q].tools)' \cap existing'
      BY <3>1, <1>1 DEF Synced, Parsed
    <3>4. EditKnows(request[q])'
      BY <3>1, <3>2, <3>3, <1>2 DEF EditKnows
    <3>5. Parsed(request[q].tools) \cap existing = bindings =>
            Parsed(request[q].tools)' \cap existing' = bindings'
      BY <3>1, <1>1 DEF Parsed
    <3>6. PruneKnows(q)'
      BY <3>1, <3>2, <3>5, <1>2, <1>8a DEF PruneKnows
    <3> QED
      BY <3>1, <3>4, <3>6, <1>2 DEF CreateKnows, Parsed
  <2> QED
    BY <2>1, <2>2
<1> QED
  BY <1>7, <1>9, <1>10 DEF Inv

LEMMA ReadToPruneKeeps ==
  ASSUME Inv, NEW w \in Requests, ReadToPrune(w)
  PROVE  Inv'
<1> DEFINE r == [request[w] EXCEPT !.stage = "ready", !.read = agent,
                                   !.tools = agent.tools \ request[w].tools]
<1>1. /\ request[w] \in Request /\ w \in Busy /\ w \in Pruning
      /\ request[w].op = "prune" /\ request[w].stage = "read"
  BY DEF ReadToPrune, Pruning, Inv, TypeOK, Busy
<1>2. /\ r \in Request /\ r # Idle /\ r.op = "prune" /\ r.stage = "ready"
      /\ r.read = agent /\ r.tools = agent.tools \ request[w].tools
  <2>1. agent.tools \ request[w].tools \in Lists
    BY DEF Inv, TypeOK, Agent, Lists
  <2> QED
    BY <1>1, <2>1 DEF Request, Idle, Inv, TypeOK
<1>3. request' = [request EXCEPT ![w] = r]
  BY <1>1 DEF ReadToPrune, Inv, TypeOK
<1>4. UNCHANGED <<life, agent, versions, bindings, existing, past>>
  BY DEF ReadToPrune
<1> HIDE DEF r
<1>5. request'[w] = r /\ (\A q \in Requests : q # w => request'[q] = request[q])
  BY <1>3 DEF Inv, TypeOK
<1>6. Busy' = Busy /\ Pruning' = Pruning
  BY <1>1, <1>2, <1>5 DEF Busy, Pruning
<1>7. TypeOK'
  BY <1>2, <1>3, <1>4 DEF Inv, TypeOK
<1>8. TablesInv'
  BY <1>4, <1>6 DEF Inv, TablesInv, Newest, Tidy, Live, Parsed
<1>9. ASSUME NEW q \in Busy'
      PROVE  (CreateKnows(request[q]) /\ EditKnows(request[q]) /\ PruneKnows(q))'
  <2>1. CASE q = w
    <3>1. PruneKnows(w) /\ request'[q] = r
      BY <1>1, <1>5, <2>1 DEF Inv
    <3>2. agent.tools \in Lists /\ existing \subseteq Tools
      BY DEF Inv, TypeOK, Agent
    <3>3. life = "stored" /\ "overlap" \notin past => Parsed(r.tools) \cap existing = bindings
      <4>1. ASSUME life = "stored", "overlap" \notin past
            PROVE  /\ request[w].tools \in SUBSET Tools /\ request[w].tools \cap existing = {}
                   /\ bindings = Parsed(agent.tools) \cap existing
        BY <4>1, <3>1, <1>1 DEF PruneKnows, Inv, TablesInv
      <4>2. ASSUME NEW gone \in SUBSET Tools, gone \cap existing = {}
            PROVE  Parsed(agent.tools \ gone) \cap existing = Parsed(agent.tools) \cap existing
        <5>1. (agent.tools \ gone) \cap Others = agent.tools \cap Others
          BY <4>2, AgentVersionsAssumption
        <5> QED
          BY <4>2, <5>1 DEF Parsed
      <4> QED
        BY <4>1, <4>2, <1>2
    <3>4. life = "stored" /\ past = {} =>
            r.tools \subseteq Live /\ r.tools \cap Live = agent.tools \cap Live
      <4>1. ASSUME life = "stored", past = {}
            PROVE  /\ request[w].tools \in SUBSET (Tools \ existing)
                   /\ agent.tools \subseteq Live \cup request[w].tools
        BY <4>1, <3>1, <1>1 DEF PruneKnows
      <4>2. ASSUME NEW T \in SUBSET (Tools \ existing) PROVE T \cap Live = {}
        BY AgentVersionsAssumption DEF Live
      <4> QED
        BY <4>1, <4>2, <1>2
    <3> QED
      BY <3>1, <3>3, <3>4, <1>1, <1>2, <1>4, <1>6, <2>1
         DEF CreateKnows, EditKnows, PruneKnows, Parsed, Live
  <2>2. CASE q # w
    <3>1. q \in Busy /\ request'[q] = request[q]
      BY <2>2, <1>5, <1>6, <1>9 DEF Busy
    <3> QED
      BY <3>1, <1>4, <1>6 DEF CreateKnows, EditKnows, PruneKnows, Inv, Synced, Parsed, Live
  <2> QED
    BY <2>1, <2>2
<1> QED
  BY <1>7, <1>8, <1>9 DEF Inv

LEMMA CommitPruneKeeps ==
  ASSUME Inv, NEW w \in Requests, CommitPrune(w)
  PROVE  Inv'
<1> DEFINE r == request[w]
<1>1. /\ w \in Busy /\ w \in Pruning /\ r \in Request /\ r.op = "prune" /\ r.stage = "ready"
      /\ PruneKnows(w)
  BY DEF CommitPrune, Ready, Inv, TypeOK, Busy, Pruning
<1>2. /\ request' \in [Requests -> Request \cup {Idle}]
      /\ Busy' = Busy \ {w} /\ Pruning' = Pruning \ {w}
      /\ \A q \in Busy' : q # w /\ q \in Busy /\ request'[q] = request[q]
  BY <1>1, Finished DEF CommitPrune
<1>3. UNCHANGED <<life, versions, bindings, existing, past>>
  BY DEF CommitPrune
<1>4. /\ agent' \in Agent /\ agent'.version = agent.version /\ agent'.data = agent.data
      /\ life # "stored" => agent' = agent
      /\ life = "stored" => agent'.tools = r.tools \/ (agent' = agent /\ r.tools = r.read.tools)
  <2>1. agent \in Agent /\ r.tools \in Lists
    BY <1>1 DEF Request, Inv, TypeOK
  <2> QED
    BY <2>1 DEF CommitPrune, Agent
<1>5. life = "stored" =>
        /\ "overlap" \notin past => bindings = Parsed(agent.tools)' \cap existing
        /\ past = {} => agent'.tools \subseteq Live /\ agent'.tools \cap Live = agent.tools \cap Live
  BY <1>1, <1>4 DEF PruneKnows, Parsed
<1>6. TypeOK'
  BY <1>2, <1>3, <1>4 DEF Inv, TypeOK
<1>7. TablesInv'
  <2>1. \A s : Newest(s) => Newest(s)'
    BY <1>3, <1>4, <1>5 DEF Newest, Live
  <2> QED
    BY <2>1, <1>3, <1>4, <1>5 DEF Inv, TablesInv, Tidy, Live
<1>8. ASSUME NEW q \in Busy'
      PROVE  (CreateKnows(request[q]) /\ EditKnows(request[q]) /\ PruneKnows(q))'
  <2>1. /\ q # w /\ q \in Busy /\ request'[q] = request[q]
        /\ CreateKnows(request[q]) /\ EditKnows(request[q])
    BY <1>2, <1>8 DEF Inv
  <2>2. "overlap" \in past
    BY <2>1, <1>1 DEF PruneKnows
  <2> QED
    BY <2>1, <2>2, <1>3, <1>4 DEF CreateKnows, EditKnows, PruneKnows, Parsed
<1> QED
  BY <1>6, <1>7, <1>8 DEF Inv

LEMMA InvNext == Inv /\ [Next]_vars => Inv'
<1>1. ASSUME Inv, NEW w \in Requests, Step(w) PROVE Inv'
  BY <1>1, Beginnings, SyncKeeps, CommitCreateKeeps, CommitEditKeeps, EndingsKeep,
     DeleteToolKeeps, ReadToPruneKeeps, CommitPruneKeeps DEF Step
<1>2. ASSUME Inv, UNCHANGED vars PROVE Inv'
  BY <1>2 DEF vars, Inv, TypeOK, TablesInv, Newest, Tidy, Live, Busy, Pruning, CreateKnows,
              EditKnows, PruneKnows, Synced, Parsed
<1> QED
  BY <1>1, <1>2 DEF Next

\* Every state of the agent, its snapshots and its requests has its type.
THEOREM AgentTypes == Spec => []TypeOK
<1>1. Inv => TypeOK
  BY DEF Inv
<1> QED
  BY InvInit, InvNext, <1>1, PTL DEF Spec

\* However many edits overlap, versions count from 1 without a gap or a double
\* (VersionsContiguous).
THEOREM VersionsCount == Spec => []VersionsContiguous
<1>1. Inv => VersionsContiguous
  <2> SUFFICES ASSUME Inv, life = "stored" PROVE VersionsContiguous
    BY DEF VersionsContiguous
  <2>1. \A s \in versions : s.version \in 1..agent.version
    BY DEF Inv, TablesInv, TypeOK, Agent
  <2> QED
    BY <2>1 DEF Inv, TablesInv, VersionsContiguous
<1> QED
  BY InvInit, InvNext, <1>1, PTL DEF Spec

\* The newest snapshot is the agent (NewestSnapshotIsAgent), in all that no deletion
\* of a tool has touched.
THEOREM SnapshotsFollow == Spec => []NewestSnapshotIsAgent
<1>1. Inv => NewestSnapshotIsAgent
  BY DEF Inv, TablesInv, NewestSnapshotIsAgent, Newest, Tidy, Live
<1> QED
  BY InvInit, InvNext, <1>1, PTL DEF Spec

\* The join rows are the tools on the list that exist, as long as no prune has met
\* another request (BindingsFollowTheList).
THEOREM BindingsFollow == Spec => []BindingsFollowTheList
<1>1. Inv => BindingsFollowTheList
  BY DEF Inv, TablesInv, BindingsFollowTheList
<1> QED
  BY InvInit, InvNext, <1>1, PTL DEF Spec

\* An edit that commits replaces the version and the columns it has read, and the
\* list of tools too unless a prune met another request.
THEOREM EditsAreNotLost == Spec => NoLostEdit
<1>1. ASSUME Inv PROVE \A w \in Requests : CommitEdit(w) =>
          /\ request[w].read.version = agent.version /\ request[w].read.data = agent.data
          /\ "overlap" \notin past => request[w].read.tools = agent.tools
  BY <1>1, CommitEditKeeps
<1>2. Inv /\ [Next]_vars =>
        [\A w \in Requests : CommitEdit(w) =>
           LET read == request[w].read
           IN  /\ read.version = agent.version /\ read.data = agent.data
               /\ "overlap" \notin past => read.tools = agent.tools]_vars
  BY <1>1
<1> QED
  BY InvInit, InvNext, <1>2, PTL DEF Spec, NoLostEdit
=============================================================================
