--------------------------- MODULE AgentVersions ---------------------------
(***************************************************************************)
(* One agent of the gateway: its row, the snapshots of its versions, the   *)
(* join rows that bind tools to it, and the requests that change them.  A  *)
(* request reads the row, may await, reads the join rows, awaits the audit *)
(* emitter and commits; nothing but the constraints of the tables keeps    *)
(* two requests apart.                                                     *)
(***************************************************************************)
EXTENDS Naturals

CONSTANTS
  Tools,      \* the tools, by the ids that the routes write
  Others,     \* what else a client may put on a list: any string
  Names,      \* the tool whose id UUID() reads in each of them, or none
  Values,     \* what the other columns of an agent may hold
  Requests,   \* slots for requests in flight
  MaxVersion  \* bound: versions of the agent

ASSUME AgentVersionsAssumption ==
  /\ Tools \cap Others = {}
  /\ Names \in [Others -> SUBSET Tools]
  /\ MaxVersion \in Nat \ {0}

VARIABLES
  life,     \* whether the agent is stored
  agent,    \* its row: version, tool_ids, and the rest
  versions, \* agent_version rows
  bindings, \* tool_binding rows
  existing, \* tool rows
  request,  \* what each request has read and is about to write
  past      \* history: deletions of tools that met another request, or did not prune

vars == <<life, agent, versions, bindings, existing, request, past>>

-----------------------------------------------------------------------------
\* Create and patch take lists of strings as they come.
Lists == SUBSET (Tools \cup Others)

Agent == [version : 1..MaxVersion, tools : Lists, data : Values]

\* read: the row as the request has it; then the values it will have, and the
\* join rows to add and to drop.
Request ==
  [op : {"create", "edit", "delete", "prune"}, stage : {"read", "ready"}, read : Agent,
   tools : Lists, data : Values, add : SUBSET Tools, drop : SUBSET Tools]

Idle == [op |-> "none"]

TypeOK ==
  /\ life \in {"unborn", "stored", "deleted"}
  /\ agent \in Agent
  /\ versions \subseteq Agent
  /\ bindings \subseteq Tools
  /\ existing \subseteq Tools
  /\ request \in [Requests -> Request \cup {Idle}]
  /\ past \subseteq {"overlap", "unpruned"}

Init ==
  /\ life = "unborn"
  /\ agent \in [version : {1}, tools : {{}}, data : Values]
  /\ versions = {}
  /\ bindings = {}
  /\ existing = Tools
  /\ request = [w \in Requests |-> Idle]
  /\ past = {}

\* The tools on a list: a string that is no UUID is skipped.
Parsed(list) == (list \cap Tools) \cup UNION {Names[o] : o \in list \cap Others}

Busy == {w \in Requests : request[w] # Idle}
Pruning == {w \in Busy : request[w].op = "prune"}

Begin(w, op, stage, tools, data, add) ==
  /\ w \notin Busy
  /\ request' = [request EXCEPT ![w] =
       [op |-> op, stage |-> stage, read |-> agent, tools |-> tools, data |-> data,
        add |-> add, drop |-> {}]]
  /\ past' = IF Pruning = {} THEN past ELSE past \cup {"overlap"}
  /\ UNCHANGED <<life, agent, versions, bindings, existing>>

-----------------------------------------------------------------------------
(* Requests, up to their reading of the row.                               *)

\* create_agent: the id is new, so nobody else sees the row before the commit.
Create(w) ==
  /\ life = "unborn"
  /\ \E tools \in Lists, data \in Values :
        Begin(w, "create", "ready", tools, data, Parsed(tools))

MayEdit == life = "stored" /\ agent.version < MaxVersion

\* update_agent, which awaits the capabilities of the model before it writes.
Patch(w) ==
  /\ MayEdit
  /\ \E data \in Values :
        \/ Begin(w, "edit", "ready", agent.tools, data, {})
        \/ \E tools \in Lists : Begin(w, "edit", "read", tools, data, {})

Publish(w) == MayEdit /\ Begin(w, "edit", "ready", agent.tools, agent.data, {})

Bind(w) ==
  /\ MayEdit
  /\ \E t \in Tools : Begin(w, "edit", "read", agent.tools \cup {t}, agent.data, {})

Unbind(w) ==
  /\ MayEdit
  /\ \E t \in Tools : Begin(w, "edit", "read", agent.tools \ {t}, agent.data, {})

Delete(w) == life = "stored" /\ Begin(w, "delete", "ready", agent.tools, agent.data, {})

-----------------------------------------------------------------------------
(* Join rows and commits.                                                  *)

\* MUTANT of SyncToolBindings: what the list no longer has stays bound.
SyncAddsOnly(w) ==
  /\ w \in Busy \ Pruning /\ request[w].stage = "read"
  /\ request' = [request EXCEPT ![w].stage = "ready", ![w].add = Parsed(request[w].tools) \ bindings]
  /\ UNCHANGED <<life, agent, versions, bindings, existing, past>>

\* _sync_tool_bindings: a statement of its own, later than the one for the row.
SyncToolBindings(w) ==
  /\ w \in Busy \ Pruning /\ request[w].stage = "read"
  /\ request' = [request EXCEPT ![w].stage = "ready", ![w].add = Parsed(request[w].tools) \ bindings,
                                ![w].drop = bindings \ Parsed(request[w].tools)]
  /\ UNCHANGED <<life, agent, versions, bindings, existing, past>>

Ready(w, op) == w \in Busy /\ request[w].stage = "ready" /\ request[w].op = op
Finish(w) == request' = [request EXCEPT ![w] = Idle]

\* The join rows reference tools that exist and are there once.
WriteBindings(w) ==
  /\ request[w].add \subseteq existing \ bindings
  /\ bindings' = (bindings \cup request[w].add) \ request[w].drop

CommitCreate(w) ==
  /\ Ready(w, "create") /\ life = "unborn"
  /\ WriteBindings(w)
  /\ life' = "stored"
  /\ agent' = [version |-> request[w].read.version, tools |-> request[w].tools,
               data |-> request[w].data]
  /\ versions' = {agent'}
  /\ Finish(w)
  /\ UNCHANGED <<existing, past>>

\* uq_agent_version
Free(n) == \A s \in versions : s.version # n

\* The UPDATE writes the columns whose value in memory has changed.
Updated(r) ==
  [version |-> r.read.version + 1,
   tools |-> IF r.tools = r.read.tools THEN agent.tools ELSE r.tools,
   data |-> IF r.data = r.read.data THEN agent.data ELSE r.data]

\* The object in memory, which the snapshot is taken of.
InMemory(r) == [version |-> r.read.version + 1, tools |-> r.tools, data |-> r.data]

\* MUTANT of CommitEdit: no constraint on (agent_id, version).
CommitUnconstrained(w) ==
  /\ Ready(w, "edit") /\ life = "stored"
  /\ WriteBindings(w)
  /\ agent' = Updated(request[w])
  /\ versions' = versions \cup {InMemory(request[w])}
  /\ Finish(w)
  /\ UNCHANGED <<life, existing, past>>

\* MUTANT of CommitEdit: the snapshot is taken before the new values are set.
CommitOldSnapshot(w) ==
  /\ Ready(w, "edit") /\ life = "stored"
  /\ Free(request[w].read.version + 1)
  /\ WriteBindings(w)
  /\ agent' = Updated(request[w])
  /\ versions' = versions \cup {[request[w].read EXCEPT !.version = @ + 1]}
  /\ Finish(w)
  /\ UNCHANGED <<life, existing, past>>

CommitEdit(w) ==
  /\ Ready(w, "edit") /\ life = "stored"
  /\ Free(request[w].read.version + 1)
  /\ WriteBindings(w)
  /\ agent' = Updated(request[w])
  /\ versions' = versions \cup {InMemory(request[w])}
  /\ Finish(w)
  /\ UNCHANGED <<life, existing, past>>

\* Snapshots and join rows go with the agent.
CommitDelete(w) ==
  /\ Ready(w, "delete")
  /\ life' = "deleted"
  /\ versions' = {}
  /\ bindings' = {}
  /\ Finish(w)
  /\ UNCHANGED <<agent, existing, past>>

\* A constraint fails, the row is gone, the model lacks a capability, the
\* process stops: the session rolls back, whatever the audit trail says.
Abort(w) ==
  /\ w \in Busy
  /\ Finish(w)
  /\ past' = IF w \in Pruning THEN past \cup {"unpruned"} ELSE past
  /\ UNCHANGED <<life, agent, versions, bindings, existing>>

-----------------------------------------------------------------------------
(* Deletion of a tool: delete_tool of the gateway's tool routes.           *)

\* The registry deletes the row, and the join rows go with it.  The agents of the
\* workspace named in the path are pruned next; of a global tool there are others.
DeleteTool(w) ==
  /\ w \notin Busy
  /\ \E t \in existing :
        /\ existing' = existing \ {t}
        /\ bindings' = bindings \ {t}
        /\ \/ /\ request' = [request EXCEPT ![w] =
                  [op |-> "prune", stage |-> "read", read |-> agent, tools |-> {t},
                   data |-> agent.data, add |-> {}, drop |-> {}]]
              /\ past' = IF Busy = {} THEN past ELSE past \cup {"overlap"}
           \/ /\ past' = past \cup {"unpruned"}
              /\ UNCHANGED request
  /\ UNCHANGED <<life, agent, versions>>

\* The agents are read after the deletion.
ReadToPrune(w) ==
  /\ w \in Pruning /\ request[w].stage = "read"
  /\ request' = [request EXCEPT ![w].stage = "ready", ![w].read = agent,
                                ![w].tools = agent.tools \ request[w].tools]
  /\ UNCHANGED <<life, agent, versions, bindings, existing, past>>

\* The list is written back, without a version, if the tool was on it.
CommitPrune(w) ==
  /\ Ready(w, "prune")
  /\ IF request[w].tools = request[w].read.tools \/ life # "stored"
     THEN UNCHANGED agent
     ELSE agent' = [agent EXCEPT !.tools = request[w].tools]
  /\ Finish(w)
  /\ UNCHANGED <<life, versions, bindings, existing, past>>

-----------------------------------------------------------------------------
Step(w) ==
  \/ Create(w) \/ Patch(w) \/ Publish(w) \/ Bind(w) \/ Unbind(w) \/ Delete(w)
  \/ SyncToolBindings(w)
  \/ CommitCreate(w) \/ CommitEdit(w) \/ CommitDelete(w) \/ Abort(w)
  \/ DeleteTool(w) \/ ReadToPrune(w) \/ CommitPrune(w)

Next == \E w \in Requests : Step(w)

Spec == Init /\ [][Next]_vars

-----------------------------------------------------------------------------
(* Properties.                                                             *)

\* Every deletion of a tool has pruned the lists it was on, and met no request.
Tidy == past = {} /\ Pruning = {}

\* However edits overlap, the newest snapshot is the agent: no column comes from
\* one edit while the snapshot of its version tells of another.  Of its tools the
\* agent lacks those that were deleted since.
NewestSnapshotIsAgent ==
  life = "stored" =>
     \E s \in versions :
        /\ s.version = agent.version /\ s.data = agent.data
        /\ Tidy => agent.tools = s.tools \cap (existing \cup Others)

\* Versions are numbered from 1 to the agent's own, each once: an edit that fails
\* leaves no gap, and two edits never share a number.
VersionsContiguous ==
  life = "stored" =>
     /\ {s.version : s \in versions} = 1..agent.version
     /\ \A s, u \in versions : s.version = u.version => s = u

\* No edit is lost: what an edit replaces is what it has read, the list of tools
\* excepted if a prune went on meanwhile.
NoLostEdit ==
  [][\A w \in Requests :
       CommitEdit(w) =>
          LET read == request[w].read
          IN  /\ read.version = agent.version /\ read.data = agent.data
              /\ "overlap" \notin past => read.tools = agent.tools]_vars

\* List and join rows are read at different moments and written by three routes, and
\* a tool may be deleted between any two of their steps, pruned from the list or not.
\* The rows are all the same the tools on the list that exist, unless the prune of a
\* deletion went on beside another request.
BindingsFollowTheList ==
  life = "stored" /\ "overlap" \notin past => bindings = Parsed(agent.tools) \cap existing
=============================================================================
