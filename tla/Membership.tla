----------------------------- MODULE Membership -----------------------------
(***************************************************************************)
(* Workspaces and who belongs to them, as api-gateway administers them.    *)
(* A request reads the caller's rights, then the rows it is about, queues  *)
(* its write, emits an audit event (an await) and is committed at its end: *)
(* another request may commit between any two of these.                    *)
(***************************************************************************)
EXTENDS Naturals

CONSTANTS
  Workspaces,
  Users,
  Superusers,  \* of them
  Slots  \* bound: requests in flight

VARIABLES
  exists,  \* workspaces that exist
  role,    \* workspace_member: the role of each user in each workspace
  req      \* each request in flight

vars == <<exists, role, req>>

\* The roles below admin grant nothing here.
Roles == {"owner", "admin", "member"}
None == "none"
Ops == {"add", "update", "remove", "delete"}

Idle == [stage |-> "idle"]

Request ==
  [stage : {"authorized", "decided"}, op : Ops, ws : Workspaces, by : Users,
   owner : BOOLEAN,           \* the caller was an owner, or a superuser
   user : Users, to : Roles,  \* whom the request is about, the role it asks for
   was : Roles \cup {None}]   \* the role it read

TypeOK ==
  /\ exists \subseteq Workspaces
  /\ role \in [Workspaces -> [Users -> Roles \cup {None}]]
  /\ req \in [Slots -> Request \cup {Idle}]
  /\ \A ws \in Workspaces \ exists, u \in Users : role[ws][u] = None

Init ==
  /\ exists = {}
  /\ role = [ws \in Workspaces |-> [u \in Users |-> None]]
  /\ req = [s \in Slots |-> Idle]

Owners(ws) == {u \in Users : role[ws][u] = "owner"}
Busy == {s \in Slots : req[s] # Idle}

-----------------------------------------------------------------------------
\* create_workspace: the workspace and its first owner, in one transaction.
CreateWorkspace(ws, u) ==
  /\ ws \notin exists
  /\ exists' = exists \cup {ws}
  /\ role' = [role EXCEPT ![ws][u] = "owner"]
  /\ UNCHANGED req

\* require_workspace_role: member:write for the members' routes,
\* workspace:delete for the workspace's.
MayCall(u, op, ws) ==
  \/ u \in Superusers
  \/ role[ws][u] = "owner"
  \/ role[ws][u] = "admin" /\ op # "delete"

\* principal.roles holds the caller's roles in all workspaces.
OwnsSome(u) == u \in Superusers \/ \E ws \in Workspaces : role[ws][u] = "owner"

\* The dependencies of the route.
Authorize(s) ==
  /\ req[s] = Idle
  /\ \E op \in Ops, ws \in exists, by \in Users, user \in Users, to \in Roles :
        /\ MayCall(by, op, ws)
        /\ req' = [req EXCEPT ![s] =
                     [stage |-> "authorized", op |-> op, ws |-> ws, by |-> by,
                      owner |-> OwnsSome(by), user |-> user, to |-> to, was |-> None]]
  /\ UNCHANGED <<exists, role>>

\* What the handlers check of the row they have read.
Accepts(r, was) ==
  CASE r.op = "add" -> was = None /\ (r.to = "owner" => r.owner)
    [] r.op = "update" -> was # None /\ ("owner" \in {was, r.to} => r.owner)
    [] r.op = "remove" -> was # None /\ (was = "owner" => Owners(r.ws) \ {r.user} # {})
    [] r.op = "delete" -> TRUE

Inserting(r, ws, u) ==
  r.stage = "decided" /\ r.op = "add" /\ r.ws = ws /\ r.user = u

\* add_member, update_member, remove_member, delete_workspace.  An insert
\* waits for another one of the same row.
Decide(s) ==
  /\ s \in Busy
  /\ req[s].stage = "authorized"
  /\ req[s].ws \in exists
  /\ req[s].op # "add" \/ ~\E q \in Busy : Inserting(req[q], req[s].ws, req[s].user)
  /\ Accepts(req[s], role[req[s].ws][req[s].user])
  /\ req' = [req EXCEPT ![s].stage = "decided", ![s].was = role[req[s].ws][req[s].user]]
  /\ UNCHANGED <<exists, role>>

\* The row is still there, or still is not: otherwise the flush raises.
Writable(r) ==
  /\ r.ws \in exists
  /\ r.op = "add" => role[r.ws][r.user] = None
  /\ r.op \in {"update", "remove"} => role[r.ws][r.user] # None

\* The role the row ends with.  An update to the role it read writes nothing.
Written(r) ==
  CASE r.op = "remove" -> None
    [] r.op = "update" /\ r.was = r.to -> role[r.ws][r.user]
    [] OTHER -> r.to

CommitMember(s) ==
  /\ s \in Busy
  /\ req[s].stage = "decided" /\ req[s].op # "delete"
  /\ Writable(req[s])
  /\ role' = [role EXCEPT ![req[s].ws][req[s].user] = Written(req[s])]
  /\ req' = [req EXCEPT ![s] = Idle]
  /\ UNCHANGED exists

\* The rows of the workspace go with it.
CommitDelete(s) ==
  /\ s \in Busy
  /\ req[s].stage = "decided" /\ req[s].op = "delete"
  /\ Writable(req[s])
  /\ exists' = exists \ {req[s].ws}
  /\ role' = [role EXCEPT ![req[s].ws] = [u \in Users |-> None]]
  /\ req' = [req EXCEPT ![s] = Idle]

\* Refused, rolled back, or lost with the process.
Abandon(s) ==
  /\ s \in Busy
  /\ req' = [req EXCEPT ![s] = Idle]
  /\ UNCHANGED <<exists, role>>

Next ==
  \/ \E ws \in Workspaces, u \in Users : CreateWorkspace(ws, u)
  \/ \E s \in Slots :
        Authorize(s) \/ Decide(s) \/ CommitMember(s) \/ CommitDelete(s) \/ Abandon(s)

Spec == Init /\ [][Next]_vars

-----------------------------------------------------------------------------
(* Properties.                                                             *)

\* docs/api.md:63, workspaces.py:340: no removal takes the last owner of a
\* workspace away: of the owners that it has counted, another one is left.
RemovalKeepsAnOwner ==
  [][\A s \in Busy :
       LET r == req[s]
       IN  CommitMember(s) /\ r.op = "remove" /\ r.was = "owner"
           /\ role[r.ws][r.user] = "owner"
             => \E u \in Users : role'[r.ws][u] = "owner"]_vars

\* workspaces.py:301: "only owners may change owner roles".
OnlyOwnersChangeOwners ==
  [][\A s \in Busy :
       LET r == req[s]
       IN  CommitMember(s) /\ r.op = "update" /\ ~r.owner
           /\ role[r.ws][r.user] = "owner" => role'[r.ws][r.user] = "owner"]_vars
=============================================================================
