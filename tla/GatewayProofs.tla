--------------------------- MODULE GatewayProofs ---------------------------
(***************************************************************************)
(* Theorems about api-gateway: about Membership for any number of          *)
(* workspaces and users, about AuditChain for any set of events, and about *)
(* RequestLoop for any requests, processes and rows.                       *)
(***************************************************************************)
EXTENDS Membership, AuditChain, RequestLoop, SumTheorems

(* Membership.                                                             *)

\* A removal that is ready to commit rests on what the tables still say, when
\* no other request is in flight: only a new workspace may have appeared.
FreshInv ==
  \A s \in Busy : req[s].stage = "decided" =>
     /\ req[s].ws \in exists
     /\ req[s].was = role[req[s].ws][req[s].user]
     /\ Accepts(req[s], req[s].was)

LEMMA MembershipInit == Init => TypeOK /\ FreshInv
BY DEF Init, TypeOK, FreshInv, Busy

LEMMA MembershipTypes ==
  ASSUME TypeOK, [Next]_vars
  PROVE  TypeOK'
<1> USE DEF TypeOK
<1>1. ASSUME NEW ws \in Workspaces, NEW u \in Users, CreateWorkspace(ws, u) PROVE TypeOK'
  BY <1>1 DEF CreateWorkspace, Roles
<1>2. ASSUME NEW s \in Slots, Authorize(s) PROVE TypeOK'
  <2>1. PICK op \in Ops, ws \in exists, by \in Users, user \in Users, to \in Roles :
           req' = [req EXCEPT ![s] =
                     [stage |-> "authorized", op |-> op, ws |-> ws, by |-> by,
                      owner |-> OwnsSome(by), user |-> user, to |-> to, was |-> None]]
    BY <1>2 DEF Authorize
  <2>2. OwnsSome(by) \in BOOLEAN
    BY DEF OwnsSome
  <2> HIDE DEF TypeOK
  <2>3. ws \in Workspaces
    BY DEF TypeOK
  <2>4. [stage |-> "authorized", op |-> op, ws |-> ws, by |-> by,
         owner |-> OwnsSome(by), user |-> user, to |-> to, was |-> None] \in Request
    BY <2>2, <2>3 DEF Request
  <2> QED
    BY <1>2, <2>1, <2>4 DEF Authorize, TypeOK
<1>3. ASSUME NEW s \in Slots, Decide(s) PROVE TypeOK'
  <2>1. req[s] \in Request
    BY <1>3 DEF Decide, Busy
  <2>2. role[req[s].ws][req[s].user] \in Roles \cup {None}
    BY <2>1 DEF Request
  <2>3. [req[s] EXCEPT !.stage = "decided", !.was = role[req[s].ws][req[s].user]] \in Request
    BY <2>1, <2>2 DEF Request
  <2>4. req' = [req EXCEPT ![s] =
                  [req[s] EXCEPT !.stage = "decided", !.was = role[req[s].ws][req[s].user]]]
    BY <1>3 DEF Decide
  <2> QED
    BY <1>3, <2>3, <2>4 DEF Decide
<1>4. ASSUME NEW s \in Slots, CommitMember(s) PROVE TypeOK'
  <2>1. req[s] \in Request /\ req[s].ws \in exists
    BY <1>4 DEF CommitMember, Busy, Writable
  <2>2. Written(req[s]) \in Roles \cup {None}
    BY <2>1 DEF Written, Request
  <2>3. role' \in [Workspaces -> [Users -> Roles \cup {None}]]
    BY <1>4, <2>2 DEF CommitMember
  <2>4. \A ws \in Workspaces \ exists, u \in Users : role'[ws][u] = None
    BY <1>4, <2>1 DEF CommitMember
  <2> QED
    BY <1>4, <2>3, <2>4 DEF CommitMember
<1>5. ASSUME NEW s \in Slots, CommitDelete(s) PROVE TypeOK'
  BY <1>5 DEF CommitDelete
<1>6. ASSUME NEW s \in Slots, Abandon(s) PROVE TypeOK'
  BY <1>6 DEF Abandon
<1>7. CASE UNCHANGED vars
  BY <1>7 DEF vars
<1> QED
  BY <1>1, <1>2, <1>3, <1>4, <1>5, <1>6, <1>7 DEF Next

\* The type invariant; with it, the rows of a deleted workspace are gone.
THEOREM MembershipTyped == Spec => []TypeOK
BY MembershipInit, MembershipTypes, PTL DEF Spec

LEMMA FreshStep ==
  ASSUME \A s, q \in Slots : s = q, TypeOK, FreshInv, [Next]_vars
  PROVE  FreshInv'
<1> USE DEF TypeOK
<1>1. ASSUME NEW ws \in Workspaces, NEW u \in Users, CreateWorkspace(ws, u) PROVE FreshInv'
  <2> SUFFICES ASSUME NEW s \in Busy', req'[s].stage = "decided"
               PROVE  (/\ req[s].ws \in exists
                       /\ req[s].was = role[req[s].ws][req[s].user]
                       /\ Accepts(req[s], req[s].was))'
    BY DEF FreshInv
  <2>1. s \in Busy /\ req' = req /\ req[s] \in Request
    BY <1>1 DEF CreateWorkspace, Busy
  <2>2. /\ req[s].ws \in exists
        /\ req[s].was = role[req[s].ws][req[s].user]
        /\ Accepts(req[s], req[s].was)
    BY <2>1 DEF FreshInv
  <2>3. role'[req[s].ws] = role[req[s].ws] /\ req[s].ws \in exists'
    BY <1>1, <2>1, <2>2 DEF CreateWorkspace, Request
  <2> QED
    BY <2>1, <2>2, <2>3 DEF Accepts, Owners
<1>2. ASSUME NEW s \in Slots, Authorize(s) \/ Abandon(s) \/ CommitMember(s) \/ CommitDelete(s)
      PROVE FreshInv'
  <2>1. \A q \in Slots : q = s
    OBVIOUS
  <2>2. req'[s] = Idle \/ req'[s].stage = "authorized"
    BY <1>2 DEF Authorize, Abandon, CommitMember, CommitDelete
  <2> QED
    BY <2>1, <2>2 DEF FreshInv, Busy
<1>3. ASSUME NEW s \in Slots, Decide(s) PROVE FreshInv'
  <2>1. \A q \in Slots : q = s
    OBVIOUS
  <2> DEFINE r == req[s]
             w == role[r.ws][r.user]
  <2>2. /\ r \in Request /\ r.ws \in exists /\ Accepts(r, w)
        /\ req'[s] = [r EXCEPT !.stage = "decided", !.was = w]
        /\ role' = role /\ exists' = exists
    BY <1>3 DEF Decide, Busy
  <2> HIDE DEF w
  <2>3. /\ req'[s].op = r.op /\ req'[s].ws = r.ws /\ req'[s].user = r.user
        /\ req'[s].to = r.to /\ req'[s].owner = r.owner /\ req'[s].was = w
    BY <2>2 DEF Request
  <2>4. Accepts(req[s], req[s].was)'
    BY <2>2, <2>3 DEF Accepts, Owners
  <2>5. req'[s].was = role'[req'[s].ws][req'[s].user]
    BY <2>2, <2>3 DEF w
  <2>6. req'[s].ws \in exists'
    BY <2>2, <2>3
  <2> HIDE DEF r, TypeOK
  <2> QED
    BY <2>1, <2>4, <2>5, <2>6 DEF FreshInv, Busy
<1>4. CASE UNCHANGED vars
  BY <1>4 DEF vars, FreshInv, Busy, Accepts, Owners
<1> QED
  BY <1>1, <1>2, <1>3, <1>4 DEF Next

\* With requests one at a time, no removal takes a workspace's last owner away
\* and nobody but an owner changes an owner's role.
THEOREM SerialOwnership ==
  ASSUME \A s, q \in Slots : s = q
  PROVE  Spec => RemovalKeepsAnOwner /\ OnlyOwnersChangeOwners
<1>1. ASSUME TypeOK, FreshInv, NEW s \in Busy, CommitMember(s)
      PROVE  /\ req[s].op = "remove" /\ role[req[s].ws][req[s].user] = "owner"
                  => \E u \in Users : role'[req[s].ws][u] = "owner"
             /\ req[s].op = "update" /\ ~req[s].owner
                  => role[req[s].ws][req[s].user] # "owner"
  <2> DEFINE r == req[s]
  <2>1. /\ r \in Request
        /\ r.was = role[r.ws][r.user] /\ Accepts(r, r.was)
        /\ role' = [role EXCEPT ![r.ws][r.user] = Written(r)]
    BY <1>1 DEF CommitMember, FreshInv, TypeOK, Busy
  <2>2. ASSUME r.op = "remove", r.was = "owner"
        PROVE  \E u \in Users : role'[r.ws][u] = "owner"
    <3>1. PICK u \in Users \ {r.user} : role[r.ws][u] = "owner"
      BY <2>1, <2>2 DEF Accepts, Owners
    <3>2. role'[r.ws][u] = role[r.ws][u]
      BY <1>1, <2>1 DEF TypeOK, Request
    <3> QED
      BY <3>1, <3>2
  <2>3. r.op = "update" /\ ~r.owner => r.was # "owner"
    BY <2>1 DEF Accepts
  <2> QED
    BY <2>1, <2>2, <2>3
<1>2. ASSUME TypeOK, FreshInv
      PROVE  /\ \A s \in Busy :
                  LET r == req[s]
                  IN  CommitMember(s) /\ r.op = "remove" /\ r.was = "owner"
                      /\ role[r.ws][r.user] = "owner"
                        => \E u \in Users : role'[r.ws][u] = "owner"
             /\ \A s \in Busy :
                  LET r == req[s]
                  IN  CommitMember(s) /\ r.op = "update" /\ ~r.owner
                      /\ role[r.ws][r.user] = "owner" => role'[r.ws][r.user] = "owner"
  BY <1>1, <1>2
<1> QED
  BY <1>2, MembershipInit, MembershipTypes, FreshStep, PTL
     DEF Spec, RemovalKeepsAnOwner, OnlyOwnersChangeOwners
-----------------------------------------------------------------------------
(* The audit chain.                                                        *)

Clean == \A e \in Ids : body[e] = "emitted"

LEMMA HashType ==
  ASSUME NEW e \in Ids, NEW b \in {"emitted", "edited"}, NEW h \in Hash
  PROVE  HashOf(e, b, h) \in Hash
BY DEF HashOf, Hash, Entry

\* The type invariant: with it, created_at and the hashes of every event are
\* what the columns of audit_event can hold.
THEOREM ChainTypes == ChainSpec => []ChainTypeOK
<1>1. ChainInit => ChainTypeOK
  BY ChainAssumption DEF ChainInit, ChainTypeOK, Hash, Genesis
<1>2. ChainTypeOK /\ [ChainNext]_chainVars => ChainTypeOK'
  <2> SUFFICES ASSUME ChainTypeOK, [ChainNext]_chainVars PROVE ChainTypeOK'
    OBVIOUS
  <2> USE DEF ChainTypeOK
  <2>1. ASSUME NEW e \in Ids, Create(e) PROVE ChainTypeOK'
    <3>1. PICK lag \in 0..Skew : at' = [at EXCEPT ![e] = clock + 1 - lag]
      BY <2>1 DEF Create
    <3>2. clock' \in Nat /\ Skew <= clock'
      BY <2>1, ChainAssumption DEF Create
    <3>3. at' \in [Ids -> Nat]
      BY <3>1, ChainAssumption
    <3> QED
      BY <2>1, <3>2, <3>3 DEF Create
  <2>2. ASSUME NEW e \in Ids, LockLast(e) PROVE ChainTypeOK'
    BY <2>2 DEF LockLast, Genesis, Hash
  <2>3. ASSUME NEW e \in Ids, Write(e) PROVE ChainTypeOK'
    <3>1. HashOf(e, body[e], prev[e]) \in Hash
      BY HashType
    <3> QED
      BY <2>3, <3>1 DEF Write
  <2>4. ASSUME NEW e \in Ids, Drop(e) PROVE ChainTypeOK'
    BY <2>4 DEF Drop
  <2>5. ASSUME NEW e \in Ids, Edit(e) PROVE ChainTypeOK'
    <3>1. HashOf(e, "edited", prev[e]) \in Hash
      BY HashType
    <3> QED
      BY <2>5, <3>1 DEF Edit
  <2>6. CASE UNCHANGED chainVars
    BY <2>6 DEF chainVars
  <2> QED
    BY <2>1, <2>2, <2>3, <2>4, <2>5, <2>6 DEF ChainNext
<1> QED
  BY <1>1, <1>2, PTL DEF ChainSpec

-----------------------------------------------------------------------------
\* What makes ChainRooted inductive: it also holds of an emit that has read
\* its last row but not committed its own.
RootInv ==
  Clean => \A e \in Ids : pc[e] = "locked" \/ e \in Chained =>
              prev[e] = Genesis \/ \E f \in Chained : prev[e] = hash[f]

LEMMA RootStep ==
  ASSUME ChainTypeOK, RootInv, [ChainNext]_chainVars
  PROVE  RootInv'
<1> USE DEF ChainTypeOK
<1>0. SUFFICES ASSUME Clean', NEW e \in Ids, (pc[e] = "locked" \/ e \in Chained)'
               PROVE  (prev[e] = Genesis \/ \E f \in Chained : prev[e] = hash[f])'
  BY DEF RootInv
<1>1. ASSUME NEW d \in Ids, Create(d) \/ Drop(d)
      PROVE  (prev[e] = Genesis \/ \E f \in Chained : prev[e] = hash[f])'
  <2>1. Chained' = Chained /\ hash' = hash /\ prev' = prev /\ Clean
    BY <1>0, <1>1 DEF Create, Drop, Chained, Rows, Clean
  <2>2. pc[e] = "locked" \/ e \in Chained
    BY <1>0, <1>1, <2>1 DEF Create, Drop
  <2> QED
    BY <2>1, <2>2 DEF RootInv
<1>2. ASSUME NEW d \in Ids, LockLast(d)
      PROVE  (prev[e] = Genesis \/ \E f \in Chained : prev[e] = hash[f])'
  <2>1. Chained' = Chained /\ hash' = hash /\ Clean
    BY <1>0, <1>2 DEF LockLast, Chained, Rows, Clean
  <2>2. CASE e = d
    BY <1>2, <2>1, <2>2 DEF LockLast, Last, Lockable
  <2>3. CASE e # d
    <3>1. prev'[e] = prev[e] /\ (pc[e] = "locked" \/ e \in Chained)
      BY <1>0, <1>2, <2>1, <2>3 DEF LockLast
    <3> QED
      BY <2>1, <3>1 DEF RootInv
  <2> QED
    BY <2>2, <2>3
<1>3. ASSUME NEW d \in Ids, Write(d)
      PROVE  (prev[e] = Genesis \/ \E f \in Chained : prev[e] = hash[f])'
  <2>1. Chained \subseteq Chained' /\ prev' = prev /\ Clean
    BY <1>0, <1>3 DEF Write, Chained, Rows, Clean
  <2>2. \A f \in Chained : hash'[f] = hash[f]
    BY <1>3 DEF Write, Chained, Rows
  <2>3. pc[e] = "locked" \/ e \in Chained
    BY <1>0, <1>3 DEF Write, Chained, Rows
  <2> QED
    BY <2>1, <2>2, <2>3 DEF RootInv
<1>4. ASSUME NEW d \in Ids, Edit(d)
      PROVE  FALSE
  BY <1>0, <1>4 DEF Edit, Clean
<1>5. CASE UNCHANGED chainVars
  BY <1>0, <1>5 DEF chainVars, RootInv, Chained, Rows, Clean
<1> QED
  BY <1>1, <1>2, <1>3, <1>4, <1>5 DEF ChainNext

\* However emits overlap, no row is chained to an event that was never written.
THEOREM NoDanglingLink == ChainSpec => []ChainRooted
<1>1. ChainInit => RootInv
  BY DEF ChainInit, RootInv, Chained, Rows
<1>2. RootInv => ChainRooted
  BY DEF RootInv, ChainRooted, Clean, Chained, Rows
<1> QED
  BY <1>1, <1>2, RootStep, ChainTypes, PTL DEF ChainSpec

-----------------------------------------------------------------------------
(* Emits one at a time, stamped by clocks that agree.                      *)

\* The only emit in flight is later than every row; the row it has locked is
\* the last one; and, unless a row was edited, every row continues the one
\* right before it.
SerialInv ==
  /\ \A e \in Ids : at[e] <= clock
  /\ \A e, f \in InFlight : e = f
  /\ \A e \in InFlight, f \in Chained : at[f] < at[e]
  /\ \A e \in Legacy : pc[e] = "written"
  /\ \A e \in Ids : pc[e] = "locked" =>
        \/ tip[e] = 0 /\ Chained = {} /\ prev[e] = Genesis
        \/ /\ tip[e] \in Chained /\ prev[e] = hash[tip[e]]
           /\ \A m \in Chained \ {tip[e]} : Earlier(m, tip[e])
  /\ Clean => \A e \in Chained : Sound(e)

LEMMA SerialStep ==
  ASSUME ChainTypeOK, orderly => SerialInv, [ChainNext]_chainVars, orderly'
  PROVE  SerialInv'
<1> USE DEF ChainTypeOK
<1>0. orderly /\ SerialInv
  BY DEF ChainNext, Create, LockLast, Write, Drop, Edit, chainVars
<1>1. ASSUME NEW d \in Ids, Create(d) PROVE SerialInv'
  <2>1. /\ pc[d] = "idle" /\ InFlight = {} /\ pc' = [pc EXCEPT ![d] = "created"]
        /\ clock' = clock + 1 /\ at' = [at EXCEPT ![d] = clock + 1]
        /\ tip' = tip /\ prev' = prev /\ hash' = hash /\ body' = body
    <3>1. PICK lag \in 0..Skew :
             /\ at' = [at EXCEPT ![d] = clock + 1 - lag]
             /\ orderly' = (orderly /\ InFlight = {} /\ lag = 0)
      BY <1>1 DEF Create
    <3>2. InFlight = {} /\ lag = 0
      BY <3>1
    <3>3. at' = [at EXCEPT ![d] = clock + 1]
      BY <3>1, <3>2
    <3> QED
      BY <1>1, <3>2, <3>3 DEF Create
  <2>2. Chained' = Chained /\ d \notin Chained /\ Chained \subseteq Ids
    BY <2>1 DEF Chained, Rows
  <2>3. InFlight' = {d}
    BY <2>1 DEF InFlight
  <2>4. \A e \in Ids : at'[e] <= clock'
    BY <1>0, <2>1 DEF SerialInv
  <2>5. \A e \in InFlight', f \in Chained' : at'[f] < at'[e]
    BY <1>0, <2>1, <2>2, <2>3 DEF SerialInv
  <2>6. \A e \in Legacy : pc'[e] = "written"
    BY <1>0, <2>1, ChainAssumption DEF SerialInv
  <2>7. \A e \in Ids : pc'[e] # "locked"
    BY <2>1 DEF InFlight
  <2>8. Clean' => \A e \in Chained' : Sound(e)'
    <3>1. \A e, f \in Chained : Earlier(e, f)' = Earlier(e, f)
      BY <2>1, <2>2 DEF Earlier
    <3> QED
      BY <1>0, <2>1, <2>2, <3>1 DEF SerialInv, Clean, Sound, Precedes, Continues
  <2> QED
    BY <1>0, <2>3, <2>4, <2>5, <2>6, <2>7, <2>8 DEF SerialInv
<1>2. ASSUME NEW d \in Ids, LockLast(d) PROVE SerialInv'
  <2>1. /\ pc[d] = "created" /\ pc' = [pc EXCEPT ![d] = "locked"]
        /\ clock' = clock /\ at' = at /\ hash' = hash /\ body' = body
    BY <1>2 DEF LockLast
  <2>2. Chained' = Chained /\ InFlight' = InFlight
    BY <2>1 DEF Chained, Rows, InFlight
  <2>3. \A e \in Ids : pc'[e] = "locked" <=> e = d
    BY <1>0, <2>1 DEF SerialInv, InFlight
  <2>4. Lockable = Chained
    <3>1. \A e \in Ids : pc[e] # "locked"
      BY <1>0, <2>1 DEF SerialInv, InFlight
    <3> QED
      BY <3>1 DEF Lockable, Locked
  <2>5. PICK l \in {0} \cup Ids :
           /\ Last(l) /\ tip'[d] = l
           /\ prev'[d] = IF l = 0 THEN Genesis ELSE hash[l]
    BY <1>2 DEF LockLast
  <2>6. \/ l = 0 /\ Chained = {} /\ prev'[d] = Genesis
        \/ /\ l \in Chained /\ prev'[d] = hash[l]
           /\ \A m \in Chained \ {l} : Earlier(m, l)
    BY <2>4, <2>5, ChainAssumption DEF Last, Chained, Rows
  <2>7. Clean' => \A e \in Chained' : Sound(e)'
    <3>1. \A e \in Chained : prev'[e] = prev[e]
      BY <1>2 DEF LockLast, Chained, Rows
    <3> QED
      BY <1>0, <2>1, <2>2, <3>1 DEF SerialInv, Clean, Sound, Precedes, Continues, Earlier
  <2>8. /\ \A e \in Ids : at'[e] <= clock'
        /\ \A e, f \in InFlight' : e = f
        /\ \A e \in InFlight', f \in Chained' : at'[f] < at'[e]
        /\ \A e \in Legacy : pc'[e] = "written"
    BY <1>0, <2>1, <2>2, ChainAssumption DEF SerialInv
  <2>9. \A e \in Ids : pc'[e] = "locked" =>
           \/ tip'[e] = 0 /\ Chained' = {} /\ prev'[e] = Genesis
           \/ /\ tip'[e] \in Chained' /\ prev'[e] = hash'[tip'[e]]
              /\ \A m \in Chained' \ {tip'[e]} : Earlier(m, tip[e])'
    BY <2>1, <2>2, <2>3, <2>5, <2>6 DEF Earlier
  <2> QED
    BY <1>0, <2>7, <2>8, <2>9 DEF SerialInv
<1>3. ASSUME NEW d \in Ids, Write(d) PROVE SerialInv'
  <2>1. /\ pc[d] = "locked" /\ pc' = [pc EXCEPT ![d] = "written"]
        /\ hash' = [hash EXCEPT ![d] = HashOf(d, body[d], prev[d])]
        /\ clock' = clock /\ at' = at /\ tip' = tip /\ prev' = prev /\ body' = body
    BY <1>3 DEF Write
  <2>2. d \in InFlight /\ InFlight' = {} /\ d \notin Legacy
    BY <1>0, <2>1 DEF InFlight, SerialInv
  <2>3. Chained' = Chained \cup {d} /\ d \notin Chained /\ Chained \subseteq Ids
    BY <2>1, <2>2 DEF Chained, Rows
  <2>4. \A f \in Chained : Earlier(f, d)' /\ ~Earlier(d, f)' /\ hash'[f] = hash[f]
    BY <1>0, <2>1, <2>2, <2>3 DEF SerialInv, Earlier
  <2>5. ~Earlier(d, d)' /\ \A e, f \in Ids : Earlier(e, f)' = Earlier(e, f)
    BY <2>1, ChainAssumption DEF Earlier
  <2>6. ASSUME Clean' PROVE \A e \in Chained' : Sound(e)'
    <3>1. Clean
      BY <2>1, <2>6 DEF Clean
    <3>2. ASSUME NEW e \in Chained PROVE Sound(e)'
      <4>1. Sound(e)
        BY <1>0, <3>1 DEF SerialInv
      <4>2. CASE \E f \in Chained : Precedes(f, e) /\ Continues(e, hash[f])
        <5>1. PICK f \in Chained : Precedes(f, e) /\ Continues(e, hash[f])
          BY <4>2
        <5>2. Precedes(f, e)'
          BY <2>3, <2>4, <2>5, <5>1 DEF Precedes
        <5>3. Continues(e, hash[f])'
          BY <2>1, <2>3, <2>4, <5>1 DEF Continues
        <5> QED
          BY <2>3, <5>2, <5>3 DEF Sound
      <4>3. CASE (\A g \in Chained : ~Earlier(g, e)) /\ Continues(e, Genesis)
        <5>1. \A g \in Chained' : ~Earlier(g, e)'
          BY <2>3, <2>4, <2>5, <4>3
        <5>2. Continues(e, Genesis)'
          BY <2>1, <2>3, <2>4, <4>3 DEF Continues, Genesis
        <5> QED
          BY <5>1, <5>2 DEF Sound
      <4> QED
        BY <4>1, <4>2, <4>3 DEF Sound
    <3>3. Sound(d)'
      <4>1. hash'[d] = HashOf(d, body'[d], prev'[d])
        BY <2>1
      <4>2. CASE tip[d] = 0 /\ Chained = {} /\ prev[d] = Genesis
        BY <2>1, <2>3, <2>5, <4>1, <4>2 DEF Sound, Continues, Genesis
      <4>3. CASE /\ tip[d] \in Chained /\ prev[d] = hash[tip[d]]
                 /\ \A m \in Chained \ {tip[d]} : Earlier(m, tip[d])
        <5>1. Precedes(tip[d], d)'
          BY <2>1, <2>3, <2>4, <2>5, <4>3 DEF Precedes
        <5>2. Continues(d, hash[tip[d]])'
          BY <2>1, <2>4, <4>1, <4>3 DEF Continues
        <5> QED
          BY <2>1, <2>3, <4>3, <5>1, <5>2 DEF Sound
      <4> QED
        BY <1>0, <2>1, <4>2, <4>3 DEF SerialInv
    <3> QED
      BY <2>3, <3>2, <3>3
  <2>7. \A e \in Ids : pc'[e] # "locked"
    BY <2>2 DEF InFlight
  <2>8. /\ \A e \in Ids : at'[e] <= clock'
        /\ \A e \in Legacy : pc'[e] = "written"
    BY <1>0, <2>1, ChainAssumption DEF SerialInv
  <2> QED
    BY <1>0, <2>2, <2>6, <2>7, <2>8 DEF SerialInv
<1>4. ASSUME NEW d \in Ids, Drop(d) PROVE SerialInv'
  <2>1. /\ pc' = [pc EXCEPT ![d] = "dropped"] /\ pc[d] \in {"created", "locked"}
        /\ clock' = clock /\ at' = at /\ tip' = tip /\ prev' = prev
        /\ hash' = hash /\ body' = body
    BY <1>4 DEF Drop
  <2>2. Chained' = Chained /\ InFlight' \subseteq InFlight
    BY <2>1 DEF Chained, Rows, InFlight
  <2>3. \A e \in Ids : pc'[e] = "locked" => pc[e] = "locked"
    BY <2>1
  <2>4. \A e \in Legacy : pc'[e] = "written"
    BY <1>0, <2>1, ChainAssumption DEF SerialInv
  <2> QED
    BY <1>0, <2>1, <2>2, <2>3, <2>4
       DEF SerialInv, Clean, Sound, Precedes, Continues, Earlier
<1>5. ASSUME NEW d \in Ids, Edit(d) PROVE SerialInv'
  <2>1. /\ d \notin Locked /\ body'[d] = "edited" /\ \A e \in Ids \ {d} : hash'[e] = hash[e]
        /\ pc' = pc /\ clock' = clock /\ at' = at /\ tip' = tip /\ prev' = prev
    BY <1>5 DEF Edit
  <2>2. ~Clean' /\ Chained' = Chained /\ InFlight' = InFlight /\ Chained \subseteq Ids
    BY <2>1 DEF Clean, Chained, Rows, InFlight
  <2>3. \A e \in Ids : pc[e] = "locked" => tip[e] # d
    BY <2>1 DEF Locked
  <2> QED
    BY <1>0, <2>1, <2>2, <2>3 DEF SerialInv, Earlier
<1>6. CASE UNCHANGED chainVars
  BY <1>0, <1>6 DEF chainVars, SerialInv, Clean, Chained, Rows, InFlight, Sound, Precedes,
              Continues, Earlier
<1> QED
  BY <1>1, <1>2, <1>3, <1>4, <1>5, <1>6 DEF ChainNext

\* As long as emits come one at a time and clocks agree, verify_chain finds
\* nothing broken in a log that nobody edited, however long it is.
THEOREM OrderlyChain == ChainSpec => []OrderlyChainVerifies
<1>1. ChainInit => SerialInv
  BY ChainAssumption DEF ChainInit, SerialInv, Chained, Rows, InFlight
<1>2. ChainTypeOK /\ (orderly => SerialInv) /\ [ChainNext]_chainVars => (orderly => SerialInv)'
  BY SerialStep
<1>3. (orderly => SerialInv) => OrderlyChainVerifies
  BY DEF SerialInv, OrderlyChainVerifies, ChainVerifies, Broken, Clean
<1> QED
  BY <1>1, <1>2, <1>3, ChainTypes, PTL DEF ChainSpec
-----------------------------------------------------------------------------
(* Edits.                                                                  *)

LEMMA HashInjective ==
  ASSUME NEW e, NEW b, NEW h \in Hash, NEW f, NEW c, NEW k \in Hash,
         HashOf(e, b, h) = HashOf(f, c, k)
  PROVE  e = f /\ b = c /\ h = k
<1>1. h \in Seq(Entry) /\ k \in Seq(Entry)
  BY DEF Hash
<1>2. Len(h) = Len(k)
  BY <1>1 DEF HashOf
<1>3. [id |-> e, body |-> b] = [id |-> f, body |-> c]
  BY <1>1, <1>2 DEF HashOf
<1>4. \A i \in 1..Len(h) : h[i] = k[i]
  <2>1. \A i \in 1..Len(h) :
          HashOf(e, b, h)[i] = h[i] /\ HashOf(f, c, k)[i] = k[i]
    BY <1>1, <1>2 DEF HashOf
  <2> QED
    BY <2>1
<1>5. h = k
  BY <1>1, <1>2, <1>4
<1> QED
  BY <1>3, <1>5

LEMMA HashNotGenesis ==
  ASSUME NEW e, NEW b, NEW h \in Hash
  PROVE  HashOf(e, b, h) # Genesis
<1>1. h \in Seq(Entry)
  BY DEF Hash
<1>2. Len(HashOf(e, b, h)) = Len(h) + 1 /\ Len(h) \in Nat
  BY <1>1 DEF HashOf
<1>3. Len(Genesis) = 0
  BY DEF Genesis
<1> QED
  BY <1>2, <1>3

\* The hash of a row that nobody has edited is that of what it says, and no
\* hash, whether in a row or taken over from one, is that of an edit that has
\* not been made.
EditInv ==
  /\ \A e \in Chained : body[e] = "emitted" => hash[e] = HashOf(e, "emitted", prev[e])
  /\ \A e \in Ids, x \in Ids : body[e] = "emitted" =>
        \A h \in Hash : hash[x] # HashOf(e, "edited", h) /\ prev[x] # HashOf(e, "edited", h)

LEMMA EditInit == ChainInit => EditInv
BY HashNotGenesis DEF ChainInit, EditInv, Chained, Rows

LEMMA EditStep ==
  ASSUME ChainTypeOK, EditInv, [ChainNext]_chainVars
  PROVE  EditInv'
<1> USE DEF ChainTypeOK
<1>1. ASSUME UNCHANGED <<prev, hash, body>>, Chained' \subseteq Chained
      PROVE  EditInv'
  BY <1>1 DEF EditInv
<1>2. ASSUME NEW e \in Ids, Create(e) \/ Drop(e) PROVE EditInv'
  <2>1. Chained' \subseteq Chained
    BY <1>2 DEF Create, Drop, Chained, Rows
  <2> QED
    BY <1>1, <1>2, <2>1 DEF Create, Drop
<1>3. ASSUME NEW e \in Ids, LockLast(e) PROVE EditInv'
  <2>1. e \notin Chained' /\ Chained' \subseteq Chained /\ UNCHANGED <<hash, body>>
    BY <1>3 DEF LockLast, Chained, Rows
  <2>2. PICK l \in {0} \cup Ids :
           /\ Last(l) /\ prev' = [prev EXCEPT ![e] = IF l = 0 THEN Genesis ELSE hash[l]]
    BY <1>3 DEF LockLast
  <2>3. \A x \in Ids : prev'[x] = prev[x] \/ prev'[x] = Genesis \/ \E l1 \in Ids : prev'[x] = hash[l1]
    BY <2>2
  <2>4. \A x \in Ids \ {e} : prev'[x] = prev[x]
    BY <2>2
  <2> QED
    BY <2>1, <2>3, <2>4, HashNotGenesis DEF EditInv, Chained, Rows
<1>4. ASSUME NEW e \in Ids, Write(e) PROVE EditInv'
  <2>1. /\ UNCHANGED <<prev, body>> /\ Chained' \subseteq Chained \cup {e}
        /\ hash'[e] = HashOf(e, body[e], prev[e])
        /\ \A x \in Ids \ {e} : hash'[x] = hash[x]
    BY <1>4 DEF Write, Chained, Rows
  <2>2. \A f \in Ids, h \in Hash : body[f] = "emitted" => hash'[e] # HashOf(f, "edited", h)
    BY <2>1, HashInjective
  <2>3. \A f \in Chained' : body[f] = "emitted" => hash'[f] = HashOf(f, "emitted", prev[f])
    BY <2>1 DEF EditInv, Chained, Rows
  <2> QED
    BY <2>1, <2>2, <2>3 DEF EditInv
<1>5. ASSUME NEW e \in Ids, Edit(e) PROVE EditInv'
  <2>1. /\ UNCHANGED prev /\ Chained' = Chained /\ body'[e] = "edited"
        /\ \A x \in Ids \ {e} : hash'[x] = hash[x] /\ body'[x] = body[x]
        /\ hash'[e] = hash[e] \/ hash'[e] = HashOf(e, "edited", prev[e])
    BY <1>5 DEF Edit, Chained, Rows
  <2>2. \A f \in Ids, h \in Hash : body'[f] = "emitted" => hash'[e] # HashOf(f, "edited", h)
    BY <2>1, HashInjective DEF EditInv
  <2>3. \A f \in Chained' : body'[f] = "emitted" => hash'[f] = HashOf(f, "emitted", prev[f])
    BY <2>1 DEF EditInv, Chained, Rows
  <2> QED
    BY <2>1, <2>2, <2>3 DEF EditInv
<1>6. CASE UNCHANGED chainVars
  BY <1>1, <1>6 DEF chainVars, Chained, Rows
<1> QED
  BY <1>2, <1>3, <1>4, <1>5, <1>6 DEF ChainNext

LEMMA EarlierIsAnOrder ==
  ASSUME ChainTypeOK
  PROVE  /\ \A e, f \in Ids : e # f => Earlier(e, f) \/ Earlier(f, e)
         /\ \A e, f \in Ids : ~(Earlier(e, f) /\ Earlier(f, e))
         /\ \A e, f, g \in Ids : Earlier(e, f) /\ Earlier(f, g) => Earlier(e, g)
<1>1. \A e \in Ids : e \in Nat /\ at[e] \in Nat
  BY ChainAssumption DEF ChainTypeOK
<1> QED
  BY <1>1 DEF Earlier

\* Where a row follows another, one does so at once.
LEMMA NextRow ==
  ASSUME ChainTypeOK, NEW e \in Chained, NEW f \in Chained, Earlier(e, f)
  PROVE  \E g \in Chained : Precedes(e, g) /\ (g = f \/ Earlier(g, f))
<1> DEFINE Between(g) == {k \in Chained : Earlier(e, k) /\ Earlier(k, g)}
           After == {g \in Chained : Earlier(e, g) /\ (g = f \/ Earlier(g, f))}
           Z == {Between(g) : g \in After}
<1>1. Chained \subseteq Ids /\ IsFiniteSet(Ids)
  BY ChainAssumption DEF Chained, Rows
<1>2. Z \subseteq SUBSET Ids /\ Z # {}
  BY <1>1
<1> HIDE DEF Z
<1>3. PICK U \in Z : \A V \in SUBSET U : V # U => V \notin Z
  BY <1>1, <1>2, MinimalSubset
<1> USE DEF Z
<1>4. PICK g \in After : U = Between(g)
  BY <1>3
<1>5. ASSUME NEW k \in Between(g) PROVE FALSE
  <2>1. k \in Ids /\ g \in Ids /\ f \in Ids /\ e \in Ids
    BY <1>1
  <2>2. k \in After
    BY <2>1, EarlierIsAnOrder
  <2>3. Between(k) \subseteq Between(g) /\ k \notin Between(k)
    BY <1>1, <2>1, EarlierIsAnOrder
  <2>4. Between(k) \in Z
    BY <2>2
  <2> HIDE DEF Between, Z
  <2> QED
    BY <1>3, <1>4, <1>5, <2>3, <2>4
<1>6. \A k \in Chained : Earlier(k, g) => k = e \/ Earlier(k, e)
  BY <1>1, <1>5, EarlierIsAnOrder
<1> QED
  BY <1>6 DEF Precedes

\* What is read of an earlier row, if a later one is read.
LEMMA WalkedFirst ==
  ASSUME ChainTypeOK, NEW f \in Walked, NEW g \in Rows, g = f \/ Earlier(g, f)
  PROVE  g \in Walked
<1> DEFINE Before(x) == {k \in Rows : Earlier(k, x)}
<1>1. Rows \subseteq Ids /\ f \in Ids /\ g \in Ids
  BY DEF Walked, Rows
<1>2. Before(g) \subseteq Before(f)
  BY <1>1, EarlierIsAnOrder
<1>3. IsFiniteSet(Before(f))
  BY <1>1, ChainAssumption, FS_Subset
<1>4. Cardinality(Before(g)) <= Cardinality(Before(f))
  BY <1>2, <1>3, FS_Subset
<1>5. Cardinality(Before(g)) \in Nat /\ Cardinality(Before(f)) \in Nat
  BY <1>2, <1>3, FS_Subset, FS_CardinalityType
<1>6. Cardinality(Before(g)) < Limit
  BY <1>4, <1>5, ChainAssumption DEF Walked
<1> QED
  BY <1>6 DEF Walked

\* An edit shows in the row itself when its hash is left alone, and in the row
\* that follows it when it is not (EditShows).
THEOREM EditsShow == ChainSpec => EditShows
<1>1. ASSUME ChainTypeOK, EditInv, [ChainNext]_chainVars, NEW e \in Walked \cap Chained,
             body[e] # body'[e],
             hash[e] = hash'[e] \/ \E f \in Walked \cap Chained : Earlier(e, f)
      PROVE  Broken' # {}
  <2>1. e \in Ids /\ Edit(e)
    <3>1. e \in Ids
      BY DEF Chained, Rows
    <3>2. PICK d \in Ids : Edit(d)
      BY <1>1 DEF ChainNext, Create, LockLast, Write, Drop, chainVars
    <3>3. d = e
      BY <1>1, <3>1, <3>2 DEF Edit, ChainTypeOK
    <3> QED
      BY <3>1, <3>2, <3>3
  <2>2. /\ UNCHANGED <<pc, at, prev>> /\ body[e] = "emitted" /\ body'[e] = "edited"
        /\ \A x \in Ids \ {e} : hash'[x] = hash[x] /\ body'[x] = body[x]
        /\ hash'[e] = hash[e] \/ hash'[e] = HashOf(e, "edited", prev[e])
    BY <1>1, <2>1 DEF Edit, ChainTypeOK
  <2>3. /\ Walked' = Walked /\ Chained' = Chained
        /\ \A x, y \in Ids : Precedes(x, y)' = Precedes(x, y) /\ Earlier(x, y)' = Earlier(x, y)
    BY <2>2 DEF Walked, Chained, Rows, Precedes, Earlier
  <2>4. \A x \in Ids : prev[x] \in Hash
    BY <1>1 DEF ChainTypeOK
  <2>5. CASE hash'[e] = hash[e]
    <3>1. hash[e] = HashOf(e, "emitted", prev[e])
      BY <1>1, <2>2 DEF EditInv
    <3>2. hash'[e] # HashOf(e, body'[e], prev'[e])
      BY <2>1, <2>2, <2>4, <2>5, <3>1, HashInjective
    <3>3. ~Sound(e)'
      BY <3>2 DEF Sound, Continues
    <3> QED
      BY <1>1, <2>3, <3>3 DEF Broken
  <2>6. CASE hash'[e] # hash[e]
    <3>1. PICK f \in Walked \cap Chained : Earlier(e, f)
      BY <1>1, <2>6
    <3>2. PICK g \in Chained : Precedes(e, g) /\ (g = f \/ Earlier(g, f))
      BY <1>1, <3>1, NextRow
    <3>3. g \in Walked /\ g \in Ids /\ g # e
      <4>1. g \in Rows /\ g \in Ids
        BY DEF Chained, Rows
      <4>2. g \in Walked
        BY <1>1, <3>1, <3>2, <4>1, WalkedFirst
      <4>3. g # e
        BY <1>1, <2>1, <3>2, <4>1, EarlierIsAnOrder DEF Precedes
      <4> QED
        BY <4>1, <4>2, <4>3
    <3>4. prev[g] # hash'[e]
      BY <1>1, <2>1, <2>2, <2>4, <2>6, <3>3 DEF EditInv
    <3>5. \A p \in Chained : Precedes(p, g) => p = e
      <4>1. Chained \subseteq Ids
        BY DEF Chained, Rows
      <4> QED
        BY <1>1, <2>1, <3>2, <4>1, EarlierIsAnOrder DEF Precedes
    <3>6. ~Sound(g)'
      <4>1. \A p \in Chained' : Precedes(p, g)' => p = e
        BY <2>3, <3>3, <3>5 DEF Chained, Rows
      <4>2. Earlier(e, g)' /\ e \in Chained'
        BY <1>1, <2>1, <2>3, <3>2, <3>3 DEF Precedes
      <4>3. prev'[g] # hash'[e]
        BY <2>2, <3>4
      <4> QED
        BY <4>1, <4>2, <4>3 DEF Sound, Continues
    <3> QED
      BY <2>3, <3>2, <3>3, <3>6 DEF Broken
  <2> QED
    BY <2>5, <2>6
<1>2. ASSUME ChainTypeOK, EditInv, [ChainNext]_chainVars
      PROVE  [\A e \in Walked \cap Chained :
                /\ body[e] # body'[e]
                /\ hash[e] = hash'[e] \/ \E f \in Walked \cap Chained : Earlier(e, f)
                => Broken' # {}]_chainVars
  BY <1>1, <1>2
<1>3. ChainTypeOK /\ EditInv /\ [ChainNext]_chainVars => EditInv'
  BY EditStep
<1> QED
  BY <1>2, <1>3, EditInit, ChainTypes, PTL DEF ChainSpec, EditShows
-----------------------------------------------------------------------------
(* The event loop of a process.                                            *)

Places == {"new", "connecting", "ready", "flushing", "flushed", "emitting", "auditing",
           "emitted", "committing", "over"}

LoopInv == LoopTypeOK /\ ConnectionsComeBack

LEMMA LoopTypes ==
  ASSUME LoopInv
  PROVE  /\ home \in [Requests -> Processes] /\ place \in [Requests -> Places]
         /\ asked \in [Requests -> Asks \cup {Nothing}]
         /\ used \in [Processes -> 0..PoolSize] /\ used \in [Processes -> Nat]
         /\ PoolSize \in Nat /\ revoked \subseteq Keys
         /\ \A p \in Processes : /\ IsFiniteSet(Connections(p))
                                 /\ used[p] = Cardinality(Connections(p))
<1>1. \A p \in Processes : IsFiniteSet(Connections(p))
  <2>1. IsFiniteSet(Requests \X {"request", "audit"})
    <3>1. {"request", "audit"} = {"request"} \cup {"audit"} /\ IsFiniteSet({"request"})
      BY FS_Singleton
    <3>2. IsFiniteSet({"request", "audit"})
      BY <3>1, FS_AddElement
    <3> QED
      BY <3>2, RequestLoopAssumption, FS_Product
  <2>2. \A p \in Processes : Connections(p) \subseteq Requests \X {"request", "audit"}
    BY DEF Connections
  <2> QED
    BY <2>1, <2>2, FS_Subset
<1>2. PoolSize \in Nat /\ 0..PoolSize \subseteq Nat
  BY RequestLoopAssumption
<1> QED
  BY <1>1, <1>2, RequestLoopAssumption DEF LoopInv, LoopTypeOK, ConnectionsComeBack, Places

LEMMA LoopStarts == LoopInit => LoopInv
<1> SUFFICES ASSUME LoopInit PROVE LoopInv
  OBVIOUS
<1>1. LoopTypeOK
  BY RequestLoopAssumption DEF LoopInit, LoopTypeOK
<1>2. \A p \in Processes : Connections(p) = {} /\ used[p] = 0
  BY DEF LoopInit, Connections, Connected
<1>3. ConnectionsComeBack
  BY <1>2, FS_EmptySet DEF ConnectionsComeBack
<1> QED
  BY <1>1, <1>3 DEF LoopInv

\* What a step changes: the place of a request, and the connections of its process.
LEMMA Moved ==
  ASSUME LoopInv, NEW r \in Requests, NEW to \in Places, Goto(r, to), UNCHANGED home
  PROVE  /\ home[r] \in Processes /\ place' \in [Requests -> Places]
         /\ \A q \in Requests : place'[q] = IF q = r THEN to ELSE place[q]
         /\ \A p \in Processes \ {home[r]} : Connections(p)' = Connections(p)
<1>1. /\ home[r] \in Processes /\ place' \in [Requests -> Places]
      /\ \A q \in Requests : place'[q] = IF q = r THEN to ELSE place[q]
  BY LoopTypes DEF Goto
<1>2. \A p \in Processes \ {home[r]}, q \in Requests :
        /\ (Connected(q) /\ home[q] = p)' <=> Connected(q) /\ home[q] = p
        /\ (place[q] = "auditing" /\ home[q] = p)' <=> place[q] = "auditing" /\ home[q] = p
  BY <1>1 DEF Connected
<1>3. \A p \in Processes \ {home[r]} : Connections(p)' = Connections(p)
  BY <1>2 DEF Connections
<1> QED
  BY <1>1, <1>3

\* A request that goes on with the connections it has, or has not.
LEMMA GoingOn ==
  ASSUME LoopInv, NEW r \in Requests, NEW to \in Places, Goto(r, to),
         UNCHANGED <<home, used>>, revoked' \subseteq Keys,
         asked' \in [Requests -> Asks \cup {Nothing}],
         place[r] # "auditing", to # "auditing",
         to \in {"new", "connecting", "over"} <=> ~Connected(r)
  PROVE  LoopInv'
<1>1. /\ place' \in [Requests -> Places]
      /\ \A q \in Requests : place'[q] = IF q = r THEN to ELSE place[q]
  BY Moved
<1>2. \A p \in Processes, q \in Requests :
        /\ (Connected(q) /\ home[q] = p)' <=> Connected(q) /\ home[q] = p
        /\ (place[q] = "auditing" /\ home[q] = p)' <=> place[q] = "auditing" /\ home[q] = p
  BY <1>1 DEF Connected
<1>3. \A p \in Processes : Connections(p)' = Connections(p)
  BY <1>2 DEF Connections
<1>4. LoopTypeOK'
  BY <1>1 DEF LoopInv, LoopTypeOK, Places
<1>5. ConnectionsComeBack'
  BY <1>3, LoopTypes DEF ConnectionsComeBack
<1> QED
  BY <1>4, <1>5 DEF LoopInv

\* A connection that was free is taken.
LEMMA Taking ==
  ASSUME LoopInv, NEW r \in Requests, NEW to \in Places, NEW c, ~Full(home[r]), Goto(r, to),
         used' = [used EXCEPT ![home[r]] = @ + 1], UNCHANGED <<home, asked, revoked>>,
         c \notin Connections(home[r]),
         Connections(home[r])' = Connections(home[r]) \cup {c}
  PROVE  LoopInv'
<1> DEFINE h == home[r]
<1>1. /\ h \in Processes /\ place' \in [Requests -> Places]
      /\ \A p \in Processes \ {h} : Connections(p)' = Connections(p)
  BY Moved
<1>2. used[h] # PoolSize /\ used' = [used EXCEPT ![h] = @ + 1]
  BY DEF Full
<1>3. \A p \in Processes : p = h => Cardinality(Connections(p)') = used[h] + 1
  <2>1. IsFiniteSet(Connections(h)) /\ used[h] = Cardinality(Connections(h))
    BY <1>1, LoopTypes
  <2>2. Cardinality(Connections(h) \cup {c}) = used[h] + 1
    BY <2>1, FS_AddElement
  <2> QED
    BY <2>2
<1> HIDE DEF h
<1>4. used[h] \in Nat /\ used[h] \in 0..PoolSize /\ used[h] + 1 \in 0..PoolSize
  BY <1>1, <1>2, LoopTypes
<1>5. used'[h] = used[h] + 1 /\ \A p \in Processes \ {h} : used'[p] = used[p]
  BY <1>1, <1>2, LoopTypes
<1>6. used' \in [Processes -> 0..PoolSize]
  BY <1>2, <1>4, LoopTypes
<1>7. LoopTypeOK'
  BY <1>1, <1>6 DEF LoopInv, LoopTypeOK, Places
<1>8. ConnectionsComeBack'
  BY <1>1, <1>3, <1>5, LoopTypes DEF ConnectionsComeBack
<1> QED
  BY <1>7, <1>8 DEF LoopInv

\* A connection is given back.
LEMMA GivingBack ==
  ASSUME LoopInv, NEW r \in Requests, NEW to \in Places, NEW c, Goto(r, to),
         used' = [used EXCEPT ![home[r]] = @ - 1], UNCHANGED home, revoked' \subseteq Keys,
         asked' \in [Requests -> Asks \cup {Nothing}],
         c \in Connections(home[r]),
         Connections(home[r])' = Connections(home[r]) \ {c}
  PROVE  LoopInv'
<1> DEFINE h == home[r]
<1>1. /\ h \in Processes /\ place' \in [Requests -> Places]
      /\ \A p \in Processes \ {h} : Connections(p)' = Connections(p)
  BY Moved
<1>2. used' = [used EXCEPT ![h] = @ - 1]
  OBVIOUS
<1>3. \A p \in Processes : p = h => Cardinality(Connections(p)') = used[h] - 1
  <2>1. IsFiniteSet(Connections(h)) /\ used[h] = Cardinality(Connections(h))
    BY <1>1, LoopTypes
  <2>2. Cardinality(Connections(h) \ {c}) = used[h] - 1
    BY <2>1, FS_RemoveElement
  <2> QED
    BY <2>2
<1>4. used[h] # 0
  BY <1>1, LoopTypes, FS_EmptySet
<1> HIDE DEF h
<1>5. used[h] \in 0..PoolSize /\ used[h] - 1 \in 0..PoolSize
  BY <1>1, <1>4, LoopTypes
<1>6. used'[h] = used[h] - 1 /\ \A p \in Processes \ {h} : used'[p] = used[p]
  BY <1>1, <1>2, LoopTypes
<1>7. used' \in [Processes -> 0..PoolSize]
  BY <1>2, <1>5, LoopTypes
<1>8. LoopTypeOK'
  BY <1>1, <1>7 DEF LoopInv, LoopTypeOK, Places
<1>9. ConnectionsComeBack'
  BY <1>1, <1>3, <1>6, LoopTypes DEF ConnectionsComeBack
<1> QED
  BY <1>8, <1>9 DEF LoopInv

\* Whatever ends a request, it gives its connection back.
LEMMA Ending ==
  ASSUME LoopInv, NEW r \in Requests, place[r] # "auditing", End(r), UNCHANGED home,
         revoked' \subseteq Keys
  PROVE  LoopInv'
<1>1. Goto(r, "over") /\ asked' \in [Requests -> Asks \cup {Nothing}] /\ "over" \in Places
  BY LoopTypes DEF End, Places
<1>2. CASE ~Connected(r)
  <2>1. used' = used
    BY <1>2 DEF End
  <2> QED
    BY <1>1, <1>2, <2>1, GoingOn
<1>3. CASE Connected(r)
  <2>1. \A q \in Requests : place'[q] = IF q = r THEN "over" ELSE place[q]
    BY <1>1, Moved
  <2>2. \A q \in Requests \ {r} : /\ Connected(q)' <=> Connected(q)
                                  /\ place'[q] = "auditing" <=> place[q] = "auditing"
    BY <2>1 DEF Connected
  <2>3. ~Connected(r)' /\ place'[r] # "auditing"
    BY <2>1 DEF Connected
  <2>4. <<r, "request">> \in Connections(home[r])
    BY <1>3 DEF Connections
  <2>5. Connections(home[r])' = Connections(home[r]) \ {<<r, "request">>}
    BY <2>2, <2>3 DEF Connections
  <2>6. used' = [used EXCEPT ![home[r]] = @ - 1]
    BY <1>3 DEF End
  <2> QED
    BY <1>1, <2>4, <2>5, <2>6, GivingBack
<1> QED
  BY <1>2, <1>3

\* The first statement of a request takes a connection that is free.
LEMMA Connecting ==
  ASSUME LoopInv, NEW r \in Requests, place[r] = "connecting", ~Full(home[r]),
         Goto(r, "ready"), used' = [used EXCEPT ![home[r]] = @ + 1],
         UNCHANGED <<home, asked, revoked>>
  PROVE  LoopInv'
<1>1. "ready" \in Places
  BY DEF Places
<1>2. \A q \in Requests : place'[q] = IF q = r THEN "ready" ELSE place[q]
  BY <1>1, Moved
<1>3. \A q \in Requests \ {r} : /\ Connected(q)' <=> Connected(q)
                                /\ place'[q] = "auditing" <=> place[q] = "auditing"
  BY <1>2 DEF Connected
<1>4. ~Connected(r) /\ Connected(r)' /\ place'[r] # "auditing"
  BY <1>2 DEF Connected
<1>5. <<r, "request">> \notin Connections(home[r])
  BY <1>4 DEF Connections
<1>6. Connections(home[r])' = Connections(home[r]) \cup {<<r, "request">>}
  BY <1>3, <1>4 DEF Connections
<1> QED
  BY <1>1, <1>5, <1>6, Taking

\* An audit event takes a connection of its own, and gives it back.
LEMMA Auditing ==
  ASSUME LoopInv, NEW r \in Requests,
         \/ /\ place[r] \in {"flushed", "emitting"} /\ OpenAudit(r)
            /\ UNCHANGED <<home, asked, revoked>>
         \/ CloseAudit(r)
  PROVE  LoopInv'
<1>1. "auditing" \in Places /\ "emitted" \in Places
  BY DEF Places
<1>2. CASE place[r] \in {"flushed", "emitting"} /\ OpenAudit(r) /\ UNCHANGED <<home, asked, revoked>>
  <2>1. \A q \in Requests : place'[q] = IF q = r THEN "auditing" ELSE place[q]
    BY <1>1, <1>2, Moved DEF OpenAudit
  <2>2. \A q \in Requests : Connected(q)' <=> Connected(q)
    BY <1>2, <2>1 DEF Connected
  <2>3. place[r] # "auditing" /\ place'[r] = "auditing"
        /\ \A q \in Requests \ {r} : place'[q] = "auditing" <=> place[q] = "auditing"
    BY <1>2, <2>1
  <2>4. <<r, "audit">> \notin Connections(home[r])
    BY <2>3 DEF Connections
  <2>5. Connections(home[r])' = Connections(home[r]) \cup {<<r, "audit">>}
    BY <1>2, <2>2, <2>3 DEF Connections
  <2> QED
    BY <1>1, <1>2, <2>4, <2>5, Taking DEF OpenAudit
<1>3. CASE CloseAudit(r)
  <2>1. \A q \in Requests : place'[q] = IF q = r THEN "emitted" ELSE place[q]
    BY <1>1, <1>3, Moved DEF CloseAudit
  <2>2. \A q \in Requests : Connected(q)' <=> Connected(q)
    BY <1>3, <2>1 DEF Connected, CloseAudit
  <2>3. place[r] = "auditing" /\ place'[r] # "auditing"
        /\ \A q \in Requests \ {r} : place'[q] = "auditing" <=> place[q] = "auditing"
    BY <1>3, <2>1 DEF CloseAudit
  <2>4. <<r, "audit">> \in Connections(home[r])
    BY <2>3 DEF Connections
  <2>5. Connections(home[r])' = Connections(home[r]) \ {<<r, "audit">>}
    BY <1>3, <2>2, <2>3 DEF Connections, CloseAudit
  <2> QED
    BY <1>1, <1>3, <2>4, <2>5, GivingBack, LoopTypes DEF CloseAudit
<1> QED
  BY <1>2, <1>3

LEMMA LoopStep ==
  ASSUME LoopInv, [LoopNext]_loopVars
  PROVE  LoopInv'
<1>1. ASSUME NEW r \in Requests, Arrive(r) PROVE LoopInv'
  <2>1. asked' \in [Requests -> Asks \cup {Nothing}] /\ revoked' \subseteq Keys
    BY <1>1, LoopTypes DEF Arrive
  <2> QED
    BY <1>1, <2>1, GoingOn DEF Arrive, Connected, Places
<1>2. ASSUME NEW r \in Requests, Authenticate(r) PROVE LoopInv'
  BY <1>2, Connecting, Ending, LoopTypes DEF Authenticate
<1>3. ASSUME NEW r \in Requests, ConnectTimesOut(r) \/ CommitFails(r) PROVE LoopInv'
  BY <1>3, Ending, LoopTypes DEF ConnectTimesOut, CommitFails
<1>4. ASSUME NEW r \in Requests, Handle(r) \/ Flush(r) PROVE LoopInv'
  <2>1. UNCHANGED <<home, revoked>> /\ Connected(r) /\ place[r] # "auditing"
    BY <1>4 DEF Handle, Flush, Connected
  <2>2. CASE End(r)
    BY <2>1, <2>2, Ending, LoopTypes
  <2>3. CASE /\ Goto(r, "flushing") \/ Goto(r, "flushed")
             /\ UNCHANGED <<asked, used>>
    <3>1. asked' \in [Requests -> Asks \cup {Nothing}] /\ revoked' \subseteq Keys
      BY <2>1, <2>3, LoopTypes
    <3>2. ASSUME NEW to \in {"flushing", "flushed"}, Goto(r, to) PROVE LoopInv'
      BY <2>1, <2>3, <3>1, <3>2, GoingOn DEF Places
    <3> QED
      BY <2>3, <3>2
  <2> QED
    BY <1>4, <2>2, <2>3 DEF Handle, Flush
<1>5. ASSUME NEW r \in Requests, Emit(r) \/ EmitLate(r) \/ EmitTimesOut(r) \/ CloseAudit(r)
                               \/ Return(r)
      PROVE  LoopInv'
  <2>1. CASE CloseAudit(r) \/ EmitLate(r) \/ (Emit(r) /\ OpenAudit(r))
    BY <2>1, Auditing DEF Emit, EmitLate
  <2>2. CASE Return(r) \/ EmitTimesOut(r) \/ (Emit(r) /\ ~OpenAudit(r))
    <3>1. /\ UNCHANGED <<home, asked, used, revoked>> /\ Connected(r)
          /\ place[r] # "auditing"
          /\ Goto(r, "emitting") \/ Goto(r, "emitted") \/ Goto(r, "committing")
      BY <2>2 DEF Emit, EmitTimesOut, Return, Connected
    <3>2. asked' \in [Requests -> Asks \cup {Nothing}] /\ revoked' \subseteq Keys
      BY <3>1, LoopTypes
    <3>3. ASSUME NEW to \in {"emitting", "emitted", "committing"}, Goto(r, to) PROVE LoopInv'
      BY <3>1, <3>2, <3>3, GoingOn DEF Places
    <3> QED
      BY <3>1, <3>3
  <2> QED
    BY <1>5, <2>1, <2>2
<1>6. ASSUME NEW r \in Requests, Commit(r) PROVE LoopInv'
  <2>1. revoked' \subseteq Keys
    BY <1>6, LoopTypes DEF Commit, Committed
  <2> QED
    BY <1>6, <2>1, Ending DEF Commit
<1>7. ASSUME NEW p \in Processes, Restart(p) PROVE LoopInv'
  <2>1. /\ place' = [r \in Requests |->
                      IF home[r] = p /\ place[r] # "new" THEN "over" ELSE place[r]]
        /\ used' = [used EXCEPT ![p] = 0] /\ UNCHANGED <<home, revoked>>
        /\ asked' = [r \in Requests |-> IF home[r] = p THEN Nothing ELSE asked[r]]
    BY <1>7 DEF Restart
  <2>2. place' \in [Requests -> Places] /\ asked' \in [Requests -> Asks \cup {Nothing}]
    BY <2>1, LoopTypes DEF Places
  <2>3. used' \in [Processes -> 0..PoolSize]
    <3>1. 0 \in 0..PoolSize
      BY LoopTypes
    <3> QED
      BY <2>1, <3>1, LoopTypes
  <2>4. /\ \A q \in Processes : q = p => Connections(q)' = {}
        /\ \A q \in Processes \ {p} : Connections(q)' = Connections(q)
    <3>1. \A q \in Requests : home[q] = p => ~Connected(q)' /\ place'[q] # "auditing"
      BY <2>1 DEF Connected
    <3>2. \A q \in Requests : home[q] # p => place'[q] = place[q]
      BY <2>1
    <3>3. \A q \in Requests : home[q] # p => (Connected(q)' <=> Connected(q))
      BY <3>2 DEF Connected
    <3> QED
      BY <2>1, <3>1, <3>2, <3>3 DEF Connections
  <2>5. \A q \in Processes : used'[q] = Cardinality(Connections(q)')
    BY <2>1, <2>4, LoopTypes, FS_EmptySet
  <2>6. LoopTypeOK'
    BY <2>1, <2>2, <2>3 DEF LoopInv, LoopTypeOK, Places
  <2>7. ConnectionsComeBack'
    BY <2>5 DEF ConnectionsComeBack
  <2> QED
    BY <2>6, <2>7 DEF LoopInv
<1>8. CASE UNCHANGED loopVars
  <2>1. UNCHANGED <<home, asked, place, used, revoked>>
    BY <1>8 DEF loopVars
  <2> QED
    BY <2>1 DEF LoopInv, LoopTypeOK, ConnectionsComeBack, Connections, Connected
<1> QED
  BY <1>1, <1>2, <1>3, <1>4, <1>5, <1>6, <1>7, <1>8 DEF LoopNext, GoesOn

\* A refusal, a timeout, a failed flush or commit and the stop of the process
\* each give back what the request has taken, and an audit event the connection of
\* its own, whatever else is under way
\* (ConnectionsComeBack); no pool gives out more than it has (LoopTypeOK).
THEOREM PoolAccounted == LoopSpec => [](LoopTypeOK /\ ConnectionsComeBack)
BY LoopStarts, LoopStep, PTL DEF LoopSpec, LoopInv
=============================================================================
