--------------------------- MODULE PolicyBundles ---------------------------
(***************************************************************************)
(* The policy bundles of one tenant and one package: rows of policy_bundle *)
(* and what OPA has loaded, under one id for all versions of a name.  A    *)
(* request runs in its own READ COMMITTED transaction, calls OPA before it *)
(* commits, and may overlap with requests of other api-gateway replicas.   *)
(***************************************************************************)
EXTENDS Naturals, FiniteSets

CONSTANTS
  Bundles,  \* uploads that may be made
  Names,
  NameOf,   \* the name each is uploaded under
  Nothing,  \* no policy under an id
  Faults,   \* OPA may fail, a transaction may fail, a process may die
  Slots     \* bound: requests in flight

ASSUME BundlesAssumption ==
  /\ NameOf \in [Bundles -> Names]
  /\ Nothing \notin Bundles
  /\ Faults \in BOOLEAN

VARIABLES
  fresh,    \* uploads not yet made
  stored,   \* committed rows
  version,  \* of each row
  active,   \* committed rows that say active
  opa,      \* what OPA has loaded for each name
  req,      \* each request in flight
  alone,    \* history: requests that no other one has overlapped
  past      \* history: whether requests have overlapped, or anything failed

vars == <<fresh, stored, version, active, opa, req, alone, past>>

-----------------------------------------------------------------------------
Ops == {"upload", "install", "activate", "delete"}  \* install: upload, activate=true
Activating == {"install", "activate"}

Idle == [stage |-> "idle"]

Request ==
  [stage : {"begun", "scanned", "locked", "ready"}, op : Ops, bundle : Bundles,
   was : BOOLEAN,            \* the row was active when it was read
   others : SUBSET Bundles]  \* rows to deactivate: seen, then locked

Busy == {s \in Slots : req[s] # Idle}

TypeOK ==
  /\ fresh \subseteq Bundles
  /\ stored \subseteq Bundles \ fresh
  /\ version \in [Bundles -> Nat]
  /\ active \subseteq stored
  /\ opa \in [Names -> Bundles \cup {Nothing}]
  /\ req \in [Slots -> Request \cup {Idle}]
  /\ alone \subseteq Slots
  /\ past \subseteq {"overlap", "fault"}
  /\ \A s \in Busy : req[s].bundle \notin fresh

Init ==
  /\ fresh = Bundles
  /\ stored = {}
  /\ version = [b \in Bundles |-> 0]
  /\ active = {}
  /\ opa = [n \in Names |-> Nothing]
  /\ req = [s \in Slots |-> Idle]
  /\ alone = {}
  /\ past = {}

Start(s, stage, op, b, was) ==
  /\ req[s] = Idle
  /\ req' = [req EXCEPT ![s] = [stage |-> stage, op |-> op, bundle |-> b,
                                was |-> was, others |-> {}]]
  /\ alone' = IF Busy = {} THEN {s} ELSE {}
  /\ past' = IF Busy = {} THEN past ELSE past \cup {"overlap"}

At(s, stage, ops) == s \in Busy /\ req[s].stage = stage /\ req[s].op \in ops

Finish(s) ==
  /\ req' = [req EXCEPT ![s] = Idle]
  /\ alone' = alone \ {s}

-----------------------------------------------------------------------------
(* The first statements of a request.                                      *)

Siblings(b) == {c \in stored : NameOf[c] = NameOf[b]}

\* MUTANT of NextVersion: versions are counted.
CountVersions(b, v) == v = Cardinality(Siblings(b)) + 1

\* The largest version of the name plus one.
NextVersion(b, v) ==
  /\ v \in {1} \cup {version[c] + 1 : c \in Siblings(b)}
  /\ \A c \in Siblings(b) : version[c] < v

\* upload_bundle: the SELECT of the version and the INSERT, seen by nobody.
Upload(s) ==
  /\ \E b \in fresh, v \in {version[c] + 1 : c \in Bundles} :
        /\ NextVersion(b, v)
        /\ fresh' = fresh \ {b}
        /\ version' = [version EXCEPT ![b] = v]
        /\ \/ Start(s, "begun", "install", b, FALSE)
           \/ Start(s, "ready", "upload", b, FALSE)
  /\ UNCHANGED <<stored, active, opa>>

\* activate_bundle reads its row.
ReadToActivate(s) ==
  /\ \E b \in stored : Start(s, "begun", "activate", b, b \in active)
  /\ UNCHANGED <<fresh, stored, version, active, opa>>

MayDelete(b) == b \in stored \ active

\* delete_bundle reads its row and refuses an active one.
ReadToDelete(s) ==
  /\ \E b \in Bundles : MayDelete(b) /\ Start(s, "begun", "delete", b, FALSE)
  /\ UNCHANGED <<fresh, stored, version, active, opa>>

-----------------------------------------------------------------------------
(* _activate: the UPDATE sees the rows committed when it starts, waits for *)
(* those locked by another request, and keeps those that still match.      *)

\* MUTANT of ToDeactivate: only other versions of the same name.
ToDeactivateByName(b) == {c \in active \ {b} : NameOf[c] = NameOf[b]}

ToDeactivate(b) == active \ {b}

Scan(s) ==
  /\ At(s, "begun", Activating)
  /\ req' = [req EXCEPT ![s].stage = "scanned",
                        ![s].others = ToDeactivate(req[s].bundle)]
  /\ UNCHANGED <<fresh, stored, version, active, opa, alone, past>>

LockedBy(q) == IF At(q, "locked", Ops) \/ At(q, "ready", Ops) THEN req[q].others ELSE {}
LockedByOthers(s) == UNION {LockedBy(q) : q \in Slots \ {s}}

Lock(s) ==
  /\ At(s, "scanned", Activating)
  /\ req[s].others \cap LockedByOthers(s) = {}
  /\ req' = [req EXCEPT ![s].stage = "locked", ![s].others = @ \cap active]
  /\ UNCHANGED <<fresh, stored, version, active, opa, alone, past>>

-----------------------------------------------------------------------------
(* The call of OPA, whose failure is ignored.                              *)

Loads(s, p) ==
  \/ opa' = [opa EXCEPT ![NameOf[req[s].bundle]] = p] /\ UNCHANGED past
  \/ Faults /\ UNCHANGED opa /\ past' = past \cup {"fault"}

Push(s) ==
  /\ At(s, "locked", Activating)
  /\ Loads(s, req[s].bundle)
  /\ req' = [req EXCEPT ![s].stage = "ready"]
  /\ UNCHANGED <<fresh, stored, version, active, alone>>

\* MUTANT of RemovePolicy: OPA is not told.
RemoveNothing(s) ==
  /\ At(s, "begun", {"delete"})
  /\ req' = [req EXCEPT ![s].stage = "ready"]
  /\ UNCHANGED <<fresh, stored, version, active, opa, alone, past>>

RemovePolicy(s) ==
  /\ At(s, "begun", {"delete"})
  /\ Loads(s, Nothing)
  /\ req' = [req EXCEPT ![s].stage = "ready"]
  /\ UNCHANGED <<fresh, stored, version, active, alone>>

-----------------------------------------------------------------------------
(* get_db commits when the request is over.                                *)

CommitUpload(s) ==
  /\ At(s, "ready", {"upload", "install"})
  /\ stored' = stored \cup {req[s].bundle}
  /\ active' = IF req[s].op = "install"
               THEN (active \ req[s].others) \cup {req[s].bundle} ELSE active
  /\ Finish(s)
  /\ UNCHANGED <<fresh, version, opa, past>>

\* The row is flushed now: it must still be there, and if it was read as
\* active its flag is not written again.
CommitActivate(s) ==
  /\ At(s, "ready", {"activate"})
  /\ req[s].bundle \in stored \ LockedByOthers(s)
  /\ active' = (active \ req[s].others) \cup
                 (IF req[s].was THEN {} ELSE {req[s].bundle})
  /\ Finish(s)
  /\ UNCHANGED <<fresh, stored, version, opa, past>>

\* The row goes whatever it has become.
CommitDelete(s) ==
  /\ At(s, "ready", {"delete"})
  /\ req[s].bundle \notin LockedByOthers(s)
  /\ stored' = stored \ {req[s].bundle}
  /\ active' = active \ {req[s].bundle}
  /\ Finish(s)
  /\ UNCHANGED <<fresh, version, opa, past>>

\* A statement or the commit fails, two transactions deadlock, or the process
\* dies: rolled back, but for what OPA was told.
Abort(s) ==
  /\ s \in Busy
  /\ Faults
  /\ Finish(s)
  /\ past' = past \cup {"fault"}
  /\ UNCHANGED <<fresh, stored, version, active, opa>>

-----------------------------------------------------------------------------
Next ==
  \E s \in Slots :
    \/ Upload(s) \/ ReadToActivate(s) \/ ReadToDelete(s)
    \/ Scan(s) \/ Lock(s) \/ Push(s) \/ RemovePolicy(s)
    \/ CommitUpload(s) \/ CommitActivate(s) \/ CommitDelete(s) \/ Abort(s)

Spec == Init /\ [][Next]_vars

-----------------------------------------------------------------------------
(* Properties.                                                             *)

\* Requests have come one at a time so far.
Serial == "overlap" \notin past

\* policies.py:6: "Activation is exclusive within a (tenant, package)"; of a
\* name it is what models.py says: at most one bundle is active.
OneActive == \A b, c \in active : b = c

\* So it is as long as requests come one at a time, whatever fails.
OneActiveSerially == Serial => OneActive

\* Whatever races and failures left behind, two active bundles included, an
\* activation that meets no other request ends with its bundle alone active.
LoneActivationRepairs ==
  [][\A s \in alone :
       (CommitUpload(s) \/ CommitActivate(s)) /\ req[s].op \in Activating
         => active' = {req[s].bundle}]_vars

VersionsDistinct ==
  \A b, c \in stored : NameOf[b] = NameOf[c] /\ version[b] = version[c] => b = c

\* As long as requests come one at a time, a version of a name names one
\* bundle, however uploads and deletions alternate.
VersionsDistinctSerially == Serial => VersionsDistinct

\* policies.py:232: "cannot delete an active bundle".  As long as requests come
\* one at a time, a deletion leaves the active bundle as it is.
DeleteSparesActive ==
  [][\A s \in Slots : Serial /\ CommitDelete(s) => active' = active]_vars

\* As long as nothing fails and requests come one at a time, OPA has nothing
\* loaded between them that the table does not have.
LoadedIsStored ==
  past = {} /\ Busy = {} => \A n \in Names : opa[n] # Nothing => opa[n] \in stored
=============================================================================
