------------------------ MODULE PolicyBundlesProofs ------------------------
(***************************************************************************)
(* Theorems about PolicyBundles for any number of bundles, names and       *)
(* slots: the types, what holds of a request that no other overlaps, and   *)
(* what holds as long as no two requests have overlapped.                  *)
(***************************************************************************)
EXTENDS PolicyBundles, TLAPS

\* What a request still knows of the tables when no other has overlapped it.
Current(r) ==
  /\ r.op \in {"upload", "install"} =>
        /\ r.bundle \notin stored \cup fresh
        /\ \A c \in Siblings(r.bundle) : version[c] < version[r.bundle]
  /\ r.op = "activate" => r.bundle \in stored /\ (r.was <=> r.bundle \in active)
  /\ r.op = "delete" => r.bundle \in stored \ active
  /\ r.op \in Activating /\ r.stage # "begun" => r.others = active \ {r.bundle}

LoneInv ==
  \A s \in alone :
    /\ s \in Busy
    /\ \A q \in Busy : q = s
    /\ Current(req[s])

LEMMA BundlesInit == Init => TypeOK /\ LoneInv
BY DEF Init, TypeOK, LoneInv, Busy

LEMMA StartTypes ==
  ASSUME TypeOK, NEW s \in Slots, NEW stage \in {"begun", "ready"}, NEW op \in Ops,
         NEW b \in Bundles, NEW was \in BOOLEAN, Start(s, stage, op, b, was),
         b \notin fresh', fresh' \subseteq fresh
  PROVE  /\ req' \in [Slots -> Request \cup {Idle}]
         /\ alone' \subseteq Slots
         /\ past' \subseteq {"overlap", "fault"}
         /\ (\A q \in Busy : req[q].bundle \notin fresh)'
<1> DEFINE r == [stage |-> stage, op |-> op, bundle |-> b, was |-> was, others |-> {}]
<1>1. r \in Request /\ r.bundle = b
  BY DEF Request
<1>2. req' = [req EXCEPT ![s] = r]
  BY DEF Start
<1>3. alone' \subseteq Slots /\ past' \subseteq {"overlap", "fault"}
  BY DEF Start, TypeOK
<1> HIDE DEF r
<1>4. ASSUME NEW q \in Busy' PROVE req'[q].bundle \notin fresh'
  <2>1. CASE q = s
    BY <2>1, <1>1, <1>2 DEF TypeOK
  <2>2. CASE q # s
    BY <2>2, <1>2, <1>4 DEF TypeOK, Busy
  <2> QED
    BY <2>1, <2>2
<1> QED
  BY <1>1, <1>2, <1>3, <1>4 DEF TypeOK

\* A request that goes on with its bundle, or ends.
LEMMA BundleKept ==
  ASSUME TypeOK, fresh' = fresh, NEW s \in Slots, s \in Busy,
         NEW r, req' = [req EXCEPT ![s] = r],
         r = Idle \/ (r \in Request /\ r.bundle = req[s].bundle)
  PROVE  /\ req' \in [Slots -> Request \cup {Idle}]
         /\ (\A q \in Busy : req[q].bundle \notin fresh)'
<1>1. ASSUME NEW q \in Busy' PROVE req'[q].bundle \notin fresh'
  BY <1>1 DEF TypeOK, Busy
<1> QED
  BY <1>1 DEF TypeOK

LEMMA BundlesTypes ==
  ASSUME TypeOK, [Next]_vars
  PROVE  TypeOK'
<1> USE BundlesAssumption
<1>1. ASSUME NEW s \in Slots, Upload(s) PROVE TypeOK'
  <2>1. PICK b \in fresh, v \in {version[c] + 1 : c \in Bundles} :
           /\ fresh' = fresh \ {b}
           /\ version' = [version EXCEPT ![b] = v]
           /\ \/ Start(s, "begun", "install", b, FALSE)
              \/ Start(s, "ready", "upload", b, FALSE)
    BY <1>1 DEF Upload
  <2>2. b \in Bundles /\ v \in Nat
    BY <2>1 DEF TypeOK
  <2>3. /\ req' \in [Slots -> Request \cup {Idle}] /\ alone' \subseteq Slots
        /\ past' \subseteq {"overlap", "fault"}
        /\ (\A q \in Busy : req[q].bundle \notin fresh)'
    BY <2>1, <2>2, StartTypes DEF Ops
  <2>4. version' \in [Bundles -> Nat]
    BY <2>1, <2>2 DEF TypeOK
  <2>5. fresh' \subseteq Bundles /\ stored' \subseteq Bundles \ fresh'
        /\ active' \subseteq stored' /\ opa' \in [Names -> Bundles \cup {Nothing}]
    BY <1>1, <2>1 DEF TypeOK, Upload
  <2> QED
    BY <2>3, <2>4, <2>5 DEF TypeOK
<1>2. ASSUME NEW s \in Slots, ReadToActivate(s) \/ ReadToDelete(s) PROVE TypeOK'
  <2>1. /\ fresh' = fresh
        /\ \E b \in stored, op \in {"activate", "delete"}, was \in BOOLEAN :
              Start(s, "begun", op, b, was)
    <3>1. ASSUME NEW b \in stored PROVE (b \in active) \in BOOLEAN
      OBVIOUS
    <3> QED
      BY <1>2, <3>1 DEF ReadToActivate, ReadToDelete, MayDelete
  <2>2. PICK b \in stored, op \in {"activate", "delete"}, was \in BOOLEAN :
           Start(s, "begun", op, b, was)
    BY <2>1
  <2>3. b \in Bundles /\ b \notin fresh' /\ op \in Ops
    BY <2>1 DEF TypeOK, Ops
  <2>4. /\ req' \in [Slots -> Request \cup {Idle}] /\ alone' \subseteq Slots
        /\ past' \subseteq {"overlap", "fault"}
        /\ (\A q \in Busy : req[q].bundle \notin fresh)'
    BY <2>1, <2>2, <2>3, StartTypes
  <2> QED
    BY <1>2, <2>4 DEF TypeOK, ReadToActivate, ReadToDelete
<1>3. ASSUME NEW s \in Slots, Scan(s) \/ Lock(s) PROVE TypeOK'
  <2>1. req[s] \in Request /\ s \in Busy
    BY <1>3 DEF Scan, Lock, At, Busy, TypeOK
  <2>2. PICK stage \in {"scanned", "locked"}, others \in SUBSET Bundles :
           req' = [req EXCEPT ![s] = [req[s] EXCEPT !.stage = stage, !.others = others]]
    <3>1. CASE Scan(s)
      <4>1. ToDeactivate(req[s].bundle) \in SUBSET Bundles
        BY DEF ToDeactivate, TypeOK
      <4> QED
        BY <3>1, <4>1 DEF Scan
    <3>2. CASE Lock(s)
      <4>1. req[s].others \cap active \in SUBSET Bundles
        BY DEF TypeOK
      <4> QED
        BY <3>2, <4>1 DEF Lock
    <3> QED
      BY <1>3, <3>1, <3>2
  <2>3. /\ [req[s] EXCEPT !.stage = stage, !.others = others] \in Request
        /\ [req[s] EXCEPT !.stage = stage, !.others = others].bundle = req[s].bundle
    BY <2>1 DEF Request
  <2>4. fresh' = fresh
    BY <1>3 DEF Scan, Lock
  <2>5. /\ req' \in [Slots -> Request \cup {Idle}]
        /\ (\A q \in Busy : req[q].bundle \notin fresh)'
    BY <2>1, <2>2, <2>3, <2>4, BundleKept
  <2> QED
    BY <1>3, <2>5 DEF TypeOK, Scan, Lock
<1>4. ASSUME NEW s \in Slots, Push(s) \/ RemovePolicy(s) PROVE TypeOK'
  <2>1. req[s] \in Request /\ s \in Busy
    BY <1>4 DEF Push, RemovePolicy, At, Busy, TypeOK
  <2>2. req' = [req EXCEPT ![s] = [req[s] EXCEPT !.stage = "ready"]]
    BY <1>4 DEF Push, RemovePolicy
  <2>3. /\ [req[s] EXCEPT !.stage = "ready"] \in Request
        /\ [req[s] EXCEPT !.stage = "ready"].bundle = req[s].bundle
    BY <2>1 DEF Request
  <2>4. /\ opa' \in [Names -> Bundles \cup {Nothing}]
        /\ past' \subseteq {"overlap", "fault"}
    BY <1>4, <2>1 DEF Push, RemovePolicy, Loads, Request, TypeOK
  <2>5. /\ req' \in [Slots -> Request \cup {Idle}]
        /\ (\A q \in Busy : req[q].bundle \notin fresh)'
    BY <1>4, <2>1, <2>2, <2>3, BundleKept DEF Push, RemovePolicy
  <2> QED
    BY <1>4, <2>4, <2>5 DEF TypeOK, Push, RemovePolicy
<1>5. ASSUME NEW s \in Slots, s \in Busy, Finish(s), fresh' = fresh
      PROVE  /\ req' \in [Slots -> Request \cup {Idle}] /\ alone' \subseteq Slots
             /\ (\A q \in Busy : req[q].bundle \notin fresh)'
  <2>1. req' = [req EXCEPT ![s] = Idle]
    BY <1>5 DEF Finish
  <2>2. /\ req' \in [Slots -> Request \cup {Idle}]
        /\ \A q \in Busy' : q \in Busy /\ req'[q] = req[q]
    BY <2>1 DEF Busy, TypeOK
  <2> QED
    BY <1>5, <2>2 DEF Finish, TypeOK
<1>6. ASSUME NEW s \in Slots, CommitUpload(s) PROVE TypeOK'
  <2>1. s \in Busy /\ Finish(s) /\ fresh' = fresh /\ req[s] \in Request
    BY <1>6 DEF CommitUpload, At, Busy, TypeOK
  <2>2. req[s].bundle \in Bundles \ fresh
    BY <2>1 DEF Request, TypeOK
  <2>3. stored' \subseteq Bundles \ fresh' /\ active' \subseteq stored'
    BY <1>6, <2>1, <2>2 DEF CommitUpload, TypeOK
  <2> QED
    BY <1>5, <1>6, <2>1, <2>3 DEF TypeOK, CommitUpload
<1>7. ASSUME NEW s \in Slots, CommitActivate(s) PROVE TypeOK'
  <2>1. s \in Busy /\ Finish(s) /\ fresh' = fresh /\ active' \subseteq stored
    BY <1>7 DEF CommitActivate, At, TypeOK
  <2> QED
    BY <1>5, <1>7, <2>1 DEF TypeOK, CommitActivate
<1>8. ASSUME NEW s \in Slots, CommitDelete(s) PROVE TypeOK'
  <2>1. s \in Busy /\ Finish(s) /\ fresh' = fresh /\ active' \subseteq stored'
    BY <1>8 DEF CommitDelete, At, TypeOK
  <2> QED
    BY <1>5, <1>8, <2>1 DEF TypeOK, CommitDelete
<1>9. ASSUME NEW s \in Slots, Abort(s) PROVE TypeOK'
  BY <1>5, <1>9 DEF TypeOK, Abort
<1>10. CASE UNCHANGED vars
  BY <1>10 DEF vars, TypeOK, Busy
<1> QED
  BY <1>1, <1>2, <1>3, <1>4, <1>6, <1>7, <1>8, <1>9, <1>10 DEF Next

\* The type invariant; with it, whatever races and failures, an active bundle
\* is a stored one.
THEOREM BundlesTyped == Spec => []TypeOK
BY BundlesInit, BundlesTypes, PTL DEF Spec

-----------------------------------------------------------------------------
\* A step of a request that no other has overlapped, or of the first of two.
LEMMA LoneStep ==
  ASSUME TypeOK, LoneInv, [Next]_vars
  PROVE  LoneInv'
<1>1. ASSUME NEW s \in Slots, NEW stage, NEW op, NEW b, NEW was,
             Start(s, stage, op, b, was),
             Current([stage |-> stage, op |-> op, bundle |-> b, was |-> was,
                      others |-> {}])'
      PROVE  LoneInv'
  <2> DEFINE r == [stage |-> stage, op |-> op, bundle |-> b, was |-> was, others |-> {}]
  <2> SUFFICES ASSUME Busy = {} PROVE LoneInv'
    BY <1>1 DEF Start, LoneInv
  <2>1. req' = [req EXCEPT ![s] = r] /\ alone' = {s}
    BY <1>1 DEF Start
  <2>2. r # Idle
    BY DEF Idle
  <2> HIDE DEF r
  <2>3. req'[s] = r /\ Busy' = {s}
    BY <2>1, <2>2 DEF Busy, TypeOK
  <2> QED
    BY <1>1, <2>1, <2>3 DEF LoneInv, r, Current, Siblings
<1>2. ASSUME NEW s \in Slots, Upload(s) PROVE LoneInv'
  <2>1. PICK b \in fresh, v \in {version[c] + 1 : c \in Bundles} :
           /\ NextVersion(b, v)
           /\ fresh' = fresh \ {b}
           /\ version' = [version EXCEPT ![b] = v]
           /\ \/ Start(s, "begun", "install", b, FALSE)
              \/ Start(s, "ready", "upload", b, FALSE)
    BY <1>2 DEF Upload
  <2>2. /\ b \in Bundles /\ b \notin stored
        /\ stored' = stored /\ active' = active
    BY <1>2, <2>1 DEF Upload, TypeOK
  <2>3. b \notin stored' \cup fresh'
        /\ \A c \in Siblings(b)' : version'[c] < version'[b]
    BY <2>1, <2>2 DEF TypeOK, Siblings, NextVersion
  <2>4. ASSUME NEW stage, NEW op \in {"install", "upload"}, op = "install" => stage = "begun"
        PROVE  Current([stage |-> stage, op |-> op, bundle |-> b, was |-> FALSE,
                        others |-> {}])'
    BY <2>3, <2>4 DEF Current, Activating, Siblings
  <2> QED
    BY <1>1, <2>1, <2>4
<1>3. ASSUME NEW s \in Slots, ReadToActivate(s) \/ ReadToDelete(s) PROVE LoneInv'
  <2>1. stored' = stored /\ active' = active
    BY <1>3 DEF ReadToActivate, ReadToDelete
  <2>2. CASE ReadToActivate(s)
    <3>1. \E b \in stored, was \in BOOLEAN :
             Start(s, "begun", "activate", b, was) /\ (was <=> b \in active)
      <4>1. PICK b \in stored : Start(s, "begun", "activate", b, b \in active)
        BY <2>2 DEF ReadToActivate
      <4>2. CASE b \in active
        <5>1. (b \in active) = TRUE
          BY <4>2
        <5> QED
          BY <4>1, <4>2, <5>1
      <4>3. CASE b \notin active
        <5>1. (b \in active) = FALSE
          BY <4>3
        <5> QED
          BY <4>1, <4>3, <5>1
      <4> QED
        BY <4>2, <4>3
    <3>2. PICK b \in stored, was \in BOOLEAN :
             Start(s, "begun", "activate", b, was) /\ (was <=> b \in active)
      BY <3>1
    <3>3. Current([stage |-> "begun", op |-> "activate", bundle |-> b,
                   was |-> was, others |-> {}])'
      BY <2>1, <3>2 DEF Current, Activating
    <3> QED
      BY <1>1, <3>2, <3>3
  <2>3. CASE ReadToDelete(s)
    <3>1. PICK b \in stored \ active : Start(s, "begun", "delete", b, FALSE)
      BY <2>3 DEF ReadToDelete, MayDelete
    <3>2. Current([stage |-> "begun", op |-> "delete", bundle |-> b,
                   was |-> FALSE, others |-> {}])'
      BY <2>1, <3>1 DEF Current, Activating
    <3> QED
      BY <1>1, <3>1, <3>2
  <2> QED
    BY <1>3, <2>2, <2>3
\* A request that goes on: only its stage and its rows to deactivate change.
<1>4. ASSUME NEW s \in Slots, s \in Busy, NEW r \in Request,
             req' = [req EXCEPT ![s] = r], Current(req[s]) => Current(r),
             fresh' = fresh, stored' = stored, active' = active, version' = version,
             alone' = alone
      PROVE  LoneInv'
  <2> SUFFICES ASSUME NEW q \in alone
               PROVE  q \in Busy' /\ (\A p \in Busy' : p = q) /\ Current(req[q])'
    BY <1>4 DEF LoneInv
  <2>1. q = s /\ Busy = {s} /\ Current(r)
    BY <1>4 DEF LoneInv
  <2>2. r # Idle
    BY DEF Request, Idle
  <2>3. Busy' = {s} /\ req'[s] = r
    BY <1>4, <2>1, <2>2 DEF Busy, TypeOK
  <2> QED
    BY <1>4, <2>1, <2>3 DEF Current, Siblings
<1>5. ASSUME NEW s \in Slots, Scan(s) PROVE LoneInv'
  <2> DEFINE r == [req[s] EXCEPT !.stage = "scanned", !.others = active \ {req[s].bundle}]
  <2>1. s \in Busy /\ req[s] \in Request /\ active \subseteq Bundles
    BY <1>5 DEF Scan, At, Busy, TypeOK
  <2>2. /\ r \in Request /\ r.op = req[s].op /\ r.bundle = req[s].bundle
        /\ r.was = req[s].was /\ r.others = active \ {r.bundle}
    BY <2>1 DEF Request
  <2>3. req' = [req EXCEPT ![s] = r]
    BY <1>5 DEF Scan, ToDeactivate
  <2> HIDE DEF r
  <2>4. Current(req[s]) => Current(r)
    BY <2>2 DEF Current
  <2> QED
    BY <1>4, <1>5, <2>1, <2>2, <2>3, <2>4 DEF Scan
<1>6. ASSUME NEW s \in Slots, Lock(s) PROVE LoneInv'
  <2> DEFINE r == [req[s] EXCEPT !.stage = "locked", !.others = @ \cap active]
  <2>1. s \in Busy /\ req[s] \in Request /\ req[s].stage = "scanned"
    BY <1>6 DEF Lock, At, Busy, TypeOK
  <2>2. /\ r \in Request /\ r.op = req[s].op /\ r.bundle = req[s].bundle
        /\ r.was = req[s].was /\ r.others = req[s].others \cap active
    BY <2>1 DEF Request
  <2>3. req' = [req EXCEPT ![s] = r]
    BY <1>6 DEF Lock
  <2> HIDE DEF r
  <2>4. Current(req[s]) => Current(r)
    BY <2>1, <2>2 DEF Current
  <2> QED
    BY <1>4, <1>6, <2>1, <2>2, <2>3, <2>4 DEF Lock
<1>7. ASSUME NEW s \in Slots, Push(s) \/ RemovePolicy(s) PROVE LoneInv'
  <2> DEFINE r == [req[s] EXCEPT !.stage = "ready"]
  <2>1. /\ s \in Busy /\ req[s] \in Request
        /\ req[s].stage = "begun" => req[s].op = "delete"
    BY <1>7 DEF Push, RemovePolicy, At, Busy, TypeOK
  <2>2. /\ r \in Request /\ r.op = req[s].op /\ r.bundle = req[s].bundle
        /\ r.was = req[s].was /\ r.others = req[s].others
    BY <2>1 DEF Request
  <2>3. req' = [req EXCEPT ![s] = r]
    BY <1>7 DEF Push, RemovePolicy
  <2> HIDE DEF r
  <2>4. Current(req[s]) => Current(r)
    BY <2>1, <2>2 DEF Current, Activating
  <2> QED
    BY <1>4, <1>7, <2>1, <2>2, <2>3, <2>4 DEF Push, RemovePolicy
<1>8. ASSUME NEW s \in Slots,
             CommitUpload(s) \/ CommitActivate(s) \/ CommitDelete(s) \/ Abort(s)
      PROVE  LoneInv'
  <2>1. s \in Busy /\ alone' = alone \ {s}
    BY <1>8 DEF CommitUpload, CommitActivate, CommitDelete, Abort, At, Finish
  <2>2. alone' = {}
    BY <2>1 DEF LoneInv
  <2> QED
    BY <2>2 DEF LoneInv
<1>9. CASE UNCHANGED vars
  BY <1>9 DEF vars, LoneInv, Busy, Current, Siblings
<1> QED
  BY <1>2, <1>3, <1>5, <1>6, <1>7, <1>8, <1>9 DEF Next

\* After any history of races and failures, an activation that no other
\* request overlaps leaves its bundle alone active.
THEOREM LoneActivation == Spec => LoneActivationRepairs
<1>1. ASSUME TypeOK, LoneInv, NEW s \in alone,
             CommitUpload(s) \/ CommitActivate(s), req[s].op \in Activating
      PROVE  active' = {req[s].bundle}
  <2>1. Current(req[s]) /\ req[s].stage = "ready"
    BY <1>1 DEF LoneInv, CommitUpload, CommitActivate, At
  <2>2. req[s].others = active \ {req[s].bundle}
    BY <1>1, <2>1 DEF Current
  <2>3. CASE CommitUpload(s)
    BY <1>1, <2>2, <2>3 DEF CommitUpload, At, Activating
  <2>4. CASE CommitActivate(s)
    BY <2>1, <2>2, <2>4 DEF CommitActivate, At, Current
  <2> QED
    BY <1>1, <2>3, <2>4
<1>2. ASSUME TypeOK, LoneInv
      PROVE  \A s \in alone :
                (CommitUpload(s) \/ CommitActivate(s)) /\ req[s].op \in Activating
                  => active' = {req[s].bundle}
  BY <1>1, <1>2
<1> QED
  BY <1>2, BundlesInit, BundlesTypes, LoneStep, PTL DEF Spec, LoneActivationRepairs

-----------------------------------------------------------------------------
(* One request at a time.                                                  *)

SerialInv ==
  /\ Busy \subseteq alone
  /\ OneActive
  /\ VersionsDistinct

\* An overlap or a failure is never forgotten.
LEMMA PastGrows == [Next]_vars => past \subseteq past'
BY DEF Next, vars, Start, Upload, ReadToActivate, ReadToDelete, Scan, Lock, Push,
       RemovePolicy, Loads, CommitUpload, CommitActivate, CommitDelete, Abort

LEMMA SerialInit == Init => SerialInv
BY DEF Init, SerialInv, Busy, OneActive, VersionsDistinct

LEMMA SerialStep ==
  ASSUME TypeOK, LoneInv, Serial => SerialInv, [Next]_vars, Serial'
  PROVE  SerialInv'
<1>1. SerialInv
  BY PastGrows DEF Serial
<1>2. \A s \in Busy : s \in alone /\ Current(req[s])
  BY <1>1 DEF SerialInv, LoneInv
<1>3. Busy' \subseteq alone'
  <2>1. ASSUME NEW s \in Slots, Upload(s) \/ ReadToActivate(s) \/ ReadToDelete(s)
        PROVE  Busy' \subseteq alone'
    <3>1. PICK stage, op, b, was : Start(s, stage, op, b, was)
      BY <2>1 DEF Upload, ReadToActivate, ReadToDelete
    <3>2. Busy = {}
      BY <3>1 DEF Start, Serial
    <3> QED
      BY <3>1, <3>2 DEF Start, Busy
  <2>2. ASSUME NEW s \in Busy, NEW r, req' = [req EXCEPT ![s] = r], alone' = alone
        PROVE  Busy' \subseteq alone'
    BY <1>1, <2>2 DEF SerialInv, Busy, TypeOK
  <2>3. ASSUME NEW s \in Slots,
               Scan(s) \/ Lock(s) \/ Push(s) \/ RemovePolicy(s)
        PROVE  Busy' \subseteq alone'
    <3>1. s \in Busy /\ alone' = alone
      BY <2>3 DEF Scan, Lock, Push, RemovePolicy, At
    <3>2. PICK r : req' = [req EXCEPT ![s] = r]
      BY <2>3 DEF Scan, Lock, Push, RemovePolicy
    <3> QED
      BY <2>2, <3>1, <3>2
  <2>4. ASSUME NEW s \in Slots, Finish(s) PROVE Busy' \subseteq alone'
    BY <1>1, <2>4 DEF Finish, Busy, TypeOK, SerialInv
  <2>5. CASE UNCHANGED vars
    BY <1>1, <2>5 DEF vars, SerialInv, Busy
  <2> QED
    BY <2>1, <2>3, <2>4, <2>5
       DEF Next, CommitUpload, CommitActivate, CommitDelete, Abort
<1>4. ASSUME NEW s \in Slots, CommitUpload(s) PROVE OneActive' /\ VersionsDistinct'
  <2>1. Current(req[s]) /\ req[s].stage = "ready" /\ req[s] \in Request
    BY <1>2, <1>4 DEF CommitUpload, At, Busy, TypeOK
  <2>2. OneActive'
    BY <1>1, <1>4, <2>1
       DEF CommitUpload, At, Current, Activating, OneActive, SerialInv
  <2>3. /\ req[s].bundle \notin stored
        /\ \A c \in stored : NameOf[c] = NameOf[req[s].bundle] =>
              version[c] # version[req[s].bundle]
    BY <1>4, <2>1 DEF CommitUpload, At, Current, Siblings, TypeOK, Request
  <2> QED
    BY <1>1, <1>4, <2>2, <2>3 DEF CommitUpload, VersionsDistinct, SerialInv
<1>5. ASSUME NEW s \in Slots, CommitActivate(s) PROVE OneActive' /\ VersionsDistinct'
  <2>1. Current(req[s]) /\ req[s].stage = "ready"
    BY <1>2, <1>5 DEF CommitActivate, At
  <2> QED
    BY <1>1, <1>5, <2>1
       DEF CommitActivate, At, Current, Activating, OneActive, VersionsDistinct, SerialInv
<1>6. ASSUME NEW s \in Slots, Upload(s) PROVE OneActive' /\ VersionsDistinct'
  <2>1. /\ stored' = stored /\ active' = active
        /\ \A b \in stored : version'[b] = version[b]
    BY <1>6 DEF Upload, TypeOK
  <2> QED
    BY <1>1, <2>1 DEF SerialInv, OneActive, VersionsDistinct
<1>7. ASSUME NEW s \in Slots, CommitDelete(s) PROVE OneActive' /\ VersionsDistinct'
  BY <1>1, <1>7 DEF CommitDelete, SerialInv, OneActive, VersionsDistinct
<1>8. ASSUME stored' = stored, active' = active, version' = version
      PROVE  OneActive' /\ VersionsDistinct'
  BY <1>1, <1>8 DEF SerialInv, OneActive, VersionsDistinct
<1> QED
  BY <1>3, <1>4, <1>5, <1>6, <1>7, <1>8
     DEF Next, vars, SerialInv, ReadToActivate, ReadToDelete, Scan, Lock, Push,
         RemovePolicy, Abort

LEMMA SerialInductive ==
  Spec => [](TypeOK /\ LoneInv /\ (Serial => SerialInv))
<1>1. TypeOK /\ LoneInv /\ (Serial => SerialInv) /\ [Next]_vars => (Serial' => SerialInv')
  BY SerialStep
<1> QED
  BY <1>1, BundlesInit, BundlesTypes, LoneStep, SerialInit, PTL DEF Spec

\* As long as requests come one at a time, and whatever fails, at most one
\* bundle of the package is active (OneActiveSerially).
THEOREM OneBundleIsActive == Spec => []OneActiveSerially
<1>1. (Serial => SerialInv) => OneActiveSerially
  BY DEF SerialInv, OneActiveSerially
<1> QED
  BY <1>1, SerialInductive, PTL

\* As long as they do, a version of a name names one bundle
\* (VersionsDistinctSerially), although a version is what a count of the rows
\* gave and rows are deleted.
THEOREM VersionsAreDistinct == Spec => []VersionsDistinctSerially
<1>1. (Serial => SerialInv) => VersionsDistinctSerially
  BY DEF SerialInv, VersionsDistinctSerially
<1> QED
  BY <1>1, SerialInductive, PTL

\* As long as they do, no deletion takes the active bundle away
\* (DeleteSparesActive).
THEOREM ActiveIsSpared == Spec => DeleteSparesActive
<1>1. ASSUME LoneInv, Serial => SerialInv, NEW s \in Slots, Serial, CommitDelete(s)
      PROVE  active' = active
  <2>1. s \in alone /\ req[s].op = "delete" /\ Current(req[s])
    BY <1>1 DEF CommitDelete, At, SerialInv, LoneInv
  <2> QED
    BY <1>1, <2>1 DEF CommitDelete, Current
<1>2. LoneInv /\ (Serial => SerialInv) =>
        \A s \in Slots : Serial /\ CommitDelete(s) => active' = active
  BY <1>1
<1> QED
  BY <1>2, SerialInductive, PTL DEF Spec, DeleteSparesActive

-----------------------------------------------------------------------------
(* One request at a time, and nothing fails.                               *)

LoadedInv ==
  /\ \A n \in Names : opa[n] # Nothing =>
        /\ NameOf[opa[n]] = n
        /\ \/ opa[n] \in stored
           \/ \E s \in Busy : At(s, "ready", {"install"}) /\ req[s].bundle = opa[n]
  /\ \A s \in Slots : At(s, "ready", {"delete"}) => opa[NameOf[req[s].bundle]] = Nothing

LEMMA LoadedStep ==
  ASSUME TypeOK, LoneInv, Serial => SerialInv, past = {} => LoadedInv,
         [Next]_vars, past' = {}
  PROVE  LoadedInv'
<1> USE BundlesAssumption
<1>0. past = {} /\ SerialInv /\ LoadedInv /\ \A s, q \in Busy : s = q
  BY PastGrows DEF Serial, SerialInv, LoneInv
<1>9. ASSUME NEW s \in Busy, NEW r, req' = [req EXCEPT ![s] = r], NEW q \in Slots \ {s}
      PROVE  req[q] = Idle /\ req'[q] = Idle /\ q \notin Busy'
  BY <1>0, <1>9 DEF Busy, TypeOK
<1>1. ASSUME NEW s \in Slots, NEW stage, NEW op, NEW b, NEW was,
             Start(s, stage, op, b, was), ~(stage = "ready" /\ op = "delete"),
             opa' = opa, stored' = stored
      PROVE  LoadedInv'
  <2>1. Busy = {}
    BY <1>1 DEF Start
  <2>2. \A n \in Names : opa[n] # Nothing => NameOf[opa[n]] = n /\ opa[n] \in stored
    BY <1>0, <2>1 DEF LoadedInv
  <2>3. \A q \in Slots : ~At(q, "ready", {"delete"})'
    BY <1>1, <2>1 DEF Start, At, TypeOK, Busy
  <2> QED
    BY <1>1, <2>2, <2>3 DEF LoadedInv
<1>2. ASSUME NEW s \in Slots, Upload(s) \/ ReadToActivate(s) \/ ReadToDelete(s)
      PROVE  LoadedInv'
  BY <1>1, <1>2 DEF Upload, ReadToActivate, ReadToDelete
<1>3. ASSUME NEW s \in Slots, s \in Busy, req[s].stage # "ready",
             NEW r, req' = [req EXCEPT ![s] = r], r.stage # "ready",
             stored' = stored, opa' = opa
      PROVE  LoadedInv'
  <2>1. req'[s] = r /\ \A q \in Slots \ {s} : req[q] = Idle /\ q \notin Busy'
    BY <1>3, <1>9 DEF TypeOK
  <2>2. \A q \in Slots : ~At(q, "ready", {"install"}) /\ ~At(q, "ready", {"delete"})'
    BY <1>3, <2>1 DEF At, Busy
  <2>3. \A n \in Names : opa[n] # Nothing => NameOf[opa[n]] = n /\ opa[n] \in stored
    BY <1>0, <2>2 DEF LoadedInv, Busy
  <2> QED
    BY <1>3, <2>2, <2>3 DEF LoadedInv
<1>4. ASSUME NEW s \in Slots, Push(s) PROVE LoadedInv'
  <2>1. /\ s \in Busy /\ req[s] \in Request /\ req[s].op \in Activating
        /\ req[s].stage = "locked" /\ Current(req[s])
    BY <1>0, <1>4 DEF Push, At, Busy, TypeOK, SerialInv, LoneInv
  <2> DEFINE b == req[s].bundle
  <2>2. /\ req'[s].op = req[s].op /\ req'[s].stage = "ready" /\ req'[s].bundle = b
        /\ req'[s] # Idle
        /\ stored' = stored /\ opa' = [opa EXCEPT ![NameOf[b]] = b]
    <3>1. req'[s] = [req[s] EXCEPT !.stage = "ready"]
      BY <1>4 DEF Push, TypeOK
    <3> QED
      BY <1>4, <2>1, <3>1 DEF Push, Loads, Request, Idle
  <2>3. b \in Bundles /\ NameOf[b] \in Names
    BY <2>1 DEF Request
  <2>4. ASSUME NEW n \in Names, opa'[n] # Nothing
        PROVE  /\ NameOf[opa'[n]] = n
               /\ \/ opa'[n] \in stored'
                  \/ \E q \in Busy' : At(q, "ready", {"install"})' /\ req'[q].bundle = opa'[n]
    <3>1. CASE n = NameOf[b]
      <4>1. opa'[n] = b
        BY <2>2, <2>3, <3>1 DEF TypeOK
      <4>2. CASE req[s].op = "install"
        BY <2>2, <3>1, <4>1, <4>2 DEF At, Busy
      <4>3. CASE req[s].op = "activate"
        BY <2>1, <2>2, <3>1, <4>1, <4>3 DEF Current
      <4> QED
        BY <2>1, <4>2, <4>3 DEF Activating
    <3>2. CASE n # NameOf[b]
      <4>1. opa'[n] = opa[n]
        BY <2>2, <2>3, <3>2 DEF TypeOK
      <4>2. \A q \in Slots : ~At(q, "ready", {"install"})
        BY <1>0, <2>1 DEF At
      <4> QED
        BY <1>0, <2>2, <2>4, <4>1, <4>2 DEF LoadedInv, Busy
    <3> QED
      BY <3>1, <3>2
  <2>5. \A q \in Slots : ~At(q, "ready", {"delete"})'
    <3>1. \A q \in Slots \ {s} : q \notin Busy'
      BY <1>4, <1>9, <2>1 DEF Push
    <3> QED
      BY <2>1, <2>2, <3>1 DEF At, Activating
  <2> QED
    BY <2>4, <2>5 DEF LoadedInv
<1>5. ASSUME NEW s \in Slots, RemovePolicy(s) PROVE LoadedInv'
  <2>1. /\ s \in Busy /\ req[s] \in Request /\ req[s].op = "delete"
        /\ req[s].stage = "begun"
    BY <1>5 DEF RemovePolicy, At, Busy, TypeOK
  <2> DEFINE b == req[s].bundle
  <2>2. /\ req'[s].bundle = b
        /\ stored' = stored /\ opa' = [opa EXCEPT ![NameOf[b]] = Nothing]
    <3>1. req'[s] = [req[s] EXCEPT !.stage = "ready"]
      BY <1>5 DEF RemovePolicy, TypeOK
    <3> QED
      BY <1>5, <2>1, <3>1 DEF RemovePolicy, Loads, Request
  <2>3. b \in Bundles /\ NameOf[b] \in Names
    BY <2>1 DEF Request
  <2>4. \A q \in Slots : ~At(q, "ready", {"install"})
    BY <1>0, <2>1 DEF At
  <2>5. \A n \in Names : opa'[n] # Nothing => NameOf[opa'[n]] = n /\ opa'[n] \in stored'
    BY <1>0, <2>2, <2>3, <2>4 DEF LoadedInv, TypeOK, Busy
  <2>6. opa'[NameOf[req'[s].bundle]] = Nothing
    BY <2>2, <2>3 DEF TypeOK
  <2>7. \A q \in Slots \ {s} : q \notin Busy'
    BY <1>5, <1>9, <2>1 DEF RemovePolicy
  <2> QED
    BY <2>5, <2>6, <2>7 DEF LoadedInv, At
<1>6. ASSUME NEW s \in Slots, CommitUpload(s) \/ CommitActivate(s) \/ CommitDelete(s)
      PROVE LoadedInv'
  <2>1. /\ s \in Busy /\ req[s] \in Request /\ req[s].stage = "ready"
        /\ opa' = opa /\ req' = [req EXCEPT ![s] = Idle]
    BY <1>6 DEF CommitUpload, CommitActivate, CommitDelete, At, Finish, TypeOK, Busy
  <2>2. ASSUME NEW n \in Names, opa[n] # Nothing
        PROVE  NameOf[opa[n]] = n /\ opa[n] \in stored'
    <3>1. /\ NameOf[opa[n]] = n
          /\ opa[n] \in stored \/ (req[s].op = "install" /\ req[s].bundle = opa[n])
      BY <1>0, <2>1, <2>2 DEF LoadedInv, At, Busy
    <3>2. CASE CommitUpload(s)
      BY <3>1, <3>2 DEF CommitUpload
    <3>3. CASE CommitActivate(s)
      BY <3>1, <3>3 DEF CommitActivate, At
    <3>4. CASE CommitDelete(s)
      <4>1. opa[NameOf[req[s].bundle]] = Nothing /\ req[s].op = "delete"
        BY <3>4 DEF LoadedInv, CommitDelete, At
      <4> QED
        BY <2>2, <3>1, <3>4, <4>1 DEF CommitDelete
    <3> QED
      BY <1>6, <3>2, <3>3, <3>4
  <2>3. Busy' = {}
    BY <1>9, <2>1 DEF Busy, TypeOK
  <2> QED
    BY <2>1, <2>2, <2>3 DEF LoadedInv, At
<1>7. ASSUME NEW s \in Slots, Scan(s) \/ Lock(s) PROVE LoadedInv'
  <2>1. s \in Busy /\ req[s] \in Request /\ req[s].stage # "ready"
    BY <1>7 DEF Scan, Lock, At, Busy, TypeOK
  <2>2. PICK others : \/ req' = [req EXCEPT ![s] = [req[s] EXCEPT !.stage = "scanned",
                                                                  !.others = others]]
                      \/ req' = [req EXCEPT ![s] = [req[s] EXCEPT !.stage = "locked",
                                                                  !.others = others]]
    BY <1>7 DEF Scan, Lock
  <2> QED
    BY <1>3, <1>7, <2>1, <2>2 DEF Scan, Lock, Request
<1>8. CASE UNCHANGED vars
  BY <1>8 DEF vars, LoadedInv, At, Busy
<1> QED
  BY <1>2, <1>4, <1>5, <1>6, <1>7, <1>8 DEF Next, Abort

\* As long as requests come one at a time and nothing fails, OPA has nothing
\* loaded between requests that the table does not have.
THEOREM LoadedWasStored == Spec => []LoadedIsStored
<1>1. Init => LoadedInv
  BY DEF Init, LoadedInv, At, Busy
<1>2. (past = {} => LoadedInv) => LoadedIsStored
  BY DEF LoadedInv, LoadedIsStored
<1>3. TypeOK /\ LoneInv /\ (Serial => SerialInv) /\ [Next]_vars => (Serial' => SerialInv')
  BY SerialStep
<1>4. TypeOK /\ LoneInv /\ (Serial => SerialInv) /\ (past = {} => LoadedInv) /\ [Next]_vars
        => (past = {} => LoadedInv)'
  BY LoadedStep
<1> QED
  BY <1>1, <1>2, <1>3, <1>4, BundlesInit, BundlesTypes, LoneStep, SerialInit, PTL
     DEF Spec
=============================================================================
