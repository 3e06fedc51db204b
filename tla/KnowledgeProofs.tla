--------------------------- MODULE KnowledgeProofs ---------------------------
(***************************************************************************)
(* Theorems about knowledge-svc: Ingestion, for documents of any length    *)
(* and any number of deliveries; Fusion, for any number of chunks; and     *)
(* Chunks, for any text, chunk_size and size of batches.                   *)
(***************************************************************************)
EXTENDS Ingestion, Chunks, Fusion, SumTheorems, SequenceTheorems, TLAPS

\* A job that waits may still be delivered.
Deliverable ==
  /\ upload \in {"new", "storing", "sending"} => job = "none" /\ tries = 0 /\ step["worker"] = "idle"
  /\ job = "queued" => tries < MaxTries

WholeInv == TypeOK /\ Deliverable /\ ReadyIsWhole /\ DeletedLeavesNothing

\* As long as nothing is lost or stopped: who may still ingest the document has
\* not, and there is one who may.
Untouched == \A s \in Slots : copies[s] = 0

OneIngests ==
  /\ upload \in {"new", "storing", "sending", "ingesting"} => job = "none" /\ Untouched
  /\ upload # "ingesting" => step["route"] = "idle"
  /\ job = "queued" => Untouched
  /\ job # "running" => step["worker"] = "idle"
  /\ job = "running" /\ step["worker"] # "answered" => Untouched
  /\ IngestedOnce

OnceInv == past \cap {"lost", "crash"} = {} => OneIngests

LEMMA KeptIsNat == \A a \in Actors : Kept(a) \in Nat
BY IngestionAssumption DEF Kept

LEMMA SlotFacts ==
  /\ \A s : s \in Slots <=> \E a \in Actors : s \in SlotsOf(a)
  /\ \A a \in Actors : SlotsOf(a) \subseteq Slots
  /\ \A a : \A s \in SlotsOf(a) : s[1] = a
BY DEF Slots, SlotsOf

LEMMA IngestionInit == Init => WholeInv /\ OnceInv
BY IngestionAssumption
   DEF Init, WholeInv, OnceInv, OneIngests, Untouched, IngestedOnce, Deliverable, TypeOK, ReadyIsWhole,
       DeletedLeavesNothing, Troubles, Stored, Actors

-----------------------------------------------------------------------------
\* What an ingestion adds: one copy of some of its own chunks.
LEMMA AddsRows ==
  ASSUME copies \in [Slots -> Nat], NEW new, Add(new)
  PROVE  /\ copies' \in [Slots -> Nat]
         /\ \A s \in Slots : copies'[s] = IF s \in new THEN copies[s] + 1 ELSE copies[s]
BY DEF Add

\* Of the chunks that a failing ingestion had added, the first k are stored.
LEMMA FailStores ==
  ASSUME NEW a \in Actors, Fail(a)
  PROVE  \E k \in Nat : Add({a} \X (1..k))
<1>1. (IF step[a] = "parsing" THEN {0} ELSE 0..Kept(a)) \subseteq Nat
  BY KeptIsNat
<1>2. PICK k \in IF step[a] = "parsing" THEN {0} ELSE 0..Kept(a) : Add({a} \X (1..k))
  BY Zenon DEF Fail
<1> QED
  BY <1>1, <1>2, Zenon

LEMMA IngestKeepsWhole ==
  ASSUME WholeInv, NEW a \in Actors, Ingest(a)
  PROVE  WholeInv'
<1> USE IngestionAssumption DEF WholeInv, Deliverable, TypeOK, ReadyIsWhole, DeletedLeavesNothing, Ended, row
<1>1. CASE Orphaned(a)
  BY <1>1 DEF Orphaned
<1>2. CASE Begin(a)
  BY <1>2 DEF Begin, Stored
<1>3. CASE Chunked(a)
  <2>1. /\ UNCHANGED <<copies, job, tries, past>>
        /\ status' \in {"ready", "embedding"}
        /\ status' = "ready" => Kept(a) = 0 /\ count' = 0
        /\ count' \in {0, count} /\ upload' \in {upload, "over"}
    BY <1>3 DEF Chunked
  <2>2. /\ step' \in [Actors -> {"idle", "fetching", "begun", "parsing", "embedding", "answered"}]
        /\ step["worker"] = "idle" => step'["worker"] = "idle"
    BY <1>3 DEF Chunked, Actors
  <2>3. TypeOK' /\ Deliverable'
    BY <2>1, <2>2 DEF Stored
  <2>4. status' = "ready" => count' = Kept(a) /\ SlotsOf(a) = {}
    BY <2>1 DEF SlotsOf
  <2>5. ReadyIsWhole'
    BY <2>4
  <2> QED
    BY <2>1, <2>3, <2>5 DEF Stored
<1>4. CASE Save(a)
  <2>1. /\ copies' \in [Slots -> Nat]
        /\ \A s \in SlotsOf(a) : copies'[s] = copies[s] + 1 /\ copies[s] \in Nat
    BY <1>4, AddsRows, SlotFacts DEF Save
  <2>2. ReadyIsWhole'
    BY <1>4, <2>1 DEF Save
  <2> QED
    BY <1>4, <2>1, <2>2 DEF Save, Stored
<1>5. CASE Fail(a)
  <2>1. PICK k \in Nat : Add({a} \X (1..k))
    BY <1>5, FailStores
  <2>2. copies' \in [Slots -> Nat]
    BY <2>1, AddsRows
  <2> QED
    BY <1>5, <2>2 DEF Fail, Stored
<1>6. CASE DatabaseFails(a)
  BY <1>6 DEF DatabaseFails, Troubles
<1> QED
  BY <1>1, <1>2, <1>3, <1>4, <1>5, <1>6 DEF Ingest

LEMMA WholeStep ==
  ASSUME WholeInv, [Next]_vars
  PROVE  WholeInv'
<1> USE IngestionAssumption DEF WholeInv, Deliverable, TypeOK, ReadyIsWhole, DeletedLeavesNothing, row
<1>1. CASE Upload
  BY <1>1 DEF Upload, Stored
<1>2. CASE StoreBlob
  BY <1>2 DEF StoreBlob, Troubles
<1>3. CASE Enqueue
  <2>1. /\ upload = "sending" /\ job = "none" /\ tries = 0
        /\ upload' \in {"accepted", "ingesting"} /\ job' \in {"none", "queued"}
        /\ UNCHANGED <<row, tries>>
    BY <1>3 DEF Enqueue
  <2>2. /\ step' \in [Actors -> {"idle", "fetching", "begun", "parsing", "embedding", "answered"}]
        /\ past' \subseteq Troubles
    BY <1>3 DEF Enqueue, Troubles, Actors
  <2>3. TypeOK'
    BY <2>1, <2>2
  <2>4. Deliverable'
    BY <2>1
  <2> QED
    BY <2>1, <2>3, <2>4
<1>4. CASE RecordJob
  BY <1>4 DEF RecordJob
<1>5. CASE Ingest("route")
  BY <1>5, IngestKeepsWhole DEF Actors
<1>6. CASE Deliver
  BY <1>6 DEF Deliver, Actors
<1>7. CASE FetchBlob
  BY <1>7 DEF FetchBlob, Stored, Actors
<1>8. CASE Ingest("worker")
  BY <1>8, IngestKeepsWhole DEF Actors
<1>9. CASE Acknowledge
  BY <1>9 DEF Acknowledge, Actors
<1>10. CASE Delete
  BY <1>10 DEF Delete
<1>11. CASE JobTimeout
  BY <1>11 DEF JobTimeout, Troubles
<1>12. CASE WorkerStops
  BY <1>12 DEF WorkerStops, Troubles
<1>13. CASE RouteStops
  BY <1>13 DEF RouteStops, Troubles
<1>14. CASE UNCHANGED vars
  BY <1>14 DEF vars
<1> QED
  BY <1>1, <1>2, <1>3, <1>4, <1>5, <1>6, <1>7, <1>8, <1>9, <1>10, <1>11, <1>12, <1>13,
     <1>14 DEF Next, Route, Worker

LEMMA WholeInductive == Spec => []WholeInv
<1>1. WholeInv /\ [Next]_vars => WholeInv'
  BY WholeStep
<1> QED
  BY <1>1, IngestionInit, PTL DEF Spec

\* Every state of the document, the request and the job has its type.
THEOREM IngestionTyped == Spec => []TypeOK
BY WholeInductive, PTL DEF WholeInv

\* A document that is ready has every chunk that one of its ingesters keeps of its
\* text (ReadyIsWhole), whatever is lost, stopped, repeated or interleaved.
THEOREM WholeDocuments == Spec => []ReadyIsWhole
BY WholeInductive, PTL DEF WholeInv

\* A document that is deleted leaves no chunk behind (DeletedLeavesNothing),
\* whoever was ingesting it.
THEOREM NothingIsLeft == Spec => []DeletedLeavesNothing
BY WholeInductive, PTL DEF WholeInv

-----------------------------------------------------------------------------
LEMMA IngestsOnce ==
  ASSUME WholeInv, OnceInv, NEW a \in Actors, Ingest(a)
  PROVE  OnceInv'
<1> USE DEF OnceInv, OneIngests, Untouched, IngestedOnce, Ended, row
<1> SUFFICES ASSUME (past \cap {"lost", "crash"} = {})'
             PROVE  OneIngests'
  OBVIOUS
<1>1. past \cap {"lost", "crash"} = {}
  BY DEF Ingest, Orphaned, Begin, Chunked, Save, Fail, DatabaseFails
<1>2. /\ step \in [Actors -> {"idle", "fetching", "begun", "parsing", "embedding", "answered"}]
      /\ copies \in [Slots -> Nat]
      /\ a = "route" \/ a = "worker"
  BY DEF WholeInv, TypeOK, Actors
<1>3. Untouched
  BY <1>1, <1>2 DEF Ingest, Orphaned, Begin, Chunked, Save, Fail, DatabaseFails
<1>4. CASE Orphaned(a)
  BY <1>1, <1>2, <1>3, <1>4 DEF Orphaned, Actors
<1>5. CASE Begin(a)
  BY <1>1, <1>2, <1>3, <1>5 DEF Begin, Actors
<1>6. CASE Chunked(a)
  BY <1>1, <1>2, <1>3, <1>6 DEF Chunked, Actors
<1>7. CASE Save(a)
  <2>1. \A s \in Slots : copies'[s] <= 1 /\ (copies'[s] > 0 => s[1] = a)
    BY <1>2, <1>3, <1>7, AddsRows, SlotFacts DEF Save
  <2>2. IngestedOnce'
    BY <2>1
  <2> QED
    BY <1>1, <1>2, <1>3, <1>7, <2>2 DEF Save, Actors
<1>8. CASE Fail(a)
  <2>1. PICK k \in Nat : Add({a} \X (1..k))
    BY <1>8, FailStores
  <2>2. \A s \in Slots : copies'[s] <= 1 /\ (copies'[s] > 0 => s[1] = a)
    BY <1>2, <1>3, <2>1, AddsRows
  <2>3. IngestedOnce'
    BY <2>2
  <2> QED
    BY <1>1, <1>2, <1>3, <1>8, <2>3 DEF Fail, Actors
<1>9. CASE DatabaseFails(a)
  BY <1>1, <1>2, <1>3, <1>9 DEF DatabaseFails, Actors
<1> QED
  BY <1>4, <1>5, <1>6, <1>7, <1>8, <1>9 DEF Ingest

LEMMA OnceStep ==
  ASSUME WholeInv, OnceInv, [Next]_vars
  PROVE  OnceInv'
<1>1. CASE Ingest("route") \/ Ingest("worker")
  BY <1>1, IngestsOnce DEF Actors
<1> USE DEF OnceInv, OneIngests, Untouched, IngestedOnce, WholeInv, TypeOK, Actors, row
<1>2. CASE Upload
  BY <1>2 DEF Upload
<1>3. CASE StoreBlob
  BY <1>3 DEF StoreBlob
<1>4. CASE Enqueue
  BY <1>4 DEF Enqueue
<1>5. CASE RecordJob
  BY <1>5 DEF RecordJob
<1>6. CASE Deliver
  BY <1>6 DEF Deliver
<1>7. CASE FetchBlob
  BY <1>7 DEF FetchBlob
<1>8. CASE Acknowledge
  BY <1>8 DEF Acknowledge
<1>9. CASE Delete
  BY <1>9 DEF Delete
<1>10. CASE JobTimeout
  BY <1>10 DEF JobTimeout
<1>11. CASE WorkerStops \/ RouteStops
  BY <1>11 DEF WorkerStops, RouteStops
<1>12. CASE UNCHANGED vars
  BY <1>12 DEF vars
<1> QED
  BY <1>1, <1>2, <1>3, <1>4, <1>5, <1>6, <1>7, <1>8, <1>9, <1>10, <1>11, <1>12
     DEF Next, Route, Worker

\* As long as no answer of the queue is lost and nothing stops, no chunk is stored
\* twice, whatever times out, fails or is deleted.
THEOREM OnceWithoutLosses == Spec => []IngestedOnce
<1>1. WholeInv /\ OnceInv /\ [Next]_vars => (WholeInv /\ OnceInv)'
  BY WholeStep, OnceStep
<1>2. OnceInv => IngestedOnce
  BY DEF OnceInv, OneIngests, IngestedOnce
<1> QED
  BY <1>1, <1>2, IngestionInit, PTL DEF Spec

-----------------------------------------------------------------------------
(* Fusion.                                                                 *)

\* A strict order of all of S.
IsOrder(S, before) ==
  /\ \A x, y, z \in S : <<x, y>> \in before /\ <<y, z>> \in before => <<x, z>> \in before
  /\ \A x \in S : <<x, x>> \notin before
  /\ \A x, y \in S : x # y => <<x, y>> \in before \/ <<y, x>> \in before

LEMMA UpTo ==
  ASSUME NEW n \in Nat
  PROVE  IsFiniteSet(1..n) /\ Cardinality(1..n) = n
<1>1. 1 \in Int /\ n \in Int
  OBVIOUS
<1>2. IsFiniteSet(1..n) /\ Cardinality(1..n) = (IF 1 > n THEN 0 ELSE n - 1 + 1)
  BY <1>1, FS_Interval
<1> QED
  BY <1>2

\* Whoever is before another one has fewer before it, and as many numbers are
\* used as there are elements.
LEMMA PlacesTaken ==
  ASSUME NEW S, IsFiniteSet(S), NEW before, IsOrder(S, before)
  PROVE  /\ \A x, y \in S : <<x, y>> \in before =>
              Cardinality(Behind(x, S, before)) < Cardinality(Behind(y, S, before))
         /\ [x \in S |-> Cardinality(Behind(x, S, before)) + 1]
              \in Surjection(S, 1..Cardinality(S))
<1> DEFINE B(x) == Behind(x, S, before)
<1> DEFINE f == [x \in S |-> Cardinality(B(x)) + 1]
<1>1. \A x \in S : /\ IsFiniteSet(B(x)) /\ Cardinality(B(x)) \in Nat
                   /\ B(x) \subseteq S /\ x \notin B(x)
  <2> TAKE x \in S
  <2>1. B(x) \subseteq S /\ x \notin B(x)
    BY DEF Behind, IsOrder
  <2> HIDE DEF B
  <2> QED
    BY <2>1, FS_Subset, FS_CardinalityType
<1>2. ASSUME NEW x \in S, NEW y \in S, <<x, y>> \in before
      PROVE  Cardinality(B(x)) < Cardinality(B(y))
  <2>1. B(x) \subseteq B(y) /\ x \in B(y)
    BY <1>2 DEF Behind, IsOrder
  <2> HIDE DEF B
  <2>2. Cardinality(B(x)) <= Cardinality(B(y)) /\ Cardinality(B(y)) # Cardinality(B(x))
    BY <1>1, <2>1, FS_Subset
  <2> QED
    BY <1>1, <2>2
<1>3. Cardinality(S) \in Nat /\ IsFiniteSet(1..Cardinality(S))
      /\ Cardinality(1..Cardinality(S)) = Cardinality(S)
  BY FS_CardinalityType, UpTo
<1>4. \A x \in S : Cardinality(B(x)) < Cardinality(S)
  <2> TAKE x \in S
  <2> HIDE DEF B
  <2>1. B(x) # S
    BY <1>1
  <2>2. Cardinality(B(x)) <= Cardinality(S) /\ Cardinality(B(x)) # Cardinality(S)
    BY <1>1, <2>1, FS_Subset
  <2> QED
    BY <1>1, <1>3, <2>2
<1> HIDE DEF B
<1>5. f \in [S -> 1..Cardinality(S)]
  BY <1>1, <1>3, <1>4
<1>6. ASSUME NEW x \in S, NEW y \in S, f[x] = f[y]
      PROVE  x = y
  <2>1. Cardinality(B(x)) = Cardinality(B(y))
    BY <1>1, <1>6
  <2>2. <<x, y>> \notin before /\ <<y, x>> \notin before
    BY <1>1, <1>2, <2>1
  <2> QED
    BY <2>2 DEF IsOrder
<1> HIDE DEF f
<1>7. f \in Injection(S, 1..Cardinality(S))
  BY <1>5, <1>6 DEF Injection, IsInjective
<1>8. f \in Surjection(S, 1..Cardinality(S))
  BY <1>3, <1>7, FS_Injection
<1> QED
  BY <1>2, <1>8 DEF f, B

\* The sequence of a set in an order has each element at one place, and in order.
LEMMA OrderedFacts ==
  ASSUME NEW S, IsFiniteSet(S), NEW before, IsOrder(S, before)
  PROVE  /\ Ordered(S, before) \in [1..Cardinality(S) -> S]
         /\ \A x \in S : \E i \in 1..Cardinality(S) : Ordered(S, before)[i] = x
         /\ \A i, j \in 1..Cardinality(S) :
              <<Ordered(S, before)[i], Ordered(S, before)[j]>> \in before <=> i < j
<1> DEFINE n == Cardinality(S)
<1> DEFINE c == [x \in S |-> Cardinality(Behind(x, S, before))]
<1> DEFINE s == [i \in 1..n |-> CHOOSE x \in S : c[x] = i - 1]
<1>1. s = Ordered(S, before)
  BY DEF Ordered
<1>2. n \in Nat
  BY FS_CardinalityType
<1>3. \A x \in S : c[x] \in Nat
  <2> TAKE x \in S
  <2>1. Behind(x, S, before) \in SUBSET S
    BY DEF Behind
  <2>2. Cardinality(Behind(x, S, before)) \in Nat
    BY <2>1, FS_Subset, FS_CardinalityType
  <2> QED
    BY <2>2
<1>4. \A x, y \in S : <<x, y>> \in before => c[x] < c[y]
  BY PlacesTaken
<1>5. [x \in S |-> c[x] + 1] \in Surjection(S, 1..n)
  <2>1. [x \in S |-> c[x] + 1] = [x \in S |-> Cardinality(Behind(x, S, before)) + 1]
    OBVIOUS
  <2> HIDE DEF c
  <2> QED
    BY <2>1, PlacesTaken
<1> HIDE DEF c, n
<1>6. /\ \A x \in S : c[x] + 1 \in 1..n
      /\ \A i \in 1..n : \E x \in S : c[x] + 1 = i
  BY <1>5 DEF Surjection
<1>7. \A i \in 1..n : s[i] \in S /\ c[s[i]] = i - 1
  <2> TAKE i \in 1..n
  <2>1. PICK x \in S : c[x] + 1 = i
    BY <1>6
  <2>2. c[x] = i - 1
    BY <1>3, <2>1
  <2> QED
    BY <2>2
<1>8. \A x, y \in S : c[x] = c[y] => x = y
  <2> SUFFICES ASSUME NEW x \in S, NEW y \in S, c[x] = c[y], x # y
               PROVE  FALSE
    OBVIOUS
  <2>1. <<x, y>> \in before \/ <<y, x>> \in before
    BY DEF IsOrder
  <2> QED
    BY <1>3, <1>4, <2>1
<1>9. s \in [1..n -> S]
  BY <1>7
<1> HIDE DEF s
<1>10. \A x \in S : \E i \in 1..n : s[i] = x
  <2> TAKE x \in S
  <2>1. c[x] + 1 \in 1..n /\ c[s[c[x] + 1]] = c[x] /\ s[c[x] + 1] \in S
    BY <1>2, <1>3, <1>6, <1>7
  <2> QED
    BY <1>8, <2>1
<1>11. ASSUME NEW i \in 1..n, NEW j \in 1..n
       PROVE  <<s[i], s[j]>> \in before <=> i < j
  <2>1. /\ s[i] \in S /\ s[j] \in S /\ c[s[i]] = i - 1 /\ c[s[j]] = j - 1
        /\ i \in Int /\ j \in Int
    BY <1>2, <1>7, <1>11
  <2>2. <<s[i], s[j]>> \in before => i < j
    BY <1>4, <2>1
  <2>3. <<s[j], s[i]>> \in before => j < i
    BY <1>4, <2>1
  <2>4. i < j => s[i] # s[j]
    BY <2>1
  <2> QED
    BY <2>1, <2>2, <2>3, <2>4 DEF IsOrder
<1> QED
  BY <1>1, <1>9, <1>10, <1>11 DEF n

-----------------------------------------------------------------------------
\* A smaller place weighs more: of two weights, each is what the other places
\* make, times the other one's factor.
LEMMA EarlierWeighsMore ==
  ASSUME NEW p \in Places, NEW q \in Places, p < q
  PROVE  Weight(p) \in Nat /\ Weight(q) \in Nat /\ Weight(q) < Weight(p)
<1> DEFINE f == [i \in Places |-> RankOffset + i]
<1> DEFINE R == (Places \ {p}) \ {q}
<1>1. Cardinality(Candidates) \in Nat /\ RankOffset \in Nat
  BY FusionAssumption, FS_CardinalityType
<1>2. IsFiniteSet(Places) /\ \A i \in Places : i \in Nat \ {0} /\ f[i] \in Nat \ {0}
  BY <1>1, UpTo DEF Places
<1>3. f[p] < f[q] /\ p # q
  BY <1>1, <1>2
<1>4. /\ IsFiniteSet(Places \ {p}) /\ IsFiniteSet(Places \ {q}) /\ IsFiniteSet(R)
      /\ R = (Places \ {q}) \ {p}
  BY <1>2, FS_Subset
<1>5. Weight(p) = Product(f, Places \ {p}) /\ Weight(q) = Product(f, Places \ {q})
  BY DEF Weight
<1> HIDE DEF f
<1>6. Product(f, Places \ {p}) = f[q] * Product(f, (Places \ {p}) \ {q})
  <2>1. q \in Places \ {p} /\ \A i \in Places \ {p} : f[i] \in Nat \ {0}
    BY <1>2, <1>3
  <2> QED
    BY <1>4, <2>1, ProductRemove
<1>7. Product(f, Places \ {q}) = f[p] * Product(f, (Places \ {q}) \ {p})
  <2>1. p \in Places \ {q} /\ \A i \in Places \ {q} : f[i] \in Nat \ {0}
    BY <1>2, <1>3
  <2> QED
    BY <1>4, <2>1, ProductRemove
<1>8. \A i \in R : f[i] \in Nat \ {0}
  BY <1>2
<1>9. Weight(p) = f[q] * Product(f, R) /\ Weight(q) = f[p] * Product(f, R)
  BY <1>4, <1>5, <1>6, <1>7
<1> HIDE DEF R
<1>10. Product(f, R) \in Nat \ {0}
  BY <1>4, <1>8, ProductIsPositive
<1>11. \A a, b \in Nat, w \in Nat \ {0} : a < b => /\ a * w \in Nat /\ b * w \in Nat
                                                   /\ a * w < b * w
  OBVIOUS
<1> QED
  BY <1>2, <1>3, <1>9, <1>10, <1>11

LEMMA WeightIsPositive ==
  ASSUME NEW p \in Places
  PROVE  Weight(p) \in Nat \ {0}
<1> DEFINE f == [i \in Places |-> RankOffset + i]
<1>1. Cardinality(Candidates) \in Nat /\ RankOffset \in Nat
  BY FusionAssumption, FS_CardinalityType
<1>2. IsFiniteSet(Places) /\ \A i \in Places : i \in Nat \ {0} /\ f[i] \in Nat \ {0}
  BY <1>1, UpTo DEF Places
<1>3. IsFiniteSet(Places \ {p}) /\ \A i \in Places \ {p} : f[i] \in Nat \ {0}
  BY <1>2, FS_Subset
<1>4. Weight(p) = Product(f, Places \ {p})
  BY DEF Weight
<1> HIDE DEF f
<1> QED
  BY <1>3, <1>4, ProductIsPositive

\* A ranking has a place for each chunk that it lists, and one only.
LEMMA RankingPlaces ==
  ASSUME NEW r \in Rankings
  PROVE  /\ Len(r) \in Nat /\ r \in [1..Len(r) -> Candidates] /\ 1..Len(r) \subseteq Places
         /\ \A c : Listed(c, r) => Place(c, r) \in 1..Len(r) /\ r[Place(c, r)] = c
         /\ \A i \in 1..Len(r) : Listed(r[i], r) /\ Place(r[i], r) = i
<1>1. PICK m \in 0..Cardinality(Candidates) : r \in [1..m -> Candidates]
  BY DEF Rankings, SeqOf
<1>2. IsInjective(r)
  BY DEF Rankings
<1>3. Cardinality(Candidates) \in Nat /\ m \in Nat
  BY <1>1, FusionAssumption, FS_CardinalityType
<1>4. Len(r) = m /\ DOMAIN r = 1..m
  BY <1>1, <1>3
<1>5. 1..m \subseteq Places
  BY <1>1, <1>3 DEF Places
<1>6. \A c : Listed(c, r) => Place(c, r) \in 1..m /\ r[Place(c, r)] = c
  BY <1>4 DEF Listed, Place
<1>7. \A i \in 1..m : Listed(r[i], r)
  BY <1>4 DEF Listed
<1>8. \A i \in 1..m : Place(r[i], r) = i
  <2> TAKE i \in 1..m
  <2>1. Place(r[i], r) \in 1..m /\ r[Place(r[i], r)] = r[i]
    BY <1>6, <1>7
  <2> QED
    BY <1>2, <1>4, <2>1 DEF IsInjective
<1> QED
  BY <1>1, <1>3, <1>4, <1>5, <1>6, <1>7, <1>8

\* What the first n of a ranking are.
LEMMA CutPlaces ==
  ASSUME NEW s, NEW l \in Nat, s = [i \in 1..l |-> s[i]], NEW n \in Nat, NEW m \in Nat,
         n < l => m = n, n >= l => m = l
  PROVE  DOMAIN Cut(s, n) = 1..m /\ \A i \in 1..m : Cut(s, n)[i] = s[i]
<1> DEFINE S == {s[i] : i \in 1..l}
<1>1. s \in [1..l -> S]
  OBVIOUS
<1> HIDE DEF S
<1>2. Len(s) = l /\ s \in Seq(S)
  BY <1>1
<1>3. m <= l /\ Cut(s, n) = SubSeq(s, 1, m)
  BY <1>2 DEF Cut
<1>4. DOMAIN SubSeq(s, 1, m) = 1..m /\ \A i \in 1..m : SubSeq(s, 1, m)[i] = s[i]
  BY <1>2, <1>3
<1> QED
  BY <1>3, <1>4

\* What one list gives a chunk.
Given(r, c) == IF Listed(c, r) THEN Weight(Place(c, r)) ELSE 0

LEMMA SumOfTwo ==
  ASSUME NEW f \in [1..2 -> Nat]
  PROVE  Sum(f, 1..2) = f[1] + f[2]
<1>1. /\ IsFiniteSet(1..2) /\ IsFiniteSet({2}) /\ IsFiniteSet({})
      /\ (1..2) \ {1} = {2} /\ {2} \ {2} = {}
  <2>1. 2 \in Nat /\ (1..2) \ {1} = {2} /\ {2} \ {2} = {}
    OBVIOUS
  <2> QED
    BY <2>1, UpTo, FS_Singleton, FS_EmptySet, Zenon
<1>2. \A x \in 1..2 : f[x] \in Int
  OBVIOUS
<1>3. 1 \in 1..2 /\ 2 \in {2} /\ \A x \in {2} : f[x] \in Int
  BY <1>2
<1>4. Sum(f, 1..2) = f[1] + Sum(f, (1..2) \ {1})
  BY <1>1, <1>2, <1>3, SumRemove
<1>5. Sum(f, {2}) = f[2] + Sum(f, {2} \ {2})
  BY <1>1, <1>3, SumRemove
<1>6. Sum(f, {}) = 0
  BY <1>1, SumUnfolds
<1>7. f[2] + 0 = f[2]
  BY <1>2
<1> QED
  BY <1>1, <1>4, <1>5, <1>6, <1>7

LEMMA GivenFacts ==
  ASSUME NEW r \in Rankings, NEW c
  PROVE  Given(r, c) \in Nat /\ (Listed(c, r) => Given(r, c) > 0)
<1>1. Listed(c, r) => Place(c, r) \in Places
  BY RankingPlaces
<1> QED
  BY <1>1, WeightIsPositive DEF Given

LEMMA ScoreOfTwo ==
  ASSUME NEW a \in Rankings, NEW b \in Rankings, NEW c
  PROVE  Score(<<a, b>>, c) = Given(a, c) + Given(b, c)
<1> DEFINE rankings == <<a, b>>
<1> DEFINE f == [i \in DOMAIN rankings |->
                   IF Listed(c, rankings[i]) THEN Weight(Place(c, rankings[i])) ELSE 0]
<1>1. DOMAIN rankings = 1..2 /\ rankings[1] = a /\ rankings[2] = b
  OBVIOUS
<1>2. Score(rankings, c) = Sum(f, DOMAIN rankings)
  BY DEF Score
<1> HIDE DEF rankings
<1>3. DOMAIN f = 1..2 /\ f[1] = Given(a, c) /\ f[2] = Given(b, c)
  BY <1>1 DEF Given
<1>4. Given(a, c) \in Nat /\ Given(b, c) \in Nat
  BY GivenFacts
<1>5. f \in [1..2 -> Nat]
  <2>1. \A i \in 1..2 : f[i] \in Nat
    <3> TAKE i \in 1..2
    <3>1. i = 1 \/ i = 2
      OBVIOUS
    <3> HIDE DEF f
    <3> QED
      BY <1>3, <1>4, <3>1
  <2>2. f = [i \in 1..2 |-> f[i]]
    BY <1>1
  <2> HIDE DEF f
  <2> QED
    BY <2>1, <2>2
<1> HIDE DEF f
<1> QED
  BY <1>1, <1>2, <1>3, <1>5, SumOfTwo DEF rankings

\* A list gives more to the chunk that is ahead in it.
LEMMA AheadGivesMore ==
  ASSUME NEW r \in Rankings, NEW c, NEW d, Listed(d, r) => Ahead(c, d, r)
  PROVE  /\ Given(r, d) <= Given(r, c)
         /\ Listed(d, r) => Given(r, d) < Given(r, c)
<1>1. CASE Listed(d, r)
  <2>1. /\ Place(c, r) \in Places /\ Place(d, r) \in Places /\ Place(c, r) < Place(d, r)
        /\ Listed(c, r)
    BY <1>1, RankingPlaces DEF Ahead
  <2>2. Weight(Place(c, r)) \in Nat /\ Weight(Place(d, r)) \in Nat
        /\ Weight(Place(d, r)) < Weight(Place(c, r))
    BY <2>1, EarlierWeighsMore
  <2> QED
    BY <1>1, <2>1, <2>2 DEF Given
<1>2. CASE ~Listed(d, r)
  BY <1>2, GivenFacts DEF Given
<1> QED
  BY <1>1, <1>2

LEMMA FlattenTwo ==
  ASSUME NEW a, NEW b
  PROVE  FlattenSeq(<<a, b>>) = a \o b
<1> DEFINE s == <<a, b>>
<1> DEFINE F(f) == f = [i \in 1..Len(s) |-> IF i = 1 THEN s[i] ELSE f[i - 1] \o s[i]]
<1>0. 1 \in 1..2 /\ 2 \in 1..2 /\ 2 # 1 /\ 2 - 1 = 1
  OBVIOUS
<1>1. Len(s) = 2 /\ s[1] = a /\ s[2] = b
  OBVIOUS
<1>2. FlattenSeq(s) = (CHOOSE f : F(f))[Len(s)]
  BY <1>1 DEF FlattenSeq
<1> HIDE DEF s
<1>3. F([i \in 1..2 |-> IF i = 1 THEN a ELSE a \o b])
  <2> DEFINE g == [i \in 1..2 |-> IF i = 1 THEN a ELSE a \o b]
  <2>1. g[1] = a /\ g[2] = a \o b
    OBVIOUS
  <2> DEFINE h == [i \in 1..Len(s) |-> IF i = 1 THEN s[i] ELSE g[i - 1] \o s[i]]
  <2>2. h = [i \in 1..2 |-> IF i = 1 THEN s[i] ELSE g[i - 1] \o s[i]]
    BY <1>1
  <2>3. \A i \in 1..2 : h[i] = g[i]
    <3> TAKE i \in 1..2
    <3>1. CASE i = 1
      BY <1>1, <2>1, <2>2, <3>1
    <3>2. CASE i = 2
      <4>1. h[2] = g[2 - 1] \o s[2]
        BY <1>0, <2>2, Zenon
      <4> QED
        BY <1>0, <1>1, <2>1, <3>2, <4>1
    <3> QED
      BY <3>1, <3>2
  <2>4. DOMAIN g = 1..2 /\ DOMAIN h = 1..2
    BY <2>2
  <2> HIDE DEF h
  <2>5. h = g
    BY <2>2, <2>3, <2>4
  <2> QED
    BY <2>5 DEF h
<1>4. ASSUME NEW f, F(f)
      PROVE  f[2] = a \o b
  <2>1. f = [i \in 1..2 |-> IF i = 1 THEN s[i] ELSE f[i - 1] \o s[i]]
    BY <1>1, <1>4
  <2>2. f[1] = s[1] /\ f[2] = f[2 - 1] \o s[2]
    BY <1>0, <2>1, Zenon
  <2> QED
    BY <1>0, <1>1, <2>2
<1> HIDE DEF F
<1>5. F(CHOOSE f : F(f))
  BY <1>3
<1> QED
  BY <1>1, <1>2, <1>4, <1>5 DEF s

LEMMA Least ==
  ASSUME NEW I, I \subseteq Nat, I # {}
  PROVE  Min(I) \in I /\ \A i \in I : Min(I) <= i
<1>1. IsWellFoundedOn(OpToRel(<, Nat), Nat)
  BY NatLessThanWellFounded
<1>2. PICK m \in I : \A i \in I : <<i, m>> \notin OpToRel(<, Nat)
  BY <1>1, WFMin
<1>3. \A i \in I : m <= i
  <2> TAKE i \in I
  <2>1. OpToRel(<, Nat) = {p \in Nat \X Nat : p[1] < p[2]}
    BY DEF OpToRel
  <2>2. <<i, m>> \notin {p \in Nat \X Nat : p[1] < p[2]}
    BY <1>2, <2>1
  <2>3. i \in Nat /\ m \in Nat
    BY <1>2
  <2> QED
    BY <2>2, <2>3
<1>4. \E x \in I : \A y \in I : x <= y
  BY <1>3
<1> QED
  BY <1>4 DEF Min

\* The order of the hits of two rankings, as Hits has it.
Fused(a, b) == {c \in Candidates : Listed(c, a \o b)}
FirstAt(a, b, c) == SelectInSeq(a \o b, LAMBDA x : x = c)
Better(a, b) ==
  {p \in Fused(a, b) \X Fused(a, b) :
     \/ Score(<<a, b>>, p[1]) > Score(<<a, b>>, p[2])
     \/ Score(<<a, b>>, p[1]) = Score(<<a, b>>, p[2]) /\ FirstAt(a, b, p[1]) < FirstAt(a, b, p[2])}

LEMMA FusedFacts ==
  ASSUME NEW a \in Rankings, NEW b \in Rankings
  PROVE  /\ IsFiniteSet(Fused(a, b))
         /\ Cardinality(Fused(a, b)) \in Nat
         /\ \A c \in Fused(a, b) : /\ Listed(c, a) \/ Listed(c, b)
                                   /\ Score(<<a, b>>, c) \in Nat
                                   /\ FirstAt(a, b, c) \in Nat
                                   /\ (a \o b)[FirstAt(a, b, c)] = c
         /\ \A c \in Candidates : Listed(c, a) \/ Listed(c, b) => c \in Fused(a, b)
<1>1. /\ Len(a) \in Nat /\ a \in [1..Len(a) -> Candidates]
      /\ Len(b) \in Nat /\ b \in [1..Len(b) -> Candidates]
  BY RankingPlaces
<1> DEFINE l == a \o b
<1>2. /\ a \in Seq(Candidates) /\ b \in Seq(Candidates)
      /\ DOMAIN a = 1..Len(a) /\ DOMAIN b = 1..Len(b)
  BY <1>1
<1>3. /\ Len(l) = Len(a) + Len(b) /\ DOMAIN l = 1..Len(l)
      /\ \A i \in 1..Len(l) : l[i] = IF i <= Len(a) THEN a[i] ELSE b[i - Len(a)]
  BY <1>1, <1>2
<1> HIDE DEF l
<1>4. Fused(a, b) = {c \in Candidates : Listed(c, l)}
  BY DEF Fused, l
<1>5. IsFiniteSet(Fused(a, b)) /\ Cardinality(Fused(a, b)) \in Nat
  <2>1. Fused(a, b) \in SUBSET Candidates
    BY <1>4
  <2> QED
    BY <2>1, FusionAssumption, FS_Subset, FS_CardinalityType
<1>6. ASSUME NEW c \in Fused(a, b)
      PROVE  Listed(c, a) \/ Listed(c, b)
  <2>1. PICK i \in 1..Len(l) : l[i] = c
    BY <1>3, <1>4, <1>6 DEF Listed
  <2>2. CASE i <= Len(a)
    <3>1. i \in 1..Len(a) /\ a[i] = c
      BY <1>1, <1>3, <2>1, <2>2
    <3> QED
      BY <1>2, <3>1 DEF Listed
  <2>3. CASE ~(i <= Len(a))
    <3>1. i - Len(a) \in 1..Len(b) /\ b[i - Len(a)] = c
      BY <1>1, <1>3, <2>1, <2>3
    <3> QED
      BY <1>2, <3>1 DEF Listed
  <2> QED
    BY <2>2, <2>3
<1>7. ASSUME NEW c \in Fused(a, b)
      PROVE  FirstAt(a, b, c) \in Nat /\ l[FirstAt(a, b, c)] = c
  <2> DEFINE I == {i \in 1..Len(l) : l[i] = c}
  <2>1. I # {} /\ I \subseteq Nat
    BY <1>1, <1>3, <1>4, <1>7 DEF Listed
  <2>2. FirstAt(a, b, c) = Min(I)
    BY <2>1 DEF FirstAt, SelectInSeq, l
  <2>3. Min(I) \in I
    <3> HIDE DEF I
    <3> QED
      BY <2>1, Least
  <2> QED
    BY <2>1, <2>2, <2>3
<1>8. ASSUME NEW c \in Candidates, Listed(c, a) \/ Listed(c, b)
      PROVE  c \in Fused(a, b)
  <2>1. CASE Listed(c, a)
    <3>1. PICK i \in 1..Len(a) : a[i] = c
      BY <1>2, <2>1 DEF Listed
    <3>2. i \in 1..Len(l) /\ l[i] = c
      BY <1>1, <1>3, <3>1
    <3> QED
      BY <1>3, <1>4, <3>2 DEF Listed
  <2>2. CASE Listed(c, b)
    <3>1. PICK i \in 1..Len(b) : b[i] = c
      BY <1>2, <2>2 DEF Listed
    <3>2. Len(a) + i \in 1..Len(l) /\ l[Len(a) + i] = c
      BY <1>1, <1>3, <3>1
    <3> QED
      BY <1>3, <1>4, <3>2 DEF Listed
  <2> QED
    BY <1>8, <2>1, <2>2
<1>9. \A c : Score(<<a, b>>, c) \in Nat
  <2> TAKE c
  <2>1. Given(a, c) \in Nat /\ Given(b, c) \in Nat
    BY GivenFacts
  <2> QED
    BY <2>1, ScoreOfTwo
<1> QED
  BY <1>5, <1>6, <1>7, <1>8, <1>9 DEF l

LEMMA BetterIsAnOrder ==
  ASSUME NEW a \in Rankings, NEW b \in Rankings
  PROVE  IsOrder(Fused(a, b), Better(a, b))
<1> DEFINE F == Fused(a, b)
<1> DEFINE s(c) == Score(<<a, b>>, c)
<1> DEFINE f(c) == FirstAt(a, b, c)
<1>1. \A c \in F : s(c) \in Nat /\ f(c) \in Nat /\ (a \o b)[f(c)] = c
  BY FusedFacts
<1>2. \A c, d \in F : <<c, d>> \in Better(a, b) <=>
                         s(c) > s(d) \/ (s(c) = s(d) /\ f(c) < f(d))
  BY DEF Better
<1> HIDE DEF F, s, f
<1>3. \A c, d \in F : f(c) = f(d) => c = d
  BY <1>1
<1>4. \A x, y, z \in F :
         <<x, y>> \in Better(a, b) /\ <<y, z>> \in Better(a, b) => <<x, z>> \in Better(a, b)
  BY <1>1, <1>2
<1>5. \A x \in F : <<x, x>> \notin Better(a, b)
  BY <1>1, <1>2
<1>6. \A x, y \in F : x # y => <<x, y>> \in Better(a, b) \/ <<y, x>> \in Better(a, b)
  BY <1>1, <1>2, <1>3
<1> QED
  BY <1>4, <1>5, <1>6 DEF IsOrder, F

\* A chunk that is ahead of a hit in every list the hit is in is a hit before it.
LEMMA HitsKeepOrder ==
  ASSUME NEW a \in Rankings, NEW b \in Rankings, NEW k \in Nat,
         NEW d \in Range(Hits(<<a, b>>, k)), NEW c \in Candidates,
         Listed(d, a) => Ahead(c, d, a), Listed(d, b) => Ahead(c, d, b)
  PROVE  Ahead(c, d, Hits(<<a, b>>, k))
<1> DEFINE F == Fused(a, b)
<1> DEFINE n == Cardinality(F)
<1> DEFINE s == Ordered(F, Better(a, b))
<1> DEFINE m == IF k < n THEN k ELSE n
<1>1. Hits(<<a, b>>, k) = Cut(s, k)
  <2>1. FlattenSeq(<<a, b>>) = a \o b
    BY FlattenTwo
  <2> DEFINE score == [x \in F |-> Score(<<a, b>>, x)]
  <2> DEFINE first == [x \in F |-> FirstAt(a, b, x)]
  <2>2. {p \in F \X F : \/ score[p[1]] > score[p[2]]
                        \/ score[p[1]] = score[p[2]] /\ first[p[1]] < first[p[2]]}
          = Better(a, b)
    BY DEF Better
  <2> QED
    BY <2>1, <2>2 DEF Hits, Fused, FirstAt
<1>2. IsFiniteSet(F) /\ n \in Nat
  BY FusedFacts
<1>3. IsOrder(F, Better(a, b))
  BY BetterIsAnOrder
<1> HIDE DEF F
<1>4. /\ s \in [1..n -> F]
      /\ \A x \in F : \E i \in 1..n : s[i] = x
      /\ \A i, j \in 1..n : <<s[i], s[j]>> \in Better(a, b) <=> i < j
  BY <1>2, <1>3, OrderedFacts
<1> HIDE DEF s, n
<1>5. m \in Nat /\ m <= n
  BY <1>2
<1>6. DOMAIN Cut(s, k) = 1..m /\ \A i \in 1..m : Cut(s, k)[i] = s[i]
  <2>1. s = [i \in 1..n |-> s[i]]
    BY <1>4
  <2>2. (k < n => m = k) /\ (k >= n => m = n)
    BY <1>2
  <2> HIDE DEF m
  <2> QED
    BY <1>2, <1>5, <2>1, <2>2, CutPlaces
<1> HIDE DEF m
<1>7. PICK j \in 1..m : s[j] = d
  BY <1>1, <1>6 DEF Range
<1>8. j \in 1..n /\ d \in F
  BY <1>2, <1>4, <1>5, <1>7
<1>9. c \in F /\ Score(<<a, b>>, d) < Score(<<a, b>>, c)
  <2>1. Listed(d, a) \/ Listed(d, b)
    BY <1>8, FusedFacts DEF F
  <2>2. c \in F
    BY <2>1, FusedFacts DEF F, Ahead
  <2>3. /\ Given(a, c) \in Nat /\ Given(a, d) \in Nat /\ Given(b, c) \in Nat /\ Given(b, d) \in Nat
    BY GivenFacts
  <2>4. /\ Given(a, d) <= Given(a, c) /\ Given(b, d) <= Given(b, c)
        /\ Given(a, d) < Given(a, c) \/ Given(b, d) < Given(b, c)
    BY <2>1, AheadGivesMore
  <2> QED
    BY <2>2, <2>3, <2>4, ScoreOfTwo
<1>10. <<c, d>> \in Better(a, b)
  <2>1. Score(<<a, b>>, c) > Score(<<a, b>>, d)
    BY <1>8, <1>9, FusedFacts DEF F
  <2> QED
    BY <1>8, <1>9, <2>1 DEF Better, F
<1>11. PICK i \in 1..n : s[i] = c
  BY <1>4, <1>9
<1>12. i < j
  BY <1>4, <1>7, <1>8, <1>10, <1>11
<1>13. i \in 1..m
  BY <1>2, <1>5, <1>7, <1>11, <1>12
<1>14. \A x, y \in 1..m : s[x] = s[y] => x = y
  <2> SUFFICES ASSUME NEW x \in 1..m, NEW y \in 1..m, s[x] = s[y] PROVE x = y
    OBVIOUS
  <2>1. x \in 1..n /\ y \in 1..n /\ x \in Int /\ y \in Int
    BY <1>2, <1>5
  <2>2. <<s[x], s[y]>> \in Better(a, b) <=> x < y
    BY <1>4, <2>1
  <2>3. <<s[y], s[x]>> \in Better(a, b) <=> y < x
    BY <1>4, <2>1
  <2>4. <<s[x], s[x]>> \in Better(a, b) <=> x < x
    BY <1>4, <2>1
  <2> QED
    BY <2>1, <2>2, <2>3, <2>4
<1> DEFINE h == Cut(s, k)
<1>15. DOMAIN h = 1..m /\ h[i] = c /\ h[j] = d /\ \A x, y \in 1..m : h[x] = h[y] => x = y
  BY <1>6, <1>7, <1>11, <1>13, <1>14
<1> HIDE DEF h
<1>16. Listed(c, h) /\ Listed(d, h) /\ Place(c, h) = i /\ Place(d, h) = j
  <2>1. Listed(c, h) /\ Listed(d, h)
    BY <1>7, <1>13, <1>15 DEF Listed
  <2>2. Place(c, h) \in 1..m /\ h[Place(c, h)] = c /\ Place(d, h) \in 1..m /\ h[Place(d, h)] = d
    BY <1>15, <2>1 DEF Listed, Place
  <2> QED
    BY <1>7, <1>13, <1>15, <2>1, <2>2
<1> QED
  BY <1>1, <1>12, <1>16 DEF Ahead, h

\* What is left of a ranking is one, with the same chunks ahead of those in it.
LEMMA CutRanking ==
  ASSUME NEW r \in Rankings, NEW n \in Nat
  PROVE  /\ Cut(r, n) \in Rankings
         /\ \A c, d : /\ Listed(d, Cut(r, n)) => Listed(d, r)
                      /\ Listed(d, Cut(r, n)) /\ Ahead(c, d, r) => Ahead(c, d, Cut(r, n))
<1>1. PICK l \in Nat : l = Len(r) /\ r \in [1..l -> Candidates] /\ 1..l \subseteq Places
  BY RankingPlaces
<1> DEFINE m == IF n < l THEN n ELSE l
<1> DEFINE h == Cut(r, n)
<1>2. m \in Nat /\ m <= l
  BY <1>1
<1>3. DOMAIN h = 1..m /\ \A i \in 1..m : h[i] = r[i]
  <2>1. (n < l => m = n) /\ (n >= l => m = l)
    OBVIOUS
  <2>2. r = [i \in 1..l |-> r[i]]
    BY <1>1
  <2> HIDE DEF m
  <2> QED
    BY <1>2, <2>1, <2>2, CutPlaces
<1>4. \A i \in 1..l : Listed(r[i], r) /\ Place(r[i], r) = i
  BY <1>1, RankingPlaces
<1>5. \A c : Listed(c, r) => Place(c, r) \in 1..l /\ r[Place(c, r)] = c
  BY <1>1, RankingPlaces
<1>6. h \in Seq(Candidates)
  BY <1>1 DEF Cut
<1> HIDE DEF h, m
<1>7. \A i \in 1..m : i \in 1..l
  BY <1>1, <1>2
<1>8. h \in Rankings
  <2>1. h \in [1..m -> Candidates]
    BY <1>1, <1>3, <1>6, <1>7
  <2>2. IsInjective(h)
    BY <1>3, <1>4, <1>7 DEF IsInjective
  <2>3. m \in 0..Cardinality(Candidates)
    <3>1. Cardinality(Candidates) \in Nat
      BY FusionAssumption, FS_CardinalityType
    <3>2. l <= Cardinality(Candidates)
      BY <1>1, <3>1 DEF Places
    <3> QED
      BY <1>1, <1>2, <3>1, <3>2
  <2> QED
    BY <2>1, <2>2, <2>3 DEF Rankings, SeqOf
<1>9. ASSUME NEW d, Listed(d, h)
      PROVE  /\ Listed(d, r) /\ Place(d, r) \in 1..m /\ Place(d, h) = Place(d, r)
  <2>1. Place(d, h) \in 1..m /\ h[Place(d, h)] = d
    BY <1>3, <1>9 DEF Listed, Place
  <2> QED
    BY <1>3, <1>4, <1>7, <2>1
<1>10. ASSUME NEW c, NEW d, Listed(d, h), Ahead(c, d, r)
       PROVE  Ahead(c, d, h)
  <2>1. Place(c, r) \in 1..l /\ r[Place(c, r)] = c /\ Place(c, r) < Place(d, r)
    BY <1>5, <1>10 DEF Ahead
  <2>2. Place(c, r) \in 1..m
    BY <1>1, <1>2, <1>9, <1>10, <2>1
  <2>3. Listed(c, h)
    BY <1>3, <2>1, <2>2 DEF Listed
  <2>4. Place(c, h) = Place(c, r) /\ Place(d, h) = Place(d, r)
    BY <1>9, <1>10, <2>3
  <2> QED
    BY <1>10, <2>1, <2>3, <2>4 DEF Ahead
<1> QED
  BY <1>8, <1>9, <1>10 DEF h

Queries == [near : Rankings, found : Rankings, embedded : BOOLEAN, top_k : Nat]

LEMMA AnswersKeepOrder ==
  ASSUME NEW q \in Queries, NEW hits \in Answers(q), NEW d \in Range(hits), NEW c \in Candidates,
         Dominates(c, d, {q.found} \cup (IF q.embedded THEN {q.near} ELSE {}))
  PROVE  Ahead(c, d, hits)
<1>1. q.near \in Rankings /\ q.found \in Rankings /\ q.embedded \in BOOLEAN /\ q.top_k \in Nat
  BY DEF Queries
<1>2. <<>> \in Rankings /\ ~Listed(d, <<>>)
  <2>1. <<>> \in [1..0 -> Candidates] /\ IsInjective(<<>>)
    BY DEF IsInjective
  <2>2. 0 \in 0..Cardinality(Candidates)
    BY FusionAssumption, FS_CardinalityType
  <2> QED
    BY <2>1, <2>2 DEF Rankings, SeqOf, Listed
<1>3. /\ Listed(d, q.found) => Ahead(c, d, q.found)
      /\ q.embedded /\ Listed(d, q.near) => Ahead(c, d, q.near)
  BY DEF Dominates
<1>4. CASE hits = PythonHybrid(q.near, q.found, q.embedded, q.top_k)
  <2> DEFINE near == IF q.embedded THEN q.near ELSE <<>>
  <2>1. near \in Rankings /\ (Listed(d, near) => Ahead(c, d, near))
    BY <1>1, <1>2, <1>3
  <2>2. hits = Hits(<<near, q.found>>, q.top_k)
    BY <1>4 DEF PythonHybrid
  <2> HIDE DEF near
  <2> QED
    BY <1>1, <1>3, <2>1, <2>2, HitsKeepOrder
<1>5. CASE q.embedded /\ hits = PgHybrid(q.near, q.found, q.top_k)
  <2> DEFINE n == 2 * q.top_k
  <2>1. hits = Hits(<<Cut(q.near, n), Cut(q.found, n)>>, q.top_k)
    BY <1>5 DEF PgHybrid
  <2>2. n \in Nat
    BY <1>1
  <2> HIDE DEF n
  <2>3. /\ Cut(q.near, n) \in Rankings
        /\ Listed(d, Cut(q.near, n)) => Ahead(c, d, Cut(q.near, n))
    BY <1>1, <1>3, <1>5, <2>2, CutRanking
  <2>4. /\ Cut(q.found, n) \in Rankings
        /\ Listed(d, Cut(q.found, n)) => Ahead(c, d, Cut(q.found, n))
    BY <1>1, <1>3, <2>2, CutRanking
  <2> QED
    BY <1>1, <2>1, <2>3, <2>4, HitsKeepOrder
<1> QED
  BY <1>4, <1>5 DEF Answers

\* On either database, and wherever the lists are cut before they are fused, no
\* chunk that is ahead of a hit in every list is missed or comes after it
\* (NoBetterChunkIsMissed): for any number of chunks, any k and any top_k.
THEOREM HitsAreTheBest == FusionSpec => []NoBetterChunkIsMissed
<1> DEFINE Inv == query = NoQuery \/ query \in Queries
<1>1. FusionInit => Inv
  BY DEF FusionInit
<1>2. Inv /\ [Search]_query => Inv'
  <2>1. 0..MaxTopK \subseteq Nat
    BY FusionAssumption
  <2> QED
    BY <2>1 DEF Search, Queries
<1>3. Inv => NoBetterChunkIsMissed
  BY AnswersKeepOrder DEF NoBetterChunkIsMissed
<1> QED
  BY <1>1, <1>2, <1>3, PTL DEF FusionSpec

-----------------------------------------------------------------------------
(* Recursion and sequences.                                                *)

\* What holds of 0, and of the next number with each, holds up to n.
LEMMA UpToInduction ==
  ASSUME NEW n \in Nat, NEW T, 0 \in T, \A i \in 0..n : i < n /\ i \in T => i + 1 \in T
  PROVE  \A i \in 0..n : i \in T
<1> DEFINE I == {i \in 0..n : i \notin T}
<1> SUFFICES ASSUME I # {} PROVE FALSE
  OBVIOUS
<1>1. I \subseteq Nat
  OBVIOUS
<1> HIDE DEF I
<1> DEFINE m == Min(I)
<1>2. m \in I /\ \A i \in I : m <= i
  BY <1>1, Least
<1> HIDE DEF m
<1> USE DEF I
<1>3. m \in 0..n /\ m \notin T /\ m # 0
  BY <1>2
<1>4. m - 1 \in 0..n /\ m - 1 < n /\ ~(m <= m - 1)
  BY <1>3
<1>5. m - 1 \in T
  BY <1>2, <1>4
<1>6. m - 1 + 1 = m
  BY <1>3
<1> QED
  BY <1>3, <1>4, <1>5, <1>6

\* A function that is defined by recursion on 0..n exists, if each step stays in V.
StaysIn(V, n, base, next) ==
  base \in V /\ \A i \in 1..n, v \in V : next[<<i, v>>] \in V

Recursion(g, V, n, base, next) ==
  g \in [0..n -> V] /\ g[0] = base /\ \A i \in 1..n : g[i] = next[<<i, g[i - 1]>>]

LEMMA RecursionExists ==
  ASSUME NEW n \in Nat, NEW V, NEW base, NEW next, StaysIn(V, n, base, next)
  PROVE  \E g : Recursion(g, V, n, base, next)
<1> USE DEF StaysIn
<1> DEFINE Upto(g, k) == g[0] = base /\ \A i \in 1..k : g[i] = next[<<i, g[i - 1]>>]
<1> DEFINE T == {k \in 0..n : \E g \in [0..k -> V] : Upto(g, k)}
<1>1. 0 \in T
  <2>1. [i \in 0..0 |-> base] \in [0..0 -> V] /\ Upto([i \in 0..0 |-> base], 0)
    OBVIOUS
  <2> HIDE DEF Upto
  <2> QED
    BY <2>1
<1>2. ASSUME NEW k \in 0..n, k < n, k \in T
      PROVE  k + 1 \in T
  <2>1. PICK g \in [0..k -> V] : Upto(g, k)
    BY <1>2
  <2> DEFINE h == [i \in 0..(k + 1) |-> IF i = k + 1 THEN next[<<k + 1, g[k]>>] ELSE g[i]]
  <2>2. k + 1 \in 1..n /\ k \in 0..k /\ g[k] \in V
    BY <1>2
  <2>3. next[<<k + 1, g[k]>>] \in V
    BY <2>2
  <2>4. h \in [0..(k + 1) -> V]
    BY <1>2, <2>3
  <2>5. \A i \in 0..k : h[i] = g[i]
    BY <1>2
  <2>6. h[k + 1] = next[<<k + 1, g[k]>>]
    BY <1>2
  <2> HIDE DEF h
  <2>7. h[0] = base
    BY <1>2, <2>1, <2>5
  <2>8. ASSUME NEW i \in 1..(k + 1)
        PROVE  h[i] = next[<<i, h[i - 1]>>]
    <3>1. CASE i = k + 1
      <4>1. i - 1 = k
        BY <1>2, <3>1
      <4>2. h[k] = g[k]
        BY <2>2, <2>5
      <4> QED
        BY <2>6, <3>1, <4>1, <4>2
    <3>2. CASE i # k + 1
      <4>1. i \in 1..k /\ i \in 0..k /\ i - 1 \in 0..k
        BY <1>2, <3>2
      <4>2. g[i] = next[<<i, g[i - 1]>>]
        BY <2>1, <4>1
      <4> QED
        BY <2>5, <4>1, <4>2
    <3> QED
      BY <3>1, <3>2
  <2> QED
    BY <2>2, <2>4, <2>7, <2>8
<1> HIDE DEF T
<1>3. n \in T
  <2>1. \A i \in 0..n : i \in T
    BY <1>1, <1>2, UpToInduction
  <2> QED
    BY <2>1
<1> QED
  BY <1>3 DEF T, Recursion

\* Flattening concatenates one sequence after the other.
Flattening(g, X, n, s) ==
  /\ g \in [0..n -> Seq(X)] /\ g[0] = <<>> /\ FlattenSeq(s) = g[n]
  /\ \A i \in 1..n : g[i] = g[i - 1] \o s[i]

LEMMA FlattenFacts ==
  ASSUME NEW X, NEW n \in Nat, NEW s \in [1..n -> Seq(X)]
  PROVE  \E g : Flattening(g, X, n, s)
<1> DEFINE F(f) == f = [i \in 1..Len(s) |-> IF i = 1 THEN s[i] ELSE f[i - 1] \o s[i]]
<1>1. Len(s) = n
  OBVIOUS
<1> DEFINE next == [p \in (1..n) \X Seq(X) |-> p[2] \o s[p[1]]]
<1>2. \A i \in 1..n, x \in Seq(X) : next[<<i, x>>] \in Seq(X)
  OBVIOUS
<1>3. <<>> \in Seq(X)
  OBVIOUS
<1>4. \A i \in 1..n, x \in Seq(X) : next[<<i, x>>] = x \o s[i]
  OBVIOUS
<1> HIDE DEF next
<1>5. PICK g \in [0..n -> Seq(X)] :
        g[0] = <<>> /\ \A i \in 1..n : g[i] = next[<<i, g[i - 1]>>]
  <2>1. StaysIn(Seq(X), n, <<>>, next)
    BY <1>2, <1>3 DEF StaysIn
  <2>2. \E g : Recursion(g, Seq(X), n, <<>>, next)
    BY <2>1, RecursionExists
  <2> QED
    BY <2>2 DEF Recursion
<1>6. \A i \in 1..n : i - 1 \in 0..n /\ g[i - 1] \in Seq(X) /\ g[i] = g[i - 1] \o s[i]
  <2> TAKE i \in 1..n
  <2>1. i - 1 \in 0..n
    OBVIOUS
  <2>2. g[i - 1] \in Seq(X)
    BY <1>5, <2>1
  <2>3. g[i] = next[<<i, g[i - 1]>>]
    BY <1>5
  <2>4. next[<<i, g[i - 1]>>] = g[i - 1] \o s[i]
    BY <1>4, <2>2
  <2> QED
    BY <2>1, <2>2, <2>3, <2>4
<1>7. CASE n = 0
  <2>1. FlattenSeq(s) = s /\ s = <<>>
    BY <1>1, <1>7 DEF FlattenSeq
  <2> QED
    BY <1>5, <1>6, <1>7, <2>1 DEF Flattening
<1>8. CASE n # 0
  <2>1. FlattenSeq(s) = (CHOOSE f : F(f))[n]
    BY <1>1, <1>8 DEF FlattenSeq
  <2> DEFINE J(x, i) == x \o s[i]
  <2>2. \A x, i : x \o s[i] = J(x, i)
    OBVIOUS
  <2>3. \A f : F(f) <=> f = [i \in 1..n |-> IF i = 1 THEN s[i] ELSE J(f[i - 1], i)]
    BY <1>1
  <2>4. \A i \in 1..n : g[i] = J(g[i - 1], i)
    BY <1>6
  <2>5. J(<<>>, 1) = s[1]
    <3>1. s[1] \in Seq(X)
      BY <1>8
    <3> QED
      BY <3>1
  <2> HIDE DEF J, F
  <2> DEFINE h == [i \in 1..n |-> g[i]]
  <2>6. g[1] = s[1]
    <3>1. 1 \in 1..n /\ 1 - 1 = 0
      BY <1>8
    <3> QED
      BY <1>5, <2>4, <2>5, <3>1
  <2>7. \A i \in 1..n : h[i] = IF i = 1 THEN s[i] ELSE J(h[i - 1], i)
    <3> TAKE i \in 1..n
    <3>1. i # 1 => i - 1 \in 1..n
      OBVIOUS
    <3> QED
      BY <2>4, <2>6, <3>1
  <2>8. F(h)
    <3>1. h = [i \in 1..n |-> h[i]]
      OBVIOUS
    <3> HIDE DEF h
    <3>2. h = [i \in 1..n |-> IF i = 1 THEN s[i] ELSE J(h[i - 1], i)]
      BY <2>7, <3>1
    <3> QED
      BY <2>3, <3>2
  <2> DEFINE f == CHOOSE e : F(e)
  <2>9. F(f)
    BY <2>8
  <2> HIDE DEF f
  <2>10. f = [i \in 1..n |-> IF i = 1 THEN s[i] ELSE J(f[i - 1], i)]
    BY <2>3, <2>9
  <2>11. \A i \in 1..n : f[i] = IF i = 1 THEN s[i] ELSE J(f[i - 1], i)
    BY <2>10
  <2> DEFINE T == {k \in 0..n : k = 0 \/ f[k] = g[k]}
  <2>12. ASSUME NEW k \in 0..n, k < n, k \in T
         PROVE  k + 1 \in T
    <3>1. k + 1 \in 1..n /\ k + 1 - 1 = k /\ k + 1 \in 0..n
      BY <2>12
    <3>2. k = 0 => f[k + 1] = s[1]
      BY <2>11, <3>1
    <3>3. k # 0 => f[k + 1] = J(f[k], k + 1)
      BY <2>11, <3>1
    <3>4. g[k + 1] = J(g[k], k + 1)
      BY <2>4, <3>1
    <3> QED
      BY <2>6, <2>12, <3>1, <3>2, <3>3, <3>4
  <2>13. 0 \in T
    OBVIOUS
  <2> HIDE DEF T
  <2>14. n \in T
    <3>1. \A k \in 0..n : k \in T
      BY <2>12, <2>13, UpToInduction
    <3> QED
      BY <3>1
  <2>15. f[n] = g[n]
    BY <1>8, <2>14 DEF T
  <2> QED
    BY <1>5, <1>6, <2>1, <2>15 DEF f, Flattening
<1> QED
  BY <1>7, <1>8

-----------------------------------------------------------------------------
(* Chunks.                                                                 *)

Positive == Nat \ {0}
Interval == [from : Int, to : Int]

LEMMA EndsFacts ==
  ASSUME NEW text \in Seq(Positive)
  PROVE  /\ Ends(text) \in [0..Len(text) -> Nat] /\ Ends(text)[0] = 0
         /\ \A i \in 1..Len(text) : Ends(text)[i] = Ends(text)[i - 1] + text[i]
<1> DEFINE n == Len(text)
<1> DEFINE F(f) == f = [i \in 0..n |-> IF i = 0 THEN 0 ELSE f[i - 1] + text[i]]
<1> DEFINE next == [p \in (1..n) \X Nat |-> p[2] + text[p[1]]]
<1>1. n \in Nat /\ \A i \in 1..n : text[i] \in Nat
  BY DEF Positive
<1> HIDE DEF n
<1>2. \A i \in 1..n, v \in Nat : next[<<i, v>>] = v + text[i] /\ v + text[i] \in Nat
  BY <1>1
<1> HIDE DEF next
<1>3. \E g : Recursion(g, Nat, n, 0, next)
  <2>1. StaysIn(Nat, n, 0, next)
    BY <1>2 DEF StaysIn
  <2> QED
    BY <1>1, <2>1, RecursionExists
<1>4. \E f : F(f)
  <2>1. PICK g : Recursion(g, Nat, n, 0, next)
    BY <1>3
  <2>2. g \in [0..n -> Nat] /\ g[0] = 0 /\ \A i \in 1..n : g[i] = next[<<i, g[i - 1]>>]
    BY <2>1 DEF Recursion
  <2>3. \A i \in 0..n : i # 0 => i \in 1..n /\ i - 1 \in 0..n
    BY <1>1
  <2>4. \A i \in 0..n : g[i] = IF i = 0 THEN 0 ELSE g[i - 1] + text[i]
    BY <1>2, <2>2, <2>3
  <2>5. F(g)
    BY <2>2, <2>4
  <2> QED
    BY <2>5
<1> DEFINE e == CHOOSE f : F(f)
<1>5. e = [i \in 0..n |-> IF i = 0 THEN 0 ELSE e[i - 1] + text[i]]
  <2> HIDE DEF F
  <2>1. F(e)
    BY <1>4
  <2> HIDE DEF e
  <2> QED
    BY <2>1 DEF F
<1>6. e = Ends(text)
  BY DEF Ends, n
<1> HIDE DEF e
<1>7. e[0] = 0 /\ \A i \in 1..n : e[i] = e[i - 1] + text[i]
  <2>1. \A i \in 0..n : e[i] = IF i = 0 THEN 0 ELSE e[i - 1] + text[i]
    BY <1>5
  <2>2. 0 \in 0..n /\ \A i \in 1..n : i \in 0..n /\ i # 0
    BY <1>1
  <2> QED
    BY <2>1, <2>2
<1> DEFINE T == {k \in 0..n : e[k] \in Nat}
<1>8. \A k \in 0..n : k < n /\ k \in T => k + 1 \in T
  <2> SUFFICES ASSUME NEW k \in 0..n, k < n, k \in T PROVE k + 1 \in T
    OBVIOUS
  <2>1. k + 1 \in 1..n /\ k + 1 - 1 = k /\ k + 1 \in 0..n
    BY <1>1
  <2>2. e[k + 1] = e[k] + text[k + 1]
    BY <1>7, <2>1
  <2> QED
    BY <1>1, <2>1, <2>2
<1>9. 0 \in T
  BY <1>1, <1>7
<1> HIDE DEF T
<1>10. \A k \in 0..n : k \in T
  BY <1>1, <1>8, <1>9, UpToInduction
<1>11. e \in [0..n -> Nat]
  BY <1>5, <1>10 DEF T
<1> QED
  BY <1>6, <1>7, <1>11 DEF n

LEMMA Widened ==
  ASSUME NEW w \in Interval, NEW n \in Int
  PROVE  /\ [w EXCEPT !.to = @ + n] \in Interval
         /\ [w EXCEPT !.to = @ + n].from = w.from /\ [w EXCEPT !.to = @ + n].to = w.to + n
BY DEF Interval

LEMMA AddParagraphType ==
  ASSUME NEW size, NEW overlap \in Nat, NEW ws \in Seq(Interval), NEW n \in Nat
  PROVE  AddParagraph(size, overlap, ws, n) \in Seq(Interval)
<1> DEFINE w == Last(ws)
<1>1. CASE ws = <<>>
  <2>1. <<[from |-> 1, to |-> n]>> \in Seq(Interval)
    BY DEF Interval
  <2> QED
    BY <1>1, <2>1 DEF AddParagraph
<1>2. CASE ws # <<>>
  <2>1. Len(ws) \in 1..Len(ws) /\ w = ws[Len(ws)]
    BY <1>2 DEF Last
  <2>2. w \in Interval
    BY <2>1
  <2>3. Front(ws) \in Seq(Interval)
    BY <2>1 DEF Front
  <2>4. Carried(overlap, w) \in Int
    BY DEF Carried
  <2> HIDE DEF w
  <2>5. [w EXCEPT !.to = @ + n] \in Interval
    BY <2>2, Widened
  <2>6. [from |-> w.to + 1 - Carried(overlap, w), to |-> w.to + n] \in Interval
    BY <2>2, <2>4 DEF Interval
  <2>7. \A x \in Interval, s \in Seq(Interval) : Append(s, x) \in Seq(Interval)
    OBVIOUS
  <2> QED
    BY <1>2, <2>3, <2>5, <2>6, <2>7 DEF AddParagraph, w
<1> QED
  BY <1>1, <1>2

Packing(g, text, size, overlap) ==
  /\ g \in [0..Len(text) -> Seq(Interval)]
  /\ g[0] = <<>> /\ Windows(text, size, overlap) = g[Len(text)]
  /\ \A i \in 1..Len(text) : g[i] = AddParagraph(size, overlap, g[i - 1], text[i])

LEMMA WindowsFacts ==
  ASSUME NEW text \in Seq(Positive), NEW size, NEW overlap \in Nat
  PROVE  \E g : Packing(g, text, size, overlap)
<1> DEFINE n == Len(text)
<1> DEFINE After(v, i) == AddParagraph(size, overlap, v, text[i])
<1> DEFINE F(f) == f = [i \in 0..n |-> IF i = 0 THEN <<>> ELSE After(f[i - 1], i)]
<1> DEFINE V == Seq(Interval)
<1> DEFINE next == [p \in (1..n) \X V |-> After(p[2], p[1])]
<1>1. n \in Nat /\ \A i \in 1..n : text[i] \in Nat
  BY DEF Positive
<1>2. \A i \in 1..n, v \in V : After(v, i) \in V
  BY <1>1, AddParagraphType
<1>3. <<>> \in V
  OBVIOUS
<1>4. Windows(text, size, overlap) = (CHOOSE f : F(f))[n]
  BY DEF Windows
<1> HIDE DEF n, V, After
<1>5. \A i \in 1..n, v \in V : next[<<i, v>>] = After(v, i)
  OBVIOUS
<1> HIDE DEF next
<1>6. PICK g : Recursion(g, V, n, <<>>, next)
  <2>1. StaysIn(V, n, <<>>, next)
    BY <1>2, <1>3, <1>5 DEF StaysIn
  <2> QED
    BY <1>1, <2>1, RecursionExists
<1>7. \E f : F(f)
  <2>1. g \in [0..n -> V] /\ g[0] = <<>> /\ \A i \in 1..n : g[i] = next[<<i, g[i - 1]>>]
    BY <1>6 DEF Recursion
  <2>2. \A i \in 0..n : i # 0 => i \in 1..n /\ i - 1 \in 0..n
    BY <1>1
  <2>3. \A i \in 0..n : g[i] = IF i = 0 THEN <<>> ELSE After(g[i - 1], i)
    BY <1>5, <2>1, <2>2
  <2>4. F(g)
    BY <2>1, <2>3
  <2> QED
    BY <2>4
<1> DEFINE e == CHOOSE f : F(f)
<1>8. e = [i \in 0..n |-> IF i = 0 THEN <<>> ELSE After(e[i - 1], i)]
  <2> HIDE DEF F
  <2>1. F(e)
    BY <1>7
  <2> HIDE DEF e
  <2> QED
    BY <2>1 DEF F
<1>9. Windows(text, size, overlap) = e[n]
  BY <1>4
<1> HIDE DEF e
<1>10. e[0] = <<>> /\ \A i \in 1..n : e[i] = After(e[i - 1], i)
  <2>1. \A i \in 0..n : e[i] = IF i = 0 THEN <<>> ELSE After(e[i - 1], i)
    BY <1>8
  <2>2. 0 \in 0..n /\ \A i \in 1..n : i \in 0..n /\ i # 0
    BY <1>1
  <2> QED
    BY <2>1, <2>2
<1> DEFINE T == {k \in 0..n : e[k] \in V}
<1>11. \A k \in 0..n : k < n /\ k \in T => k + 1 \in T
  <2> SUFFICES ASSUME NEW k \in 0..n, k < n, k \in T PROVE k + 1 \in T
    OBVIOUS
  <2>1. k + 1 \in 1..n /\ k + 1 - 1 = k /\ k + 1 \in 0..n
    BY <1>1
  <2>2. e[k + 1] = After(e[k], k + 1)
    BY <1>10, <2>1
  <2> QED
    BY <1>2, <2>1, <2>2
<1>12. 0 \in T
  BY <1>1, <1>3, <1>10
<1> HIDE DEF T
<1>13. \A k \in 0..n : k \in T
  BY <1>1, <1>11, <1>12, UpToInduction
<1>14. e \in [0..n -> V]
  <2>1. \A k \in 0..n : e[k] \in V
    BY <1>13 DEF T
  <2> QED
    BY <1>8, <2>1
<1>15. Packing(e, text, size, overlap)
  BY <1>9, <1>10, <1>14 DEF Packing, n, V, After
<1> QED
  BY <1>15

\* Windows of the first e tokens: each ends after the one before, and starts with no
\* more than the overlap of it, and with no gap.
Packed(ws, e, overlap) ==
  /\ ws \in Seq(Interval) /\ Len(ws) > 0 /\ ws[1].from = 1 /\ ws[Len(ws)].to = e
  /\ \A j \in 1..Len(ws) : 1 <= ws[j].from /\ ws[j].from <= ws[j].to
  /\ \A j \in 1..(Len(ws) - 1) : /\ ws[j].to < ws[j + 1].to
                                 /\ ws[j + 1].from <= ws[j].to + 1
                                 /\ ws[j].to < ws[j + 1].from + overlap

LEMMA PackedTypes ==
  ASSUME NEW ws \in Seq(Interval)
  PROVE  \A j \in 1..Len(ws) : ws[j] \in Interval /\ ws[j].from \in Int /\ ws[j].to \in Int
<1> TAKE j \in 1..Len(ws)
<1>1. ws[j] \in Interval
  OBVIOUS
<1> QED
  BY <1>1 DEF Interval

LEMMA PackedWidened ==
  ASSUME NEW overlap \in Nat, NEW e \in Nat, NEW ws, Packed(ws, e, overlap),
         NEW n \in Positive, NEW v \in Seq(Interval), Len(v) = Len(ws),
         \A j \in 1..(Len(ws) - 1) : v[j] = ws[j],
         v[Len(ws)].from = ws[Len(ws)].from, v[Len(ws)].to = ws[Len(ws)].to + n
  PROVE  Packed(v, e + n, overlap)
<1> DEFINE l == Len(ws)
<1>1. /\ l \in Nat /\ l > 0 /\ n \in Nat /\ n > 0
      /\ \A j \in 1..l : ws[j].from \in Int /\ ws[j].to \in Int /\ v[j].from \in Int /\ v[j].to \in Int
  BY PackedTypes DEF Packed, Positive
<1>2. /\ ws[1].from = 1 /\ ws[l].to = e
      /\ \A j \in 1..l : 1 <= ws[j].from /\ ws[j].from <= ws[j].to
      /\ \A j \in 1..(l - 1) : /\ ws[j].to < ws[j + 1].to
                               /\ ws[j + 1].from <= ws[j].to + 1
                               /\ ws[j].to < ws[j + 1].from + overlap
  BY DEF Packed
<1>3. /\ Len(v) = l /\ \A j \in 1..(l - 1) : v[j] = ws[j]
      /\ v[l].from = ws[l].from /\ v[l].to = ws[l].to + n
  OBVIOUS
<1> HIDE DEF l
<1>4. \A j \in 1..l : j \in 1..(l - 1) \/ j = l
  BY <1>1
<1>5. l \in 1..l
  BY <1>1
<1>6. \A j \in 1..l : /\ 1 <= v[j].from /\ v[j].from <= v[j].to
                      /\ v[j].from = ws[j].from /\ ws[j].to <= v[j].to
  <2> TAKE j \in 1..l
  <2>1. 1 <= ws[j].from /\ ws[j].from <= ws[j].to /\ ws[j].from \in Int /\ ws[j].to \in Int
    BY <1>1, <1>2
  <2>2. v[j].from = ws[j].from /\ (v[j].to = ws[j].to \/ v[j].to = ws[j].to + n)
    BY <1>3, <1>4
  <2> QED
    BY <1>1, <2>1, <2>2
<1>7. ASSUME NEW j \in 1..(l - 1)
      PROVE  /\ v[j].to < v[j + 1].to /\ v[j + 1].from <= v[j].to + 1
             /\ v[j].to < v[j + 1].from + overlap
  <2>1. j \in 1..l /\ j + 1 \in 1..l
    BY <1>1
  <2>2. v[j].to = ws[j].to /\ v[j + 1].from = ws[j + 1].from /\ ws[j + 1].to <= v[j + 1].to
    BY <1>3, <1>6, <2>1
  <2>3. /\ ws[j].to < ws[j + 1].to /\ ws[j + 1].from <= ws[j].to + 1
        /\ ws[j].to < ws[j + 1].from + overlap
    BY <1>2
  <2>4. ws[j].to \in Int /\ ws[j + 1].to \in Int /\ v[j + 1].to \in Int
    BY <1>1, <2>1
  <2> QED
    BY <2>2, <2>3, <2>4
<1>8. v[1].from = 1
  BY <1>1, <1>2, <1>6
<1>9. v[l].to = e + n
  BY <1>2, <1>3
<1> QED
  BY <1>1, <1>3, <1>6, <1>7, <1>8, <1>9 DEF Packed

LEMMA PackedAppended ==
  ASSUME NEW overlap \in Nat, NEW e \in Nat, NEW ws, Packed(ws, e, overlap),
         NEW n \in Positive, NEW x \in Interval,
         1 <= x.from, x.from <= e + 1, e < x.from + overlap, x.to = e + n
  PROVE  Packed(Append(ws, x), e + n, overlap)
<1> DEFINE l == Len(ws)
<1> DEFINE v == Append(ws, x)
<1>1. /\ l \in Nat /\ l > 0 /\ n \in Nat /\ n > 0 /\ x.from \in Int /\ x.to \in Int
      /\ \A j \in 1..l : ws[j].from \in Int /\ ws[j].to \in Int
  <2>1. x.from \in Int /\ x.to \in Int
    BY DEF Interval
  <2> QED
    BY <2>1, PackedTypes DEF Packed, Positive
<1>2. /\ ws[1].from = 1 /\ ws[l].to = e
      /\ \A j \in 1..l : 1 <= ws[j].from /\ ws[j].from <= ws[j].to
      /\ \A j \in 1..(l - 1) : /\ ws[j].to < ws[j + 1].to
                               /\ ws[j + 1].from <= ws[j].to + 1
                               /\ ws[j].to < ws[j + 1].from + overlap
  BY DEF Packed
<1>3. ws \in Seq(Interval)
  BY DEF Packed
<1>4. v \in Seq(Interval) /\ Len(v) = l + 1 /\ v[l + 1] = x /\ \A j \in 1..l : v[j] = ws[j]
  BY <1>3
<1> HIDE DEF l, v
<1>5. \A j \in 1..(l + 1) : j \in 1..l \/ j = l + 1
  BY <1>1
<1>6. \A j \in 1..(l + 1) : 1 <= v[j].from /\ v[j].from <= v[j].to
  <2>1. 1 <= x.from /\ x.from <= x.to
    BY <1>1
  <2> QED
    BY <1>2, <1>4, <1>5, <2>1
<1>7. ASSUME NEW j \in 1..l
      PROVE  /\ v[j].to < v[j + 1].to /\ v[j + 1].from <= v[j].to + 1
             /\ v[j].to < v[j + 1].from + overlap
  <2>1. CASE j = l
    <3>1. v[j].to = e /\ v[j + 1] = x
      BY <1>1, <1>2, <1>4, <2>1
    <3> QED
      BY <1>1, <3>1
  <2>2. CASE j # l
    <3>1. j \in 1..(l - 1) /\ j + 1 \in 1..l
      BY <1>1, <2>2
    <3>2. v[j] = ws[j] /\ v[j + 1] = ws[j + 1]
      BY <1>4, <3>1
    <3> QED
      BY <1>2, <3>1, <3>2
  <2> QED
    BY <2>1, <2>2
<1>8. v[1].from = 1
  BY <1>1, <1>2, <1>4
<1>9. v[l + 1].to = e + n
  BY <1>4
<1>10. l + 1 - 1 = l /\ l + 1 > 0
  BY <1>1
<1>11. Packed(v, e + n, overlap)
  <2>1. v \in Seq(Interval) /\ Len(v) > 0 /\ v[Len(v)].to = e + n
    BY <1>4, <1>9, <1>10
  <2>2. \A j \in 1..Len(v) : 1 <= v[j].from /\ v[j].from <= v[j].to
    BY <1>4, <1>6
  <2>3. Len(v) - 1 = l
    BY <1>1, <1>4
  <2>4. \A j \in 1..(Len(v) - 1) : /\ v[j].to < v[j + 1].to
                                  /\ v[j + 1].from <= v[j].to + 1
                                  /\ v[j].to < v[j + 1].from + overlap
    BY <1>7, <2>3
  <2> QED
    BY <1>8, <2>1, <2>2, <2>4 DEF Packed
<1> QED
  BY <1>11 DEF v

LEMMA AddPacks ==
  ASSUME NEW size \in Nat, NEW overlap \in Nat, NEW e \in Nat, NEW n \in Positive,
         NEW ws, (ws = <<>> /\ e = 0) \/ Packed(ws, e, overlap)
  PROVE  Packed(AddParagraph(size, overlap, ws, n), e + n, overlap)
<1>0. n \in Nat /\ n > 0 /\ n \in Int
  BY DEF Positive
<1>1. CASE ws = <<>> /\ e = 0
  <2> DEFINE v == <<[from |-> 1, to |-> n]>>
  <2>1. AddParagraph(size, overlap, ws, n) = v
    BY <1>1 DEF AddParagraph
  <2>2. v \in Seq(Interval) /\ Len(v) = 1 /\ v[1].from = 1 /\ v[1].to = n
    BY <1>0 DEF Interval
  <2> HIDE DEF v
  <2>3. \A j \in 1..1 : j = 1
    OBVIOUS
  <2>4. Packed(v, n, overlap)
    <3>1. 1..(1 - 1) = {}
      OBVIOUS
    <3> QED
      BY <1>0, <2>2, <2>3, <3>1 DEF Packed
  <2>5. e + n = n
    BY <1>0, <1>1
  <2> QED
    BY <2>1, <2>4, <2>5
<1>2. CASE Packed(ws, e, overlap)
  <2> DEFINE l == Len(ws)
  <2>1. ws \in Seq(Interval) /\ l \in Nat /\ l > 0 /\ ws # <<>> /\ l \in 1..l
    BY <1>2 DEF Packed
  <2>2. PICK w \in Interval : w = ws[l]
    BY <2>1
  <2>3. w.to = e /\ 1 <= w.from /\ w.from <= w.to /\ w.from \in Int /\ w.to \in Int
    BY <1>2, <2>1, <2>2 DEF Packed, Interval
  <2>4. Last(ws) = w
    BY <2>2 DEF Last
  <2>5. CASE Length(w) + n <= size
    <3> DEFINE x == [w EXCEPT !.to = @ + n]
    <3> DEFINE v == Append(Front(ws), x)
    <3>1. AddParagraph(size, overlap, ws, n) = v
      BY <2>1, <2>4, <2>5 DEF AddParagraph
    <3>2. x \in Interval /\ x.from = w.from /\ x.to = w.to + n
      BY <1>0, Widened
    <3> HIDE DEF x
    <3>3. /\ Front(ws) \in Seq(Interval) /\ Len(Front(ws)) = l - 1
          /\ \A j \in 1..(l - 1) : Front(ws)[j] = ws[j]
      <4>1. Front(ws) = SubSeq(ws, 1, l - 1)
        BY DEF Front
      <4>2. l - 1 \in Nat /\ l - 1 <= l
        BY <2>1
      <4>3. \A j \in 1..(l - 1) : ws[j] \in Interval /\ 1 + j - 1 = j
        BY <2>1
      <4>4. l - 1 - 1 + 1 = l - 1 /\ 1 \in Int /\ l - 1 \in Int
        BY <4>2
      <4> HIDE DEF l
      <4>5. /\ SubSeq(ws, 1, l - 1) \in Seq(Interval)
            /\ Len(SubSeq(ws, 1, l - 1)) = IF 1 <= l - 1 THEN l - 1 - 1 + 1 ELSE 0
            /\ \A j \in 1..(l - 1 - 1 + 1) : SubSeq(ws, 1, l - 1)[j] = ws[1 + j - 1]
        BY <4>3, <4>4, SubSeqProperties
      <4> QED
        BY <4>1, <4>2, <4>3, <4>4, <4>5
    <3>4. /\ v \in Seq(Interval) /\ Len(v) = l /\ v[l] = x
          /\ \A j \in 1..(l - 1) : v[j] = ws[j]
      BY <2>1, <3>2, <3>3
    <3> HIDE DEF v
    <3> QED
      BY <1>2, <2>2, <3>1, <3>2, <3>4, PackedWidened
  <2>6. CASE ~(Length(w) + n <= size)
    <3> DEFINE c == Carried(overlap, w)
    <3> DEFINE x == [from |-> w.to + 1 - c, to |-> w.to + n]
    <3>1. AddParagraph(size, overlap, ws, n) = Append(ws, x)
      BY <2>1, <2>4, <2>6 DEF AddParagraph
    <3>2. c \in Nat /\ c <= overlap /\ c < w.to - w.from + 1
      BY <2>3 DEF Carried, Length
    <3> HIDE DEF c
    <3>3. x \in Interval /\ x.from = w.to + 1 - c /\ x.to = w.to + n
      BY <1>0, <2>3, <3>2 DEF Interval
    <3> HIDE DEF x
    <3>4. 1 <= x.from /\ x.from <= e + 1 /\ e < x.from + overlap /\ x.to = e + n
      BY <2>3, <3>2, <3>3
    <3>5. Packed(Append(ws, x), e + n, overlap)
      BY <1>2, <3>3, <3>4, PackedAppended
    <3> QED
      BY <3>1, <3>5
  <2> QED
    BY <2>5, <2>6
<1> QED
  BY <1>1, <1>2

LEMMA WindowsPack ==
  ASSUME NEW text \in Seq(Positive), NEW size \in Nat, NEW overlap \in Nat
  PROVE  LET e == Ends(text)[Len(text)] IN
           \/ Windows(text, size, overlap) = <<>> /\ e = 0
           \/ Packed(Windows(text, size, overlap), e, overlap)
<1> DEFINE n == Len(text)
<1>1. n \in Nat /\ \A i \in 1..n : text[i] \in Positive
  OBVIOUS
<1>2. PICK g : /\ g \in [0..n -> Seq(Interval)]
               /\ g[0] = <<>> /\ Windows(text, size, overlap) = g[n]
               /\ \A i \in 1..n : g[i] = AddParagraph(size, overlap, g[i - 1], text[i])
  <2>1. \E g : Packing(g, text, size, overlap)
    BY WindowsFacts
  <2> QED
    BY <2>1 DEF Packing
<1> DEFINE E == Ends(text)
<1>3. E \in [0..n -> Nat] /\ E[0] = 0 /\ \A i \in 1..n : E[i] = E[i - 1] + text[i]
  BY EndsFacts
<1> HIDE DEF n, E
<1> DEFINE T == {k \in 0..n : (g[k] = <<>> /\ E[k] = 0) \/ Packed(g[k], E[k], overlap)}
<1>4. \A k \in 0..n : k < n /\ k \in T => k + 1 \in T
  <2> SUFFICES ASSUME NEW k \in 0..n, k < n, k \in T PROVE k + 1 \in T
    OBVIOUS
  <2>1. k + 1 \in 1..n /\ k + 1 - 1 = k /\ k + 1 \in 0..n
    BY <1>1
  <2>2. g[k + 1] = AddParagraph(size, overlap, g[k], text[k + 1]) /\ E[k + 1] = E[k] + text[k + 1]
    BY <1>2, <1>3, <2>1
  <2>3. E[k] \in Nat /\ text[k + 1] \in Positive
    BY <1>1, <1>3, <2>1
  <2>4. Packed(g[k + 1], E[k + 1], overlap)
    <3>1. (g[k] = <<>> /\ E[k] = 0) \/ Packed(g[k], E[k], overlap)
      OBVIOUS
    <3>2. Packed(AddParagraph(size, overlap, g[k], text[k + 1]), E[k] + text[k + 1], overlap)
      BY <2>3, <3>1, AddPacks
    <3> QED
      BY <2>2, <3>2
  <2> QED
    BY <2>1, <2>4
<1>5. 0 \in T
  BY <1>1, <1>2, <1>3
<1> HIDE DEF T
<1>6. n \in T
  <2>1. \A k \in 0..n : k \in T
    BY <1>1, <1>4, <1>5, UpToInduction
  <2>2. n \in 0..n
    BY <1>1
  <2> QED
    BY <2>1, <2>2
<1> QED
  BY <1>2, <1>6 DEF T, n, E

Spans(p, t) == p.from <= t /\ t <= p.to

\* One piece after the other, with no more than the overlap of it and with no gap.
Adjoins(c, d, overlap) == Follows(c, d, overlap) /\ d.from <= c.to + 1

\* Windows in pieces, none longer than size, from the token from to the token to.
Cuts(p, from, to, size, overlap) ==
  /\ p \in Seq(Interval) /\ Len(p) > 0 /\ p[1].from = from /\ p[Len(p)].to = to
  /\ \A j \in 1..Len(p) : Length(p[j]) <= size
  /\ \A j \in 1..(Len(p) - 1) : Adjoins(p[j], p[j + 1], overlap)

LEMMA CutsJoined ==
  ASSUME NEW size, NEW overlap, NEW p, NEW from, NEW a, Cuts(p, from, a, size, overlap),
         NEW q, NEW c, NEW b, Cuts(q, c, b, size, overlap),
         a <= q[1].to, a < q[1].from + overlap, q[1].from <= a + 1
  PROVE  Cuts(p \o q, from, b, size, overlap)
<1>1. p \in Seq(Interval) /\ q \in Seq(Interval)
  BY DEF Cuts
<1> DEFINE r == p \o q
<1>2. PICK m \in Nat : m = Len(p) /\ m > 0
  BY <1>1 DEF Cuts
<1>3. PICK n \in Nat : n = Len(q) /\ n > 0
  BY <1>1 DEF Cuts
<1>4. /\ r \in Seq(Interval) /\ Len(r) = m + n
      /\ \A j \in 1..m : r[j] = p[j]
      /\ \A j \in 1..(m + n) : j > m => r[j] = q[j - m]
  BY <1>1, <1>2, <1>3
<1> HIDE DEF r
<1>5. /\ p[1].from = from /\ p[m].to = a /\ q[n].to = b
      /\ \A j \in 1..m : Length(p[j]) <= size
      /\ \A j \in 1..n : Length(q[j]) <= size
      /\ \A j \in 1..(m - 1) : Adjoins(p[j], p[j + 1], overlap)
      /\ \A j \in 1..(n - 1) : Adjoins(q[j], q[j + 1], overlap)
  BY <1>2, <1>3 DEF Cuts
<1>6. r[1].from = from /\ r[m + n].to = b
  <2>1. m + n \in 1..(m + n) /\ m + n > m /\ m + n - m = n /\ 1 \in 1..m
    BY <1>2, <1>3
  <2> QED
    BY <1>4, <1>5, <2>1
<1>7. ASSUME NEW j \in 1..(m + n)
      PROVE  Length(r[j]) <= size
  <2>1. CASE j \in 1..m
    BY <1>4, <1>5, <2>1
  <2>2. CASE j > m
    <3>1. j - m \in 1..n
      BY <2>2
    <3> QED
      BY <1>4, <1>5, <2>2, <3>1
  <2> QED
    BY <2>1, <2>2
<1>8. ASSUME NEW j \in 1..(m + n - 1)
      PROVE  Adjoins(r[j], r[j + 1], overlap)
  <2>1. CASE j < m
    <3>1. j \in 1..(m - 1) /\ j \in 1..m /\ j + 1 \in 1..m
      BY <2>1
    <3> QED
      BY <1>4, <1>5, <3>1
  <2>2. CASE j = m
    <3>1. m \in 1..m /\ m + 1 \in 1..(m + n) /\ m + 1 > m /\ m + 1 - m = 1
      BY <1>2, <1>3
    <3>2. r[j] = p[m] /\ r[j + 1] = q[1]
      BY <1>4, <2>2, <3>1
    <3> QED
      BY <1>5, <3>2 DEF Adjoins, Follows
  <2>3. CASE j > m
    <3>1. /\ j - m \in 1..(n - 1) /\ j \in 1..(m + n) /\ j + 1 \in 1..(m + n) /\ j + 1 > m
          /\ j + 1 - m = j - m + 1
      BY <2>3
    <3>2. r[j] = q[j - m] /\ r[j + 1] = q[j - m + 1]
      BY <1>4, <2>3, <3>1
    <3> QED
      BY <1>5, <3>1, <3>2
  <2> QED
    BY <2>1, <2>2, <2>3
<1>9. Len(r) > 0 /\ r[Len(r)].to = b /\ \A j \in 1..Len(r) : Length(r[j]) <= size
  BY <1>2, <1>3, <1>4, <1>6, <1>7
<1>10. \A j \in 1..(Len(r) - 1) : Adjoins(r[j], r[j + 1], overlap)
  BY <1>4, <1>8
<1>11. Cuts(r, from, b, size, overlap)
  BY <1>4, <1>6, <1>9, <1>10 DEF Cuts
<1> QED
  BY <1>11 DEF r

LEMMA Quotient ==
  ASSUME NEW a \in Nat, NEW s \in Positive
  PROVE  a \div s \in Nat /\ (a \div s) * s <= a /\ a < (a \div s) * s + s
BY DEF Positive

\* Steps of s from 0, the last of them at q * s.
LEMMA StepsOf ==
  ASSUME NEW q \in Nat, NEW s \in Positive, NEW i \in 1..(q + 1)
  PROVE  /\ (i - 1) * s \in Nat /\ (i - 1) * s <= q * s
         /\ i * s = (i - 1) * s + s
<1>1. i - 1 \in Nat /\ q - (i - 1) \in Nat /\ s \in Nat
  BY DEF Positive
<1>2. PICK k \in Nat : k = i - 1
  BY <1>1
<1>3. PICK d \in Nat : d = q - k
  BY <1>1, <1>2
<1>4. q = k + d /\ i = k + 1
  BY <1>2, <1>3
<1>5. k * s \in Nat /\ d * s \in Nat /\ (k + d) * s = k * s + d * s /\ (k + 1) * s = k * s + s
  BY <1>1
<1> QED
  BY <1>2, <1>4, <1>5

LEMMA SplitFacts ==
  ASSUME NEW size \in Nat, NEW overlap \in Nat, overlap < size,
         NEW w \in Interval, w.from <= w.to
  PROVE  LET h == HardSplit(size, overlap, w) IN
         /\ Cuts(h, w.from, w.to, size, overlap)
         /\ h[1].from = w.from /\ (h[1].to = w.to \/ h[1].to = w.from + size - 1)
<1> DEFINE h == HardSplit(size, overlap, w)
<1>1. w.from \in Int /\ w.to \in Int /\ Length(w) = w.to - w.from + 1
  BY DEF Interval, Length
<1>2. CASE Length(w) <= size
  <2>1. h = <<w>>
    BY <1>2 DEF HardSplit
  <2>2. h \in Seq(Interval) /\ Len(h) = 1 /\ h[1] = w
    BY <2>1
  <2> HIDE DEF h
  <2>3. (\A j \in 1..Len(h) : j = 1) /\ 1 \in 1..Len(h) /\ 1..(Len(h) - 1) = {}
    BY <2>2
  <2>4. Cuts(h, w.from, w.to, size, overlap)
    BY <1>2, <2>2, <2>3 DEF Cuts
  <2> QED
    BY <2>2, <2>4 DEF h
<1>3. CASE ~(Length(w) <= size)
  <2>1. PICK s \in Positive : s = size - overlap
    BY DEF Positive
  <2>2. PICK l \in Nat : l = Length(w) - 1
    BY <1>1
  <2>3. PICK q \in Nat : q = l \div s /\ q * s <= l /\ l < q * s + s
    BY Quotient
  <2> DEFINE D(i) == w.from + (i - 1) * s
  <2> DEFINE E(i) == IF D(i) + size - 1 < w.to THEN D(i) + size - 1 ELSE w.to
  <2>4. h = [i \in 1..(q + 1) |-> [from |-> D(i), to |-> E(i)]]
    BY <1>3, <2>1, <2>2, <2>3 DEF HardSplit
  <2>5. ASSUME NEW i \in 1..(q + 1)
        PROVE  D(i) \in Int /\ D(i) <= w.from + q * s /\ w.from <= D(i) /\ D(i + 1) = D(i) + s
    <3>1. i + 1 - 1 = i
      OBVIOUS
    <3>2. q * s \in Nat /\ s \in Nat
      BY DEF Positive
    <3> QED
      BY <1>1, <3>1, <3>2, StepsOf
  <2>6. D(1) = w.from /\ D(q + 1) = w.from + q * s /\ q * s \in Nat /\ s \in Nat /\ s > 0
    <3>1. 1 - 1 = 0 /\ q + 1 - 1 = q /\ 0 * s = 0
      BY DEF Positive
    <3> QED
      BY <1>1, <3>1 DEF Positive
  <2> HIDE DEF h, D
  <2>7. /\ h \in Seq(Interval) /\ Len(h) = q + 1
        /\ \A i \in 1..(q + 1) : h[i].from = D(i) /\ h[i].to = E(i)
    <3>1. \A i \in 1..(q + 1) : [from |-> D(i), to |-> E(i)] \in Interval
      BY <1>1, <2>5 DEF Interval
    <3> HIDE DEF E
    <3> QED
      BY <2>4, <3>1
  <2>8. h[q + 1].to = w.to
    <3>1. q + 1 \in 1..(q + 1)
      OBVIOUS
    <3>2. ~(D(q + 1) + size - 1 < w.to)
      BY <1>1, <2>1, <2>2, <2>3, <2>6
    <3> QED
      BY <2>7, <3>1, <3>2
  <2>9. ASSUME NEW j \in 1..(q + 1)
        PROVE  Length(h[j]) <= size
    <3>1. D(j) \in Int /\ E(j) \in Int /\ E(j) <= D(j) + size - 1
      BY <1>1, <2>5
    <3>2. h[j].from = D(j) /\ h[j].to = E(j)
      BY <2>7
    <3> HIDE DEF E
    <3> QED
      BY <3>1, <3>2 DEF Length
  <2>10. ASSUME NEW j \in 1..q
         PROVE  Adjoins(h[j], h[j + 1], overlap)
    <3>1. j \in 1..(q + 1) /\ j + 1 \in 1..(q + 1)
      OBVIOUS
    <3>2. D(j) \in Int /\ D(j + 1) = D(j) + s /\ D(j + 1) <= w.from + q * s
      BY <2>5, <3>1
    <3>4. D(j + 1) <= w.to
      BY <1>1, <2>2, <2>3, <2>6, <3>2
    <3>3. h[j].to = E(j) /\ h[j + 1].to = E(j + 1) /\ h[j + 1].from = D(j + 1)
      BY <2>7, <3>1
    <3> QED
      BY <1>1, <2>1, <2>6, <3>2, <3>3, <3>4 DEF Adjoins, Follows
  <2>11. h[1].from = w.from /\ (h[1].to = w.to \/ h[1].to = w.from + size - 1)
    <3>1. 1 \in 1..(q + 1)
      OBVIOUS
    <3> QED
      BY <2>6, <2>7, <3>1
  <2>12. Len(h) - 1 = q /\ Len(h) > 0
    BY <2>7
  <2>13. Cuts(h, w.from, w.to, size, overlap)
    BY <2>7, <2>8, <2>9, <2>10, <2>11, <2>12 DEF Cuts
  <2> QED
    BY <2>11, <2>13 DEF h
<1> QED
  BY <1>2, <1>3

\* The pieces of all windows.
LEMMA PiecesFacts ==
  ASSUME NEW size \in Nat, NEW overlap \in Nat, overlap < size,
         NEW ws, NEW e \in Nat, Packed(ws, e, overlap)
  PROVE  Cuts(FlattenSeq([i \in DOMAIN ws |-> HardSplit(size, overlap, ws[i])]),
              1, e, size, overlap)
<1>1. PICK l \in Nat : l = Len(ws) /\ l > 0
  BY DEF Packed
<1> DEFINE H(i) == HardSplit(size, overlap, ws[i])
<1>2. ws \in Seq(Interval) /\ DOMAIN ws = 1..l
  BY <1>1 DEF Packed
<1>3. /\ ws[1].from = 1 /\ ws[l].to = e
      /\ \A j \in 1..l : ws[j] \in Interval /\ ws[j].from <= ws[j].to /\ 1 <= ws[j].from
                         /\ ws[j].from \in Int /\ ws[j].to \in Int
      /\ \A j \in 1..(l - 1) : /\ ws[j].to < ws[j + 1].to
                               /\ ws[j].to < ws[j + 1].from + overlap
                               /\ ws[j + 1].from <= ws[j].to + 1
  BY <1>1, <1>2, PackedTypes DEF Packed
<1>4. ASSUME NEW i \in 1..l
      PROVE  /\ Cuts(H(i), ws[i].from, ws[i].to, size, overlap)
             /\ H(i)[1].from = ws[i].from
             /\ H(i)[1].to = ws[i].to \/ H(i)[1].to = ws[i].from + size - 1
  BY <1>3, SplitFacts
<1> HIDE DEF H
<1> DEFINE s == [i \in 1..l |-> H(i)]
<1>5. s \in [1..l -> Seq(Interval)]
  BY <1>4 DEF Cuts
<1>6. PICK g : /\ g \in [0..l -> Seq(Interval)] /\ g[0] = <<>> /\ FlattenSeq(s) = g[l]
               /\ \A i \in 1..l : g[i] = g[i - 1] \o H(i)
  <2>1. \A i \in 1..l : s[i] = H(i)
    OBVIOUS
  <2> HIDE DEF s
  <2>2. \E g : Flattening(g, Interval, l, s)
    BY <1>5, FlattenFacts
  <2>3. PICK g : Flattening(g, Interval, l, s)
    BY <2>2
  <2> QED
    BY <2>1, <2>3 DEF Flattening
<1>20. \A i \in 1..l : g[i] = g[i - 1] \o H(i)
  BY <1>6
<1> DEFINE T == {k \in 0..l : k = 0 \/ Cuts(g[k], 1, ws[k].to, size, overlap)}
<1>7. \A k \in 0..l : k < l /\ k \in T => k + 1 \in T
  <2> SUFFICES ASSUME NEW k \in 0..l, k < l, k \in T PROVE k + 1 \in T
    OBVIOUS
  <2>1. k + 1 \in 1..l /\ k + 1 - 1 = k /\ k + 1 \in 0..l
    OBVIOUS
  <2> DEFINE h == H(k + 1)
  <2>2. /\ g[k + 1] = g[k] \o h /\ Cuts(h, ws[k + 1].from, ws[k + 1].to, size, overlap)
        /\ h[1].from = ws[k + 1].from
        /\ h[1].to = ws[k + 1].to \/ h[1].to = ws[k + 1].from + size - 1
    <3>1. PICK i \in 1..l : i = k + 1 /\ i - 1 = k
      BY <2>1
    <3>2. g[i] = g[i - 1] \o H(i)
      BY <1>20
    <3> QED
      BY <1>4, <2>1, <3>1, <3>2
  <2>3. CASE k = 0
    <3>1. g[k + 1] = h
      <4>1. h \in Seq(Interval) /\ g[k] = <<>>
        BY <1>6, <2>2, <2>3 DEF Cuts
      <4> HIDE DEF h
      <4>2. <<>> \o h = h
        BY <4>1
      <4> QED
        BY <2>2, <4>1, <4>2
    <3>2. ws[k + 1].from = 1
      BY <1>3, <2>3
    <3>3. Cuts(g[k + 1], 1, ws[k + 1].to, size, overlap)
      BY <2>2, <3>1, <3>2
    <3> QED
      BY <2>1, <3>3
  <2>4. CASE k # 0
    <3>1. k \in 1..(l - 1)
      BY <2>1, <2>4
    <3>2. Cuts(g[k], 1, ws[k].to, size, overlap)
      BY <2>4
    <3>3. ws[k].to <= h[1].to /\ ws[k].to < h[1].from + overlap /\ h[1].from <= ws[k].to + 1
      <4>1. /\ ws[k].to < ws[k + 1].to /\ ws[k].to < ws[k + 1].from + overlap
            /\ ws[k + 1].from <= ws[k].to + 1
            /\ ws[k].to \in Int /\ ws[k + 1].to \in Int /\ ws[k + 1].from \in Int
        BY <1>3, <2>1, <3>1
      <4> HIDE DEF h
      <4> QED
        BY <2>2, <4>1
    <3> HIDE DEF h
    <3>4. Cuts(g[k + 1], 1, ws[k + 1].to, size, overlap)
      BY <2>2, <3>2, <3>3, CutsJoined
    <3> QED
      BY <2>1, <3>4
  <2> QED
    BY <2>3, <2>4
<1>8. 0 \in T
  OBVIOUS
<1> HIDE DEF T
<1>9. l \in T
  <2>1. \A k \in 0..l : k \in T
    BY <1>7, <1>8, UpToInduction
  <2> QED
    BY <2>1
<1>10. Cuts(g[l], 1, e, size, overlap)
  BY <1>1, <1>3, <1>9 DEF T
<1>11. s = [i \in DOMAIN ws |-> HardSplit(size, overlap, ws[i])]
  BY <1>2 DEF H
<1> QED
  BY <1>6, <1>10, <1>11

LEMMA FollowsTwo ==
  ASSUME NEW overlap \in Nat, NEW c, NEW d, NEW f, c.to \in Int, d.to \in Int,
         f.to \in Int, f.from \in Int, Follows(c, d, overlap), Follows(d, f, overlap)
  PROVE  Follows(c, f, overlap)
<1>1. c.to <= d.to /\ d.to <= f.to /\ d.to < f.from + overlap
  BY DEF Follows
<1>2. c.to <= f.to /\ c.to < f.from + overlap
  BY <1>1
<1> QED
  BY <1>2 DEF Follows

\* Of pieces that follow one another, so does any of them each before it.
LEMMA FollowsOn ==
  ASSUME NEW overlap \in Nat, NEW p \in Seq(Interval),
         \A j \in 1..(Len(p) - 1) : Follows(p[j], p[j + 1], overlap)
  PROVE  \A a, b \in 1..Len(p) : a < b => Follows(p[a], p[b], overlap)
<1> DEFINE n == Len(p)
<1>1. n \in Nat /\ \A j \in 1..n : p[j].from \in Int /\ p[j].to \in Int
  BY PackedTypes
<1>2. \A j \in 1..(n - 1) : Follows(p[j], p[j + 1], overlap)
  OBVIOUS
<1> HIDE DEF n
<1> SUFFICES ASSUME NEW a \in 1..n PROVE \A b \in 1..n : a < b => Follows(p[a], p[b], overlap)
  BY DEF n
<1> DEFINE T == {b \in 0..n : a < b => Follows(p[a], p[b], overlap)}
<1>3. \A b \in 0..n : b < n /\ b \in T => b + 1 \in T
  <2> SUFFICES ASSUME NEW b \in 0..n, b < n, b \in T, a < b + 1
               PROVE  Follows(p[a], p[b + 1], overlap)
    <3>1. \A b \in 0..n : b < n => b + 1 \in 0..n
      BY <1>1
    <3> QED
      BY <3>1
  <2>1. b \in 1..(n - 1) /\ b \in 1..n /\ b + 1 \in 1..n /\ b + 1 \in 0..n
    BY <1>1
  <2>2. Follows(p[b], p[b + 1], overlap)
    BY <1>2, <2>1
  <2>3. CASE a = b
    BY <2>1, <2>2, <2>3
  <2>4. CASE a < b
    <3>1. Follows(p[a], p[b], overlap)
      BY <2>4
    <3>2. p[a].to \in Int /\ p[b].to \in Int /\ p[b + 1].to \in Int /\ p[b + 1].from \in Int
      BY <1>1, <2>1
    <3> QED
      BY <2>2, <3>1, <3>2, FollowsTwo
  <2> QED
    BY <1>1, <2>3, <2>4
<1>4. 0 \in T
  BY <1>1
<1> HIDE DEF T
<1>5. \A b \in 0..n : b \in T
  BY <1>1, <1>3, <1>4, UpToInduction
<1> QED
  BY <1>1, <1>5 DEF T

\* The first of n pieces that ends no sooner than t has t.
Reached(p, n, t) == \E j \in 1..n : Spans(p[j], t) /\ \A i \in 1..(j - 1) : p[i].to < t

LEMMA AllReached ==
  ASSUME NEW p \in Seq(Interval), NEW n \in Nat, n = Len(p), n > 0, p[1].from = 1,
         \A j \in 1..(n - 1) : p[j + 1].from <= p[j].to + 1
  PROVE  \A t \in 1..p[n].to : Reached(p, n, t)
<1>1. \A j \in 1..n : p[j].from \in Int /\ p[j].to \in Int
  BY PackedTypes
<1> SUFFICES ASSUME NEW t \in 1..p[n].to PROVE Reached(p, n, t)
  OBVIOUS
<1>2. n \in 1..n /\ t \in Int /\ 1 <= t /\ t <= p[n].to
  BY <1>1
<1> DEFINE T == {k \in 0..n : Reached(p, k, t) \/ \A i \in 1..k : p[i].to < t}
<1>3. \A k \in 0..n : k < n /\ k \in T => k + 1 \in T
  <2> SUFFICES ASSUME NEW k \in 0..n, k < n, k \in T PROVE k + 1 \in T
    OBVIOUS
  <2>1. k + 1 \in 1..n /\ k + 1 \in 0..n /\ k + 1 \in 1..(k + 1) /\ k + 1 - 1 = k
    OBVIOUS
  <2>2. CASE Reached(p, k, t)
    <3>1. PICK j \in 1..k : Spans(p[j], t) /\ \A i \in 1..(j - 1) : p[i].to < t
      BY <2>2 DEF Reached
    <3>2. j \in 1..(k + 1)
      OBVIOUS
    <3>3. Reached(p, k + 1, t)
      BY <3>1, <3>2 DEF Reached
    <3> QED
      BY <2>1, <3>3
  <2>3. CASE \A i \in 1..k : p[i].to < t
    <3>1. p[k + 1].from <= t
      <4>1. CASE k = 0
        BY <1>2, <4>1
      <4>2. CASE k # 0
        <5>1. k \in 1..(n - 1) /\ k \in 1..k /\ k \in 1..n
          BY <4>2
        <5>2. p[k + 1].from <= p[k].to + 1 /\ p[k].to < t
          BY <2>3, <5>1
        <5> QED
          BY <1>1, <1>2, <2>1, <5>1, <5>2
      <4> QED
        BY <4>1, <4>2
    <3>2. CASE t <= p[k + 1].to
      <4>1. Spans(p[k + 1], t)
        BY <3>1, <3>2 DEF Spans
      <4>2. Reached(p, k + 1, t)
        BY <2>1, <2>3, <4>1 DEF Reached
      <4> QED
        BY <2>1, <4>2
    <3>3. CASE p[k + 1].to < t
      <4>1. \A i \in 1..(k + 1) : i \in 1..k \/ i = k + 1
        OBVIOUS
      <4>2. \A i \in 1..(k + 1) : p[i].to < t
        BY <2>3, <3>3, <4>1
      <4> QED
        BY <2>1, <4>2
    <3> QED
      BY <1>1, <1>2, <2>1, <3>2, <3>3
  <2> QED
    BY <2>2, <2>3
<1>4. 0 \in T
  OBVIOUS
<1> HIDE DEF T
<1>5. n \in T
  <2>1. \A k \in 0..n : k \in T
    BY <1>3, <1>4, UpToInduction
  <2> QED
    BY <2>1
<1> QED
  BY <1>1, <1>2, <1>5 DEF T

Chunk == [ord : Nat, from : Int, to : Int]

\* Chunks that tile a text.
Tiling(text, cs, size, overlap) ==
  /\ cs \in Seq(Chunk)
  /\ \A i \in 1..Len(cs) : Length(cs[i]) <= size
  /\ \A i \in 1..(Len(cs) - 1) : cs[i].ord < cs[i + 1].ord /\ Follows(cs[i], cs[i + 1], overlap)
  /\ \A i \in 1..Len(cs) : cs[i].to <= Ends(text)[Len(text)]
  /\ \A t \in (1..Ends(text)[Len(text)]) \ Blank(text) : Reached(cs, Len(cs), t)

PiecesOf(text, size, overlap) ==
  LET ws == Windows(text, size, overlap)
  IN  FlattenSeq([i \in DOMAIN ws |-> HardSplit(size, overlap, ws[i])])

LEMMA PiecesOfText ==
  ASSUME NEW text \in Seq(Positive), NEW size \in Nat, NEW overlap \in Nat, overlap < size
  PROVE  LET p == PiecesOf(text, size, overlap) IN
         /\ p \in Seq(Interval)
         /\ \A j \in 1..Len(p) : Length(p[j]) <= size
         /\ \A j \in 1..(Len(p) - 1) : Follows(p[j], p[j + 1], overlap)
         /\ \A j \in 1..Len(p) : p[j].to <= Ends(text)[Len(text)]
         /\ \A t \in 1..Ends(text)[Len(text)] : Reached(p, Len(p), t)
<1>1. PICK ws : ws = Windows(text, size, overlap)
  OBVIOUS
<1>2. PICK e \in Nat : e = Ends(text)[Len(text)]
  BY EndsFacts
<1>3. CASE ws = <<>> /\ e = 0
  <2> DEFINE s == [i \in DOMAIN ws |-> HardSplit(size, overlap, ws[i])]
  <2>1. s \in [1..0 -> Seq(Interval)]
    BY <1>3
  <2>2. FlattenSeq(s) = <<>>
    <3> HIDE DEF s
    <3>1. \E g : Flattening(g, Interval, 0, s)
      BY <2>1, FlattenFacts
    <3> QED
      BY <3>1 DEF Flattening
  <2> QED
    <3>1. PiecesOf(text, size, overlap) = <<>>
      BY <1>1, <2>2 DEF PiecesOf
    <3>2. 1..0 = {} /\ 1..(0 - 1) = {} /\ Len(<<>>) = 0 /\ <<>> \in Seq(Interval)
      OBVIOUS
    <3> QED
      BY <1>2, <1>3, <3>1, <3>2
<1>4. CASE Packed(ws, e, overlap)
  <2>1. PICK p : p = PiecesOf(text, size, overlap)
    OBVIOUS
  <2>2. Cuts(p, 1, e, size, overlap)
    BY <1>1, <1>4, <2>1, PiecesFacts DEF PiecesOf
  <2>3. /\ p \in Seq(Interval) /\ Len(p) > 0 /\ p[1].from = 1 /\ p[Len(p)].to = e
        /\ \A j \in 1..Len(p) : Length(p[j]) <= size
        /\ \A j \in 1..(Len(p) - 1) : Follows(p[j], p[j + 1], overlap) /\ p[j + 1].from <= p[j].to + 1
    BY <2>2 DEF Cuts, Adjoins
  <2>4. PICK n \in Nat : n = Len(p)
    BY <2>3
  <2>5. \A t \in 1..e : Reached(p, n, t)
    BY <2>3, <2>4, AllReached
  <2>6. \A j \in 1..n : p[j].to <= e
    <3> TAKE j \in 1..n
    <3>1. \A a, b \in 1..n : a < b => Follows(p[a], p[b], overlap)
      BY <2>3, <2>4, FollowsOn
    <3>2. j = n \/ (j < n /\ n \in 1..n)
      OBVIOUS
    <3> QED
      BY <1>2, <2>3, <2>4, <3>1, <3>2 DEF Follows
  <2> QED
    BY <1>2, <2>1, <2>3, <2>4, <2>5, <2>6
<1> QED
  BY <1>1, <1>2, <1>3, <1>4, WindowsPack

LEMMA Ascending ==
  ASSUME NEW n \in Nat, NEW S \in SUBSET (1..n)
  PROVE  LET at == OrderedBy([i \in S |-> i], S) IN
         /\ Cardinality(S) \in Nat /\ at \in [1..Cardinality(S) -> S]
         /\ \A x \in S : \E i \in 1..Cardinality(S) : at[i] = x
         /\ \A i, j \in 1..Cardinality(S) : i < j => at[i] < at[j]
<1> DEFINE key == [i \in S |-> i]
<1> DEFINE before == {p \in S \X S : key[p[1]] < key[p[2]]}
<1>1. \A x, y \in S : <<x, y>> \in before <=> x < y
  OBVIOUS
<1>2. OrderedBy(key, S) = Ordered(S, before)
  BY DEF OrderedBy
<1>3. S \subseteq Int
  OBVIOUS
<1> HIDE DEF before
<1>4. IsOrder(S, before)
  BY <1>1, <1>3 DEF IsOrder
<1>5. IsFiniteSet(S) /\ Cardinality(S) \in Nat
  BY UpTo, FS_Subset, FS_CardinalityType
<1>6. /\ Ordered(S, before) \in [1..Cardinality(S) -> S]
      /\ \A x \in S : \E i \in 1..Cardinality(S) : Ordered(S, before)[i] = x
      /\ \A i, j \in 1..Cardinality(S) :
           <<Ordered(S, before)[i], Ordered(S, before)[j]>> \in before <=> i < j
  BY <1>4, <1>5, OrderedFacts
<1> DEFINE at == Ordered(S, before)
<1>7. \A i, j \in 1..Cardinality(S) : i < j => at[i] < at[j]
  BY <1>1, <1>6
<1> QED
  BY <1>2, <1>5, <1>6, <1>7

LEMMA ChunkTextFacts ==
  ASSUME NEW text \in Seq(Positive), NEW size \in Nat, NEW overlap \in Nat, overlap < size
  PROVE  Tiling(text, ChunkText(text, size, overlap), size, overlap)
<1> DEFINE cs == ChunkText(text, size, overlap)
<1>1. PICK p : p = PiecesOf(text, size, overlap)
  OBVIOUS
<1>2. PICK e \in Nat : e = Ends(text)[Len(text)]
  BY EndsFacts
<1>3. /\ p \in Seq(Interval)
      /\ \A j \in 1..Len(p) : Length(p[j]) <= size
      /\ \A j \in 1..(Len(p) - 1) : Follows(p[j], p[j + 1], overlap)
      /\ \A j \in 1..Len(p) : p[j].to <= e
      /\ \A t \in 1..e : Reached(p, Len(p), t)
  BY <1>1, <1>2, PiecesOfText
<1>4. PICK n \in Nat : n = Len(p)
  BY <1>3
<1>5. \A a, b \in 1..n : a < b => Follows(p[a], p[b], overlap)
  BY <1>3, <1>4, FollowsOn
<1>6. \A j \in 1..n : p[j] \in Interval /\ p[j].from \in Int /\ p[j].to \in Int
  BY <1>3, <1>4, PackedTypes
<1> DEFINE kept == {i \in 1..n : ~(p[i].from..p[i].to \subseteq Blank(text))}
<1>7. PICK at : at = OrderedBy([i \in kept |-> i], kept)
  OBVIOUS
<1>8. cs = [i \in 1..Cardinality(kept) |->
              [ord |-> at[i] - 1, from |-> p[at[i]].from, to |-> p[at[i]].to]]
  <2>1. DOMAIN p = 1..n
    BY <1>3, <1>4
  <2> QED
    BY <1>1, <1>7, <2>1 DEF ChunkText, PiecesOf
<1>9. kept \in SUBSET (1..n)
  OBVIOUS
<1>10. \A i \in kept : i \in 1..n
  OBVIOUS
<1>11. ASSUME NEW t \in (1..e) \ Blank(text)
       PROVE  \E j \in kept : Spans(p[j], t) /\ \A i \in 1..(j - 1) : p[i].to < t
  <2>1. PICK j \in 1..n : Spans(p[j], t) /\ \A i \in 1..(j - 1) : p[i].to < t
    BY <1>3, <1>4 DEF Reached
  <2>2. t \in p[j].from..p[j].to
    BY <1>6, <2>1 DEF Spans
  <2> QED
    BY <2>1, <2>2
<1> HIDE DEF kept, cs
<1>12. PICK m \in Nat :
         /\ m = Cardinality(kept) /\ at \in [1..m -> kept]
         /\ \A x \in kept : \E i \in 1..m : at[i] = x
         /\ \A i, j \in 1..m : i < j => at[i] < at[j]
  BY <1>7, <1>9, Ascending
<1>13. \A i \in 1..m : at[i] \in kept /\ at[i] \in 1..n
  BY <1>10, <1>12
<1>14. \A i \in 1..m : [ord |-> at[i] - 1, from |-> p[at[i]].from, to |-> p[at[i]].to] \in Chunk
  BY <1>6, <1>13 DEF Chunk
<1>15. /\ cs \in Seq(Chunk) /\ Len(cs) = m
       /\ \A i \in 1..m : cs[i].ord = at[i] - 1 /\ cs[i].from = p[at[i]].from /\ cs[i].to = p[at[i]].to
  <2> DEFINE c(i) == [ord |-> at[i] - 1, from |-> p[at[i]].from, to |-> p[at[i]].to]
  <2>1. cs = [i \in 1..m |-> c(i)]
    BY <1>8, <1>12
  <2>2. \A i \in 1..m : /\ c(i) \in Chunk /\ c(i).ord = at[i] - 1
                        /\ c(i).from = p[at[i]].from /\ c(i).to = p[at[i]].to
    BY <1>14
  <2> HIDE DEF c
  <2> QED
    BY <2>1, <2>2
<1>16. \A i \in 1..m : Length(cs[i]) <= size /\ cs[i].to <= e
  BY <1>3, <1>4, <1>13, <1>15 DEF Length
<1>17. ASSUME NEW i \in 1..(m - 1)
       PROVE  cs[i].ord < cs[i + 1].ord /\ Follows(cs[i], cs[i + 1], overlap)
  <2>1. i \in 1..m /\ i + 1 \in 1..m /\ i < i + 1
    OBVIOUS
  <2>2. at[i] < at[i + 1] /\ at[i] \in 1..n /\ at[i + 1] \in 1..n
    BY <1>12, <1>13, <2>1
  <2>3. Follows(p[at[i]], p[at[i + 1]], overlap)
    BY <1>5, <2>2
  <2>4. cs[i].ord < cs[i + 1].ord
    BY <1>15, <2>1, <2>2
  <2> QED
    BY <1>15, <2>1, <2>3, <2>4 DEF Follows
<1>18. ASSUME NEW t \in (1..e) \ Blank(text)
       PROVE  Reached(cs, m, t)
  <2>1. PICK j \in kept : Spans(p[j], t) /\ \A i \in 1..(j - 1) : p[i].to < t
    BY <1>11
  <2>2. PICK i \in 1..m : at[i] = j
    BY <1>12
  <2>3. Spans(cs[i], t)
    BY <1>15, <2>1, <2>2 DEF Spans
  <2>4. ASSUME NEW k \in 1..(i - 1)
        PROVE  cs[k].to < t
    <3>1. k \in 1..m /\ k < i
      OBVIOUS
    <3>2. at[k] < at[i] /\ at[k] \in 1..n /\ at[i] \in 1..n
      BY <1>12, <1>13, <3>1
    <3>3. at[k] \in 1..(j - 1)
      BY <2>2, <3>2
    <3> QED
      BY <1>15, <2>1, <3>1, <3>3
  <2> QED
    BY <2>3, <2>4 DEF Reached
<1> QED
  BY <1>2, <1>15, <1>16, <1>17, <1>18 DEF Tiling, cs

\* A document, as ingest_document has parsed it.
Document(d) ==
  /\ d.pages \in {<<t>> : t \in Seq(Positive)} \cup Seq(Positive) \X Seq(Positive)
  /\ d.size \in Nat /\ d.overlap \in Nat /\ d.overlap < d.size /\ d.limit \in Nat
  /\ d.order \in {InOrder, Reversed}

\* The chunk i of a document is the first of its page that ends no sooner than t.
ReachedBy(cs, i, p, t) ==
  /\ cs[i].page = p /\ Spans(cs[i].chunk, t)
  /\ \A k \in 1..(i - 1) : cs[k].page = p => cs[k].chunk.to < t

\* All the chunks of a document, of which ingest_document keeps the first.
Tiled(d, cs) ==
  /\ \A i \in DOMAIN cs : cs[i].page \in Nat /\ cs[i].chunk.from \in Int /\ cs[i].chunk.to \in Int
  /\ \A i, k \in DOMAIN cs : i < k => cs[i].page <= cs[k].page
  /\ \A p \in DOMAIN d.pages :
       \A t \in (1..Ends(d.pages[p])[Len(d.pages[p])]) \ Blank(d.pages[p]) :
         \E i \in DOMAIN cs : ReachedBy(cs, i, p, t)
  /\ \A p \in DOMAIN d.pages : \A i \in DOMAIN cs :
       cs[i].page = p => cs[i].chunk.to <= Ends(d.pages[p])[Len(d.pages[p])]
  /\ \A i \in DOMAIN cs : Length(cs[i].chunk) <= d.size
  /\ \A i \in 1..(Len(cs) - 1) :
       /\ cs[i].ord < cs[i + 1].ord
       /\ cs[i].page = cs[i + 1].page => Follows(cs[i].chunk, cs[i + 1].chunk, d.overlap)
  /\ Len(d.pages) > 1 => \A i \in DOMAIN cs : cs[i].ord = i - 1

LEMMA ChunkTypes ==
  ASSUME NEW cs \in Seq(Chunk)
  PROVE  \A i \in 1..Len(cs) : cs[i].from \in Int /\ cs[i].to \in Int
<1> TAKE i \in 1..Len(cs)
<1>1. cs[i] \in Chunk
  OBVIOUS
<1> QED
  BY <1>1 DEF Chunk

LEMMA TextIsTiled ==
  ASSUME NEW d, Document(d), NEW text \in Seq(Positive), d.pages = <<text>>
  PROVE  Tiled(d, AllChunks(d)) /\ \E X : AllChunks(d) \in Seq(X)
<1>1. PICK ct : ct = ChunkText(text, d.size, d.overlap)
  OBVIOUS
<1>2. Len(d.pages) = 1 /\ d.pages[1] = text /\ DOMAIN d.pages = {1}
  OBVIOUS
<1>3. Tiling(text, ct, d.size, d.overlap)
  BY <1>1, ChunkTextFacts DEF Document
<1>4. PICK n \in Nat : n = Len(ct) /\ DOMAIN ct = 1..n
  BY <1>3 DEF Tiling
<1>5. /\ \A i \in 1..n : Length(ct[i]) <= d.size
      /\ \A i \in 1..(n - 1) : ct[i].ord < ct[i + 1].ord /\ Follows(ct[i], ct[i + 1], d.overlap)
      /\ \A i \in 1..n : ct[i].from \in Int /\ ct[i].to \in Int
      /\ \A i \in 1..n : ct[i].to <= Ends(text)[Len(text)]
      /\ \A t \in (1..Ends(text)[Len(text)]) \ Blank(text) : Reached(ct, n, t)
  BY <1>3, <1>4, ChunkTypes DEF Tiling
<1> DEFINE cs == [i \in 1..n |-> [page |-> 1, chunk |-> ct[i], ord |-> ct[i].ord]]
<1>6. AllChunks(d) = cs
  BY <1>1, <1>2, <1>4 DEF AllChunks
<1>7. /\ DOMAIN cs = 1..n /\ Len(cs) = n
      /\ \A i \in 1..n : cs[i].page = 1 /\ cs[i].chunk = ct[i] /\ cs[i].ord = ct[i].ord
  OBVIOUS
<1>20. cs \in Seq({cs[i] : i \in 1..n})
  OBVIOUS
<1> HIDE DEF cs
<1>8. ASSUME NEW t \in (1..Ends(text)[Len(text)]) \ Blank(text)
      PROVE  \E i \in DOMAIN cs : ReachedBy(cs, i, 1, t)
  <2>1. PICK i \in 1..n : Spans(ct[i], t) /\ \A k \in 1..(i - 1) : ct[k].to < t
    BY <1>5 DEF Reached
  <2>2. \A k \in 1..(i - 1) : k \in 1..n
    BY <1>4
  <2>3. ReachedBy(cs, i, 1, t)
    BY <1>7, <2>1, <2>2 DEF ReachedBy
  <2> QED
    BY <1>7, <2>3
<1>9. ASSUME NEW i \in 1..(Len(cs) - 1)
      PROVE  /\ cs[i].ord < cs[i + 1].ord
             /\ Follows(cs[i].chunk, cs[i + 1].chunk, d.overlap)
  <2>1. i \in 1..(n - 1) /\ i \in 1..n /\ i + 1 \in 1..n
    BY <1>4, <1>7
  <2> QED
    BY <1>5, <1>7, <2>1
<1>10. \A i \in DOMAIN cs : Length(cs[i].chunk) <= d.size
  BY <1>5, <1>7
<1>11. \A p \in DOMAIN d.pages :
         \A t \in (1..Ends(d.pages[p])[Len(d.pages[p])]) \ Blank(d.pages[p]) :
           \E i \in DOMAIN cs : ReachedBy(cs, i, p, t)
  BY <1>2, <1>8
<1>12. ~(Len(d.pages) > 1)
  BY <1>2
<1>13. /\ \A i \in DOMAIN cs : cs[i].page \in Nat /\ cs[i].chunk.from \in Int /\ cs[i].chunk.to \in Int
       /\ \A i, k \in DOMAIN cs : i < k => cs[i].page <= cs[k].page
  BY <1>5, <1>7
<1>15. \A p \in DOMAIN d.pages : \A i \in DOMAIN cs :
         cs[i].page = p => cs[i].chunk.to <= Ends(d.pages[p])[Len(d.pages[p])]
  BY <1>2, <1>5, <1>7
<1>14. Tiled(d, cs)
  BY <1>9, <1>10, <1>11, <1>12, <1>13, <1>15 DEF Tiled
<1> QED
  BY <1>6, <1>20, <1>14

LEMMA IsSequence ==
  ASSUME NEW n \in Nat, NEW X, NEW f, f \in [1..n -> X]
  PROVE  f \in Seq(X)
OBVIOUS

LEMMA PagesAreTiled ==
  ASSUME NEW d, Document(d), NEW t1 \in Seq(Positive), NEW t2 \in Seq(Positive),
         d.pages = <<t1, t2>>
  PROVE  Tiled(d, AllChunks(d)) /\ \E X : AllChunks(d) \in Seq(X)
<1>1. PICK c1 : c1 = ChunkText(t1, d.size, d.overlap)
  OBVIOUS
<1>2. PICK c2 : c2 = ChunkText(t2, d.size, d.overlap)
  OBVIOUS
<1>3. Len(d.pages) = 2 /\ d.pages[1] = t1 /\ d.pages[2] = t2 /\ DOMAIN d.pages = {1, 2}
  OBVIOUS
<1>4. Tiling(t1, c1, d.size, d.overlap) /\ Tiling(t2, c2, d.size, d.overlap)
  BY <1>1, <1>2, ChunkTextFacts DEF Document
<1>5. PICK n1 \in Nat : n1 = Len(c1) /\ DOMAIN c1 = 1..n1
  BY <1>4 DEF Tiling
<1>6. PICK n2 \in Nat : n2 = Len(c2) /\ DOMAIN c2 = 1..n2
  BY <1>4 DEF Tiling
<1>7. /\ \A i \in 1..n1 : Length(c1[i]) <= d.size
      /\ \A i \in 1..n2 : Length(c2[i]) <= d.size
      /\ \A i \in 1..(n1 - 1) : Follows(c1[i], c1[i + 1], d.overlap)
      /\ \A i \in 1..(n2 - 1) : Follows(c2[i], c2[i + 1], d.overlap)
      /\ \A i \in 1..n1 : c1[i].from \in Int /\ c1[i].to \in Int
      /\ \A i \in 1..n2 : c2[i].from \in Int /\ c2[i].to \in Int
      /\ \A i \in 1..n1 : c1[i].to <= Ends(t1)[Len(t1)]
      /\ \A i \in 1..n2 : c2[i].to <= Ends(t2)[Len(t2)]
      /\ \A t \in (1..Ends(t1)[Len(t1)]) \ Blank(t1) : Reached(c1, n1, t)
      /\ \A t \in (1..Ends(t2)[Len(t2)]) \ Blank(t2) : Reached(c2, n2, t)
  BY <1>4, <1>5, <1>6, ChunkTypes DEF Tiling
<1> DEFINE P(i, c) == [j \in DOMAIN c |-> [page |-> i, chunk |-> c[j]]]
<1> DEFINE all == P(1, c1) \o P(2, c2)
<1> DEFINE cs == [k \in DOMAIN all |-> [page |-> all[k].page, chunk |-> all[k].chunk, ord |-> k - 1]]
<1>8. AllChunks(d) = cs
  <2> DEFINE s == [i \in DOMAIN d.pages |->
                     LET c == ChunkText(d.pages[i], d.size, d.overlap) IN P(i, c)]
  <2>1. AllChunks(d) = LET a == FlattenSeq(s)
                      IN  [k \in DOMAIN a |-> [page |-> a[k].page, chunk |-> a[k].chunk, ord |-> k - 1]]
    BY <1>3 DEF AllChunks, ChunkPages
  <2>2. s = <<P(1, c1), P(2, c2)>>
    <3> HIDE DEF P
    <3>1. s[1] = P(1, c1) /\ s[2] = P(2, c2) /\ DOMAIN s = {1, 2}
      BY <1>1, <1>2, <1>3
    <3>2. s \in [1..2 -> {s[1], s[2]}]
      BY <1>3, <3>1
    <3> HIDE DEF s
    <3> QED
      BY <3>1, <3>2
  <2> HIDE DEF s, P
  <2>3. FlattenSeq(s) = all
    BY <2>2, FlattenTwo
  <2> QED
    BY <2>1, <2>3
<1> DEFINE n == n1 + n2
<1>9. /\ DOMAIN all = 1..n
      /\ \A k \in 1..n1 : all[k].page = 1 /\ all[k].chunk = c1[k]
      /\ \A k \in 1..n : k > n1 => all[k].page = 2 /\ all[k].chunk = c2[k - n1]
  <2> DEFINE X == [page : {1, 2}, chunk : {c1[j] : j \in 1..n1} \cup {c2[j] : j \in 1..n2}]
  <2>1. /\ P(1, c1) \in Seq(X) /\ Len(P(1, c1)) = n1
        /\ \A k \in 1..n1 : P(1, c1)[k].page = 1 /\ P(1, c1)[k].chunk = c1[k]
    BY <1>5
  <2>2. /\ P(2, c2) \in Seq(X) /\ Len(P(2, c2)) = n2
        /\ \A k \in 1..n2 : P(2, c2)[k].page = 2 /\ P(2, c2)[k].chunk = c2[k]
    BY <1>6
  <2> HIDE DEF P, X
  <2>3. PICK a \in Seq(X) : a = P(1, c1) /\ Len(a) = n1
    BY <2>1
  <2>4. PICK b \in Seq(X) : b = P(2, c2) /\ Len(b) = n2
    BY <2>2
  <2>5. all = a \o b
    BY <2>3, <2>4
  <2> HIDE DEF all
  <2>6. /\ DOMAIN all = 1..n
        /\ \A k \in 1..n1 : all[k] = a[k]
        /\ \A k \in 1..n : k > n1 => all[k] = b[k - n1]
    BY <2>3, <2>4, <2>5
  <2>7. \A k \in 1..n : k > n1 => k - n1 \in 1..n2
    OBVIOUS
  <2>8. \A k \in 1..n1 : all[k].page = 1 /\ all[k].chunk = c1[k]
    BY <2>1, <2>3, <2>6
  <2>9. \A k \in 1..n : k > n1 => all[k].page = 2 /\ all[k].chunk = c2[k - n1]
    BY <2>2, <2>4, <2>6, <2>7
  <2> QED
    BY <2>6, <2>8, <2>9
<1> HIDE DEF all
<1>10. /\ DOMAIN cs = 1..n /\ Len(cs) = n
       /\ \A k \in 1..n1 : cs[k].page = 1 /\ cs[k].chunk = c1[k]
       /\ \A k \in 1..n : k > n1 => cs[k].page = 2 /\ cs[k].chunk = c2[k - n1]
       /\ \A k \in 1..n : cs[k].ord = k - 1
  BY <1>9
<1>20. \E X : cs \in Seq(X)
  <2> DEFINE c(k) == [page |-> all[k].page, chunk |-> all[k].chunk, ord |-> k - 1]
  <2>1. cs = [k \in 1..n |-> c(k)]
    BY <1>9
  <2> HIDE DEF c, n
  <2>2. n \in Nat
    BY DEF n
  <2>3. [k \in 1..n |-> c(k)] \in [1..n -> {c(k) : k \in 1..n}]
    OBVIOUS
  <2> QED
    BY <2>1, <2>2, <2>3, IsSequence
<1> HIDE DEF cs
<1>11. ASSUME NEW t \in (1..Ends(t1)[Len(t1)]) \ Blank(t1)
       PROVE  \E i \in DOMAIN cs : ReachedBy(cs, i, 1, t)
  <2>1. PICK i \in 1..n1 : Spans(c1[i], t) /\ \A k \in 1..(i - 1) : c1[k].to < t
    BY <1>7 DEF Reached
  <2>2. i \in 1..n /\ \A k \in 1..(i - 1) : k \in 1..n1
    OBVIOUS
  <2>3. ReachedBy(cs, i, 1, t)
    BY <1>10, <2>1, <2>2 DEF ReachedBy
  <2> QED
    BY <1>10, <2>2, <2>3
<1>12. ASSUME NEW t \in (1..Ends(t2)[Len(t2)]) \ Blank(t2)
       PROVE  \E i \in DOMAIN cs : ReachedBy(cs, i, 2, t)
  <2>1. PICK j \in 1..n2 : Spans(c2[j], t) /\ \A k \in 1..(j - 1) : c2[k].to < t
    BY <1>7 DEF Reached
  <2>2. PICK i \in 1..n : i = n1 + j /\ i > n1 /\ i - n1 = j
    <3>1. n1 + j \in 1..n /\ n1 + j > n1 /\ n1 + j - n1 = j
      OBVIOUS
    <3> QED
      BY <3>1
  <2>3. ASSUME NEW k \in 1..(i - 1), cs[k].page = 2
        PROVE  cs[k].chunk.to < t
    <3>1. k \in 1..n
      OBVIOUS
    <3>2. k > n1
      <4>1. CASE k <= n1
        <5>1. k \in 1..n1
          BY <4>1
        <5>2. cs[k].page = 1
          BY <1>10, <5>1
        <5> QED
          BY <2>3, <5>2
      <4> QED
        BY <4>1
    <3>3. k - n1 \in 1..(j - 1)
      BY <2>2, <3>2
    <3> HIDE DEF n
    <3> QED
      BY <1>10, <2>1, <3>1, <3>2, <3>3
  <2> HIDE DEF n
  <2>4. cs[i].page = 2 /\ cs[i].chunk = c2[j]
    BY <1>10, <2>2
  <2>5. ReachedBy(cs, i, 2, t)
    BY <2>1, <2>3, <2>4 DEF ReachedBy
  <2> QED
    BY <1>10, <2>5
<1>13. ASSUME NEW i \in 1..n
       PROVE  Length(cs[i].chunk) <= d.size
  <2>1. CASE i <= n1
    <3>1. i \in 1..n1
      BY <2>1
    <3> QED
      BY <1>7, <1>10, <3>1
  <2>2. CASE i > n1
    <3>1. i - n1 \in 1..n2
      BY <2>2
    <3> QED
      BY <1>7, <1>10, <2>2, <3>1
  <2> QED
    BY <2>1, <2>2
<1>14. ASSUME NEW i \in 1..(n - 1)
       PROVE  /\ cs[i].ord < cs[i + 1].ord
              /\ cs[i].page = cs[i + 1].page => Follows(cs[i].chunk, cs[i + 1].chunk, d.overlap)
  <2>1. i \in 1..n /\ i + 1 \in 1..n
    OBVIOUS
  <2>2. cs[i].ord < cs[i + 1].ord
    BY <1>10, <2>1
  <2>3. CASE i < n1
    <3>1. i \in 1..n1 /\ i + 1 \in 1..n1 /\ i \in 1..(n1 - 1)
      BY <2>3
    <3> QED
      BY <1>7, <1>10, <2>2, <3>1
  <2>4. CASE i = n1
    <3>1. i \in 1..n1 /\ i + 1 > n1
      BY <2>4
    <3>2. cs[i].page = 1 /\ cs[i + 1].page = 2
      BY <1>10, <2>1, <3>1
    <3> QED
      BY <2>2, <3>2
  <2>5. CASE i > n1
    <3>1. i - n1 \in 1..(n2 - 1) /\ i + 1 > n1 /\ i + 1 - n1 = i - n1 + 1
      BY <2>5
    <3>2. /\ cs[i].page = 2 /\ cs[i].chunk = c2[i - n1]
          /\ cs[i + 1].page = 2 /\ cs[i + 1].chunk = c2[i - n1 + 1]
      <4> HIDE DEF n
      <4>1. /\ cs[i].page = 2 /\ cs[i].chunk = c2[i - n1]
            /\ cs[i + 1].page = 2 /\ cs[i + 1].chunk = c2[i + 1 - n1]
        BY <1>10, <2>1, <2>5, <3>1
      <4> QED
        BY <3>1, <4>1
    <3> QED
      BY <1>7, <2>2, <3>1, <3>2
  <2> QED
    BY <2>3, <2>4, <2>5
<1>21. ASSUME NEW i \in 1..n
       PROVE  /\ cs[i].page = IF i <= n1 THEN 1 ELSE 2
              /\ cs[i].chunk.from \in Int /\ cs[i].chunk.to \in Int
              /\ cs[i].chunk.to <= IF i <= n1 THEN Ends(t1)[Len(t1)] ELSE Ends(t2)[Len(t2)]
  <2>1. CASE i <= n1
    <3>1. i \in 1..n1
      BY <2>1
    <3> QED
      BY <1>7, <1>10, <2>1, <3>1
  <2>2. CASE i > n1
    <3>1. i - n1 \in 1..n2 /\ ~(i <= n1)
      BY <2>2
    <3> QED
      BY <1>7, <1>10, <2>2, <3>1
  <2> QED
    BY <2>1, <2>2
<1>22. /\ \A i \in DOMAIN cs : cs[i].page \in Nat /\ cs[i].chunk.from \in Int /\ cs[i].chunk.to \in Int
       /\ \A i, k \in DOMAIN cs : i < k => cs[i].page <= cs[k].page
  <2>1. \A i \in 1..n : cs[i].page = (IF i <= n1 THEN 1 ELSE 2) /\ i \in Int
    BY <1>21
  <2> HIDE DEF n
  <2>2. DOMAIN cs = 1..n
    BY <1>10
  <2>3. \A i, k \in 1..n : i < k => cs[i].page <= cs[k].page
    BY <2>1
  <2> QED
    BY <1>21, <2>1, <2>2, <2>3
<1>23. \A p \in DOMAIN d.pages : \A i \in DOMAIN cs :
         cs[i].page = p => cs[i].chunk.to <= Ends(d.pages[p])[Len(d.pages[p])]
  BY <1>3, <1>10, <1>21
<1> HIDE DEF n
<1>15. \A p \in DOMAIN d.pages :
         \A t \in (1..Ends(d.pages[p])[Len(d.pages[p])]) \ Blank(d.pages[p]) :
           \E i \in DOMAIN cs : ReachedBy(cs, i, p, t)
  BY <1>3, <1>11, <1>12
<1>16. \A i \in DOMAIN cs : Length(cs[i].chunk) <= d.size /\ cs[i].ord = i - 1
  BY <1>10, <1>13
<1>17. \A i \in 1..(Len(cs) - 1) :
         /\ cs[i].ord < cs[i + 1].ord
         /\ cs[i].page = cs[i + 1].page => Follows(cs[i].chunk, cs[i + 1].chunk, d.overlap)
  BY <1>10, <1>14
<1>18. Tiled(d, cs)
  BY <1>15, <1>16, <1>17, <1>22, <1>23 DEF Tiled
<1> QED
  BY <1>8, <1>20, <1>18

LEMMA DocumentIsTiled ==
  ASSUME NEW d, Document(d)
  PROVE  Tiled(d, AllChunks(d)) /\ \E X : AllChunks(d) \in Seq(X)
<1>1. CASE d.pages \in {<<t>> : t \in Seq(Positive)}
  BY <1>1, TextIsTiled
<1>2. CASE d.pages \in Seq(Positive) \X Seq(Positive)
  <2>1. PICK t1, t2 \in Seq(Positive) : d.pages = <<t1, t2>>
    BY <1>2
  <2> QED
    BY <2>1, PagesAreTiled
<1> QED
  BY <1>1, <1>2 DEF Document

LEMMA CutFacts ==
  ASSUME NEW X, NEW all \in Seq(X), NEW limit \in Nat
  PROVE  LET n == IF limit < Len(all) THEN limit ELSE Len(all) IN
         /\ n \in Nat /\ n <= Len(all)
         /\ Cut(all, limit) \in Seq(X) /\ Len(Cut(all, limit)) = n
         /\ \A i \in 1..n : Cut(all, limit)[i] = all[i]
<1>1. PICK l \in Nat : l = Len(all)
  OBVIOUS
<1>2. PICK n \in Nat : n = (IF limit < l THEN limit ELSE l) /\ n <= l
  OBVIOUS
<1>3. Cut(all, limit) = SubSeq(all, 1, n)
  BY <1>1, <1>2 DEF Cut
<1>4. \A i \in 1..n : all[i] \in X
  BY <1>1, <1>2
<1>5. 1 \in Int /\ n \in Int /\ n - 1 + 1 = n /\ \A i \in 1..n : 1 + i - 1 = i
  OBVIOUS
<1>6. /\ SubSeq(all, 1, n) \in Seq(X) /\ Len(SubSeq(all, 1, n)) = IF 1 <= n THEN n - 1 + 1 ELSE 0
      /\ \A i \in 1..(n - 1 + 1) : SubSeq(all, 1, n)[i] = all[1 + i - 1]
  BY <1>4, <1>5, SubSeqProperties
<1>7. Len(SubSeq(all, 1, n)) = n /\ \A i \in 1..n : SubSeq(all, 1, n)[i] = all[i]
  BY <1>5, <1>6
<1> QED
  BY <1>1, <1>2, <1>3, <1>6, <1>7

\* The chunks that are kept go as far into a page as the last of them does.
LEMMA KeptReach ==
  ASSUME NEW d, Document(d), NEW p \in DOMAIN d.pages, NEW X, AllChunks(d) \in Seq(X),
         Tiled(d, AllChunks(d)),
         NEW cs, cs = ChunksOf(d)
  PROVE  Covered(d.pages[p], Reach(d, cs, p), OfPage(cs, p))
<1>1. PICK all \in Seq(X) : all = AllChunks(d) /\ Tiled(d, all)
  OBVIOUS
<1>2. PICK l \in Nat : l = Len(all) /\ DOMAIN all = 1..l
  OBVIOUS
<1>3. PICK n \in Nat : n = (IF d.limit < l THEN d.limit ELSE l) /\ n <= l
  BY <1>2 DEF Document
<1>4. cs \in Seq(X) /\ Len(cs) = n /\ \A i \in 1..n : cs[i] = all[i]
  BY <1>1, <1>2, <1>3, CutFacts DEF ChunksOf, Document
<1>5. DOMAIN cs = 1..n /\ (cs # <<>> => n > 0 /\ n \in 1..n /\ Last(cs) = all[n])
  <2>1. cs # <<>> => Len(cs) \in Nat \ {0}
    BY <1>4, EmptySeq
  <2>2. DOMAIN cs = 1..n /\ Last(cs) = cs[n]
    BY <1>4 DEF Last
  <2> QED
    BY <1>4, <2>1, <2>2
<1>6. PICK e \in Nat : e = Ends(d.pages[p])[Len(d.pages[p])]
  <2>1. PICK text \in Seq(Positive) : text = d.pages[p]
    <3>1. CASE d.pages \in {<<t>> : t \in Seq(Positive)}
      BY <3>1
    <3>2. CASE d.pages \in Seq(Positive) \X Seq(Positive)
      <4>1. PICK t1 \in Seq(Positive), t2 \in Seq(Positive) : d.pages = <<t1, t2>>
        BY <3>2
      <4>2. p \in {1, 2}
        BY <4>1
      <4>3. d.pages[1] = t1 /\ d.pages[2] = t2
        BY <4>1
      <4> QED
        BY <4>2, <4>3
    <3> QED
      BY <3>1, <3>2 DEF Document
  <2>2. PICK k \in Nat : k = Len(text) /\ k \in 0..k
    OBVIOUS
  <2>3. Ends(text) \in [0..k -> Nat]
    BY <2>2, EndsFacts
  <2> QED
    BY <2>1, <2>2, <2>3
<1>7. /\ \A i \in 1..l : all[i].page \in Nat /\ all[i].chunk.from \in Int /\ all[i].chunk.to \in Int
      /\ \A i, k \in 1..l : i < k => all[i].page <= all[k].page
      /\ \A i \in 1..l : all[i].page = p => all[i].chunk.to <= e
      /\ \A t \in (1..e) \ Blank(d.pages[p]) : \E i \in 1..l : ReachedBy(all, i, p, t)
  BY <1>1, <1>2, <1>6 DEF Tiled
<1>8. \A i \in 1..n : i \in 1..l
  BY <1>3
<1> DEFINE found == OfPage(cs, p)
<1>9. ASSUME NEW t \in Int, NEW i \in 1..n, ReachedBy(all, i, p, t)
      PROVE  t \in UNION {c.from..c.to : c \in found}
  <2>1. cs[i].page = p /\ t \in cs[i].chunk.from..cs[i].chunk.to
    BY <1>4, <1>7, <1>8, <1>9 DEF ReachedBy, Spans
  <2> QED
    BY <1>5, <2>1 DEF OfPage
<1>10. Reach(d, cs, p) =
         IF l <= d.limit \/ (cs # <<>> /\ p < Last(cs).page) THEN e
         ELSE IF cs # <<>> /\ p = Last(cs).page THEN Last(cs).chunk.to ELSE 0
  BY <1>1, <1>2, <1>6 DEF Reach
<1> SUFFICES ASSUME NEW t \in (1..Reach(d, cs, p)) \ Blank(d.pages[p])
             PROVE  t \in UNION {c.from..c.to : c \in found}
  BY DEF Covered
<1> HIDE DEF found
<1>11. p \in Nat
  <2>1. DOMAIN d.pages \subseteq Nat
    BY DEF Document
  <2> QED
    BY <2>1
<1>12. CASE l <= d.limit
  <2>1. n = l /\ Reach(d, cs, p) = e
    BY <1>3, <1>10, <1>12 DEF Document
  <2>2. PICK i \in 1..l : ReachedBy(all, i, p, t)
    BY <1>7, <2>1
  <2> QED
    BY <1>9, <2>1, <2>2
<1>13. CASE ~(l <= d.limit) /\ cs # <<>> /\ p < Last(cs).page
  <2>1. Reach(d, cs, p) = e
    BY <1>10, <1>13
  <2>2. PICK i \in 1..l : ReachedBy(all, i, p, t)
    BY <1>7, <2>1
  <2>3. n \in 1..l /\ all[n].page \in Nat /\ p < all[n].page /\ all[i].page = p
    BY <1>5, <1>7, <1>8, <1>13, <2>2 DEF ReachedBy
  <2>4. ~(n < i)
    BY <1>7, <1>11, <2>3
  <2>5. i \in 1..n
    BY <2>3, <2>4
  <2> QED
    BY <1>9, <2>2, <2>5
<1>14. CASE ~(l <= d.limit) /\ cs # <<>> /\ p = Last(cs).page
  <2>1. n \in 1..l /\ Last(cs) = all[n] /\ all[n].page = p /\ all[n].chunk.to \in Int
    BY <1>5, <1>7, <1>8, <1>14
  <2>2. Reach(d, cs, p) = all[n].chunk.to
    BY <1>10, <1>11, <1>14, <2>1
  <2>3. t \in (1..e) \ Blank(d.pages[p]) /\ t <= all[n].chunk.to
    BY <1>7, <2>1, <2>2
  <2>4. PICK i \in 1..l : ReachedBy(all, i, p, t)
    BY <1>7, <2>3
  <2>5. ~(n < i)
    <3>1. CASE n < i
      <4>1. n \in 1..(i - 1)
        BY <2>1, <3>1
      <4>2. all[n].chunk.to < t
        BY <2>1, <2>4, <4>1 DEF ReachedBy
      <4> QED
        BY <2>1, <2>3, <4>2
    <3> QED
      BY <3>1
  <2>6. i \in 1..n
    BY <2>1, <2>5
  <2> QED
    BY <1>9, <2>3, <2>4, <2>6
<1>15. CASE ~(l <= d.limit) /\ ~(cs # <<>> /\ p < Last(cs).page) /\ ~(cs # <<>> /\ p = Last(cs).page)
  <2>1. Reach(d, cs, p) = 0
    BY <1>10, <1>15
  <2> QED
    BY <2>1
<1> QED
  BY <1>12, <1>13, <1>14, <1>15

\* What is known of the document.
DocumentInv == document = None \/ Document(document)

LEMMA DocumentsAreParsed == ChunksSpec => []DocumentInv
<1>1. ChunksInit => DocumentInv
  BY DEF ChunksInit, DocumentInv
<1>2. ASSUME DocumentInv, [Parse]_document
      PROVE  DocumentInv'
  <2>1. CASE UNCHANGED document
    BY <1>2, <2>1 DEF DocumentInv
  <2>2. CASE Parse
    <3>1. \A k \in Nat : Texts(k) \subseteq Seq(Positive)
      <4> SUFFICES ASSUME NEW k \in Nat, NEW t \in Texts(k) PROVE t \in Seq(Positive)
        OBVIOUS
      <4>1. PICK m \in 0..k : t \in [1..m -> 2..MaxTokens]
        BY DEF Texts, SeqOf
      <4>2. \A i \in 1..m : t[i] \in Positive
        BY <4>1, ChunksAssumption DEF Positive
      <4> QED
        BY <4>1, <4>2
    <3>2. MaxParagraphs \in Nat /\ MaxParagraphs - 1 \in Nat /\ MaxSize \in Nat
      BY ChunksAssumption
    <3>3. PICK pages \in {<<text>> : text \in Texts(MaxParagraphs)}
                          \cup Texts(MaxParagraphs - 1) \X Texts(MaxParagraphs - 1),
               s \in Settings, limit \in Limits, order \in {InOrder, Reversed} :
            document' = [pages |-> pages, size |-> s[1], overlap |-> s[2], limit |-> limit,
                         order |-> order]
      BY <2>2 DEF Parse
    <3>4. pages \in {<<t>> : t \in Seq(Positive)} \cup Seq(Positive) \X Seq(Positive)
      BY <3>1, <3>2
    <3>5. s[1] \in Nat /\ s[2] \in Nat /\ s[2] < s[1] /\ limit \in Nat
      BY <3>2, ChunksAssumption DEF Settings
    <3> QED
      BY <3>3, <3>4, <3>5 DEF DocumentInv, Document
  <2> QED
    BY <1>2, <2>1, <2>2
<1> QED
  BY <1>1, <1>2, PTL DEF ChunksSpec

\* For any number and length of paragraphs, any max_chunks and any chunk_size that is
\* larger than the overlap, the chunks that are kept tile the text of their page, as
\* far as they go (ChunksTileTheText).
THEOREM ChunksTile == ChunksSpec => []ChunksTileTheText
<1>1. DocumentInv => ChunksTileTheText
  <2> SUFFICES ASSUME DocumentInv, document # None, NEW cs, cs = ChunksOf(document)
               PROVE  /\ \A p \in DOMAIN document.pages :
                           Covered(document.pages[p], Reach(document, cs, p), OfPage(cs, p))
                      /\ \A i \in DOMAIN cs : Length(cs[i].chunk) <= document.size
                      /\ \A i \in 1..(Len(cs) - 1) :
                           /\ cs[i].ord < cs[i + 1].ord /\ cs[i].page <= cs[i + 1].page
                           /\ cs[i].page = cs[i + 1].page =>
                                Follows(cs[i].chunk, cs[i + 1].chunk, document.overlap)
                      /\ Len(document.pages) > 1 => \A i \in DOMAIN cs : cs[i].ord = i - 1
    BY DEF ChunksTileTheText
  <2>1. Document(document)
    BY DEF DocumentInv
  <2>2. PICK all : all = AllChunks(document)
    OBVIOUS
  <2>3. PICK X : Tiled(document, all) /\ all \in Seq(X)
    BY <2>1, <2>2, DocumentIsTiled
  <2>4. \A p \in DOMAIN document.pages :
          Covered(document.pages[p], Reach(document, cs, p), OfPage(cs, p))
    <3>1. AllChunks(document) \in Seq(X) /\ Tiled(document, AllChunks(document))
      BY <2>2, <2>3
    <3> QED
      BY <2>1, <3>1, KeptReach
  <2>5. PICK n \in Nat : n <= Len(all) /\ Len(cs) = n /\ DOMAIN cs = 1..n /\ \A i \in 1..n : cs[i] = all[i]
    BY <2>1, <2>2, <2>3, CutFacts DEF ChunksOf, Document
  <2>6. DOMAIN all = 1..Len(all) /\ Len(all) \in Nat
    BY <2>3
  <2>7. \A i \in 1..n : i \in DOMAIN all
    BY <2>5, <2>6
  <2>8. \A i \in 1..(n - 1) : /\ i \in 1..n /\ i + 1 \in 1..n /\ i < i + 1
                             /\ i \in 1..(Len(all) - 1)
    BY <2>5, <2>6
  <2>9. \A i \in DOMAIN cs : Length(cs[i].chunk) <= document.size
    BY <2>3, <2>5, <2>7 DEF Tiled
  <2>10. Len(document.pages) > 1 => \A i \in DOMAIN cs : cs[i].ord = i - 1
    BY <2>3, <2>5, <2>7 DEF Tiled
  <2>11. ASSUME NEW i \in 1..(Len(cs) - 1)
         PROVE  /\ cs[i].ord < cs[i + 1].ord /\ cs[i].page <= cs[i + 1].page
                /\ cs[i].page = cs[i + 1].page =>
                     Follows(cs[i].chunk, cs[i + 1].chunk, document.overlap)
    <3>1. /\ i \in 1..n /\ i + 1 \in 1..n /\ i < i + 1 /\ i \in 1..(Len(all) - 1)
          /\ cs[i] = all[i] /\ cs[i + 1] = all[i + 1]
      BY <2>5, <2>8
    <3>2. all[i].page <= all[i + 1].page
      BY <2>3, <2>7, <3>1 DEF Tiled
    <3> QED
      BY <2>3, <3>1, <3>2 DEF Tiled
  <2> QED
    BY <2>4, <2>9, <2>10, <2>11
<1> QED
  BY <1>1, DocumentsAreParsed, PTL

-----------------------------------------------------------------------------

\* An ascending sequence of all the numbers up to m is the identity.
LEMMA AscendingIsInOrder ==
  ASSUME NEW m \in Nat, NEW f \in [1..m -> 1..m],
         \A i, j \in 1..m : i < j => f[i] < f[j]
  PROVE  \A i \in 1..m : f[i] = i
<1> DEFINE T == {k \in 0..m : k = 0 \/ k <= f[k]}
<1>1. \A k \in 0..m : k < m /\ k \in T => k + 1 \in T
  <2> SUFFICES ASSUME NEW k \in 0..m, k < m, k \in T PROVE k + 1 <= f[k + 1]
    <3>1. \A k \in 0..m : k < m => k + 1 \in 0..m
      OBVIOUS
    <3> QED
      BY <3>1
  <2>1. k + 1 \in 1..m /\ f[k + 1] \in 1..m
    OBVIOUS
  <2>2. CASE k = 0
    BY <2>1, <2>2
  <2>3. CASE k # 0
    <3>1. k \in 1..m /\ k <= f[k] /\ f[k] \in 1..m
      BY <2>3
    <3>2. f[k] < f[k + 1]
      BY <2>1, <3>1
    <3> QED
      BY <2>1, <3>1, <3>2
  <2> QED
    BY <2>2, <2>3
<1>2. 0 \in T
  OBVIOUS
<1> HIDE DEF T
<1>3. \A k \in 0..m : k \in T
  BY <1>1, <1>2, UpToInduction
<1>4. \A i \in 1..m : i <= f[i]
  BY <1>3 DEF T
<1> DEFINE D == {k \in 0..m : k < m => f[m - k] <= m - k}
<1>5. \A k \in 0..m : k < m /\ k \in D => k + 1 \in D
  <2> SUFFICES ASSUME NEW k \in 0..m, k < m, k \in D, k + 1 < m
               PROVE  f[m - (k + 1)] <= m - (k + 1)
    <3>1. \A k \in 0..m : k < m => k + 1 \in 0..m
      OBVIOUS
    <3> QED
      BY <3>1
  <2>1. m - k \in 1..m /\ m - (k + 1) \in 1..m /\ m - (k + 1) < m - k
    OBVIOUS
  <2>2. f[m - k] <= m - k
    OBVIOUS
  <2>3. f[m - (k + 1)] < f[m - k] /\ f[m - (k + 1)] \in 1..m /\ f[m - k] \in 1..m
    BY <2>1
  <2> QED
    BY <2>1, <2>2, <2>3
<1>6. 0 \in D
  OBVIOUS
<1> HIDE DEF D
<1>7. \A k \in 0..m : k \in D
  BY <1>5, <1>6, UpToInduction
<1>8. \A i \in 1..m : f[i] <= i
  <2> TAKE i \in 1..m
  <2>1. m - i \in 0..m /\ m - i < m /\ m - (m - i) = i
    OBVIOUS
  <2>2. m - i \in D
    BY <1>7, <2>1
  <2> QED
    BY <2>1, <2>2 DEF D
<1> QED
  BY <1>4, <1>8

Permutes(order, m) ==
  order \in [1..m -> 1..m] /\ \A i, j \in 1..m : order[i] = order[j] => i = j

\* Sorted by index, an answer is in the order of what was sent.
LEMMA SortedBack ==
  ASSUME NEW m \in Nat, NEW order, Permutes(order, m)
  PROVE  LET at == OrderedBy(order, 1..m) IN
         \A i \in 1..m : at[i] \in 1..m /\ order[at[i]] = i
<1> USE DEF Permutes
<1> DEFINE before == {p \in (1..m) \X (1..m) : order[p[1]] < order[p[2]]}
<1>1. \A x, y \in 1..m : <<x, y>> \in before <=> order[x] < order[y]
  OBVIOUS
<1>2. OrderedBy(order, 1..m) = Ordered(1..m, before)
  BY DEF OrderedBy
<1> HIDE DEF before
<1>3. IsOrder(1..m, before)
  <2>1. \A x \in 1..m : order[x] \in Int
    OBVIOUS
  <2> QED
    BY <1>1, <2>1 DEF IsOrder
<1>4. IsFiniteSet(1..m) /\ Cardinality(1..m) = m
  BY UpTo
<1> DEFINE at == Ordered(1..m, before)
<1>5. at \in [1..m -> 1..m] /\ \A i, j \in 1..m : <<at[i], at[j]>> \in before <=> i < j
  BY <1>3, <1>4, OrderedFacts
<1> HIDE DEF at
<1> DEFINE f == [i \in 1..m |-> order[at[i]]]
<1>6. f \in [1..m -> 1..m] /\ \A i \in 1..m : f[i] = order[at[i]]
  BY <1>5
<1>7. \A i, j \in 1..m : i < j => f[i] < f[j]
  BY <1>1, <1>5, <1>6
<1> HIDE DEF f
<1>8. \A i \in 1..m : f[i] = i
  BY <1>6, <1>7, AscendingIsInOrder
<1> QED
  BY <1>2, <1>5, <1>6, <1>8 DEF at

LEMMA EmbedBatchFacts ==
  ASSUME NEW X, NEW m \in Nat, NEW texts \in Seq(X), Len(texts) = m, NEW order,
         Permutes(order, m)
  PROVE  EmbedBatch(texts, order) = texts
<1> DEFINE items == Answer(texts, order)
<1> DEFINE key == [i \in DOMAIN items |-> items[i].index]
<1>1. /\ DOMAIN items = 1..m
      /\ \A i \in 1..m : items[i].index = order[i] /\ items[i].vector = texts[order[i]]
  BY DEF Answer, Permutes
<1> HIDE DEF items
<1>2. key = order
  BY <1>1 DEF Permutes
<1> DEFINE at == OrderedBy(order, 1..m)
<1>3. EmbedBatch(texts, order) = [i \in 1..m |-> items[at[i]].vector]
  <2>1. EmbedBatch(texts, order) = [i \in DOMAIN items |-> items[OrderedBy(key, DOMAIN items)[i]].vector]
    BY DEF EmbedBatch, items
  <2> QED
    BY <1>1, <1>2, <2>1
<1>4. \A i \in 1..m : at[i] \in 1..m /\ order[at[i]] = i
  BY SortedBack
<1> HIDE DEF at
<1>5. \A i \in 1..m : items[at[i]].vector = texts[i]
  BY <1>1, <1>4
<1>6. texts = [i \in 1..m |-> texts[i]]
  OBVIOUS
<1> QED
  BY <1>3, <1>5, <1>6

\* Both orders give each text an index of its own.
LEMMA OrdersArePermutations ==
  ASSUME NEW order \in {InOrder, Reversed}, NEW m \in 1..Batch
  PROVE  Permutes(order[m], m)
<1> USE DEF Permutes
<1>1. m \in Nat /\ InOrder[m] = [i \in 1..m |-> i]
  BY ChunksAssumption DEF InOrder
<1>2. CASE order = InOrder
  BY <1>1, <1>2
<1>3. CASE order = Reversed
  <2>1. order[m] = Reverse(InOrder[m])
    BY <1>3 DEF Reversed
  <2>2. order[m] = [i \in 1..m |-> m - i + 1]
    <3>1. Len(InOrder[m]) = m
      BY <1>1
    <3>2. order[m] = [i \in 1..m |-> InOrder[m][m - i + 1]]
      BY <2>1, <3>1 DEF Reverse
    <3>3. \A i \in 1..m : InOrder[m][m - i + 1] = m - i + 1
      BY <1>1
    <3> QED
      BY <3>2, <3>3
  <2> QED
    BY <1>1, <2>2
<1> QED
  BY <1>2, <1>3

\* The first d of the texts, and those that follow them up to c.
First(texts, a, d) == Len(a) = d /\ \A t \in 1..d : a[t] = texts[t]
Segment(texts, p, d, c) == Len(p) = c - d /\ \A i \in 1..(c - d) : p[i] = texts[d + i]

LEMMA FirstJoined ==
  ASSUME NEW X, NEW texts, NEW a \in Seq(X), NEW p \in Seq(X), NEW d \in Nat, NEW c \in Nat,
         d + 1 <= c, First(texts, a, d), Segment(texts, p, d, c)
  PROVE  First(texts, a \o p, c)
<1>0. Len(a \o p) = Len(a) + Len(p)
  BY ConcatProperties
<1> USE DEF First, Segment
<1>1. Len(a \o p) = c
  BY <1>0
<1>2. ASSUME NEW t \in 1..c
      PROVE  (a \o p)[t] = texts[t]
  <2>1. CASE t <= d
    <3>1. t \in 1..d
      BY <2>1
    <3>2. (a \o p)[t] = a[t]
      BY <3>1
    <3> QED
      BY <3>1, <3>2
  <2>2. CASE t > d
    <3>1. t - d \in 1..(c - d) /\ d + (t - d) = t
      BY <2>2
    <3>2. (a \o p)[t] = p[t - d]
      BY <1>1, <2>2
    <3>3. p[t - d] = texts[d + (t - d)]
      BY <3>1
    <3> QED
      BY <3>1, <3>2, <3>3
  <2> QED
    BY <2>1, <2>2
<1> QED
  BY <1>1, <1>2

\* The batches, one after the other, are all of the texts.
LEMMA EmbeddingsFacts ==
  ASSUME NEW X, NEW texts \in Seq(X), NEW order \in {InOrder, Reversed}
  PROVE  Embeddings(texts, order) = texts
<1>1. PICK B \in Positive : B = Batch
  BY ChunksAssumption DEF Positive
<1>2. PICK n \in Nat : n = Len(texts)
  OBVIOUS
<1>3. PICK q \in Nat : q = (n + B - 1) \div B /\ q * B <= n + B - 1 /\ n + B - 1 < q * B + B
  <2>1. n + B - 1 \in Nat
    BY DEF Positive
  <2> QED
    BY <2>1, Quotient
<1> DEFINE C(b) == IF b * B < n THEN b * B ELSE n
<1> DEFINE part(b) == SubSeq(texts, (b - 1) * B + 1, C(b))
<1> DEFINE s == [b \in 1..q |-> EmbedBatch(part(b), order[Len(part(b))])]
<1>4. Embeddings(texts, order) = FlattenSeq(s)
  BY <1>1, <1>2, <1>3 DEF Embeddings
<1>5. B \in Nat /\ B > 0
  BY DEF Positive
<1>6. ASSUME NEW b \in 1..q
      PROVE  /\ (b - 1) * B \in Nat /\ C(b - 1) = (b - 1) * B
             /\ C(b) \in Nat /\ (b - 1) * B + 1 <= C(b) /\ C(b) <= n /\ C(b) - (b - 1) * B \in 1..B
  <2>1. (b - 1) * B \in Nat /\ b * B = (b - 1) * B + B
    <3>1. b \in 1..(q + 1)
      OBVIOUS
    <3> QED
      BY <3>1, StepsOf
  <2>2. b * B <= q * B
    <3>1. PICK i \in 1..(q + 1) : i - 1 = b
      <4>1. b + 1 \in 1..(q + 1) /\ b + 1 - 1 = b
        OBVIOUS
      <4> QED
        BY <4>1
    <3>2. (i - 1) * B <= q * B
      BY StepsOf
    <3> QED
      BY <3>1, <3>2
  <2>3. PICK d \in Nat : d = (b - 1) * B
    BY <2>1
  <2>4. PICK e \in Nat : e = q * B
    BY <1>5, StepsOf, <2>2, <1>3
  <2>5. d < n /\ b * B = d + B
    BY <1>3, <1>5, <2>1, <2>2, <2>3, <2>4
  <2> QED
    BY <1>5, <2>3, <2>5
<1>7. C(0) = 0 /\ C(q) = n
  <2>1. 0 * B = 0 /\ q * B \in Nat
    BY <1>5
  <2>2. PICK e \in Nat : e = q * B
    BY <2>1
  <2>3. n <= e
    BY <1>3, <1>5, <2>2
  <2> QED
    BY <2>1, <2>2, <2>3
<1> HIDE DEF C
<1>8. ASSUME NEW b \in 1..q
      PROVE  /\ part(b) \in Seq(X) /\ Len(part(b)) = C(b) - C(b - 1)
             /\ \A i \in 1..(C(b) - C(b - 1)) : part(b)[i] = texts[C(b - 1) + i]
             /\ s[b] = part(b)
  <2>1. PICK d \in Nat : d = (b - 1) * B /\ d = C(b - 1)
    BY <1>6
  <2>2. PICK c \in Nat : c = C(b) /\ d + 1 <= c /\ c <= n /\ c - d \in 1..B
    BY <1>6, <2>1
  <2> DEFINE p == SubSeq(texts, d + 1, c)
  <2>3. p = part(b)
    BY <2>1, <2>2
  <2>4. /\ p \in Seq(X) /\ Len(p) = c - d
        /\ \A i \in 1..(c - d) : p[i] = texts[d + i]
    <3>1. \A i \in (d + 1)..c : texts[i] \in X
      BY <1>2, <2>2
    <3>2. d + 1 \in Int /\ c \in Int /\ c - (d + 1) + 1 = c - d
      OBVIOUS
    <3>3. /\ p \in Seq(X) /\ Len(p) = IF d + 1 <= c THEN c - (d + 1) + 1 ELSE 0
          /\ \A i \in 1..(c - (d + 1) + 1) : p[i] = texts[d + 1 + i - 1]
      BY <3>1, <3>2, SubSeqProperties
    <3>4. \A i \in 1..(c - d) : d + 1 + i - 1 = d + i
      OBVIOUS
    <3> QED
      BY <2>2, <3>2, <3>3, <3>4
  <2>5. s[b] = EmbedBatch(p, order[c - d])
    BY <2>3, <2>4
  <2> HIDE DEF p
  <2>6. PICK m \in 1..Batch : m = c - d
    BY <1>1, <2>2
  <2>7. m \in Nat /\ p \in Seq(X) /\ Len(p) = m
    BY <1>1, <2>4, <2>6, <1>5
  <2>8. EmbedBatch(p, order[m]) = p
    <3>1. Permutes(order[m], m)
      BY OrdersArePermutations
    <3> QED
      BY <2>7, <3>1, EmbedBatchFacts
  <2> QED
    BY <2>1, <2>2, <2>3, <2>4, <2>5, <2>6, <2>8
<1> HIDE DEF part
<1>9. s \in [1..q -> Seq(X)]
  BY <1>8
<1>10. \A b \in 1..q : s[b] = part(b)
  BY <1>8
<1> HIDE DEF s
<1>11. PICK g : /\ g \in [0..q -> Seq(X)] /\ g[0] = <<>> /\ FlattenSeq(s) = g[q]
                /\ \A b \in 1..q : g[b] = g[b - 1] \o part(b)
  <2>1. \E g : Flattening(g, X, q, s)
    BY <1>9, FlattenFacts
  <2>2. PICK g : Flattening(g, X, q, s)
    BY <2>1
  <2> QED
    BY <1>10, <2>2 DEF Flattening
<1>20. \A b \in 1..q : g[b] = g[b - 1] \o part(b)
  BY <1>11
<1> DEFINE T == {k \in 0..q : First(texts, g[k], C(k))}
<1>12. \A k \in 0..q : k < q /\ k \in T => k + 1 \in T
  <2> SUFFICES ASSUME NEW k \in 0..q, k < q, k \in T PROVE k + 1 \in T
    OBVIOUS
  <2>1. k + 1 \in 1..q /\ k + 1 - 1 = k /\ k + 1 \in 0..q
    OBVIOUS
  <2>2. PICK b \in 1..q : b = k + 1 /\ b - 1 = k
    BY <2>1
  <2>3. PICK a \in Seq(X) : a = g[k]
    BY <1>11
  <2>4. PICK p \in Seq(X) : p = part(b)
    BY <1>8
  <2>5. g[b] = a \o p
    BY <1>20, <2>2, <2>3, <2>4
  <2>6. PICK d \in Nat : d = C(k)
    BY <1>6, <2>2
  <2>7. PICK c \in Nat : c = C(b) /\ d + 1 <= c
    BY <1>6, <2>2, <2>6
  <2>8. First(texts, a, d)
    BY <2>3, <2>6
  <2>9. Segment(texts, p, d, c)
    <3>1. C(b) - C(b - 1) = c - d
      BY <2>2, <2>6, <2>7
    <3>2. /\ Len(p) = C(b) - C(b - 1)
          /\ \A i \in 1..(C(b) - C(b - 1)) : p[i] = texts[C(b - 1) + i]
      BY <1>8, <2>4
    <3>3. C(b - 1) = d
      BY <2>2, <2>6
    <3> QED
      BY <3>1, <3>2, <3>3, Zenon DEF Segment
  <2>10. First(texts, a \o p, c)
    BY <2>7, <2>8, <2>9, FirstJoined
  <2> QED
    BY <2>1, <2>2, <2>5, <2>7, <2>10
<1>13. 0 \in T
  BY <1>7, <1>11 DEF First
<1> HIDE DEF T
<1>14. q \in T
  <2>1. \A k \in 0..q : k \in T
    BY <1>12, <1>13, UpToInduction
  <2> QED
    BY <2>1
<1>15. PICK r \in Seq(X) : r = g[q] /\ Len(r) = n /\ \A t \in 1..n : r[t] = texts[t]
  BY <1>7, <1>11, <1>14 DEF T, First
<1>16. r = texts
  BY <1>2, <1>15
<1> QED
  BY <1>4, <1>11, <1>15, <1>16

\* Whatever order the batches are answered in, and however many they are, each chunk
\* is stored with the embedding of its own text (EmbeddingsAreTheirOwn).
THEOREM OwnEmbeddings == ChunksSpec => []EmbeddingsAreTheirOwn
<1>1. DocumentInv => EmbeddingsAreTheirOwn
  <2> SUFFICES ASSUME DocumentInv, document # None
               PROVE  Embeddings(ChunksOf(document), document.order) = ChunksOf(document)
    BY DEF EmbeddingsAreTheirOwn
  <2>1. Document(document)
    BY DEF DocumentInv
  <2>2. PICK X : ChunksOf(document) \in Seq(X)
    <3>1. PICK X : AllChunks(document) \in Seq(X)
      BY <2>1, DocumentIsTiled
    <3>2. document.limit \in Nat
      BY <2>1 DEF Document
    <3> QED
      BY <3>1, <3>2, CutFacts DEF ChunksOf
  <2> QED
    BY <2>1, <2>2, EmbeddingsFacts DEF Document
<1> QED
  BY <1>1, DocumentsAreParsed, PTL
=============================================================================
