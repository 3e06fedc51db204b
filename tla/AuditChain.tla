----------------------------- MODULE AuditChain -----------------------------
(***************************************************************************)
(* The hash chain of the audit log.  Every gateway process emits events:   *)
(* an event is stamped when it is built, published, and then written to    *)
(* audit_event, chained to the last row the emitter can lock.  An          *)
(* administrator may ask for the chain to be verified at any time.         *)
(*                                                                         *)
(* SHA-256 is taken as injective: a hash is the sequence of what it covers. *)
(***************************************************************************)
EXTENDS Naturals, Sequences, FiniteSets

CONSTANTS
  Ids,      \* event ids; order breaks ties of created_at
  Legacy,   \* rows written before the chain was introduced: NULL event_hash
  Skew,     \* bound: how far behind a stamp may be, clocks differing
  Limit     \* rows that one verification reads

ASSUME ChainAssumption ==
  /\ Ids \subseteq Nat \ {0} /\ IsFiniteSet(Ids)
  /\ Legacy \subseteq Ids
  /\ Skew \in Nat
  /\ Limit \in Nat \ {0}

VARIABLES
  pc,     \* idle, created, locked (last row read), written or dropped
  clock,  \* time, a tick for each event stamped
  at,     \* created_at of each event
  tip,    \* the row whose hash an emit read and locked, 0 if there is none
  prev,   \* prev_hash of each event
  hash,   \* event_hash of each row
  body,   \* the rest of each row: as emitted, or edited in the database
  orderly \* history: emits came one at a time, stamped by clocks that agree

chainVars == <<pc, clock, at, tip, prev, hash, body, orderly>>

-----------------------------------------------------------------------------
Entry == [id : Ids, body : {"emitted", "edited"}]
Hash == Seq(Entry)

\* GENESIS_HASH
Genesis == <<>>

\* compute_event_hash
HashOf(e, b, h) == Append(h, [id |-> e, body |-> b])

ChainTypeOK ==
  /\ pc \in [Ids -> {"idle", "created", "locked", "written", "dropped"}]
  /\ clock \in Nat /\ Skew <= clock
  /\ at \in [Ids -> Nat]
  /\ tip \in [Ids -> {0} \cup Ids]
  /\ prev \in [Ids -> Hash]
  /\ hash \in [Ids -> Hash]
  /\ body \in [Ids -> {"emitted", "edited"}]
  /\ orderly \in BOOLEAN

ChainInit ==
  /\ pc = [e \in Ids |-> IF e \in Legacy THEN "written" ELSE "idle"]
  /\ clock = Skew
  /\ at = [e \in Ids |-> 0]
  /\ tip = [e \in Ids |-> 0]
  /\ prev = [e \in Ids |-> Genesis]
  /\ hash = [e \in Ids |-> Genesis]
  /\ body = [e \in Ids |-> "emitted"]
  /\ orderly = TRUE

InFlight == {e \in Ids : pc[e] \in {"created", "locked"}}
Rows == {e \in Ids : pc[e] = "written"}

\* Rows with an event_hash.
Chained == Rows \ Legacy

\* ORDER BY created_at, id
Earlier(e, f) == at[e] < at[f] \/ (at[e] = at[f] /\ e < f)

Locked == {tip[e] : e \in {f \in Ids : pc[f] = "locked"}}

-----------------------------------------------------------------------------
(* Emitting.                                                               *)

\* The AuditEvent is built: created_at is now, by this process's clock.
Create(e) ==
  /\ pc[e] = "idle"
  /\ pc' = [pc EXCEPT ![e] = "created"]
  /\ clock' = clock + 1
  /\ \E lag \in 0..Skew :
        /\ at' = [at EXCEPT ![e] = clock + 1 - lag]
        /\ orderly' = (orderly /\ InFlight = {} /\ lag = 0)
  /\ UNCHANGED <<tip, prev, hash, body>>

\* Rows that SELECT ... FOR UPDATE SKIP LOCKED may return.
Lockable == Chained \ Locked

\* MUTANT of Last: the oldest row is taken for the last.
First(l) ==
  \/ l \in Lockable /\ \A m \in Lockable \ {l} : Earlier(l, m)
  \/ l = 0 /\ Lockable = {}

\* The first of them, latest first, if there is one.
Last(l) ==
  \/ l \in Lockable /\ \A m \in Lockable \ {l} : Earlier(m, l)
  \/ l = 0 /\ Lockable = {}

\* MUTANT of LockLast: the chain may go on from an event not yet committed.
LockInFlight(e) ==
  /\ pc[e] = "created"
  /\ pc' = [pc EXCEPT ![e] = "locked"]
  /\ \E l \in {0} \cup Ids :
        /\ Last(l) \/ (l # 0 /\ pc[l] = "locked")
        /\ tip' = [tip EXCEPT ![e] = l]
        /\ prev' = [prev EXCEPT ![e] = IF l = 0 THEN Genesis
                                       ELSE HashOf(l, body[l], prev[l])]
  /\ UNCHANGED <<clock, at, hash, body, orderly>>

\* The emit reads and locks the last row that no other emit has locked.
LockLast(e) ==
  /\ pc[e] = "created"
  /\ pc' = [pc EXCEPT ![e] = "locked"]
  /\ \E l \in {0} \cup Ids :
        /\ Last(l)
        /\ tip' = [tip EXCEPT ![e] = l]
        /\ prev' = [prev EXCEPT ![e] = IF l = 0 THEN Genesis ELSE hash[l]]
  /\ UNCHANGED <<clock, at, hash, body, orderly>>

\* The row is committed and the lock released.
Write(e) ==
  /\ pc[e] = "locked"
  /\ pc' = [pc EXCEPT ![e] = "written"]
  /\ hash' = [hash EXCEPT ![e] = HashOf(e, body[e], prev[e])]
  /\ UNCHANGED <<clock, at, tip, prev, body, orderly>>

\* The database fails, which emit swallows, or the process dies.
Drop(e) ==
  /\ pc[e] \in {"created", "locked"}
  /\ pc' = [pc EXCEPT ![e] = "dropped"]
  /\ UNCHANGED <<clock, at, tip, prev, hash, body, orderly>>

-----------------------------------------------------------------------------
(* Someone edits a row in the database, its hash left alone or redone.     *)

Edit(e) ==
  /\ e \in Chained \ Locked
  /\ body[e] = "emitted"
  /\ body' = [body EXCEPT ![e] = "edited"]
  /\ \/ UNCHANGED hash
     \/ hash' = [hash EXCEPT ![e] = HashOf(e, "edited", prev[e])]
  /\ UNCHANGED <<pc, clock, at, tip, prev, orderly>>

-----------------------------------------------------------------------------
ChainNext == \E e \in Ids : Create(e) \/ LockLast(e) \/ Write(e) \/ Drop(e) \/ Edit(e)

ChainSpec == ChainInit /\ [][ChainNext]_chainVars

-----------------------------------------------------------------------------
(* verify_chain, run on the rows as they are.                              *)

Walked == {e \in Rows : Cardinality({f \in Rows : Earlier(f, e)}) < Limit}

\* f is the row that the walk has its running hash from when it reaches e.
Precedes(f, e) ==
  /\ f \in Chained
  /\ Earlier(f, e)
  /\ \A g \in Chained : Earlier(g, e) => g = f \/ Earlier(g, f)

\* MUTANT of Continues: only the link to the previous row is compared.
Links(e, h) == prev[e] = h

\* The row carries on from the running hash h.
Continues(e, h) == prev[e] = h /\ hash[e] = HashOf(e, body[e], h)

Sound(e) ==
  \/ \E f \in Chained : Precedes(f, e) /\ Continues(e, hash[f])
  \/ (\A g \in Chained : ~Earlier(g, e)) /\ Continues(e, Genesis)

Broken == {e \in Walked \cap Chained : ~Sound(e)}

-----------------------------------------------------------------------------
(* Properties.                                                             *)

\* audit_bus.py:82-84: locking the last row "keeps the chain stable under
\* concurrent emitters in production".  So as long as nobody edits a row,
\* verify_chain should find no broken one.
ChainVerifies == (\A e \in Ids : body[e] = "emitted") => Broken = {}

\* It finds none as long as emits come one at a time: neither a dropped event
\* nor a crash between the read and the commit leaves a gap.
OrderlyChainVerifies == orderly => ChainVerifies

\* Even when emits overlap and the chain forks, every row hangs from the
\* genesis through committed rows: no row is chained to an event that was lost.
ChainRooted ==
  (\A e \in Ids : body[e] = "emitted") =>
     \A e \in Chained : prev[e] = Genesis \/ \E f \in Chained : prev[e] = hash[f]

\* Editing a row breaks the verification then and there, forked or not, when
\* its hash is left alone or another row follows it among those that are read.
EditShows ==
  [][\A e \in Walked \cap Chained :
       /\ body[e] # body'[e]
       /\ hash[e] = hash'[e] \/ \E f \in Walked \cap Chained : Earlier(e, f)
       => Broken' # {}]_chainVars
=============================================================================
