------------------------------- MODULE Fusion -------------------------------
(***************************************************************************)
(* The hybrid search of knowledge-svc: the chunks by distance and by       *)
(* keyword, fused by reciprocal ranks.                                     *)
(***************************************************************************)
EXTENDS Naturals, Sequences, SequencesExt, FiniteSetsExt, Sums, Orders

CONSTANTS
  Candidates,  \* chunks of the workspace, or of the collection
  RankOffset,  \* k of _rrf
  MaxTopK      \* bound of top_k

ASSUME FusionAssumption ==
  IsFiniteSet(Candidates) /\ RankOffset \in Nat /\ MaxTopK \in Nat

VARIABLE query  \* one that is searched for, as it ranks the chunks, or NoQuery

Places == 1..Cardinality(Candidates)

\* 1 / (k + pos), times what makes it whole for every place there may be
Weight(pos) == Product([p \in Places |-> RankOffset + p], Places \ {pos})

Listed(c, ranking) == \E i \in DOMAIN ranking : ranking[i] = c
Place(c, ranking) == CHOOSE i \in DOMAIN ranking : ranking[i] = c

\* MUTANT of Score: a ranking overwrites what the one before has given.
ScoreOfLast(rankings, c) ==
  Weight(Place(c, Last(SelectSeq(rankings, LAMBDA r : Listed(c, r)))))

\* _rrf
Score(rankings, c) ==
  Sum([i \in DOMAIN rankings |->
         IF Listed(c, rankings[i]) THEN Weight(Place(c, rankings[i])) ELSE 0],
      DOMAIN rankings)

\* The best top_k, and of two with one score the one that was listed first.
Hits(rankings, top_k) ==
  LET listed == FlattenSeq(rankings)
      fused == {c \in Candidates : Listed(c, listed)}
      score == [c \in fused |-> Score(rankings, c)]
      first == [c \in fused |-> SelectInSeq(listed, LAMBDA x : x = c)]
      before == {p \in fused \X fused :
                   \/ score[p[1]] > score[p[2]]
                   \/ score[p[1]] = score[p[2]] /\ first[p[1]] < first[p[2]]}
  IN  Cut(Ordered(fused, before), top_k)

\* _python_hybrid: the near ones of the chunks that have an embedding, if the
\* query has one, and the chunks some word is found in.
PythonHybrid(near, found, embedded, top_k) ==
  Hits(<<IF embedded THEN near ELSE <<>>, found>>, top_k)

\* _pg_hybrid: the nearest chunks, the ones without an embedding last, and the
\* ones that match best.
PgHybrid(nearest, found, top_k) == Hits(<<Cut(nearest, 2 * top_k), Cut(found, 2 * top_k)>>, top_k)

-----------------------------------------------------------------------------
NoQuery == <<>>
Rankings == {s \in SeqOf(Candidates, Cardinality(Candidates)) : IsInjective(s)}

FusionInit == query = NoQuery

\* search: the query has an embedding, or the embedder has failed.
Search ==
  /\ query = NoQuery
  /\ \E near, found \in Rankings, embedded \in BOOLEAN, top_k \in 0..MaxTopK :
       query' = [near |-> near, found |-> found, embedded |-> embedded, top_k |-> top_k]

\* hybrid_search, on either database: without an embedding it is the same on both.
Answers(q) ==
  {PythonHybrid(q.near, q.found, q.embedded, q.top_k)} \cup
  (IF q.embedded THEN {PgHybrid(q.near, q.found, q.top_k)} ELSE {})

FusionSpec == FusionInit /\ [][Search]_query

-----------------------------------------------------------------------------
(* Properties.                                                             *)

Ahead(c, d, r) == Listed(c, r) /\ Listed(d, r) /\ Place(c, r) < Place(d, r)

Dominates(c, d, lists) == \A r \in lists : Listed(d, r) => Ahead(c, d, r)

\* A hit is never there without, or before, a chunk that is ahead of it in every
\* list it is in, wherever the lists are cut before they are fused.
NoBetterChunkIsMissed ==
  query # NoQuery =>
    \A hits \in Answers(query) : \A d \in Range(hits), c \in Candidates :
      Dominates(c, d, {query.found} \cup (IF query.embedded THEN {query.near} ELSE {}))
        => Ahead(c, d, hits)
=============================================================================
