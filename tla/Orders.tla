------------------------------- MODULE Orders -------------------------------
(***************************************************************************)
(* The sequence of a set in an order, which is given as a set of pairs,    *)
(* and the first of a sequence.                                            *)
(***************************************************************************)
EXTENDS Naturals, FiniteSets, Sequences

Behind(x, S, before) == {y \in S : <<y, x>> \in before}

\* x stands behind as many as there are before it.
Ordered(S, before) ==
  LET behind == [x \in S |-> Cardinality(Behind(x, S, before))]
  IN  [i \in 1..Cardinality(S) |-> CHOOSE x \in S : behind[x] = i - 1]

\* The same, in the order of a number that each has.
OrderedBy(key, S) == Ordered(S, {p \in S \X S : key[p[1]] < key[p[2]]})

\* s[:n], for an n that is not negative
Cut(s, n) == SubSeq(s, 1, IF n < Len(s) THEN n ELSE Len(s))
=============================================================================
