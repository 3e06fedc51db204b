--------------------------- MODULE MCRequestLoop ---------------------------
(***************************************************************************)
(* Instances of RequestLoop.                                               *)
(***************************************************************************)
EXTENDS RequestLoop

CONSTANTS p1, p2, r1, r2, r3

\* All on one process, which then has more requests than connections, or one of
\* them on another.
MCHomes == {[r \in Requests |-> IF r = r3 THEN p ELSE p1] : p \in {p1, p2}}
=============================================================================
