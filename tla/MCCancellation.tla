--------------------------- MODULE MCCancellation ---------------------------
(* Instances of Cancellation for TLC.                                       *)
EXTENDS Cancellation

CONSTANTS c1, c2, u1, u2, t1, t2

\* A callback on the root and on a child that has a sibling; one thread cancels the root,
\* the other the child.
MCManagerOf == [u \in Users |-> IF u = u1 THEN Root ELSE c1]
MCTarget == [t \in Cancellers |-> IF t = t1 THEN Root ELSE c1]

=============================================================================
