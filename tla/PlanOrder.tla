------------------------------ MODULE PlanOrder ------------------------------
(***************************************************************************)
(* The order of the contact and range indexes of ici/library/rfx.c: from   *)
(* node, then to node, then start time.                                    *)
(***************************************************************************)
EXTENDS Integers

Key(x) == <<x.fromNode, x.toNode, x.fromTime>>

Before(j, k) ==
  \/ j[1] < k[1]
  \/ j[1] = k[1] /\ j[2] < k[2]
  \/ j[1] = k[1] /\ j[2] = k[2] /\ j[3] < k[3]

SamePair(x, y) == x.fromNode = y.fromNode /\ x.toNode = y.toNode

Compatible(x, y) ==
  SamePair(x, y) => x.toTime <= y.fromTime \/ y.toTime <= x.fromTime

\* The first entry of S in the order of the index; none, or one.
Firsts(S) == {x \in S : \A y \in S : y = x \/ Before(Key(x), Key(y))}
=============================================================================
