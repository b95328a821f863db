----------------------------- MODULE MCRouteCache -----------------------------
(* Small instances of RouteCache for TLC. *)
EXTENDS RouteCache, TLC

Contact(from, to, start, end) ==
  [fromNode |-> from, toNode |-> to, fromTime |-> start, toTime |-> end]

\* Node 2 can reach node 3, and node 1 by way of node 2.
TwoContacts == {Contact(1, 2, 1, 3), Contact(2, 3, 1, 2)}

Symmetric == Permutations(Refs)
=============================================================================
