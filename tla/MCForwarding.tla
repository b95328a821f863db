----------------------------- MODULE MCForwarding -----------------------------
(* Small instances of Forwarding for TLC: from node 1 to node 4. *)
EXTENDS Forwarding

Contact(a, b, s, e, rate) ==
  [fromNode |-> a, toNode |-> b, fromTime |-> s, toTime |-> e, xmitRate |-> rate]

\* Two contacts with node 2 and one with node 3, of different rates; from both
\* to the terminus, and from 2 to 3.
A  == Contact(1, 2, 1, 4, 2)
B  == Contact(1, 2, 5, 8, 3)
C  == Contact(1, 3, 2, 6, 2)
D  == Contact(2, 4, 3, 6, 3)
E  == Contact(2, 4, 6, 10, 4)
F  == Contact(3, 4, 4, 8, 2)
G  == Contact(2, 3, 3, 6, 3)
H  == Contact(1, 4, 7, 9, 3)

MCContacts == {A, B, C, D, E, F, G, H}
MCLight(c) == IF c = C THEN 1 ELSE 0
MCSize(b) == b

\* Deadlines at, between and after the earliest arrivals of the routes, which
\* are 3, 4, 6, 4 and 7.
MCExpiry(b) == CASE b = 1 -> 7 [] b = 2 -> 5 [] OTHER -> 100

\* The list in several orders
MCRoutes == {<<A, D>>, <<A, G, F>>, <<B, E>>, <<C, F>>, <<H>>}
MCRouteLists == {l \in [1..5 -> MCRoutes] : ToSet(l) = MCRoutes}
================================================================================
