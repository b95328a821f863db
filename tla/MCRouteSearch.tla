---------------------------- MODULE MCRouteSearch ----------------------------
(* Small instances of RouteSearch for TLC: from node 1 to node 4. *)
EXTENDS RouteSearch

Contact(a, b, s, e, rate) ==
  [fromNode |-> a, toNode |-> b, fromTime |-> s, toTime |-> e, xmitRate |-> rate]

Range(a, b, s, e, owlt) ==
  [fromNode |-> a, toNode |-> b, fromTime |-> s, toTime |-> e, owlt |-> owlt]

\* Two ways out of node 1, a detour both ways, and two chances to reach
\* the terminus over node 2, one of them short. The way over node 3 is the
\* earlier one when the range from 1 to 3 is known.
MCContacts ==
  {Contact(1, 2, 1, 4, 1), Contact(1, 3, 1, 3, 2), Contact(3, 2, 2, 4, 1),
   Contact(2, 3, 2, 5, 1), Contact(2, 4, 1, 3, 2), Contact(2, 4, 4, 6, 1),
   Contact(3, 4, 4, 5, 3)}

MCRanges ==
  {Range(1, 2, 1, 6, 3), Range(1, 3, 1, 6, 0), Range(3, 2, 1, 6, 1),
   Range(2, 3, 1, 6, 0), Range(2, 4, 1, 6, 0), Range(3, 4, 4, 6, 2)}

MCFloor == <<1, 3>>
MCStart == {2}
=============================================================================
