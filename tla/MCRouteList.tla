----------------------------- MODULE MCRouteList -----------------------------
(* Small instances of RouteList for TLC: from node 1 to node 4. *)
EXTENDS RouteList

Contact(a, b, s, e, rate) ==
  [fromNode |-> a, toNode |-> b, fromTime |-> s, toTime |-> e, xmitRate |-> rate]

RangeOf(a, b, s, e, owlt) ==
  [fromNode |-> a, toNode |-> b, fromTime |-> s, toTime |-> e, owlt |-> owlt]

\* Leads to nodes 2 and 3; beyond node 2 two short chances one after the
\* other, so that the lead anchors a search; a detour from 3 over 2; a late
\* contact straight to the terminus that outlasts MAX_TIME.
MCContacts ==
  {Contact(1, 2, 1, 7, 2), Contact(1, 3, 1, 6, 1), Contact(2, 4, 2, 4, 2),
   Contact(2, 4, 5, 8, 2), Contact(3, 4, 5, 9, 1), Contact(3, 2, 2, 5, 1),
   Contact(1, 2, 7, 9, 2), Contact(1, 4, 8, 25, 1)}

MCRanges ==
  {RangeOf(1, 2, 1, 9, 0), RangeOf(1, 3, 1, 9, 0), RangeOf(2, 4, 1, 9, 0),
   RangeOf(3, 4, 1, 9, 1), RangeOf(3, 2, 1, 9, 0), RangeOf(1, 4, 1, 9, 0)}

MCFloor == <<1, 3>>
MCStart == {1, 3, 5, 6}
MCDeadlines == {4, 9}
=============================================================================
