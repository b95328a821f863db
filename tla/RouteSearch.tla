----------------------------- MODULE RouteSearch -----------------------------
(***************************************************************************)
(* One search for the best route to a node: computeDistanceToTerminus of   *)
(* bp/cgr/libcgr.c, Dijkstra's algorithm on a graph whose vertices are     *)
(* the contacts of the plan.  One pass of its outer loop is one step (Pass)*)
(* and so is each hop of the walk back to the root (Backtrack).            *)
(*                                                                         *)
(* The plan does not change during a search.  Initially it is any plan     *)
(* over the given contacts and ranges with what ContactPlan guarantees:    *)
(* contacts of a pair do not overlap, ranges have distinct keys.           *)
(***************************************************************************)
EXTENDS PlanOrder, Sequences, FiniteSets

CONSTANTS
  OwnNode,        \* getOwnNodeNbr()
  Terminus,       \* terminusNode->nodeNbr
  Contacts,       \* contacts the plan may have
  Ranges,         \* ranges the plan may have
  StartTimes,     \* values of currentTime
  CapacityFloor,  \* _minCapacity, by payload class
  MAX_TIME,       \* the latest time that can be computed with
  UVAST_MAX,      \* (uvast) -1
  MaxSuppressed   \* bound on the contacts suppressed from the start

IsContact(c) ==
  /\ c.fromNode \in Nat \ {0} /\ c.toNode \in Nat \ {0}
  /\ c.fromTime \in Nat \ {0} /\ c.toTime \in Nat /\ c.fromTime < c.toTime
  /\ c.xmitRate \in Nat

IsRange(r) ==
  /\ r.fromNode \in Nat \ {0} /\ r.toNode \in Nat \ {0}
  /\ r.fromTime \in Nat \ {0} /\ r.toTime \in Nat /\ r.fromTime < r.toTime
  /\ r.owlt \in Nat

ASSUME NodeAssumption == OwnNode \in Nat \ {0} /\ Terminus \in Nat \ {0}
ASSUME PlanAssumption ==
  /\ \A c \in Contacts : IsContact(c)
  /\ \A r \in Ranges : IsRange(r)
ASSUME LimitAssumption ==
  /\ MAX_TIME \in Nat /\ UVAST_MAX \in Nat
  /\ StartTimes \subseteq 0..(MAX_TIME - 1)
  /\ \A k \in DOMAIN CapacityFloor : CapacityFloor[k] \in Nat

VARIABLES
  contactIndex,   \* ionvdb->contactIndex
  rangeIndex,     \* ionvdb->rangeIndex
  now,            \* rootWork.arrivalTime, the currentTime of the caller
  payloadClass,
  suppressed,     \* contacts whose note says suppressed
  arrival,        \* work->arrivalTime of every contact
  predecessor,    \* work->predecessor of every contact
  visited,        \* contacts whose note says visited
  current,        \* the contact whose successors are considered next
  finalContact,
  cursor,         \* the contact the walk back has come to
  route,          \* the CgrRoute that is being filled in
  phase           \* where the search has got to

plan == <<contactIndex, rangeIndex, now>>
control == <<payloadClass, suppressed>>
notes == <<arrival, predecessor, visited>>
vars == <<plan, control, notes, current, finalContact, cursor, route, phase>>

-----------------------------------------------------------------------------
(* The dummy contact from the local node to itself, NULL, and an empty     *)
(* route (toNodeNbr = 0).                                                  *)

Root == [fromNode |-> OwnNode, toNode |-> OwnNode, fromTime |-> 0,
         toTime |-> 0, xmitRate |-> 0]

NoContact == [fromNode |-> 0, toNode |-> 0, fromTime |-> 0,
              toTime |-> 0, xmitRate |-> 0]

EmptyRoute == [hops |-> <<>>, arrivalTime |-> MAX_TIME, toTime |-> MAX_TIME,
               maxCapacity |-> UVAST_MAX, payloadClass |-> payloadClass]

\* work->arrivalTime of a contact or of the root.
ArrivalAt(c) == IF c = Root THEN now ELSE arrival[c]

Capacity(c) == c.xmitRate * (c.toTime - c.fromTime)

-----------------------------------------------------------------------------
(* getApplicableRange.                                                     *)

\* The ranges the scan does not pass over as being in the past.
CurrentRanges(c) ==
  {r \in rangeIndex : SamePair(r, c) /\ r.toTime >= c.fromTime}

\* The scan stops at the first of those, which applies unless it is still
\* to begin; none, or one.
ApplicableRange(c) ==
  {r \in Firsts(CurrentRanges(c)) : r.fromTime <= c.fromTime}

\* Light time plus what the receiver may move meanwhile: MAX_SPEED_MPH / 3600
\* miles in a second, at 186282 miles in a light second.
Delay(r) == r.owlt + (41 * r.owlt) \div 186282

Owlt(c) == Delay(CHOOSE r \in ApplicableRange(c) : TRUE)

\* Transmission starts when the data and the contact are both there.
Later(s, t) == IF s < t THEN t ELSE s
ArrivalVia(c, t) == Later(c.fromTime, t) + Owlt(c)

-----------------------------------------------------------------------------
(* One pass: consider the contacts that follow the current one, then       *)
(* select the next current one.                                            *)

\* The contacts the search may use at all.
Usable(c) ==
  /\ c \notin suppressed
  /\ Capacity(c) >= CapacityFloor[payloadClass]
  /\ ApplicableRange(c) # {}

\* Mutant: whether the contact has ended before the data arrive is ignored.
Considered_Ended(c) ==
  /\ c.fromNode = current.toNode
  /\ Usable(c)
  /\ c \notin visited

Considered(c) ==
  /\ c.fromNode = current.toNode
  /\ c.toTime > ArrivalAt(current)
  /\ Usable(c)
  /\ c \notin visited

Improved(c) ==
  /\ Considered(c)
  /\ ArrivalVia(c, ArrivalAt(current)) < arrival[c]

Relaxed ==
  [c \in contactIndex |->
     IF Improved(c) THEN ArrivalVia(c, ArrivalAt(current)) ELSE arrival[c]]

Traced ==
  [c \in contactIndex |-> IF Improved(c) THEN current ELSE predecessor[c]]

\* Of S, the contacts with the earliest of the arrival times a.
Earliest(S, a) == {c \in S : \A d \in S : a[c] <= a[d]}

\* earliestFinalArrivalTime.
FinalTime(final, a) == IF final = NoContact THEN MAX_TIME ELSE a[final]

\* The contact to the terminus with the earliest arrival so far; a tie is
\* won by the one found before, then by the first in the index.
FinalAfter ==
  LET better == {c \in contactIndex :
                   /\ c.toNode = Terminus /\ Improved(c)
                   /\ Relaxed[c] < FinalTime(finalContact, arrival)}
  IN  IF better = {} THEN {finalContact}
      ELSE Firsts(Earliest(better, Relaxed))

\* The contacts that may be on a route that is better than the best so far.
Eligible(a, done, final) ==
  {c \in contactIndex \ (suppressed \cup done) :
     a[c] <= FinalTime(final, a) /\ a[c] < MAX_TIME}

\* Mutant: the next contact is the first in the index, not the earliest.
Nexts_First(a, done, final) == Firsts(Eligible(a, done, final))

Nexts(a, done, final) == Firsts(Earliest(Eligible(a, done, final), a))

Visiting == visited \cup ({current} \ {Root})

Pass ==
  /\ phase = "search"
  /\ arrival' = Relaxed
  /\ predecessor' = Traced
  /\ visited' = Visiting
  /\ finalContact' \in FinalAfter
  /\ \/ /\ current' \in Nexts(Relaxed, Visiting, finalContact')
        /\ UNCHANGED <<cursor, route, phase>>
     \/ /\ Eligible(Relaxed, Visiting, finalContact') = {}
        /\ current' = NoContact
        /\ phase' = IF finalContact' = NoContact THEN "done" ELSE "walk"
        /\ cursor' = finalContact'
        /\ route' = [EmptyRoute EXCEPT
                       !.arrivalTime = FinalTime(finalContact', Relaxed)]
  /\ UNCHANGED <<plan, control>>

Lower(m, n) == IF m < n THEN m ELSE n

\* Mutant: the walk steps back before it lists the hop.
Backtrack_StepFirst ==
  /\ phase = "walk" /\ cursor # Root
  /\ LET hop == predecessor[cursor]
     IN  /\ route' = [route EXCEPT
                        !.hops = <<hop>> \o @,
                        !.toTime = Lower(hop.toTime, @),
                        !.maxCapacity = Lower(Capacity(hop), @)]
         /\ cursor' = hop
  /\ UNCHANGED <<plan, control, notes, current, finalContact, phase>>

\* One hop of the walk back to the root.
Backtrack ==
  /\ phase = "walk" /\ cursor # Root
  /\ route' = [route EXCEPT
                 !.hops = <<cursor>> \o @,
                 !.toTime = Lower(cursor.toTime, @),
                 !.maxCapacity = Lower(Capacity(cursor), @)]
  /\ cursor' = predecessor[cursor]
  /\ UNCHANGED <<plan, control, notes, current, finalContact, phase>>

Finish ==
  /\ phase = "walk" /\ cursor = Root
  /\ phase' = "done"
  /\ UNCHANGED <<plan, control, notes, current, finalContact, cursor, route>>

-----------------------------------------------------------------------------
(* The specification of a search by itself.                                *)

ClearNotes ==
  /\ arrival = [c \in contactIndex |-> MAX_TIME]
  /\ predecessor = [c \in contactIndex |-> NoContact]
  /\ visited = {}

BeginSearch ==
  /\ current = Root
  /\ finalContact = NoContact
  /\ cursor = NoContact
  /\ route = EmptyRoute
  /\ phase = "search"

InitPlan ==
  /\ contactIndex \in SUBSET Contacts
  /\ \A x, y \in contactIndex : x # y => Compatible(x, y)
  /\ rangeIndex \in SUBSET Ranges
  /\ \A x, y \in rangeIndex : Key(x) = Key(y) => x = y
  /\ now \in StartTimes

Init ==
  /\ InitPlan
  /\ payloadClass \in DOMAIN CapacityFloor
  /\ suppressed \in SUBSET contactIndex
  /\ Cardinality(suppressed) <= MaxSuppressed
  /\ ClearNotes
  /\ BeginSearch

SearchStep == Pass \/ Backtrack \/ Finish

Next == SearchStep

Spec == Init /\ [][Next]_vars

-----------------------------------------------------------------------------
(* Properties.                                                             *)

CgrRoute ==
  [hops : Seq(contactIndex), arrivalTime : 0..MAX_TIME, toTime : 0..MAX_TIME,
   maxCapacity : 0..UVAST_MAX, payloadClass : DOMAIN CapacityFloor]

TypeOK ==
  /\ contactIndex \subseteq Contacts /\ rangeIndex \subseteq Ranges
  /\ now \in StartTimes
  /\ payloadClass \in DOMAIN CapacityFloor
  /\ suppressed \subseteq contactIndex
  /\ arrival \in [contactIndex -> 0..MAX_TIME]
  /\ predecessor \in [contactIndex -> contactIndex \cup {Root, NoContact}]
  /\ visited \subseteq contactIndex
  /\ current \in contactIndex \cup {Root, NoContact}
  /\ finalContact \in contactIndex \cup {NoContact}
  /\ cursor \in contactIndex \cup {Root, NoContact}
  /\ route \in CgrRoute
  /\ phase \in {"search", "walk", "done"}

\* The ways to send data over a usable contact: the contact and a second of it.
Sendings ==
  UNION {{c} \X (c.fromTime..(c.toTime - 1)) :
           c \in {d \in contactIndex : Usable(d)}}

Received(s) == s[2] + Owlt(s[1])

\* Sendings that take data from the local node, from now on, to the terminus.
IsItinerary(it, n) ==
  /\ it[1][1].fromNode = OwnNode /\ it[1][2] >= now
  /\ \A i \in 1..(n - 1) : /\ it[i + 1][1].fromNode = it[i][1].toNode
                           /\ it[i + 1][2] >= Received(it[i])
  /\ it[n][1].toNode = Terminus

CONSTANT MaxHops   \* bound on the length of the itineraries compared
ASSUME HopsAssumption == MaxHops \in Nat

\* No way to forward data over the contacts the search may use, waiting at
\* will at every node, delivers them before the arrival time of the route
\* found; when none is found there is no way at all (computeDistanceToTerminus).
NoEarlierItinerary ==
  phase = "done" =>
    \A n \in 1..MaxHops : \A it \in [1..n -> Sendings] :
      IsItinerary(it, n) => route.arrivalTime <= Received(it[n])

\* The hops of the route found lead from the local node to the terminus, each
\* over a usable contact that has not ended when the data arrive, and the
\* last arrival is that of the route; the route ends no later than any hop
\* and has no more capacity than any.
RouteIsFeasible ==
  LET h == route.hops
      n == Len(h)
  IN  phase = "done" /\ h # <<>> =>
        /\ h[1].fromNode = OwnNode /\ now < h[1].toTime
        /\ arrival[h[1]] = ArrivalVia(h[1], now)
        /\ \A i \in 1..(n - 1) :
             /\ h[i + 1].fromNode = h[i].toNode
             /\ arrival[h[i]] < h[i + 1].toTime
             /\ arrival[h[i + 1]] = ArrivalVia(h[i + 1], arrival[h[i]])
        /\ h[n].toNode = Terminus /\ arrival[h[n]] = route.arrivalTime
        /\ \A i \in 1..n : /\ Usable(h[i])
                           /\ route.toTime <= h[i].toTime
                           /\ route.maxCapacity <= Capacity(h[i])
=============================================================================
