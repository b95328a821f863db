------------------------------ MODULE RouteList ------------------------------
(***************************************************************************)
(* The list of routes to one node: how loadRouteList of bp/cgr/libcgr.c    *)
(* fills it by one search after another, and how identifyProximateNodes    *)
(* walks it for a bundle, dropping the routes that have ended and calling  *)
(* recomputeRouteForContact for them.  Every search is the one of          *)
(* RouteSearch, step by step.                                              *)
(*                                                                         *)
(* The plan does not change: an edit in a later second discards the whole  *)
(* list, which is the initial state again.  Memory does not run out.       *)
(***************************************************************************)
EXTENDS RouteSearch, SequencesExt

CONSTANT Deadlines   \* times by which a bundle must arrive

ASSUME ClassAssumption ==
  CapacityFloor \in Seq(Nat) /\ CapacityFloor # <<>>
ASSUME DeadlineAssumption == Deadlines \subseteq Nat

VARIABLES
  routes,     \* the list, terminusNode->routingObject
  anchor,     \* anchorContact of loadRouteList
  task,       \* the function that is at work, or "ready" between two bundles
  position,   \* where identifyProximateNodes is in the list
  deadline,   \* of the bundle to forward
  tried,      \* the routes identifyProximateNodes has looked at for it
  lead        \* the contact recomputeRouteForContact is called for

list == <<routes, anchor>>
walk == <<position, deadline, tried>>
listVars == <<vars, list, task, walk, lead>>

-----------------------------------------------------------------------------
(* Helpers.                                                                *)

Lead(r) == r.hops[1]

IsLocal(c) == c.fromNode = OwnNode

\* Start a search for the class, with the contacts S suppressed.
Restart(class, S) ==
  /\ payloadClass' = class
  /\ suppressed' = S
  /\ arrival' = [c \in contactIndex |-> MAX_TIME]
  /\ predecessor' = [c \in contactIndex |-> NoContact]
  /\ visited' = {}
  /\ current' = Root /\ finalContact' = NoContact /\ cursor' = NoContact
  /\ route' = EmptyRoute'
  /\ phase' = "search"
  /\ UNCHANGED plan

Found == phase = "done" /\ route.hops # <<>>
NoneFound == phase = "done" /\ route.hops = <<>>

\* The earliest-expiring contact of the route found, the first if several.
LimitContacts ==
  LET h == route.hops
  IN  {h[i] : i \in {j \in DOMAIN h :
                       /\ h[j].toTime = route.toTime
                       /\ \A k \in 1..(j - 1) : h[k].toTime # route.toTime}}

\* Where a route is inserted to keep the list in arrival time order.
PlaceOf(r) ==
  CHOOSE i \in 1..(Len(routes) + 1) :
    /\ i = Len(routes) + 1 \/ routes[i].arrivalTime > r.arrivalTime
    /\ \A j \in 1..(i - 1) : routes[j].arrivalTime <= r.arrivalTime

-----------------------------------------------------------------------------
(* loadRouteList.                                                          *)

\* No more routes for this class: move on to the next one.
NextClass ==
  /\ task = "load" /\ NoneFound
  /\ payloadClass < Len(CapacityFloor)
  /\ Restart(payloadClass + 1, {})
  /\ UNCHANGED <<list, task, walk, lead>>

LoadDone ==
  /\ task = "load" /\ NoneFound
  /\ payloadClass = Len(CapacityFloor)
  /\ anchor' = NoContact
  /\ task' = "walk"
  /\ UNCHANGED <<vars, routes, walk, lead>>

OffAnchor == anchor # NoContact /\ Lead(route) # anchor

\* Mutant: the contacts suppressed while anchored stay suppressed.
EndAnchored_Keep ==
  /\ task = "load" /\ Found /\ OffAnchor
  /\ Restart(payloadClass, suppressed \cup {anchor})
  /\ anchor' = NoContact
  /\ UNCHANGED <<routes, task, walk, lead>>

\* Mutant: the anchor is not suppressed.
EndAnchored_Again ==
  /\ task = "load" /\ Found /\ OffAnchor
  /\ Restart(payloadClass, {c \in suppressed : IsLocal(c)})
  /\ anchor' = NoContact
  /\ UNCHANGED <<routes, task, walk, lead>>

\* Mutant: the anchor stays set.
EndAnchored_Held ==
  /\ task = "load" /\ Found /\ OffAnchor
  /\ Restart(payloadClass, {c \in suppressed : IsLocal(c)} \cup {anchor})
  /\ UNCHANGED <<list, task, walk, lead>>

\* The route found does not start at the anchor: discard it, end the anchored
\* search and try again without the anchor.
EndAnchored ==
  /\ task = "load" /\ Found /\ OffAnchor
  /\ Restart(payloadClass, {c \in suppressed : IsLocal(c)} \cup {anchor})
  /\ anchor' = NoContact
  /\ UNCHANGED <<routes, task, walk, lead>>

RecordRoute ==
  /\ task = "load" /\ Found /\ ~OffAnchor
  /\ routes' = Append(routes, route)
  /\ \E limit \in LimitContacts :
       /\ Restart(payloadClass, suppressed \cup {limit})
       /\ anchor' = IF limit = Lead(route) THEN anchor ELSE Lead(route)
  /\ UNCHANGED <<task, walk, lead>>

\* "Bug in hops list!": no hop ends when the route ends.  Loading fails but
\* what the list holds stays, and the next bundle is forwarded over it.
LoadFails ==
  /\ task = "load" /\ Found /\ ~OffAnchor
  /\ LimitContacts = {}
  /\ routes' = Append(routes, route)
  /\ anchor' = NoContact
  /\ task' = "ready"
  /\ UNCHANGED <<vars, walk, lead>>

-----------------------------------------------------------------------------
(* identifyProximateNodes and recomputeRouteForContact.                    *)

\* Another bundle is to be forwarded, maybe later.
Forward ==
  /\ task = "ready"
  /\ now' \in {t \in StartTimes : now <= t}
  /\ deadline' \in Deadlines
  /\ position' = 1 /\ tried' = {}
  /\ task' = "walk"
  /\ UNCHANGED <<contactIndex, rangeIndex, control, notes, current,
                 finalContact, cursor, route, phase, list, lead>>

Here == routes[position]
AtRoute == task = "walk" /\ position <= Len(routes)
Ended == Here.toTime < now

\* Mutant: the walk steps on although the rest of the list has moved up.
DropRoute_Skip ==
  /\ AtRoute /\ Ended
  /\ Lead(Here).toTime <= now
  /\ routes' = RemoveAt(routes, position)
  /\ position' = position + 1
  /\ UNCHANGED <<vars, anchor, task, deadline, tried, lead>>

\* A route that has ended whose lead contact has ended too is dropped.
DropRoute ==
  /\ AtRoute /\ Ended
  /\ Lead(Here).toTime <= now
  /\ routes' = RemoveAt(routes, position)
  /\ UNCHANGED <<vars, anchor, task, walk, lead>>

\* Mutant: the lead contact itself is suppressed as well, if it leads another
\* route.
DropAndRecompute_Self ==
  /\ AtRoute /\ Ended
  /\ Lead(Here).toTime > now
  /\ routes' = RemoveAt(routes, position)
  /\ lead' = Lead(Here)
  /\ Restart(Here.payloadClass, {Lead(r) : r \in ToSet(routes')})
  /\ task' = "recompute"
  /\ UNCHANGED <<anchor, walk>>

\* Otherwise another one is computed, without the leads of all other routes.
DropAndRecompute ==
  /\ AtRoute /\ Ended
  /\ Lead(Here).toTime > now
  /\ routes' = RemoveAt(routes, position)
  /\ lead' = Lead(Here)
  /\ Restart(Here.payloadClass,
             {Lead(r) : r \in ToSet(routes')} \ {Lead(Here)})
  /\ task' = "recompute"
  /\ UNCHANGED <<anchor, walk>>

\* The new route takes its place in the list, and the walk starts again.
Recomputed ==
  /\ task = "recompute" /\ Found
  /\ routes' = InsertAt(routes, PlaceOf(route), route)
  /\ position' = 1
  /\ task' = "walk"
  /\ UNCHANGED <<vars, anchor, deadline, tried, lead>>

\* Mutant: the walk steps over the next route, if there is one.
NotRecomputed_Skip ==
  /\ task = "recompute" /\ NoneFound
  /\ task' = "walk"
  /\ position' = Lower(position, Len(routes)) + 1
  /\ UNCHANGED <<vars, list, deadline, tried, lead>>

NotRecomputed ==
  /\ task = "recompute" /\ NoneFound
  /\ task' = "walk"
  /\ UNCHANGED <<vars, list, walk, lead>>

\* The route may serve (or not, for a reason that Forwarding models).
TryRoute ==
  /\ AtRoute /\ ~Ended
  /\ Here.arrivalTime <= deadline
  /\ tried' = tried \cup {Here}
  /\ position' = position + 1
  /\ UNCHANGED <<vars, list, task, deadline, lead>>

\* "No more plausible routes", or the end of the list.
WalkDone ==
  /\ task = "walk"
  /\ AtRoute => ~Ended /\ Here.arrivalTime > deadline
  /\ task' = "ready"
  /\ UNCHANGED <<vars, list, walk, lead>>

-----------------------------------------------------------------------------
(* The specification.  The first bundle finds no list.                     *)

ListInit ==
  /\ InitPlan /\ rangeIndex = Ranges
  /\ payloadClass = 1 /\ suppressed = {}
  /\ ClearNotes /\ BeginSearch
  /\ routes = <<>> /\ anchor = NoContact
  /\ task = "load"
  /\ position = 1 /\ deadline \in Deadlines /\ tried = {}
  /\ lead = NoContact

Searching ==
  /\ task \in {"load", "recompute"}
  /\ SearchStep
  /\ UNCHANGED <<list, task, walk, lead>>

Load == NextClass \/ LoadDone \/ EndAnchored \/ RecordRoute \/ LoadFails

Walk ==
  \/ DropRoute \/ DropAndRecompute \/ Recomputed \/ NotRecomputed
  \/ TryRoute \/ WalkDone

ListNext == Searching \/ Load \/ Walk \/ Forward

ListSpec == ListInit /\ [][ListNext]_listVars

\* A call runs until it returns; bundles come when they come.
FairListSpec == ListSpec /\ WF_listVars(Searching \/ Load \/ Walk)

-----------------------------------------------------------------------------
(* Properties.                                                             *)

ListTypeOK ==
  /\ TypeOK
  /\ routes \in Seq(CgrRoute)
  /\ \A r \in ToSet(routes) : r.hops # <<>>
  /\ anchor \in contactIndex \cup {NoContact}
  /\ task \in {"load", "walk", "recompute", "ready"}
  /\ position \in 1..(Len(routes) + 1)
  /\ deadline \in Deadlines
  /\ tried \subseteq CgrRoute
  /\ lead \in contactIndex \cup {NoContact}

\* An itinerary that starts with contact c and does not come back to the
\* local node.  What is suppressed does not matter to it.
AllUsable(c) ==
  /\ Capacity(c) >= CapacityFloor[payloadClass]
  /\ ApplicableRange(c) # {}

SendingsBeyond ==
  UNION {{c} \X (c.fromTime..(c.toTime - 1)) :
           c \in {d \in contactIndex : AllUsable(d) /\ ~IsLocal(d)}}

IsItineraryOver(c, s, it, n) ==
  /\ n = 0 => c.toNode = Terminus
  /\ n > 0 => /\ it[1][1].fromNode = c.toNode
              /\ it[1][2] >= s + Owlt(c)
              /\ it[n][1].toNode = Terminus
  /\ \A i \in 1..(n - 1) : /\ it[i + 1][1].fromNode = it[i][1].toNode
                           /\ it[i + 1][2] >= Received(it[i])

\* No itinerary over c, sent at s or later, arrives before time t.
NoneOver(c, t) ==
  AllUsable(c) =>
    \A s \in Later(c.fromTime, now)..(c.toTime - 1), n \in 0..(MaxHops - 1) :
      \A it \in [1..n -> SendingsBeyond] :
        IsItineraryOver(c, s, it, n) =>
          t <= IF n = 0 THEN s + Owlt(c) ELSE Received(it[n])

\* The first route recorded through each lead contact is the best there is
\* through that contact, although what earlier searches suppressed lies on
\* the way of later ones (loadRouteList, endAnchoredSearch).
FirstRouteIsBest ==
  /\ task = "load" /\ Found /\ ~OffAnchor
  /\ ~\E r \in ToSet(routes) :
        r.payloadClass = payloadClass /\ Lead(r) = Lead(route)
  => NoneOver(Lead(route), route.arrivalTime)

\* Loading never records a route twice in its class.
RoutesDiffer ==
  task = "load" =>
    \A i, j \in DOMAIN routes :
      i # j /\ routes[i].payloadClass = routes[j].payloadClass
        => routes[i].hops # routes[j].hops

\* What is computed for a lead contact whose route has ended misses nothing:
\* no itinerary through it arrives before the new route; and if there is no
\* new route there is no such itinerary (recomputeRouteForContact).
RecomputeMissesNothing ==
  task = "recompute" /\ phase = "done" => NoneOver(lead, route.arrivalTime)

\* No route that has ended is left in the part of the list that the walk is
\* through with, whatever was dropped from it and inserted into it meanwhile
\* (identifyProximateNodes).
NoEndedRoute ==
  task # "load" => \A i \in 1..(position - 1) : routes[i].toTime >= now

\* A call ends: loading comes to its last class, and dropping and recomputing
\* routes while walking the list does not go on forever.
CallsReturn ==
  (task = "load" ~> task = "ready") /\ (task = "walk" ~> task = "ready")

-----------------------------------------------------------------------------
(* What comments say and the code does not do.                             *)

\* Every local contact over which the terminus can be reached leads a route
\* of the class when the search for that class is over.
EveryLeadHasRoute ==
  task = "load" /\ NoneFound =>
    \A c \in {d \in contactIndex : IsLocal(d)} :
      \/ \E r \in ToSet(routes) : r.payloadClass = payloadClass /\ Lead(r) = c
      \/ NoneOver(c, MAX_TIME)
=============================================================================
