------------------------------ MODULE Forwarding ------------------------------
(***************************************************************************)
(* How libcgr chooses the neighbor for a bundle (tryRoute,                 *)
(* computeArrivalTime, the walk of identifyProximateNodes and the end of   *)
(* cgrForward in bp/cgr/libcgr.c): the routes of the list are tried one by *)
(* one, against the bytes already queued to each neighbor, up to the first *)
(* that even an idle node would be too late with; the best of each         *)
(* neighbor is noted, and the best neighbor of all gets the bundle.        *)
(*                                                                         *)
(* The plan does not change here and no contact of a route is missing:     *)
(* what edits do to routes is in RouteCache, how the list comes about and  *)
(* is walked in RouteList, the queues in OneRouter.  Links are external    *)
(* and ideal: they carry what the plan says, from the head of the queue.   *)
(* Overbooked and protected bytes are left out; they are computed, but     *)
(* nothing reads them (MANAGE_OVERBOOKING is 0).                           *)
(***************************************************************************)
EXTENDS Scalars, FiniteSets, SequencesExt

CONSTANTS
  OwnNode,     \* this node
  Contacts,    \* the contact plan, whose contacts of a pair never overlap (ContactPlan)
  Light(_),    \* light time of a contact, NoRange if none applies to it
  NoRange,
  RouteLists,  \* lists of routes to the terminus; a route is its hops
  Bundles,
  Size(_),     \* bytes of a bundle's payload
  Header,      \* NOMINAL_PRIMARY_BLKSIZE
  Expiry(_),   \* expirationTime + EPOCH_2000_SEC of a bundle
  MaxTime      \* bound on the clock

Neighbors == {c.toNode : c \in {d \in Contacts : d.fromNode = OwnNode}}

ASSUME ContactAssumption ==
  /\ IsFiniteSet(Contacts)
  /\ \A c \in Contacts :
       /\ DOMAIN c = {"fromNode", "toNode", "fromTime", "toTime", "xmitRate"}
       /\ c.fromNode \in Nat /\ c.toNode \in Nat
       /\ c.fromTime \in Nat /\ c.toTime \in Nat /\ c.fromTime < c.toTime
       /\ c.xmitRate \in Nat \ {0}
       /\ Light(c) = NoRange \/ Light(c) \in Nat
  /\ \A c, d \in Contacts :
       c.fromNode = d.fromNode /\ c.toNode = d.toNode /\ c # d =>
         c.toTime <= d.fromTime \/ d.toTime <= c.fromTime
ASSUME RouteAssumption ==
  \A list \in RouteLists :
    /\ list \in Seq(Seq(Contacts))
    /\ \A i \in DOMAIN list :
         /\ list[i] # <<>> /\ list[i][1].fromNode = OwnNode
         /\ \A j \in DOMAIN list[i] : Light(list[i][j]) # NoRange
ASSUME BundleAssumption ==
  /\ \A b \in Bundles : Size(b) \in Nat \ {0} /\ Expiry(b) \in Nat
  /\ Header \in Nat /\ MaxTime \in Nat \ {0}

VARIABLES
  now,             \* getUTCTime()
  routes,          \* the list of routes
  bundle,          \* the bundle being forwarded, one at a time, or <<>>
  position,        \* place in the list of the route to try next
  proximateNodes,  \* what is noted of each neighbor
  queue,           \* the outducts
  sent,            \* bytes already sent of the first bundle of an outduct
  forfeitTime      \* per bundle, until when its route is good

vars == <<now, routes, bundle, position, proximateNodes, queue, sent, forfeitTime>>

Later(s, t) == IF s > t THEN s ELSE t
Bytes(q) ==
  LET sum[i \in 0..Len(q)] == IF i = 0 THEN 0 ELSE sum[i - 1] + Size(q[i])
  IN  sum[Len(q)]

-----------------------------------------------------------------------------
(* computeArrivalTime.                                                     *)

Start(c) == Later(now, c.fromTime)
Capacity(c) == MultiplyScalar(LoadScalar(c.toTime - Start(c)), c.xmitRate)

\* What is left of backlog s when t of it has been sent.
Unsent(s, t) ==
  LET rest == SubtractFromScalar(s, t)
  IN  IF ScalarIsValid(rest) THEN rest ELSE LoadScalar(0)

\* Contacts with the same neighbor that come before contact c
Preceding(c) ==
  {d \in Contacts : /\ d.fromNode = OwnNode /\ d.toNode = c.toNode
                    /\ d.toTime >= now /\ d.fromTime < c.fromTime}

\* What is queued to the neighbor and left to be sent when contact c starts.
\* (ion_outduct hands the backlog over as an int: a queue of 2 GB or more, where
\* that would matter, is beyond the model.)
PriorClaims(c) ==
  FoldSet(LAMBDA d, claims : Unsent(claims, Capacity(d)),
          LoadScalar(Bytes(queue[c.toNode])), Preceding(c))

Eccc(b) == Header + Size(b)

\* Seconds it takes to send s, truncated.
RadiationLatency(s, rate) == Value(DivideScalar(s, rate))

\* When bundle b has been transmitted over each of hops h
TransmitTime(h, b) ==
  LET done[i \in DOMAIN h] ==
        IF i = 1
        THEN Start(h[1]) + RadiationLatency(IncreaseScalar(PriorClaims(h[1]), Eccc(b)),
                                            h[1].xmitRate)
        ELSE Later(done[i - 1] + Light(h[i - 1]), h[i].fromTime)
               + RadiationLatency(LoadScalar(Eccc(b)), h[i].xmitRate)
  IN  done

\* Mutant: a bundle may be transmitted until the contact ends.
Connected_AtEnd(h, b) ==
  /\ \A i \in DOMAIN h : Light(h[i]) # NoRange
  /\ \A i \in DOMAIN h : TransmitTime(h, b)[i] <= h[i].toTime

\* Every hop has a range and lasts until the bundle is through.  Times are
\* truncated to seconds, so they must be less than the end of the contact.
Connected(h, b) ==
  /\ \A i \in DOMAIN h : Light(h[i]) # NoRange
  /\ \A i \in DOMAIN h : TransmitTime(h, b)[i] < h[i].toTime

ArrivalTime(h, b) == TransmitTime(h, b)[Len(h)] + Light(Last(h))

Plausible(h, b) == Connected(h, b) /\ ArrivalTime(h, b) <= Expiry(b)

-----------------------------------------------------------------------------
(* tryRoute.                                                               *)

ToTime(h) == Min({c.toTime : c \in ToSet(h)})
MaxCapacity(h) ==
  Min({c.xmitRate * (c.toTime - c.fromTime) : c \in ToSet(h)})

ProximateNode(h, b) ==
  [neighborNodeNbr |-> h[1].toNode, arrivalTime |-> ArrivalTime(h, b),
   hopCount |-> Len(h), forfeitTime |-> ToTime(h)]

\* Mutant: hops do not count when arrival times are the same.
Better_Arrival(p, q) == p.arrivalTime < q.arrivalTime

Better(p, q) ==
  \/ p.arrivalTime < q.arrivalTime
  \/ (p.arrivalTime = q.arrivalTime /\ p.hopCount < q.hopCount)

\* The notes with that of a route added, or put in the place of a worse one
\* for the same neighbor
Noted(P, p) ==
  LET same == {q \in P : q.neighborNodeNbr = p.neighborNodeNbr}
  IN  IF \A q \in same : Better(p, q) THEN (P \ same) \cup {p} ELSE P

\* identifyProximateNodes skips routes that have ended or are too small.
Offered(h, b) == ToTime(h) >= now /\ Size(b) <= MaxCapacity(h)

\* The list was loaded when the model starts.
LoadTime == 1

\* When something sent over hops h at LoadTime leaves each of them, if no hop
\* takes time to send it
Departure(h) ==
  LET left[i \in DOMAIN h] ==
        IF i = 1 THEN Later(LoadTime, h[1].fromTime)
        ELSE Later(left[i - 1] + Light(h[i - 1]), h[i].fromTime)
  IN  left

\* arrivalTime of a route, as the search leaves it
EarliestArrival(h) == Departure(h)[Len(h)] + Light(Last(h))

\* Mutant: a route that arrives at the deadline is taken for late.
Late_AtDeadline(h, b) == ToTime(h) >= now /\ EarliestArrival(h) >= Expiry(b)

\* At such a route the walk stops.  One that has ended is deleted before its
\* arrival time is looked at.
Late(h, b) == ToTime(h) >= now /\ EarliestArrival(h) > Expiry(b)

\* The next route is tried, whatever came of those before it.
TryRoute ==
  /\ bundle # <<>> /\ position <= Len(routes)
  /\ ~Late(routes[position], bundle[1])
  /\ LET h == routes[position]
         b == bundle[1]
     IN  proximateNodes' = IF Offered(h, b) /\ Plausible(h, b)
                           THEN Noted(proximateNodes, ProximateNode(h, b))
                           ELSE proximateNodes
  /\ position' = position + 1
  /\ UNCHANGED <<now, routes, bundle, queue, sent, forfeitTime>>

\* No more plausible routes: the rest of the list is not looked at.
StopAtLate ==
  /\ bundle # <<>> /\ position <= Len(routes)
  /\ Late(routes[position], bundle[1])
  /\ position' = Len(routes) + 1
  /\ UNCHANGED <<now, routes, bundle, proximateNodes, queue, sent, forfeitTime>>

-----------------------------------------------------------------------------
(* cgrForward.                                                             *)

CgrForward(b) ==
  /\ bundle = <<>> /\ forfeitTime[b] = 0
  /\ bundle' = <<b>> /\ position' = 1 /\ proximateNodes' = {}
  /\ UNCHANGED <<now, routes, queue, sent, forfeitTime>>

\* Earlier arrival, then fewer hops, then the smaller node number.
Preferred(p, q) ==
  Better(p, q) \/ (~Better(q, p) /\ p.neighborNodeNbr <= q.neighborNodeNbr)

\* The bundle joins the outduct of the preferred neighbor, with the time at
\* which its route ends (enqueueToNeighbor, bpEnqueONE).
Enqueue ==
  /\ bundle # <<>> /\ position > Len(routes)
  /\ \E p \in proximateNodes :
       /\ \A q \in proximateNodes : Preferred(p, q)
       /\ queue' = [queue EXCEPT ![p.neighborNodeNbr] = Append(@, bundle[1])]
       /\ forfeitTime' = [forfeitTime EXCEPT ![bundle[1]] = p.forfeitTime]
  /\ bundle' = <<>>
  /\ UNCHANGED <<now, routes, position, proximateNodes, sent>>

NoProximateNode ==
  /\ bundle # <<>> /\ position > Len(routes) /\ proximateNodes = {}
  /\ bundle' = <<>>
  /\ UNCHANGED <<now, routes, position, proximateNodes, queue, sent, forfeitTime>>

-----------------------------------------------------------------------------
(* Ideal links.                                                            *)

Rate(n) ==
  MapThenSumSet(LAMBDA c : c.xmitRate,
                {c \in Contacts : /\ c.fromNode = OwnNode /\ c.toNode = n
                                  /\ c.fromTime <= now /\ now < c.toTime})

\* How many bundles the link to n has sent by the end of the second
Done(n) ==
  Max({k \in 0..Len(queue[n]) : Bytes(SubSeq(queue[n], 1, k)) <= sent[n] + Rate(n)})

Second ==
  /\ bundle = <<>> /\ now < MaxTime
  /\ now' = now + 1
  /\ queue' = [n \in Neighbors |-> SubSeq(queue[n], Done(n) + 1, Len(queue[n]))]
  /\ sent' = [n \in Neighbors |->
                IF Done(n) = Len(queue[n]) THEN 0
                ELSE sent[n] + Rate(n) - Bytes(SubSeq(queue[n], 1, Done(n)))]
  /\ UNCHANGED <<routes, bundle, position, proximateNodes, forfeitTime>>

-----------------------------------------------------------------------------
(* The specification.                                                      *)

Init ==
  /\ now = LoadTime /\ routes \in RouteLists
  /\ bundle = <<>> /\ position = 1 /\ proximateNodes = {}
  /\ queue = [n \in Neighbors |-> <<>>] /\ sent = [n \in Neighbors |-> 0]
  /\ forfeitTime = [b \in Bundles |-> 0]

Next ==
  \/ \E b \in Bundles : CgrForward(b)
  \/ TryRoute \/ StopAtLate \/ Enqueue \/ NoProximateNode
  \/ Second

Spec == Init /\ [][Next]_vars

-----------------------------------------------------------------------------
(* Properties.                                                             *)

\* The variables keep their types, and a neighbor is noted once.
TypeOK ==
  /\ now \in 1..MaxTime
  /\ routes \in RouteLists
  /\ bundle = <<>> \/ \E b \in Bundles : bundle = <<b>>
  /\ position \in 1..(Len(routes) + 1)
  /\ proximateNodes \subseteq
       [neighborNodeNbr : Neighbors, arrivalTime : Nat, hopCount : Nat, forfeitTime : Nat]
  /\ \A p, q \in proximateNodes : p.neighborNodeNbr = q.neighborNodeNbr => p = q
  /\ queue \in [Neighbors -> Seq(Bundles)]
  /\ sent \in [Neighbors -> Nat]
  /\ forfeitTime \in [Bundles -> Nat]

\* What the code computes with scalars, in plain numbers: the bytes of the
\* backlog that contact c finds, and when the hops of h are through with b.
Backlog(c) ==
  Later(0, Bytes(queue[c.toNode])
             - MapThenSumSet(LAMBDA d : (d.toTime - Start(d)) * d.xmitRate, Preceding(c)))

Through(h, b) ==
  LET done[i \in DOMAIN h] ==
        IF i = 1 THEN Start(h[1]) + (Backlog(h[1]) + Eccc(b)) \div h[1].xmitRate
        ELSE Later(done[i - 1] + Light(h[i - 1]), h[i].fromTime)
               + Eccc(b) \div h[i].xmitRate
  IN  done

CanTake(h, b) ==
  /\ Offered(h, b)
  /\ \A i \in DOMAIN h : Light(h[i]) # NoRange /\ Through(h, b)[i] < h[i].toTime
  /\ Through(h, b)[Len(h)] + Light(Last(h)) <= Expiry(b)

Ascending ==
  \A i, j \in DOMAIN routes :
    i < j => EarliestArrival(routes[i]) <= EarliestArrival(routes[j])

\* The routes that the choice is owed to be made among: all of the list when
\* it is in the order the walk relies on, and else those before a late one.
Considered ==
  {routes[i] : i \in {k \in DOMAIN routes :
                       Ascending \/ \A j \in 1..k : ~Late(routes[j], bundle[1])}}

\* Those of them that can take the bundle
Candidates ==
  LET b == bundle[1]
  IN  {[neighborNodeNbr |-> h[1].toNode, hopCount |-> Len(h),
        arrivalTime |-> Through(h, b)[Len(h)] + Light(Last(h)),
        forfeitTime |-> ToTime(h)] : h \in {g \in Considered : CanTake(g, b)}}

\* A bundle goes to the first node of a route than which no considered route
\* arrives earlier, or at the same time over fewer hops, or over as many by
\* way of a smaller node number; and the forfeit time it gets is that of such
\* a route.  In whatever order the routes were tried, although only one note
\* is kept per neighbor, although backlogs are carried and borrowed in gigs
\* and units, and, in a list in ascending order of arrival, although the walk
\* stops at the first route that would be late on an idle node.
BestRouteIsChosen ==
  [][\A n \in Neighbors :
       Len(queue'[n]) > Len(queue[n]) =>
         \E p \in Candidates :
           /\ p.neighborNodeNbr = n /\ forfeitTime'[bundle[1]] = p.forfeitTime
           /\ \A q \in Candidates :
                /\ p.arrivalTime <= q.arrivalTime
                /\ p.arrivalTime = q.arrivalTime =>
                     /\ p.hopCount <= q.hopCount
                     /\ p.hopCount = q.hopCount => n <= q.neighborNodeNbr]_vars

\* A bundle stays without a neighbor only if no considered route can take it;
\* in a list in ascending order, none of the list.
NoneIfNoRoute ==
  [][bundle # <<>> /\ bundle' = <<>> /\ queue' = queue => Candidates = {}]_vars

\* As long as links carry what the plan promises, every bundle has left its
\* queue when its route ends, whatever was queued before or after it, for the
\* same contact with the neighbor or another.
BundlesMakeTheirContacts ==
  TypeOK /\ \A n \in Neighbors : \A b \in ToSet(queue[n]) : now < forfeitTime[b]
================================================================================
