----------------------------- MODULE RouteProofs -----------------------------
(***************************************************************************)
(* Proofs about RouteSearch, for every plan of contacts and ranges, every  *)
(* set of suppressed contacts and every length of itinerary: the search    *)
(* finds a route of the earliest possible arrival.  And about RouteList,   *)
(* for every number of payload classes too: the searches that share their  *)
(* suppressed contacts do not spoil each other.                            *)
(***************************************************************************)
EXTENDS RouteList, DataLemmas

-----------------------------------------------------------------------------
(* Light times and arrivals.                                               *)

LEMMA OwltNat ==
  ASSUME TypeOK, NEW c, ApplicableRange(c) # {}
  PROVE  Owlt(c) \in Nat
<1>. DEFINE r == CHOOSE x \in ApplicableRange(c) : TRUE
<1>1. r \in ApplicableRange(c)
  BY Zenon
<1>2. r \in Ranges
  BY <1>1, Zenon DEF ApplicableRange, Firsts, CurrentRanges, TypeOK
<1>3. r.owlt \in Nat
  BY <1>2, PlanAssumption DEF IsRange
<1>. HIDE DEF r
<1>4. Delay(r) \in Nat
  BY <1>3 DEF Delay
<1>. QED
  BY <1>4, Zenon DEF Owlt, r

\* What the search needs to know of a contact that it may use.
LEMMA ContactType ==
  ASSUME TypeOK, NEW c \in contactIndex
  PROVE  /\ c.fromNode \in Nat \ {0} /\ c.toNode \in Nat \ {0}
         /\ c.fromTime \in Nat /\ c.toTime \in Nat /\ c.fromTime < c.toTime
         /\ c.xmitRate \in Nat
         /\ c # Root /\ c # NoContact
<1>1. IsContact(c)
  BY PlanAssumption DEF TypeOK
<1>2. c.fromTime # 0
  BY <1>1 DEF IsContact
<1>. QED
  BY <1>1, <1>2 DEF IsContact, Root, NoContact

LEMMA CapacityType ==
  ASSUME TypeOK, NEW c \in contactIndex
  PROVE  Capacity(c) \in Nat
<1>. DEFINE length == c.toTime - c.fromTime
<1>1. length \in Nat /\ c.xmitRate \in Nat
  BY ContactType
<1>. HIDE DEF length
<1>2. c.xmitRate * length \in Nat
  BY <1>1
<1>. QED
  BY <1>2 DEF Capacity, length

LEMMA RootIsNotNull == Root # NoContact
  BY NodeAssumption DEF Root, NoContact

\* Data arrive no earlier than they were there to be sent, and earlier data
\* arrive no later.
LEMMA ArrivalGrows ==
  ASSUME TypeOK, NEW c \in contactIndex, Usable(c), NEW t \in Nat
  PROVE  /\ ArrivalVia(c, t) \in Nat
         /\ t <= ArrivalVia(c, t)
         /\ \A s \in Nat : s <= t => ArrivalVia(c, s) <= ArrivalVia(c, t)
<1>1. Owlt(c) \in Nat
  BY OwltNat DEF Usable
<1>. QED
  BY <1>1, ContactType DEF ArrivalVia, Later

LEMMA TimeTypes ==
  ASSUME TypeOK
  PROVE  /\ now \in Nat /\ now < MAX_TIME /\ MAX_TIME \in Nat
         /\ \A c \in contactIndex : arrival[c] \in Nat /\ arrival[c] <= MAX_TIME
  BY LimitAssumption DEF TypeOK

LEMMA CurrentTime ==
  ASSUME TypeOK, current # NoContact
  PROVE  ArrivalAt(current) \in Nat
<1>1. CASE current = Root
  BY <1>1, TimeTypes DEF ArrivalAt
<1>2. CASE current \in contactIndex
  BY <1>2, TimeTypes DEF ArrivalAt
<1>. QED
  BY <1>1, <1>2 DEF TypeOK

-----------------------------------------------------------------------------
(* Types.                                                                  *)

\* What a pass does to the arrival time of a contact.
LEMMA RelaxedValue ==
  ASSUME TypeOK, current # NoContact, NEW c \in contactIndex
  PROVE  /\ Relaxed[c] \in Nat /\ Relaxed[c] <= arrival[c]
         /\ Improved(c) => /\ Relaxed[c] = ArrivalVia(c, ArrivalAt(current))
                           /\ Relaxed[c] < arrival[c]
                           /\ ArrivalAt(current) <= Relaxed[c]
         /\ ~Improved(c) => Relaxed[c] = arrival[c]
<1>1. CASE Improved(c)
  <2>1. Usable(c)
    BY <1>1 DEF Improved, Considered
  <2>2. ArrivalVia(c, ArrivalAt(current)) \in Nat
        /\ ArrivalAt(current) <= ArrivalVia(c, ArrivalAt(current))
    BY <2>1, CurrentTime, ArrivalGrows
  <2>. QED
    BY <1>1, <2>2, TimeTypes DEF Relaxed, Improved
<1>2. CASE ~Improved(c)
  BY <1>2, TimeTypes DEF Relaxed
<1>. QED
  BY <1>1, <1>2

LEMMA PassTypes ==
  ASSUME TypeOK, Pass, current # NoContact
  PROVE  TypeOK'
<1>1. arrival' \in [contactIndex -> 0..MAX_TIME]
  <2>1. \A c \in contactIndex : Relaxed[c] \in 0..MAX_TIME
    BY RelaxedValue, TimeTypes
  <2>. QED
    BY <2>1 DEF Pass, Relaxed
<1>2. predecessor' \in [contactIndex -> contactIndex \cup {Root, NoContact}]
  BY DEF Pass, Traced, TypeOK
<1>3. visited' \subseteq contactIndex
  BY DEF Pass, Visiting, TypeOK
<1>4. finalContact' \in contactIndex \cup {NoContact}
  BY DEF Pass, FinalAfter, Firsts, Earliest, TypeOK
<1>5. FinalTime(finalContact', arrival') \in 0..MAX_TIME
  BY <1>1, <1>4, LimitAssumption DEF FinalTime
<1>6. CASE /\ current' \in Nexts(Relaxed, Visiting, finalContact')
           /\ UNCHANGED <<cursor, route, phase>>
  <2>1. current' \in contactIndex
    BY <1>6 DEF Nexts, Firsts, Earliest, Eligible
  <2>. QED
    BY <1>1, <1>2, <1>3, <1>4, <1>6, <2>1
    DEF Pass, TypeOK, plan, control, CgrRoute
<1>7. CASE /\ current' = NoContact
           /\ phase' = IF finalContact' = NoContact THEN "done" ELSE "walk"
           /\ cursor' = finalContact'
           /\ route' = [EmptyRoute EXCEPT
                          !.arrivalTime = FinalTime(finalContact', Relaxed)]
  <2>1. EmptyRoute \in CgrRoute
    BY LimitAssumption, <<>> \in Seq(contactIndex) DEF EmptyRoute, CgrRoute, TypeOK
  <2>2. route' \in CgrRoute
    BY <1>5, <1>7, <2>1 DEF CgrRoute, Pass
  <2>. QED
    BY <1>1, <1>2, <1>3, <1>4, <1>7, <2>2, RootIsNotNull
    DEF Pass, TypeOK, plan, control, CgrRoute
<1>. QED
  BY <1>6, <1>7 DEF Pass

LEMMA BacktrackTypes ==
  ASSUME TypeOK, Backtrack, cursor # NoContact
  PROVE  TypeOK'
<1>1. cursor \in contactIndex
  BY DEF TypeOK, Backtrack
<1>2. Capacity(cursor) \in Nat
  BY <1>1, ContactType DEF Capacity
<1>3. <<cursor>> \o route.hops \in Seq(contactIndex)
  BY <1>1 DEF TypeOK, CgrRoute
<1>4. Lower(cursor.toTime, route.toTime) \in 0..MAX_TIME
  BY <1>1, ContactType, LimitAssumption DEF Lower, TypeOK, CgrRoute
<1>5. Lower(Capacity(cursor), route.maxCapacity) \in 0..UVAST_MAX
  BY <1>2, LimitAssumption DEF Lower, TypeOK, CgrRoute
<1>6. route' \in CgrRoute
  BY <1>3, <1>4, <1>5 DEF Backtrack, CgrRoute, TypeOK
<1>7. cursor' \in contactIndex \cup {Root, NoContact}
  BY <1>1 DEF Backtrack, TypeOK
<1>. QED
  BY <1>6, <1>7 DEF Backtrack, TypeOK, plan, control, notes, CgrRoute

-----------------------------------------------------------------------------
(* The inductive invariant.                                                *)

\* The contact whose successors are considered next is the earliest of those
\* that are not visited, and no visited one is later.
FrontierInv ==
  phase = "search" =>
    /\ current # NoContact /\ current \notin visited
    /\ current = Root => visited = {}
    /\ current # Root =>
         /\ arrival[current] < MAX_TIME
         /\ \A v \in visited : arrival[v] <= arrival[current]
         /\ \A c \in contactIndex \ (visited \cup suppressed) :
              arrival[current] <= arrival[c]

\* A contact that data have come to by time t leads to the usable contacts
\* that follow it.
Leads(node, t) ==
  \A c \in contactIndex :
    Usable(c) /\ c.fromNode = node /\ c.toTime > t
      => arrival[c] <= ArrivalVia(c, t)

RootPassed == phase # "search" \/ current # Root

RelaxedInv ==
  /\ RootPassed => Leads(OwnNode, now)
  /\ \A v \in visited : Leads(v.toNode, arrival[v])

\* The final contact is the earliest of those that reach the terminus.
FinalInv ==
  /\ finalContact # NoContact =>
       finalContact.toNode = Terminus /\ arrival[finalContact] < MAX_TIME
  /\ \A c \in contactIndex :
       c.toNode = Terminus => FinalTime(finalContact, arrival) <= arrival[c]

\* Whatever is earlier than the best route has been visited when the search
\* is over.
SettledInv ==
  phase # "search" =>
    /\ route.arrivalTime = FinalTime(finalContact, arrival)
    /\ \A c \in contactIndex \ (visited \cup suppressed) :
         route.arrivalTime < arrival[c] \/ arrival[c] = MAX_TIME

\* Data come to a contact from its predecessor, in time.
TraceInv ==
  \A c \in contactIndex :
    arrival[c] < MAX_TIME =>
      LET p == predecessor[c]
      IN  /\ Usable(c)
          /\ p = Root \/ p \in visited
          /\ p.toNode = c.fromNode
          /\ ArrivalAt(p) < c.toTime /\ ArrivalAt(p) < MAX_TIME
          /\ arrival[c] = ArrivalVia(c, ArrivalAt(p))

\* The walk back follows the predecessors from the final contact.
WalkInv ==
  LET h == route.hops
      n == Len(h)
  IN  phase # "search" =>
        /\ phase = "walk" => finalContact # NoContact
        /\ h # <<>> => phase = "walk" \/ cursor = Root
        /\ cursor # Root /\ cursor # NoContact => arrival[cursor] < MAX_TIME
        /\ phase = "walk" => cursor # NoContact
        /\ h = <<>> => cursor = finalContact
        /\ h # <<>> => cursor = predecessor[h[1]] /\ h[n] = finalContact
        /\ \A i \in 1..(n - 1) : predecessor[h[i + 1]] = h[i]
        /\ \A i \in 1..n : /\ arrival[h[i]] < MAX_TIME
                           /\ route.toTime <= h[i].toTime
                           /\ route.maxCapacity <= Capacity(h[i])

SearchInv ==
  /\ TypeOK /\ FrontierInv /\ RelaxedInv /\ FinalInv
  /\ SettledInv /\ TraceInv /\ WalkInv

-----------------------------------------------------------------------------
(* A pass keeps it.                                                        *)

LEMMA PassKept ==
  ASSUME TypeOK, Pass
  PROVE  /\ UNCHANGED <<contactIndex, rangeIndex, now, suppressed, payloadClass>>
         /\ \A c \in contactIndex : /\ Usable(c)' <=> Usable(c)
                                   /\ \A t : ArrivalVia(c, t)' = ArrivalVia(c, t)
<1>1. UNCHANGED <<contactIndex, rangeIndex, now, suppressed, payloadClass>>
  BY DEF Pass, plan, control
<1>. QED
  BY <1>1 DEF Usable, Capacity, ApplicableRange, CurrentRanges, ArrivalVia, Owlt

\* The current contact and the visited ones keep their arrival times.
LEMMA VisitedKept ==
  ASSUME SearchInv, Pass
  PROVE  /\ \A v \in visited : arrival'[v] = arrival[v]
         /\ current # Root => /\ current \in contactIndex
                             /\ arrival'[current] = arrival[current]
<1>. USE DEF SearchInv
<1>1. current # NoContact
  BY DEF Pass, FrontierInv
<1>2. \A v \in visited : arrival'[v] = arrival[v]
  BY <1>1, RelaxedValue DEF Pass, Improved, Considered, TypeOK
<1>3. ASSUME current # Root
      PROVE  current \in contactIndex /\ arrival'[current] = arrival[current]
  <2>1. current \in contactIndex
    BY <1>1, <1>3 DEF TypeOK
  <2>2. ~Improved(current)
    BY <1>1, <1>3, <2>1, RelaxedValue, CurrentTime, TimeTypes DEF ArrivalAt
  <2>. QED
    BY <2>1, <2>2, <1>1, RelaxedValue DEF Pass
<1>. QED
  BY <1>2, <1>3

LEMMA PassRelaxed ==
  ASSUME SearchInv, Pass
  PROVE  RelaxedInv'
<1>. USE DEF SearchInv
<1>1. current # NoContact
  BY DEF Pass, FrontierInv
<1>2. \A c \in contactIndex : /\ arrival'[c] = Relaxed[c]
                             /\ arrival'[c] \in Nat /\ arrival'[c] <= arrival[c]
  BY <1>1, RelaxedValue DEF Pass
<1>3. \A c \in contactIndex : arrival[c] \in Nat
  BY TimeTypes
<1>4. ASSUME NEW node, NEW t \in Nat, Leads(node, t)
      PROVE  Leads(node, t)'
  <2>. SUFFICES ASSUME NEW c \in contactIndex', Usable(c)', c.fromNode = node,
                       c.toTime > t
                PROVE  arrival'[c] <= ArrivalVia(c, t)'
    BY DEF Leads
  <2>1. c \in contactIndex /\ Usable(c) /\ ArrivalVia(c, t)' = ArrivalVia(c, t)
    BY PassKept
  <2>2. arrival[c] <= ArrivalVia(c, t)
    BY <1>4, <2>1 DEF Leads
  <2>3. ArrivalVia(c, t) \in Nat
    BY <2>1, ArrivalGrows
  <2>. QED
    BY <1>2, <1>3, <2>1, <2>2, <2>3
<1>5. ASSUME NEW node, NEW t, node = current.toNode, t = ArrivalAt(current)
      PROVE  Leads(node, t)'
  <2>. SUFFICES ASSUME NEW c \in contactIndex', Usable(c)', c.fromNode = node,
                       c.toTime > t
                PROVE  arrival'[c] <= ArrivalVia(c, t)'
    BY DEF Leads
  <2>1. c \in contactIndex /\ Usable(c) /\ ArrivalVia(c, t)' = ArrivalVia(c, t)
    BY PassKept
  <2>2. t \in Nat /\ ArrivalVia(c, t) \in Nat /\ t <= ArrivalVia(c, t)
    BY <1>1, <1>5, <2>1, CurrentTime, ArrivalGrows
  <2>3. CASE c \in visited
    <3>1. current # Root
      BY <2>3 DEF FrontierInv, Pass
    <3>2. arrival[c] <= arrival[current] /\ t = arrival[current]
      BY <1>5, <2>3, <3>1 DEF FrontierInv, Pass, ArrivalAt
    <3>. QED
      BY <1>2, <1>3, <2>1, <2>2, <3>2
  <2>4. CASE c \notin visited
    <3>1. Considered(c)
      BY <1>5, <2>1, <2>4 DEF Considered
    <3>2. Improved(c) \/ arrival[c] <= ArrivalVia(c, t)
      BY <1>3, <1>5, <2>1, <2>2, <3>1 DEF Improved
    <3>. QED
      BY <1>1, <1>2, <1>3, <1>5, <2>1, <2>2, <3>2, RelaxedValue
  <2>. QED
    BY <2>3, <2>4
<1>6. RootPassed' => Leads(OwnNode, now)'
  <2>1. now' = now /\ now \in Nat
    BY PassKept, TimeTypes
  <2>2. CASE current = Root
    BY <1>5, <2>1, <2>2 DEF Root, ArrivalAt
  <2>3. CASE current # Root
    BY <1>4, <2>1, <2>3 DEF RelaxedInv, RootPassed
  <2>. QED
    BY <2>2, <2>3
<1>7. ASSUME NEW v \in visited'
      PROVE  Leads(v.toNode, arrival[v])'
  <2>1. v \in visited \/ (v = current /\ current # Root)
    BY DEF Pass, Visiting
  <2>2. CASE v \in visited
    BY <1>3, <1>4, <2>2, VisitedKept DEF RelaxedInv, TypeOK
  <2>3. CASE v = current /\ current # Root
    BY <1>5, <2>3, VisitedKept DEF ArrivalAt
  <2>. QED
    BY <2>1, <2>2, <2>3
<1>. QED
  BY <1>6, <1>7 DEF RelaxedInv

LEMMA PassFinal ==
  ASSUME SearchInv, Pass
  PROVE  FinalInv'
<1>. USE DEF SearchInv
<1>. DEFINE better == {c \in contactIndex :
                         /\ c.toNode = Terminus /\ Improved(c)
                         /\ Relaxed[c] < FinalTime(finalContact, arrival)}
            old == FinalTime(finalContact, arrival)
<1>1. current # NoContact
  BY DEF Pass, FrontierInv
<1>2. \A c \in contactIndex :
        /\ arrival'[c] = Relaxed[c] /\ arrival'[c] \in Nat /\ arrival[c] \in Nat
        /\ Improved(c) => arrival'[c] < arrival[c]
        /\ ~Improved(c) => arrival'[c] = arrival[c]
  BY <1>1, RelaxedValue, TimeTypes DEF Pass
<1>3. old \in Nat /\ old <= MAX_TIME
  BY TimeTypes DEF FinalTime, TypeOK
<1>4. CASE better = {}
  <2>1. finalContact' = finalContact
    BY <1>4 DEF Pass, FinalAfter
  <2>2. ASSUME finalContact # NoContact
        PROVE  arrival'[finalContact] = arrival[finalContact]
    BY <1>2, <1>4, <2>2 DEF FinalInv, FinalTime, TypeOK
  <2>3. FinalTime(finalContact', arrival') = old
    BY <2>1, <2>2 DEF FinalTime
  <2>4. ASSUME NEW c \in contactIndex, c.toNode = Terminus
        PROVE  old <= arrival'[c]
    <3>1. CASE Improved(c)
      BY <1>2, <1>3, <1>4, <2>4, <3>1
    <3>2. CASE ~Improved(c)
      BY <1>2, <2>4, <3>2 DEF FinalInv
    <3>. QED
      BY <3>1, <3>2
  <2>. QED
    BY <2>1, <2>2, <2>3, <2>4, PassKept DEF FinalInv
<1>5. CASE better # {}
  <2>1. finalContact' \in better /\ \A d \in better : Relaxed[finalContact'] <= Relaxed[d]
    BY <1>5 DEF Pass, FinalAfter, Firsts, Earliest
  <2>2. finalContact' # NoContact
    BY <2>1, ContactType
  <2>3. FinalTime(finalContact', arrival') = Relaxed[finalContact']
        /\ Relaxed[finalContact'] < old
    BY <1>2, <2>1, <2>2 DEF FinalTime
  <2>4. ASSUME NEW c \in contactIndex, c.toNode = Terminus
        PROVE  Relaxed[finalContact'] <= arrival'[c]
    <3>1. CASE c \in better
      BY <1>2, <2>1, <3>1
    <3>2. CASE c \notin better /\ Improved(c)
      BY <1>2, <1>3, <2>1, <2>3, <2>4, <3>2
    <3>3. CASE ~Improved(c)
      BY <1>2, <1>3, <2>1, <2>3, <2>4, <3>3 DEF FinalInv
    <3>. QED
      BY <3>1, <3>2, <3>3
  <2>5. arrival'[finalContact'] < MAX_TIME /\ finalContact'.toNode = Terminus
    BY <1>2, <1>3, <2>1, <2>3, TimeTypes
  <2>. QED
    BY <2>3, <2>4, <2>5, PassKept DEF FinalInv
<1>. QED
  BY <1>4, <1>5

LEMMA PassFrontier ==
  ASSUME SearchInv, Pass
  PROVE  FrontierInv' /\ SettledInv'
<1>. USE DEF SearchInv
<1>. DEFINE rest == contactIndex \ (suppressed \cup Visiting)
            final == FinalTime(finalContact', Relaxed)
<1>1. current # NoContact
  BY DEF Pass, FrontierInv
<1>2. \A c \in contactIndex :
        /\ arrival'[c] = Relaxed[c] /\ arrival'[c] \in Nat
        /\ arrival'[c] <= MAX_TIME
        /\ Improved(c) => ArrivalAt(current) <= arrival'[c]
        /\ ~Improved(c) => arrival'[c] = arrival[c]
  BY <1>1, RelaxedValue, TimeTypes DEF Pass
<1>3. arrival' = Relaxed /\ visited' = Visiting /\ MAX_TIME \in Nat
  BY LimitAssumption DEF Pass
<1>4. final \in Nat
  <2>1. finalContact' \in contactIndex \cup {NoContact}
    BY DEF Pass, FinalAfter, Firsts, Earliest, TypeOK
  <2>. QED
    BY <1>2, <1>3, <2>1 DEF FinalTime
<1>. HIDE DEF final
<1>5. \A v \in Visiting, c \in rest : arrival'[v] <= arrival'[c]
  <2>. SUFFICES ASSUME NEW v \in Visiting, NEW c \in rest
                PROVE  arrival'[v] <= arrival'[c]
    OBVIOUS
  <2>1. current # Root
    BY DEF FrontierInv, Pass, Visiting
  <2>2. current \in contactIndex /\ arrival'[current] = arrival[current]
    BY <2>1, VisitedKept
  <2>3. v \in contactIndex /\ arrival'[v] = arrival[v]
        /\ arrival[v] <= arrival[current]
    BY <2>1, <2>2, VisitedKept, TimeTypes DEF FrontierInv, Pass, Visiting, TypeOK
  <2>4. c \in contactIndex /\ arrival[current] <= arrival[c]
    BY <2>1 DEF FrontierInv, Pass, Visiting
  <2>5. ArrivalAt(current) = arrival[current]
    BY <2>1 DEF ArrivalAt
  <2>. QED
    BY <1>2, <2>2, <2>3, <2>4, <2>5, TimeTypes
<1>6. CASE /\ current' \in Nexts(Relaxed, Visiting, finalContact')
           /\ UNCHANGED <<cursor, route, phase>>
  <2>1. /\ current' \in rest /\ arrival'[current'] < MAX_TIME
        /\ arrival'[current'] <= final
        /\ \A c \in rest : arrival'[c] <= final /\ arrival'[c] < MAX_TIME
                            => arrival'[current'] <= arrival'[c]
    BY <1>3, <1>6 DEF Nexts, Firsts, Earliest, Eligible, final
  <2>2. \A c \in rest : arrival'[current'] <= arrival'[c]
    BY <1>2, <1>3, <1>4, <2>1
  <2>3. current' # NoContact /\ current' # Root
    BY <2>1, ContactType
  <2>4. phase' = "search"
    BY <1>6 DEF Pass
  <2>. QED
    BY <1>3, <1>5, <2>1, <2>2, <2>3, <2>4, PassKept DEF FrontierInv, SettledInv
<1>7. CASE /\ Eligible(Relaxed, Visiting, finalContact') = {}
           /\ current' = NoContact
           /\ phase' = IF finalContact' = NoContact THEN "done" ELSE "walk"
           /\ cursor' = finalContact'
           /\ route' = [EmptyRoute EXCEPT
                          !.arrivalTime = FinalTime(finalContact', Relaxed)]
  <2>1. phase' # "search"
    BY <1>7
  <2>2. route'.arrivalTime = final
    BY <1>7 DEF EmptyRoute, final
  <2>3. \A c \in rest : ~(arrival'[c] <= final /\ arrival'[c] < MAX_TIME)
    BY <1>3, <1>7 DEF Eligible, final
  <2>4. \A c \in rest : final < arrival'[c] \/ arrival'[c] = MAX_TIME
    BY <1>2, <1>3, <1>4, <2>3
  <2>5. FinalTime(finalContact, arrival)' = final
    BY <1>3 DEF FinalTime, final
  <2>. QED
    BY <1>3, <2>1, <2>2, <2>4, <2>5, PassKept DEF FrontierInv, SettledInv
<1>. QED
  BY <1>6, <1>7 DEF Pass

LEMMA PassTrace ==
  ASSUME SearchInv, Pass
  PROVE  TraceInv'
<1>. USE DEF SearchInv
<1>1. current # NoContact
  BY DEF Pass, FrontierInv
<1>. SUFFICES ASSUME NEW c \in contactIndex, arrival'[c] < MAX_TIME,
                     NEW p, p = predecessor'[c]
              PROVE  /\ Usable(c)
                     /\ p = Root \/ p \in visited'
                     /\ p.toNode = c.fromNode
                     /\ ArrivalAt(p)' < c.toTime /\ ArrivalAt(p)' < MAX_TIME
                     /\ arrival'[c] = ArrivalVia(c, ArrivalAt(p)')
  BY PassKept DEF TraceInv
<1>2. CASE Improved(c)
  <2>1. p = current
    BY <1>2 DEF Pass, Traced
  <2>2. ArrivalAt(p)' = ArrivalAt(current)
    BY <2>1, VisitedKept, PassKept DEF ArrivalAt
  <2>3. ArrivalAt(current) < MAX_TIME
    BY TimeTypes DEF ArrivalAt, FrontierInv, Pass
  <2>4. arrival'[c] = ArrivalVia(c, ArrivalAt(current))
    BY <1>1, <1>2, RelaxedValue DEF Pass
  <2>5. Usable(c) /\ c.fromNode = current.toNode /\ ArrivalAt(current) < c.toTime
    BY <1>1, <1>2, CurrentTime, ContactType DEF Improved, Considered
  <2>6. p = Root \/ p \in visited'
    BY <2>1 DEF Pass, Visiting
  <2>. QED
    BY <2>1, <2>2, <2>3, <2>4, <2>5, <2>6
<1>3. CASE ~Improved(c)
  <2>1. p = predecessor[c] /\ arrival'[c] = arrival[c]
    BY <1>1, <1>3, RelaxedValue DEF Pass, Traced
  <2>2. ArrivalAt(p)' = ArrivalAt(p)
    BY <2>1, VisitedKept, PassKept DEF ArrivalAt, TraceInv
  <2>. QED
    BY <2>1, <2>2 DEF TraceInv, Pass, Visiting
<1>. QED
  BY <1>2, <1>3

LEMMA PassWalk ==
  ASSUME SearchInv, Pass
  PROVE  WalkInv'
<1>1. CASE phase' = "search"
  BY <1>1 DEF WalkInv
<1>2. CASE phase' # "search"
  <2>1. /\ phase' = IF finalContact' = NoContact THEN "done" ELSE "walk"
        /\ cursor' = finalContact'
        /\ route' = [EmptyRoute EXCEPT
                       !.arrivalTime = FinalTime(finalContact', Relaxed)]
    BY <1>2 DEF Pass
  <2>2. route'.hops = <<>>
    BY <2>1 DEF EmptyRoute
  <2>3. finalContact' # NoContact => arrival'[finalContact'] < MAX_TIME
    BY PassFinal DEF FinalInv
  <2>. QED
    BY <1>2, <2>1, <2>2, <2>3 DEF WalkInv
<1>. QED
  BY <1>1, <1>2

-----------------------------------------------------------------------------
(* The other steps keep it.                                                *)

\* A step that leaves plan and notes alone and comes after the search keeps
\* what the passes have established.
LEMMA NotesKept ==
  ASSUME SearchInv, UNCHANGED <<plan, control, notes, current, finalContact>>,
         phase' = phase \/ (phase # "search" /\ phase' # "search"),
         route'.arrivalTime = route.arrivalTime
  PROVE  FrontierInv' /\ RelaxedInv' /\ FinalInv' /\ SettledInv' /\ TraceInv'
<1>. USE DEF SearchInv, plan, control, notes
<1>1. \A c : /\ Usable(c)' <=> Usable(c)
             /\ ArrivalAt(c)' = ArrivalAt(c)
             /\ \A t : ArrivalVia(c, t)' = ArrivalVia(c, t)
  BY DEF Usable, Capacity, ApplicableRange, CurrentRanges, ArrivalVia, Owlt, ArrivalAt
<1>2. \A node, t : Leads(node, t)' <=> Leads(node, t)
  BY <1>1 DEF Leads
<1>3. FrontierInv'
  BY DEF FrontierInv
<1>4. RelaxedInv'
  BY <1>2 DEF RelaxedInv, RootPassed
<1>5. FinalInv'
  BY DEF FinalInv, FinalTime
<1>6. SettledInv'
  BY DEF SettledInv, FinalTime
<1>7. TraceInv'
  BY <1>1 DEF TraceInv
<1>. QED
  BY <1>3, <1>4, <1>5, <1>6, <1>7

LEMMA LowerIsLower ==
  ASSUME NEW m \in Nat, NEW n \in Nat
  PROVE  Lower(m, n) \in Nat /\ Lower(m, n) <= m /\ Lower(m, n) <= n
  BY DEF Lower

LEMMA BacktrackWalk ==
  ASSUME SearchInv, Backtrack
  PROVE  WalkInv'
<1>. USE DEF SearchInv
<1>. DEFINE h == route.hops
            g == <<cursor>> \o h
<1>1. cursor \in contactIndex /\ phase = "walk"
  BY DEF Backtrack, WalkInv, TypeOK
<1>2. /\ h \in Seq(contactIndex) /\ route.toTime \in Nat /\ route.maxCapacity \in Nat
  BY LimitAssumption DEF TypeOK, CgrRoute
<1>3. /\ g \in Seq(contactIndex) /\ Len(g) = Len(h) + 1 /\ g[1] = cursor
      /\ \A i \in 1..Len(h) : g[i + 1] = h[i]
      /\ g # <<>> /\ Len(h) \in Nat
  BY <1>1, <1>2
<1>4. /\ route'.hops = g
      /\ route'.toTime = Lower(cursor.toTime, route.toTime)
      /\ route'.maxCapacity = Lower(Capacity(cursor), route.maxCapacity)
      /\ cursor' = predecessor[cursor] /\ phase' = phase
      /\ UNCHANGED <<arrival, predecessor, finalContact>>
  BY DEF Backtrack, notes, TypeOK, CgrRoute
<1>5. arrival[cursor] < MAX_TIME /\ finalContact # NoContact
  BY <1>1 DEF WalkInv, Backtrack
<1>6. cursor' = Root \/ (cursor' \in visited /\ arrival[cursor'] < MAX_TIME)
  BY <1>1, <1>4, <1>5, ContactType DEF TraceInv, ArrivalAt, TypeOK
<1>7. cursor' # NoContact
  BY <1>6, RootIsNotNull, ContactType DEF TypeOK
<1>8. g[Len(g)] = finalContact
  <2>1. CASE h = <<>>
    BY <1>1, <1>3, <2>1 DEF WalkInv
  <2>2. CASE h # <<>>
    <3>1. Len(h) \in 1..Len(h)
      BY <1>2, <2>2
    <3>2. h[Len(h)] = finalContact
      BY <1>1, <2>2 DEF WalkInv
    <3>. QED
      BY <1>3, <3>1, <3>2
  <2>. QED
    BY <2>1, <2>2
<1>9. ASSUME NEW i \in 1..(Len(g) - 1)
      PROVE  predecessor[g[i + 1]] = g[i]
  <2>1. i \in 1..Len(h) /\ g[i + 1] = h[i]
    BY <1>3
  <2>2. CASE i = 1
    BY <1>1, <1>2, <1>3, <2>1, <2>2 DEF WalkInv
  <2>3. CASE i # 1
    <3>1. i - 1 \in 1..(Len(h) - 1)
      BY <1>3, <2>1, <2>3
    <3>2. predecessor[h[(i - 1) + 1]] = h[i - 1]
      BY <1>1, <3>1 DEF WalkInv
    <3>3. (i - 1) + 1 = i /\ g[(i - 1) + 1] = h[i - 1]
      BY <1>3, <2>1, <3>1
    <3>. QED
      BY <2>1, <3>2, <3>3
  <2>. QED
    BY <2>2, <2>3
<1>10. ASSUME NEW i \in 1..Len(g)
       PROVE  /\ arrival[g[i]] < MAX_TIME
              /\ route'.toTime <= g[i].toTime
              /\ route'.maxCapacity <= Capacity(g[i])
  <2>1. cursor.toTime \in Nat /\ Capacity(cursor) \in Nat
    BY <1>1, ContactType DEF Capacity
  <2>2. /\ route'.toTime \in Nat /\ route'.maxCapacity \in Nat
        /\ route'.toTime <= cursor.toTime /\ route'.toTime <= route.toTime
        /\ route'.maxCapacity <= Capacity(cursor)
        /\ route'.maxCapacity <= route.maxCapacity
    BY <1>2, <1>4, <2>1, LowerIsLower
  <2>3. CASE i = 1
    BY <1>3, <1>5, <2>2, <2>3
  <2>4. CASE i # 1
    <3>1. i - 1 \in 1..Len(h) /\ g[i] = h[i - 1]
      BY <1>3, <2>4
    <3>2. /\ arrival[h[i - 1]] < MAX_TIME
          /\ route.toTime <= h[i - 1].toTime
          /\ route.maxCapacity <= Capacity(h[i - 1])
      BY <1>1, <3>1 DEF WalkInv
    <3>3. h[i - 1] \in contactIndex
      BY <1>2, <3>1
    <3>4. h[i - 1].toTime \in Nat /\ Capacity(h[i - 1]) \in Nat
      BY <3>3, ContactType, CapacityType
    <3>. QED
      BY <1>2, <2>2, <3>1, <3>2, <3>4
  <2>. QED
    BY <2>3, <2>4
<1>. HIDE DEF g
<1>. QED
  BY <1>1, <1>3, <1>4, <1>5, <1>6, <1>7, <1>8, <1>9, <1>10 DEF WalkInv

LEMMA FinishWalk ==
  ASSUME SearchInv, Finish
  PROVE  TypeOK' /\ WalkInv'
<1>. USE DEF SearchInv, plan, control, notes
<1>1. TypeOK'
  BY DEF Finish, TypeOK, CgrRoute
<1>2. cursor = Root /\ phase = "walk" /\ finalContact # Root
  BY ContactType, RootIsNotNull DEF Finish, TypeOK
<1>3. route.hops # <<>>
  BY <1>2, RootIsNotNull DEF WalkInv
<1>. QED
  BY <1>1, <1>2, <1>3 DEF Finish, WalkInv, Capacity

LEMMA SearchStepInv ==
  ASSUME SearchInv, SearchStep
  PROVE  SearchInv'
<1>1. CASE Pass
  <2>1. current # NoContact
    BY <1>1 DEF SearchInv, FrontierInv, Pass
  <2>2. TypeOK'
    BY <1>1, <2>1, PassTypes DEF SearchInv
  <2>. QED
    BY <1>1, <2>2, PassRelaxed, PassFinal, PassFrontier, PassTrace, PassWalk
    DEF SearchInv
<1>2. CASE Backtrack
  <2>1. cursor # NoContact
    BY <1>2 DEF SearchInv, WalkInv, Backtrack
  <2>2. TypeOK'
    BY <1>2, <2>1, BacktrackTypes DEF SearchInv
  <2>3. /\ UNCHANGED <<plan, control, notes, current, finalContact>>
        /\ phase' = phase /\ route'.arrivalTime = route.arrivalTime
    BY <1>2 DEF Backtrack, SearchInv, TypeOK, CgrRoute
  <2>4. FrontierInv' /\ RelaxedInv' /\ FinalInv' /\ SettledInv' /\ TraceInv'
    BY <2>3, NotesKept
  <2>. QED
    BY <1>2, <2>2, <2>4, BacktrackWalk DEF SearchInv
<1>3. CASE Finish
  <2>1. /\ UNCHANGED <<plan, control, notes, current, finalContact>>
        /\ phase # "search" /\ phase' # "search"
        /\ route'.arrivalTime = route.arrivalTime
    BY <1>3 DEF Finish
  <2>2. FrontierInv' /\ RelaxedInv' /\ FinalInv' /\ SettledInv' /\ TraceInv'
    BY <2>1, NotesKept
  <2>. QED
    BY <1>3, <2>2, FinishWalk DEF SearchInv
<1>. QED
  BY <1>1, <1>2, <1>3 DEF SearchStep

LEMMA SearchInit == Init => SearchInv
<1>. SUFFICES ASSUME Init PROVE SearchInv
  OBVIOUS
<1>. USE DEF Init, InitPlan, ClearNotes, BeginSearch
<1>1. EmptyRoute \in CgrRoute
  BY LimitAssumption, <<>> \in Seq(contactIndex) DEF EmptyRoute, CgrRoute
<1>2. arrival \in [contactIndex -> 0..MAX_TIME]
  BY LimitAssumption
<1>3. TypeOK
  BY <1>1, <1>2 DEF TypeOK
<1>4. FrontierInv
  BY RootIsNotNull DEF FrontierInv
<1>5. RelaxedInv
  BY DEF RelaxedInv, RootPassed
<1>6. FinalInv
  BY LimitAssumption DEF FinalInv, FinalTime
<1>7. TraceInv
  BY LimitAssumption DEF TraceInv
<1>. QED
  BY <1>3, <1>4, <1>5, <1>6, <1>7 DEF SearchInv, SettledInv, WalkInv

LEMMA SearchInvariant == Spec => []SearchInv
<1>1. SearchInv /\ UNCHANGED vars => SearchInv'
  <2>. SUFFICES ASSUME SearchInv, UNCHANGED vars PROVE SearchInv'
    OBVIOUS
  <2>1. FrontierInv' /\ RelaxedInv' /\ FinalInv' /\ SettledInv' /\ TraceInv'
    BY NotesKept DEF vars
  <2>2. TypeOK' /\ WalkInv'
    BY DEF vars, plan, control, notes, SearchInv, TypeOK, CgrRoute, WalkInv, Capacity
  <2>. QED
    BY <2>1, <2>2 DEF SearchInv
<1>. QED
  BY <1>1, SearchInit, SearchStepInv, PTL DEF Spec, Next

-----------------------------------------------------------------------------
(* Theorems.                                                               *)

\* The working values of a search keep their types; in particular no arrival
\* time and no end of a route ever passes MAX_TIME.
THEOREM TypeCorrect == Spec => []TypeOK
  BY SearchInvariant, PTL DEF SearchInv

\* What is known of one sending of an itinerary.
LEMMA SendingFacts ==
  ASSUME TypeOK, NEW s \in Sendings
  PROVE  /\ s[1] \in contactIndex /\ Usable(s[1]) /\ s[2] \in Nat
         /\ s[1].fromTime <= s[2] /\ s[2] < s[1].toTime
         /\ Received(s) \in Nat /\ s[2] <= Received(s)
         /\ \A t \in Nat : t <= s[2] => ArrivalVia(s[1], t) <= Received(s)
<1>1. PICK c \in contactIndex : Usable(c) /\ s \in {c} \X (c.fromTime..(c.toTime - 1))
  BY DEF Sendings
<1>2. s[1] = c /\ s[2] \in c.fromTime..(c.toTime - 1)
  BY <1>1
<1>3. c.fromTime \in Nat /\ c.toTime \in Nat
  BY ContactType
<1>4. Owlt(c) \in Nat
  BY <1>1, OwltNat DEF Usable
<1>. QED
  BY <1>1, <1>2, <1>3, <1>4 DEF Received, ArrivalVia, Later

\* If the last sending of an itinerary is received before time t, so is
\* every one.
LEMMA ItineraryGrows ==
  ASSUME TypeOK, NEW n \in Nat \ {0}, NEW it \in [1..n -> Sendings],
         IsItinerary(it, n), NEW t \in Nat, Received(it[n]) < t
  PROVE  \A i \in 1..n : Received(it[i]) < t
<1>. DEFINE late == {m \in 0..(n - 1) : ~(Received(it[n - m]) < t)}
<1>. SUFFICES ASSUME late # {} PROVE FALSE
  <2>1. ASSUME NEW i \in 1..n, ~(Received(it[i]) < t) PROVE FALSE
    <3>1. n - (n - i) = i /\ n - i \in 0..(n - 1)
      OBVIOUS
    <3>2. n - i \in late
      BY <2>1, <3>1
    <3>. QED
      BY <3>2
  <2>. QED
    BY <2>1
<1>0. late \in SUBSET Nat /\ late # {}
  OBVIOUS
<1>. HIDE DEF late
<1>1. PICK m \in late : \A k \in late : m <= k
  BY <1>0, LeastNat
<1>. USE DEF late
<1>2. m # 0
  BY <1>1
<1>3. m - 1 \notin late /\ m - 1 \in 0..(n - 1)
  BY <1>1, <1>2
<1>4. Received(it[n - (m - 1)]) < t
  BY <1>3
<1>. DEFINE i == n - m
<1>5. i \in 1..(n - 1) /\ n - (m - 1) = i + 1
  BY <1>1, <1>2
<1>6. it[i + 1][2] >= Received(it[i])
  BY <1>5 DEF IsItinerary
<1>7. it[i] \in Sendings /\ it[i + 1] \in Sendings
  BY <1>5
<1>8. Received(it[i + 1]) < t
  BY <1>4, <1>5
<1>9. ~(Received(it[i]) < t)
  BY <1>1
<1>10. Received(it[i]) \in Nat /\ Received(it[i + 1]) \in Nat
       /\ it[i + 1][2] \in Nat /\ it[i + 1][2] <= Received(it[i + 1])
  BY <1>7, SendingFacts
<1>. HIDE DEF i
<1>. QED
  BY <1>6, <1>8, <1>9, <1>10

LEMMA NoItineraryBeats ==
  ASSUME SearchInv, phase # "search",
         NEW n \in Nat \ {0}, NEW it \in [1..n -> Sendings], IsItinerary(it, n)
  PROVE  route.arrivalTime <= Received(it[n])
<1>. USE DEF SearchInv
<1>. DEFINE best == route.arrivalTime
            c(i) == it[i][1]
<1>1. best \in Nat /\ best <= MAX_TIME /\ MAX_TIME \in Nat
  BY LimitAssumption DEF TypeOK, CgrRoute
<1>2. \A i \in 1..n : it[i] \in Sendings
  OBVIOUS
<1>3. \A i \in 1..n : c(i) \in contactIndex /\ Received(it[i]) \in Nat
  BY <1>2, SendingFacts
<1>. SUFFICES ASSUME Received(it[n]) < best PROVE FALSE
  BY <1>1, <1>3
<1>4. \A i \in 1..n : Received(it[i]) < best
  BY <1>1, ItineraryGrows
<1>. DEFINE bad == {i \in 1..n : ~(arrival[c(i)] <= Received(it[i]))}
<1>5. bad = {}
  <2>. SUFFICES ASSUME bad # {} PROVE FALSE
    OBVIOUS
  <2>0. bad \in SUBSET Nat /\ bad # {}
    OBVIOUS
  <2>. HIDE DEF bad
  <2>1. PICK i \in bad : \A k \in bad : i <= k
    BY <2>0, LeastNat
  <2>. USE DEF bad
  <2>2. it[i] \in Sendings /\ i \in 1..n
    BY <1>2, <2>1
  <2>3. /\ c(i) \in contactIndex /\ Usable(c(i)) /\ it[i][2] \in Nat
        /\ it[i][2] < c(i).toTime /\ c(i).toTime \in Nat
        /\ \A t \in Nat : t <= it[i][2] => ArrivalVia(c(i), t) <= Received(it[i])
    BY <2>2, SendingFacts, ContactType
  <2>4. ASSUME NEW t \in Nat, t <= it[i][2], Leads(c(i).fromNode, t)
        PROVE  FALSE
    <3>1. arrival[c(i)] <= ArrivalVia(c(i), t)
      BY <2>3, <2>4 DEF Leads
    <3>2. ArrivalVia(c(i), t) <= Received(it[i])
      BY <2>3, <2>4
    <3>3. arrival[c(i)] \in Nat /\ ArrivalVia(c(i), t) \in Nat
      BY <2>3, <2>4, TimeTypes, ArrivalGrows
    <3>4. arrival[c(i)] <= Received(it[i])
      BY <1>3, <2>2, <3>1, <3>2, <3>3
    <3>. QED
      BY <2>1, <3>4
  <2>5. CASE i = 1
    <3>1. c(i).fromNode = OwnNode /\ now <= it[i][2]
      BY <2>5, <2>3, TimeTypes DEF IsItinerary
    <3>2. Leads(OwnNode, now) /\ now \in Nat
      BY TimeTypes DEF RelaxedInv, RootPassed
    <3>. QED
      BY <2>4, <3>1, <3>2
  <2>6. CASE i # 1
    <3>. DEFINE j == i - 1
    <3>1. j \in 1..(n - 1) /\ j \in 1..n /\ j + 1 = i /\ j \notin bad
      BY <2>1, <2>2, <2>6
    <3>2. it[j + 1][1].fromNode = it[j][1].toNode /\ it[j + 1][2] >= Received(it[j])
      BY <3>1 DEF IsItinerary
    <3>3. c(i).fromNode = c(j).toNode /\ it[i][2] >= Received(it[j])
      BY <3>1, <3>2
    <3>4. arrival[c(j)] <= Received(it[j])
      BY <3>1
    <3>5. c(j) \in contactIndex /\ Usable(c(j)) /\ Received(it[j]) \in Nat
          /\ arrival[c(j)] \in Nat /\ Received(it[j]) < best
      BY <1>2, <1>4, <3>1, SendingFacts, TimeTypes
    <3>6. c(j) \in visited
      BY <1>1, <3>4, <3>5 DEF SettledInv, Usable
    <3>7. Leads(c(j).toNode, arrival[c(j)])
      BY <3>6 DEF RelaxedInv
    <3>8. arrival[c(j)] <= it[i][2]
      BY <2>3, <3>3, <3>4, <3>5
    <3>. QED
      BY <2>4, <3>3, <3>5, <3>7, <3>8
  <2>. QED
    BY <2>5, <2>6
<1>6. n \in 1..n
  OBVIOUS
<1>7. arrival[c(n)] <= Received(it[n]) /\ arrival[c(n)] \in Nat
  BY <1>3, <1>5, <1>6, TimeTypes
<1>8. best <= arrival[c(n)]
  BY <1>3, <1>6 DEF IsItinerary, FinalInv, SettledInv
<1>. QED
  BY <1>1, <1>3, <1>4, <1>6, <1>7, <1>8

\* The search is optimal: no way to forward data over the contacts it may
\* use, however long, delivers them before the arrival time of its route.
THEOREM SearchIsOptimal == Spec => []NoEarlierItinerary
<1>1. SearchInv => NoEarlierItinerary
  BY NoItineraryBeats, HopsAssumption DEF NoEarlierItinerary
<1>. QED
  BY <1>1, SearchInvariant, PTL

\* The route found can be travelled: its hops are connected, usable and in
\* time, and the data arrive when the route says.
LEMMA WalkIsFeasible == SearchInv => RouteIsFeasible
<1>1. ASSUME SearchInv, phase = "done", route.hops # <<>>
      PROVE  RouteIsFeasible
  <2>. DEFINE h == route.hops
              n == Len(h)
  <2>1. TypeOK /\ FinalInv /\ SettledInv /\ TraceInv /\ WalkInv
    BY <1>1 DEF SearchInv
  <2>2. h \in Seq(contactIndex) /\ n \in Nat \ {0}
    BY <1>1, <2>1 DEF TypeOK, CgrRoute
  <2>3. /\ \A i \in 1..n : h[i] \in contactIndex
        /\ h[1] \in contactIndex /\ h[n] \in contactIndex
    BY <2>2
  <2>4. \A c \in contactIndex : c # Root /\ c # NoContact
    BY <2>1, ContactType
  <2>5. /\ predecessor[h[1]] = Root /\ h[n] = finalContact
        /\ \A i \in 1..(n - 1) : predecessor[h[i + 1]] = h[i]
        /\ \A i \in 1..n : /\ arrival[h[i]] < MAX_TIME
                           /\ route.toTime <= h[i].toTime
                           /\ route.maxCapacity <= Capacity(h[i])
    BY <1>1, <2>1 DEF WalkInv
  <2>. HIDE DEF h, n
  <2>6. \A i \in 1..n :
          LET p == predecessor[h[i]]
          IN  /\ Usable(h[i])
              /\ p.toNode = h[i].fromNode
              /\ ArrivalAt(p) < h[i].toTime
              /\ arrival[h[i]] = ArrivalVia(h[i], ArrivalAt(p))
    BY <2>1, <2>3, <2>5 DEF TraceInv
  <2>7. h[n].toNode = Terminus /\ arrival[h[n]] = route.arrivalTime
    BY <1>1, <2>1, <2>3, <2>4, <2>5 DEF FinalInv, SettledInv, FinalTime
  <2>8. /\ h[1].fromNode = OwnNode /\ now < h[1].toTime
        /\ arrival[h[1]] = ArrivalVia(h[1], now)
    <3>1. Root.toNode = OwnNode /\ ArrivalAt(Root) = now
      BY DEF Root, ArrivalAt
    <3>2. 1 \in 1..n
      BY <2>2
    <3>. QED
      BY <2>5, <2>6, <3>1, <3>2
  <2>9. ASSUME NEW i \in 1..(n - 1)
        PROVE  /\ h[i + 1].fromNode = h[i].toNode
               /\ arrival[h[i]] < h[i + 1].toTime
               /\ arrival[h[i + 1]] = ArrivalVia(h[i + 1], arrival[h[i]])
    <3>1. i + 1 \in 1..n /\ i \in 1..n
      BY <2>2
    <3>2. ArrivalAt(h[i]) = arrival[h[i]]
      BY <2>3, <2>4, <3>1 DEF ArrivalAt
    <3>3. predecessor[h[i + 1]] = h[i]
      BY <2>5
    <3>. QED
      BY <2>6, <3>1, <3>2, <3>3
  <2>. QED
    BY <2>5, <2>6, <2>7, <2>8, <2>9 DEF RouteIsFeasible, h, n
<1>. QED
  BY <1>1 DEF RouteIsFeasible

THEOREM RouteCanBeTravelled == Spec => []RouteIsFeasible
  BY WalkIsFeasible, SearchInvariant, PTL
-----------------------------------------------------------------------------
(* The searches of a route list.                                           *)

-----------------------------------------------------------------------------
(* The inductive invariant.                                                *)

\* While a search runs, the invariant of RouteSearch holds.
SearchingInv ==
  task \in {"load", "recompute"} =>
    SearchInv /\ route.payloadClass = payloadClass

LeadsInv ==
  /\ \A r \in ToSet(routes) :
       r \in CgrRoute /\ Lead(r) \in contactIndex /\ IsLocal(Lead(r))
  /\ anchor # NoContact => IsLocal(anchor)

OnlyLocal == \A c \in suppressed : IsLocal(c)

\* A recomputation suppresses local contacts only, and not the lead contact.
RecomputeInv ==
  task = "recompute" =>
    /\ lead \in contactIndex /\ IsLocal(lead) /\ lead \notin suppressed
    /\ OnlyLocal

\* Every route recorded for the class has lost a hop, a local one unless its
\* lead is the anchor; and contacts beyond the local ones are suppressed only
\* when a route over the anchor is recorded.
Blocked(r) ==
  \E i \in DOMAIN r.hops :
    /\ r.hops[i] \in suppressed
    /\ IsLocal(r.hops[i]) \/ Lead(r) = anchor

AnchorUsed ==
  \E r \in ToSet(routes) : r.payloadClass = payloadClass /\ Lead(r) = anchor

LoadInv ==
  task = "load" =>
    /\ \A r \in ToSet(routes) :
         /\ r.payloadClass <= payloadClass
         /\ r.payloadClass = payloadClass => Blocked(r)
    /\ OnlyLocal \/ AnchorUsed

ListInv ==
  /\ ListTypeOK /\ SearchingInv /\ LeadsInv /\ RecomputeInv /\ LoadInv
  /\ RoutesDiffer

-----------------------------------------------------------------------------
(* Searches.                                                               *)

LEMMA RestartSearch ==
  ASSUME TypeOK, NEW k \in DOMAIN CapacityFloor, NEW S \in SUBSET contactIndex,
         Restart(k, S)
  PROVE  /\ SearchInv' /\ route'.payloadClass = payloadClass'
         /\ payloadClass' = k /\ suppressed' = S /\ contactIndex' = contactIndex
<1>. USE DEF Restart, plan
<1>1. contactIndex' = contactIndex /\ rangeIndex' = rangeIndex /\ now' = now
  OBVIOUS
<1>2. <<>> \in Seq(contactIndex)
  OBVIOUS
<1>3. route' \in CgrRoute' /\ route'.payloadClass = k
      /\ route'.arrivalTime = MAX_TIME /\ route'.hops = <<>>
  BY <1>1, <1>2, LimitAssumption DEF EmptyRoute, CgrRoute
<1>4. arrival' \in [contactIndex -> 0..MAX_TIME]
  BY LimitAssumption
<1>5. TypeOK'
  BY <1>1, <1>3, <1>4 DEF TypeOK
<1>6. FrontierInv'
  BY RootIsNotNull DEF FrontierInv
<1>7. RelaxedInv'
  BY DEF RelaxedInv, RootPassed
<1>8. FinalInv'
  BY <1>1, LimitAssumption DEF FinalInv, FinalTime
<1>9. TraceInv'
  BY <1>1, LimitAssumption DEF TraceInv
<1>. QED
  BY <1>1, <1>3, <1>5, <1>6, <1>7, <1>8, <1>9 DEF SearchInv, SettledInv, WalkInv

LEMMA SearchKeepsClass ==
  ASSUME TypeOK, SearchStep, route.payloadClass = payloadClass
  PROVE  /\ route'.payloadClass = payloadClass'
         /\ UNCHANGED <<contactIndex, payloadClass, suppressed>>
<1>1. CASE Pass
  BY <1>1 DEF Pass, EmptyRoute, plan, control
<1>2. CASE Backtrack
  BY <1>2 DEF Backtrack, TypeOK, CgrRoute, plan, control
<1>3. CASE Finish
  BY <1>3 DEF Finish, plan, control
<1>. QED
  BY <1>1, <1>2, <1>3 DEF SearchStep

LEMMA FoundFacts ==
  ASSUME SearchInv, Found
  PROVE  /\ route \in CgrRoute
         /\ route.hops \in Seq(contactIndex) /\ route.hops # <<>>
         /\ 1 \in DOMAIN route.hops /\ DOMAIN route.hops = 1..Len(route.hops)
         /\ \A i \in DOMAIN route.hops :
              route.hops[i] \in contactIndex /\ route.hops[i] \notin suppressed
         /\ Lead(route) \in contactIndex /\ IsLocal(Lead(route))
<1>1. route \in CgrRoute /\ route.hops \in Seq(contactIndex) /\ route.hops # <<>>
  BY DEF SearchInv, TypeOK, CgrRoute, Found
<1>. DEFINE h == route.hops
<1>2. DOMAIN h = 1..Len(h) /\ 1 \in 1..Len(h) /\ \A i \in 1..Len(h) : h[i] \in contactIndex
  BY <1>1
<1>3. h[1].fromNode = OwnNode /\ \A i \in 1..Len(h) : Usable(h[i])
  BY WalkIsFeasible DEF RouteIsFeasible, Found
<1>4. \A i \in 1..Len(h) : h[i] \notin suppressed
  BY <1>3 DEF Usable
<1>. QED
  BY <1>1, <1>2, <1>3, <1>4 DEF Lead, IsLocal

\* A search in which only local contacts are suppressed misses nothing over
\* a local contact that is not.
LEMMA BestOver ==
  ASSUME SearchInv, phase = "done", OnlyLocal, route.payloadClass = payloadClass,
         NEW c \in contactIndex, IsLocal(c), c \notin suppressed
  PROVE  NoneOver(c, route.arrivalTime)
<1>. SUFFICES ASSUME AllUsable(c),
                     NEW s \in Later(c.fromTime, now)..(c.toTime - 1),
                     NEW n \in 0..(MaxHops - 1),
                     NEW it \in [1..n -> SendingsBeyond],
                     IsItineraryOver(c, s, it, n)
              PROVE  route.arrivalTime <= IF n = 0 THEN s + Owlt(c)
                                          ELSE Received(it[n])
  BY DEF NoneOver
<1>. DEFINE first == <<c, s>>
            all == [i \in 1..(n + 1) |-> IF i = 1 THEN first ELSE it[i - 1]]
<1>1. TypeOK /\ n \in Nat /\ n + 1 \in Nat \ {0}
  BY HopsAssumption DEF SearchInv
<1>2. c.fromTime \in Nat /\ c.toTime \in Nat /\ now \in Nat
  BY <1>1, ContactType, TimeTypes
<1>3. s \in c.fromTime..(c.toTime - 1) /\ now <= s /\ s \in Nat
  BY <1>2 DEF Later
<1>4. first \in Sendings /\ Received(first) = s + Owlt(c)
  BY <1>3 DEF Sendings, Usable, AllUsable, Received
<1>5. SendingsBeyond \subseteq Sendings
  BY DEF SendingsBeyond, Sendings, Usable, AllUsable, OnlyLocal
<1>6. all \in [1..(n + 1) -> Sendings]
  <2>1. ASSUME NEW i \in 1..(n + 1), i # 1 PROVE it[i - 1] \in Sendings
    <3>1. i - 1 \in 1..n
      BY <1>1, <2>1
    <3>. QED
      BY <1>5, <3>1
  <2>. QED
    BY <1>4, <2>1
<1>7. /\ all[1] = first
      /\ \A i \in 1..n : all[i + 1] = it[i]
  BY <1>1
<1>8. all[n + 1] = IF n = 0 THEN first ELSE it[n]
  BY <1>1, <1>7
<1>. HIDE DEF all
<1>9. IsItinerary(all, n + 1)
  <2>1. all[1][1].fromNode = OwnNode /\ all[1][2] >= now
    BY <1>2, <1>3, <1>7 DEF IsLocal
  <2>2. ASSUME NEW i \in 1..n
        PROVE  /\ all[i + 1][1].fromNode = all[i][1].toNode
               /\ all[i + 1][2] >= Received(all[i])
    <3>1. CASE i = 1
      <4>1. n > 0 /\ all[i] = first /\ all[i + 1] = it[1]
        BY <1>1, <1>7, <3>1
      <4>. QED
        BY <1>4, <4>1 DEF IsItineraryOver
    <3>2. CASE i # 1
      <4>. DEFINE j == i - 1
      <4>1. j \in 1..(n - 1) /\ j \in 1..n /\ j + 1 = i
        BY <1>1, <3>2
      <4>2. all[i] = it[j] /\ all[i + 1] = it[j + 1]
        BY <1>7, <4>1
      <4>3. /\ it[j + 1][1].fromNode = it[j][1].toNode
            /\ it[j + 1][2] >= Received(it[j])
        BY <4>1 DEF IsItineraryOver
      <4>. QED
        BY <4>2, <4>3
    <3>. QED
      BY <3>1, <3>2
  <2>3. all[n + 1][1].toNode = Terminus
    BY <1>1, <1>8 DEF IsItineraryOver
  <2>4. (n + 1) - 1 = n
    BY <1>1
  <2>. QED
    BY <2>1, <2>2, <2>3, <2>4 DEF IsItinerary
<1>10. route.arrivalTime <= Received(all[n + 1])
  BY <1>1, <1>6, <1>9, NoItineraryBeats
<1>. QED
  BY <1>4, <1>8, <1>10

-----------------------------------------------------------------------------
(* Loading keeps the invariant.                                            *)

LEMMA RouteFacts ==
  ASSUME ListInv, NEW r \in ToSet(routes)
  PROVE  /\ r \in CgrRoute /\ r.hops # <<>> /\ 1 \in DOMAIN r.hops
         /\ r.payloadClass \in DOMAIN CapacityFloor /\ r.payloadClass \in Nat
         /\ Lead(r) \in contactIndex /\ IsLocal(Lead(r)) /\ Lead(r) # NoContact
<1>1. r \in CgrRoute /\ r.hops # <<>> /\ Lead(r) \in contactIndex /\ IsLocal(Lead(r))
  BY DEF ListInv, ListTypeOK, LeadsInv
<1>2. r.hops \in Seq(contactIndex) /\ r.payloadClass \in DOMAIN CapacityFloor
  BY <1>1 DEF CgrRoute
<1>3. 1 \in DOMAIN r.hops
  BY <1>1, <1>2
<1>4. DOMAIN CapacityFloor = 1..Len(CapacityFloor)
  BY ClassAssumption
<1>5. Lead(r) # NoContact
  BY <1>1, ContactType DEF ListInv, ListTypeOK
<1>. QED
  BY <1>1, <1>2, <1>3, <1>4, <1>5

LEMMA SearchingStep ==
  ASSUME ListInv, Searching
  PROVE  ListInv'
<1>. USE DEF Searching, list, walk
<1>1. SearchInv /\ route.payloadClass = payloadClass /\ SearchStep /\ TypeOK
  BY DEF ListInv, SearchingInv, SearchInv
<1>2. SearchInv' /\ route'.payloadClass = payloadClass'
  BY <1>1, SearchStepInv, SearchKeepsClass
<1>3. UNCHANGED <<contactIndex, payloadClass, suppressed>>
  BY <1>1, SearchKeepsClass
<1>4. UNCHANGED <<routes, anchor, task, position, deadline, tried, lead, CgrRoute>>
  BY <1>3 DEF CgrRoute
<1>5. ListTypeOK'
  BY <1>2, <1>3, <1>4 DEF ListInv, ListTypeOK, SearchInv
<1>6. SearchingInv' /\ LeadsInv'
  BY <1>2, <1>3, <1>4 DEF ListInv, SearchingInv, LeadsInv
<1>7. RecomputeInv' /\ LoadInv' /\ RoutesDiffer'
  BY <1>3, <1>4 DEF ListInv, RecomputeInv, LoadInv, RoutesDiffer, OnlyLocal,
                    AnchorUsed, Blocked
<1>. QED
  BY <1>5, <1>6, <1>7 DEF ListInv

\* A call that goes on walking the list, or returns.
LEMMA QuietStep ==
  ASSUME ListInv, task' \in {"walk", "ready"}, TypeOK',
         contactIndex' = contactIndex, lead' = lead,
         \/ anchor' = anchor \/ anchor' = NoContact,
         position' \in 1..(Len(routes') + 1), deadline' \in Deadlines,
         tried' \subseteq CgrRoute, routes' \in Seq(CgrRoute),
         \A r \in ToSet(routes') : r \in ToSet(routes)
  PROVE  ListInv'
<1>1. CgrRoute' = CgrRoute
  BY DEF CgrRoute
<1>2. \A r \in ToSet(routes') :
        /\ r.hops # <<>> /\ r \in CgrRoute
        /\ Lead(r) \in contactIndex /\ IsLocal(Lead(r))
  BY RouteFacts
<1>3. ListTypeOK' /\ LeadsInv'
  BY <1>1, <1>2 DEF ListTypeOK, LeadsInv, ListInv
<1>. QED
  BY <1>3 DEF ListInv, SearchingInv, RecomputeInv, LoadInv, RoutesDiffer

LEMMA NextClassStep ==
  ASSUME ListInv, NextClass
  PROVE  ListInv'
<1>. USE DEF NextClass, list, walk
<1>a. TypeOK
  BY DEF ListInv, ListTypeOK
<1>b. payloadClass \in DOMAIN CapacityFloor
  BY <1>a DEF TypeOK
<1>1. payloadClass + 1 \in DOMAIN CapacityFloor /\ payloadClass \in Nat
  BY <1>b, ClassAssumption
<1>2. /\ SearchInv' /\ route'.payloadClass = payloadClass'
      /\ payloadClass' = payloadClass + 1 /\ suppressed' = {}
      /\ contactIndex' = contactIndex
  BY <1>a, <1>1, RestartSearch
<1>3. UNCHANGED <<routes, anchor, task, position, deadline, tried, lead, CgrRoute>>
  BY <1>2 DEF CgrRoute
<1>4. ListTypeOK' /\ LeadsInv' /\ SearchingInv'
  BY <1>2, <1>3 DEF ListInv, ListTypeOK, SearchInv, SearchingInv, LeadsInv
<1>5. LoadInv'
  <2>1. ASSUME NEW r \in ToSet(routes)
        PROVE  r.payloadClass <= payloadClass' /\ r.payloadClass # payloadClass'
    BY <1>1, <1>2, <2>1, RouteFacts DEF ListInv, LoadInv
  <2>. QED
    BY <1>2, <1>3, <2>1 DEF LoadInv, OnlyLocal
<1>6. RecomputeInv' /\ RoutesDiffer'
  BY <1>3 DEF ListInv, RecomputeInv, RoutesDiffer
<1>. QED
  BY <1>4, <1>5, <1>6 DEF ListInv

LEMMA EndAnchoredStep ==
  ASSUME ListInv, EndAnchored
  PROVE  ListInv'
<1>. USE DEF EndAnchored, list, walk
<1>. DEFINE S == {c \in suppressed : IsLocal(c)} \cup {anchor}
<1>1. /\ TypeOK /\ payloadClass \in DOMAIN CapacityFloor
      /\ anchor \in contactIndex /\ IsLocal(anchor) /\ S \in SUBSET contactIndex
  BY DEF ListInv, ListTypeOK, TypeOK, OffAnchor, LeadsInv
<1>. HIDE DEF S
<1>2. /\ SearchInv' /\ route'.payloadClass = payloadClass'
      /\ payloadClass' = payloadClass /\ suppressed' = S
      /\ contactIndex' = contactIndex
  BY <1>1, RestartSearch DEF S
<1>3. /\ UNCHANGED <<routes, task, position, deadline, tried, lead, CgrRoute>>
      /\ anchor' = NoContact
  BY <1>2 DEF CgrRoute
<1>4. ListTypeOK' /\ LeadsInv' /\ SearchingInv'
  BY <1>2, <1>3 DEF ListInv, ListTypeOK, SearchInv, SearchingInv, LeadsInv
<1>5. ASSUME NEW r \in ToSet(routes), r.payloadClass = payloadClass
      PROVE  Blocked(r)'
  <2>1. PICK i \in DOMAIN r.hops : /\ r.hops[i] \in suppressed
                                   /\ IsLocal(r.hops[i]) \/ Lead(r) = anchor
    BY <1>5 DEF ListInv, LoadInv, Blocked
  <2>2. CASE IsLocal(r.hops[i])
    BY <1>2, <2>1, <2>2 DEF Blocked, S
  <2>3. CASE Lead(r) = anchor
    <3>1. 1 \in DOMAIN r.hops /\ r.hops[1] = anchor
      BY <2>3, RouteFacts DEF Lead
    <3>. QED
      BY <1>1, <1>2, <3>1 DEF Blocked, S
  <2>. QED
    BY <2>1, <2>2, <2>3
<1>6. OnlyLocal'
  BY <1>1, <1>2 DEF OnlyLocal, S
<1>7. LoadInv'
  BY <1>2, <1>3, <1>5, <1>6 DEF ListInv, LoadInv
<1>8. RecomputeInv' /\ RoutesDiffer'
  BY <1>3 DEF ListInv, RecomputeInv, RoutesDiffer
<1>. QED
  BY <1>4, <1>7, <1>8 DEF ListInv

LEMMA RecordRouteStep ==
  ASSUME ListInv, RecordRoute
  PROVE  ListInv'
<1>. USE DEF list, walk
<1>0. /\ TypeOK /\ SearchInv /\ route.payloadClass = payloadClass /\ Found
      /\ routes \in Seq(CgrRoute)
  BY DEF ListInv, ListTypeOK, SearchingInv, RecordRoute
<1>1. /\ payloadClass \in DOMAIN CapacityFloor /\ payloadClass \in Nat
      /\ suppressed \subseteq contactIndex /\ routes \in Seq(CgrRoute)
      /\ TypeOK /\ SearchInv /\ route.payloadClass = payloadClass /\ Found
  BY <1>0, ClassAssumption DEF TypeOK
<1>. DEFINE h == route.hops
<1>2. /\ route \in CgrRoute /\ h \in Seq(contactIndex) /\ h # <<>>
      /\ 1 \in DOMAIN h
      /\ \A i \in DOMAIN h : h[i] \in contactIndex /\ h[i] \notin suppressed
      /\ Lead(route) \in contactIndex /\ IsLocal(Lead(route))
  BY <1>1, FoundFacts
<1>3. PICK limit \in LimitContacts :
        /\ Restart(payloadClass, suppressed \cup {limit})
        /\ anchor' = IF limit = Lead(route) THEN anchor ELSE Lead(route)
  BY DEF RecordRoute
<1>4. PICK k \in DOMAIN h : limit = h[k]
  BY <1>3 DEF LimitContacts
<1>5. /\ SearchInv' /\ route'.payloadClass = payloadClass'
      /\ payloadClass' = payloadClass /\ suppressed' = suppressed \cup {limit}
      /\ contactIndex' = contactIndex
  BY <1>1, <1>2, <1>3, <1>4, RestartSearch
<1>6. /\ UNCHANGED <<task, position, deadline, tried, lead, CgrRoute>>
      /\ task = "load" /\ routes' = Append(routes, route) /\ ~OffAnchor
  BY <1>5 DEF CgrRoute, RecordRoute
<1>7. /\ routes' \in Seq(CgrRoute) /\ Len(routes') = Len(routes) + 1
      /\ \A i \in 1..Len(routes) : routes'[i] = routes[i]
      /\ routes'[Len(routes) + 1] = route
  BY <1>1, <1>2, <1>6
<1>8. ToSet(routes') = ToSet(routes) \cup {route}
  BY <1>1, <1>2, <1>6, ToSetAppend
<1>9. ListTypeOK' /\ LeadsInv' /\ SearchingInv'
  BY <1>2, <1>3, <1>5, <1>6, <1>7, <1>8
  DEF ListInv, ListTypeOK, SearchInv, SearchingInv, LeadsInv
<1>10. ASSUME NEW r \in ToSet(routes), Lead(r) = anchor
       PROVE  Lead(r) = anchor'
  <2>1. anchor # NoContact
    BY <1>10, RouteFacts
  <2>. QED
    BY <1>3, <1>6, <1>10, <2>1 DEF OffAnchor
<1>11. ASSUME NEW r \in ToSet(routes), r.payloadClass = payloadClass
       PROVE  Blocked(r)'
  <2>1. PICK i \in DOMAIN r.hops : /\ r.hops[i] \in suppressed
                                   /\ IsLocal(r.hops[i]) \/ Lead(r) = anchor
    BY <1>6, <1>11 DEF ListInv, LoadInv, Blocked
  <2>. QED
    BY <1>5, <1>10, <2>1 DEF Blocked
<1>12. ASSUME NEW r, r = route PROVE Blocked(r)'
  BY <1>2, <1>3, <1>4, <1>5, <1>12 DEF Blocked
<1>13. OnlyLocal' \/ AnchorUsed'
  <2>1. CASE limit # Lead(route)
    BY <1>1, <1>3, <1>5, <1>8, <2>1 DEF AnchorUsed
  <2>2. CASE limit = Lead(route) /\ OnlyLocal
    BY <1>2, <1>5, <2>2 DEF OnlyLocal
  <2>3. CASE limit = Lead(route) /\ AnchorUsed
    BY <1>3, <1>5, <1>8, <2>3 DEF AnchorUsed
  <2>. QED
    BY <1>6, <2>1, <2>2, <2>3 DEF ListInv, LoadInv
<1>14. LoadInv'
  <2>1. ASSUME NEW r \in ToSet(routes')
        PROVE  /\ r.payloadClass <= payloadClass
               /\ r.payloadClass = payloadClass => Blocked(r)'
    <3>1. CASE r \in ToSet(routes)
      BY <1>6, <1>11, <3>1 DEF ListInv, LoadInv
    <3>2. CASE r = route
      BY <1>1, <1>12, <3>2
    <3>. QED
      BY <1>8, <3>1, <3>2
  <2>. QED
    BY <1>5, <1>13, <2>1 DEF LoadInv
<1>15. ASSUME NEW i \in 1..Len(routes), routes[i].payloadClass = payloadClass
       PROVE  routes[i].hops # h
  <2>1. routes[i] \in ToSet(routes)
    BY <1>1 DEF ToSet
  <2>2. PICK j \in DOMAIN routes[i].hops : routes[i].hops[j] \in suppressed
    BY <1>6, <1>15, <2>1 DEF ListInv, LoadInv, Blocked
  <2>. QED
    BY <1>2, <2>2
<1>16. RoutesDiffer'
  <2>. SUFFICES ASSUME NEW i \in 1..(Len(routes) + 1),
                       NEW j \in 1..(Len(routes) + 1), i # j,
                       routes'[i].payloadClass = routes'[j].payloadClass
                PROVE  routes'[i].hops # routes'[j].hops
    BY <1>7 DEF RoutesDiffer
  <2>. HIDE DEF h
  <2>1. CASE i \in 1..Len(routes) /\ j \in 1..Len(routes)
    BY <1>1, <1>6, <1>7, <2>1 DEF ListInv, RoutesDiffer
  <2>2. CASE i = Len(routes) + 1 /\ j \in 1..Len(routes)
    BY <1>1, <1>7, <1>15, <2>2 DEF h
  <2>3. CASE i \in 1..Len(routes) /\ j = Len(routes) + 1
    BY <1>1, <1>7, <1>15, <2>3 DEF h
  <2>. QED
    BY <1>1, <2>1, <2>2, <2>3
<1>17. RecomputeInv'
  BY <1>6 DEF RecomputeInv
<1>. QED
  BY <1>9, <1>14, <1>16, <1>17 DEF ListInv

-----------------------------------------------------------------------------
(* Walking the list keeps the invariant.                                   *)

LEMMA LeavingLoad ==
  ASSUME ListInv, LoadDone \/ LoadFails
  PROVE  ListInv'
<1>. USE DEF LoadDone, LoadFails, list, walk, vars, plan, control, notes
<1>1. TypeOK' /\ contactIndex' = contactIndex
  BY DEF ListInv, ListTypeOK, TypeOK, CgrRoute
<1>2. CASE LoadDone
  <2>1. routes' = routes /\ task' = "walk"
    BY <1>2
  <2>. QED
    BY <1>1, <1>2, <2>1, QuietStep DEF ListInv, ListTypeOK
<1>3. CASE LoadFails
  <2>1. /\ SearchInv /\ Found /\ routes' = Append(routes, route)
        /\ routes \in Seq(CgrRoute) /\ position \in 1..(Len(routes) + 1)
    BY <1>3 DEF ListInv, SearchingInv, ListTypeOK
  <2>2. route \in CgrRoute /\ route.hops # <<>>
        /\ Lead(route) \in contactIndex /\ IsLocal(Lead(route))
    BY <2>1, FoundFacts
  <2>3. ToSet(routes') = ToSet(routes) \cup {route}
    BY <2>1, <2>2, ToSetAppend
  <2>4. CgrRoute' = CgrRoute /\ routes' \in Seq(CgrRoute)
        /\ position \in 1..(Len(routes') + 1)
    BY <1>1, <2>1, <2>2 DEF CgrRoute
  <2>5. ListTypeOK' /\ LeadsInv'
    BY <1>1, <1>3, <2>2, <2>3, <2>4 DEF ListInv, ListTypeOK, LeadsInv
  <2>. QED
    BY <1>3, <2>5
    DEF ListInv, SearchingInv, RecomputeInv, LoadInv, RoutesDiffer
<1>. QED
  BY <1>2, <1>3

LEMMA ForwardStep ==
  ASSUME ListInv, Forward
  PROVE  ListInv'
<1>. USE DEF Forward, list, control, notes
<1>1. TypeOK' /\ contactIndex' = contactIndex
  BY DEF ListInv, ListTypeOK, TypeOK, CgrRoute
<1>. QED
  BY <1>1, QuietStep DEF ListInv, ListTypeOK

LEMMA AtRouteFacts ==
  ASSUME ListInv, AtRoute
  PROVE  /\ routes \in Seq(CgrRoute) /\ position \in 1..Len(routes)
         /\ Here \in ToSet(routes) /\ Here \in CgrRoute
<1>1. routes \in Seq(CgrRoute) /\ position \in 1..Len(routes)
  BY DEF ListInv, ListTypeOK, AtRoute
<1>. QED
  BY <1>1 DEF Here, ToSet

LEMMA DropRouteStep ==
  ASSUME ListInv, DropRoute
  PROVE  ListInv'
<1>. USE DEF DropRoute, walk, vars, plan, control, notes
<1>1. TypeOK' /\ contactIndex' = contactIndex
  BY DEF ListInv, ListTypeOK, TypeOK, CgrRoute
<1>2. routes \in Seq(CgrRoute) /\ position \in 1..Len(routes)
  BY AtRouteFacts
<1>3. /\ routes' \in Seq(CgrRoute) /\ Len(routes') = Len(routes) - 1
      /\ ToSet(routes') \subseteq ToSet(routes)
  BY <1>2, RemoveAtFacts, ToSetRemove
<1>4. position' \in 1..(Len(routes') + 1) /\ task' = "walk"
  BY <1>2, <1>3 DEF AtRoute
<1>. QED
  BY <1>1, <1>3, <1>4, QuietStep DEF ListInv, ListTypeOK

LEMMA DropAndRecomputeStep ==
  ASSUME ListInv, DropAndRecompute
  PROVE  ListInv'
<1>. USE DEF DropAndRecompute, walk
<1>. DEFINE S == {Lead(r) : r \in ToSet(routes')} \ {Lead(Here)}
<1>1. routes \in Seq(CgrRoute) /\ position \in 1..Len(routes) /\ Here \in ToSet(routes)
  BY AtRouteFacts
<1>2. /\ routes' \in Seq(CgrRoute) /\ Len(routes') = Len(routes) - 1
      /\ ToSet(routes') \subseteq ToSet(routes)
  BY <1>1, RemoveAtFacts, ToSetRemove
<1>3. \A r \in ToSet(routes) :
        /\ r \in CgrRoute /\ r.hops # <<>>
        /\ Lead(r) \in contactIndex /\ IsLocal(Lead(r))
  BY RouteFacts
<1>4. /\ S \in SUBSET contactIndex /\ \A c \in S : IsLocal(c)
      /\ Lead(Here) \notin S /\ Lead(Here) \in contactIndex /\ IsLocal(Lead(Here))
  BY <1>1, <1>2, <1>3
<1>. HIDE DEF S
<1>5. TypeOK /\ Here.payloadClass \in DOMAIN CapacityFloor
  BY <1>1, RouteFacts DEF ListInv, ListTypeOK
<1>6. Restart(Here.payloadClass, S)
  BY DEF S
<1>7. /\ SearchInv' /\ route'.payloadClass = payloadClass' /\ suppressed' = S
      /\ contactIndex' = contactIndex
  BY <1>4, <1>5, <1>6, RestartSearch
<1>8. /\ UNCHANGED <<anchor, position, deadline, tried, CgrRoute>>
      /\ task' = "recompute" /\ lead' = Lead(Here)
  BY <1>7 DEF CgrRoute
<1>9. position \in 1..(Len(routes') + 1)
  BY <1>1, <1>2
<1>10. ListTypeOK' /\ LeadsInv' /\ SearchingInv'
  BY <1>2, <1>3, <1>4, <1>7, <1>8, <1>9
  DEF ListInv, ListTypeOK, SearchInv, SearchingInv, LeadsInv
<1>11. RecomputeInv'
  BY <1>4, <1>7, <1>8 DEF RecomputeInv, OnlyLocal
<1>. QED
  BY <1>8, <1>10, <1>11 DEF ListInv, LoadInv, RoutesDiffer

\* There is a place for a new route in the list.
LEMMA PlaceExists ==
  ASSUME ListInv, NEW r \in CgrRoute
  PROVE  PlaceOf(r) \in 1..(Len(routes) + 1)
<1>. DEFINE n == Len(routes) + 1
            T == {i \in 1..n : i = n \/ routes[i].arrivalTime > r.arrivalTime}
<1>1. Len(routes) \in Nat /\ \A i \in 1..Len(routes) : routes[i].arrivalTime \in Nat
  <2>1. routes \in Seq(CgrRoute) /\ MAX_TIME \in Nat
    BY LimitAssumption DEF ListInv, ListTypeOK
  <2>2. ASSUME NEW i \in 1..Len(routes) PROVE routes[i] \in CgrRoute
    BY <2>1, ElementOfSeq
  <2>3. \A x \in CgrRoute : x.arrivalTime \in Nat
    BY <2>1 DEF CgrRoute
  <2>. QED
    BY <2>1, <2>2, <2>3
<1>2. r.arrivalTime \in Nat
  BY LimitAssumption DEF CgrRoute
<1>3. T \in SUBSET Nat /\ n \in T
  BY <1>1
<1>4. PICK i \in T : \A j \in T : i <= j
  <2>. HIDE DEF T
  <2>. QED
    BY <1>3, LeastNat
<1>5. ASSUME NEW j \in 1..(i - 1) PROVE routes[j].arrivalTime <= r.arrivalTime
  <2>1. j \in 1..Len(routes) /\ j < i /\ j \in 1..n
    BY <1>1, <1>4
  <2>2. j \notin T
    BY <1>4, <2>1
  <2>. QED
    BY <1>1, <1>2, <2>1, <2>2
<1>6. /\ i \in 1..(Len(routes) + 1)
      /\ i = Len(routes) + 1 \/ routes[i].arrivalTime > r.arrivalTime
  BY <1>4
<1>. HIDE DEF T, n
<1>. QED
  BY <1>5, <1>6 DEF PlaceOf

LEMMA RecomputedStep ==
  ASSUME ListInv, Recomputed
  PROVE  ListInv'
<1>. USE DEF Recomputed, vars, plan, control, notes
<1>1. TypeOK' /\ contactIndex' = contactIndex /\ CgrRoute' = CgrRoute
  BY DEF ListInv, ListTypeOK, TypeOK, CgrRoute
<1>2. SearchInv /\ Found /\ routes \in Seq(CgrRoute)
  BY DEF ListInv, SearchingInv, ListTypeOK
<1>3. route \in CgrRoute /\ route.hops # <<>>
      /\ Lead(route) \in contactIndex /\ IsLocal(Lead(route))
  BY <1>2, FoundFacts
<1>4. PlaceOf(route) \in 1..(Len(routes) + 1)
  BY <1>3, PlaceExists
<1>5. /\ routes' \in Seq(CgrRoute) /\ Len(routes') = Len(routes) + 1
      /\ ToSet(routes') \subseteq ToSet(routes) \cup {route}
  BY <1>2, <1>3, <1>4, InsertAtFacts, ToSetInsert
<1>6. 1 \in 1..(Len(routes') + 1)
  BY <1>2, <1>5
<1>7. ListTypeOK' /\ LeadsInv'
  BY <1>1, <1>3, <1>5, <1>6 DEF ListInv, ListTypeOK, LeadsInv
<1>. QED
  BY <1>7 DEF ListInv, SearchingInv, RecomputeInv, LoadInv, RoutesDiffer

LEMMA TryRouteStep ==
  ASSUME ListInv, TryRoute
  PROVE  ListInv'
<1>. USE DEF TryRoute, list, vars, plan, control, notes
<1>1. TypeOK' /\ contactIndex' = contactIndex
  BY DEF ListInv, ListTypeOK, TypeOK, CgrRoute
<1>2. Here \in CgrRoute /\ position + 1 \in 1..(Len(routes) + 1) /\ task' = "walk"
  BY AtRouteFacts DEF AtRoute
<1>. QED
  BY <1>1, <1>2, QuietStep DEF ListInv, ListTypeOK

LEMMA EndOfWalk ==
  ASSUME ListInv, NotRecomputed \/ WalkDone
  PROVE  ListInv'
<1>. USE DEF NotRecomputed, WalkDone, list, walk, vars, plan, control, notes
<1>1. TypeOK' /\ contactIndex' = contactIndex /\ task' \in {"walk", "ready"}
  BY DEF ListInv, ListTypeOK, TypeOK, CgrRoute
<1>. QED
  BY <1>1, QuietStep DEF ListInv, ListTypeOK

-----------------------------------------------------------------------------
(* Theorems.                                                               *)

LEMMA ListInitInv == ListInit => ListInv
<1>. SUFFICES ASSUME ListInit PROVE ListInv
  OBVIOUS
<1>. USE DEF ListInit, InitPlan, ClearNotes, BeginSearch
<1>1. 1 \in DOMAIN CapacityFloor
  BY ClassAssumption
<1>2. EmptyRoute \in CgrRoute
  BY <1>1, LimitAssumption, <<>> \in Seq(contactIndex) DEF EmptyRoute, CgrRoute
<1>3. TypeOK
  BY <1>1, <1>2, LimitAssumption DEF TypeOK
<1>4. FrontierInv /\ RelaxedInv /\ FinalInv /\ TraceInv
  BY RootIsNotNull, LimitAssumption
  DEF FrontierInv, RelaxedInv, RootPassed, FinalInv, FinalTime, TraceInv
<1>5. SearchInv
  BY <1>3, <1>4 DEF SearchInv, SettledInv, WalkInv
<1>6. route.payloadClass = payloadClass
  BY DEF EmptyRoute
<1>7. ToSet(routes) = {} /\ Len(routes) = 0
  BY DEF ToSet
<1>8. ListTypeOK
  BY <1>3, <1>7 DEF ListTypeOK
<1>. QED
  BY <1>5, <1>6, <1>7, <1>8
  DEF ListInv, SearchingInv, LeadsInv, RecomputeInv, LoadInv, OnlyLocal,
      RoutesDiffer

LEMMA ListInvariant == ListSpec => []ListInv
<1>1. ListInv /\ [ListNext]_listVars => ListInv'
  <2>. SUFFICES ASSUME ListInv, [ListNext]_listVars PROVE ListInv'
    OBVIOUS
  <2>1. CASE ListNext
    BY <2>1, SearchingStep, NextClassStep, EndAnchoredStep, RecordRouteStep,
       LeavingLoad, ForwardStep, DropRouteStep, DropAndRecomputeStep,
       RecomputedStep, TryRouteStep, EndOfWalk
    DEF ListNext, Load, Walk
  <2>2. CASE UNCHANGED listVars
    <3>1. SearchInv => SearchInv'
      <4>. SUFFICES ASSUME SearchInv PROVE SearchInv'
        OBVIOUS
      <4>1. FrontierInv' /\ RelaxedInv' /\ FinalInv' /\ SettledInv' /\ TraceInv'
        BY <2>2, NotesKept DEF listVars, vars
      <4>2. TypeOK' /\ WalkInv'
        BY <2>2 DEF listVars, vars, plan, control, notes, SearchInv, TypeOK,
                    CgrRoute, WalkInv, Capacity
      <4>. QED
        BY <4>1, <4>2 DEF SearchInv
    <3>2. TypeOK'
      BY <2>2 DEF listVars, vars, plan, control, notes, ListInv, ListTypeOK,
                  TypeOK, CgrRoute
    <3>3. UNCHANGED <<contactIndex, payloadClass, suppressed, route, routes,
                      anchor, task, position, deadline, tried, lead, CgrRoute>>
      BY <2>2 DEF listVars, vars, plan, control, list, walk, CgrRoute
    <3>4. ListTypeOK' /\ SearchingInv' /\ LeadsInv'
      BY <3>1, <3>2, <3>3 DEF ListInv, ListTypeOK, SearchingInv, LeadsInv
    <3>5. RecomputeInv' /\ LoadInv' /\ RoutesDiffer'
      BY <3>3 DEF ListInv, RecomputeInv, LoadInv, OnlyLocal, AnchorUsed,
                  Blocked, RoutesDiffer
    <3>. QED
      BY <3>4, <3>5 DEF ListInv
  <2>. QED
    BY <2>1, <2>2
<1>. QED
  BY <1>1, ListInitInv, PTL DEF ListSpec

\* The list and the position in it stay well-formed while routes are
\* recorded, dropped and inserted.
THEOREM ListTypeCorrect == ListSpec => []ListTypeOK
  BY ListInvariant, PTL DEF ListInv

\* Loading never records a route twice in its class.
THEOREM NoRouteIsRecordedTwice == ListSpec => []RoutesDiffer
  BY ListInvariant, PTL DEF ListInv

\* The first route recorded through each lead contact is the best there is
\* through that contact, although the searches share what they suppress.
THEOREM FirstRoutesAreBest == ListSpec => []FirstRouteIsBest
<1>1. ListInv => FirstRouteIsBest
  <2>. SUFFICES ASSUME ListInv, task = "load", Found, ~OffAnchor,
                       ~\E r \in ToSet(routes) :
                          r.payloadClass = payloadClass /\ Lead(r) = Lead(route)
                PROVE  NoneOver(Lead(route), route.arrivalTime)
    BY DEF FirstRouteIsBest
  <2>1. SearchInv /\ route.payloadClass = payloadClass
    BY DEF ListInv, SearchingInv
  <2>2. /\ Lead(route) \in contactIndex /\ IsLocal(Lead(route))
        /\ Lead(route) \notin suppressed
    BY <2>1, FoundFacts DEF Lead
  <2>3. ~AnchorUsed
    <3>1. ASSUME NEW r \in ToSet(routes), r.payloadClass = payloadClass,
                 Lead(r) = anchor
          PROVE  FALSE
      <4>1. Lead(r) # NoContact
        BY <3>1, RouteFacts
      <4>. QED
        BY <3>1, <4>1 DEF OffAnchor
    <3>. QED
      BY <3>1 DEF AnchorUsed
  <2>4. OnlyLocal
    BY <2>3 DEF ListInv, LoadInv
  <2>. QED
    BY <2>1, <2>2, <2>4, BestOver DEF Found
<1>. QED
  BY <1>1, ListInvariant, PTL

\* The route computed for a lead contact misses nothing: no itinerary over
\* that contact arrives before it, and without a route there is none.
THEOREM RecomputingIsComplete == ListSpec => []RecomputeMissesNothing
<1>1. ListInv => RecomputeMissesNothing
  BY BestOver DEF ListInv, SearchingInv, RecomputeInv, RecomputeMissesNothing
<1>. QED
  BY <1>1, ListInvariant, PTL

-----------------------------------------------------------------------------
(* The part of the list the walk is through with.  While the list is being *)
(* loaded there is none, and time passes between two bundles only.         *)

WalkedInv == NoEndedRoute /\ (task = "load" => position = 1)

\* Where the walk is at the head of the list there is nothing behind it.
LEMMA AtHead ==
  ASSUME position' = 1
  PROVE  WalkedInv'
  BY DEF WalkedInv, NoEndedRoute

\* A route that is dropped leaves what is in front of it where it was.
LEMMA DroppedKeepsWalked ==
  ASSUME ListInv, WalkedInv, AtRoute, routes' = RemoveAt(routes, position),
         UNCHANGED <<position, now>>, task' # "load"
  PROVE  WalkedInv'
<1>1. routes \in Seq(CgrRoute) /\ position \in 1..Len(routes) /\ task = "walk"
  BY AtRouteFacts DEF AtRoute
<1>2. \A i \in 1..(position - 1) : routes'[i] = routes[i]
  <2>1. ASSUME NEW i \in 1..(position - 1)
        PROVE  i \in 1..(Len(routes) - 1) /\ i < position
    BY <1>1
  <2>. QED
    BY <1>1, <2>1, RemoveAtFacts
<1>. QED
  BY <1>1, <1>2 DEF WalkedInv, NoEndedRoute

LEMMA TriedKeepsWalked ==
  ASSUME ListInv, WalkedInv, TryRoute
  PROVE  WalkedInv'
<1>1. /\ routes \in Seq(CgrRoute) /\ position \in 1..Len(routes)
      /\ Here \in CgrRoute
  BY AtRouteFacts DEF TryRoute
<1>2. now \in Nat /\ Here.toTime \in Nat
  BY <1>1, LimitAssumption, TimeTypes DEF ListInv, ListTypeOK, CgrRoute
<1>3. Here.toTime >= now
  BY <1>2 DEF TryRoute, Ended
<1>4. /\ UNCHANGED <<routes, now, task>> /\ position' = position + 1
      /\ task = "walk"
  BY DEF TryRoute, AtRoute, list, vars, plan
<1>5. ASSUME NEW i \in 1..((position + 1) - 1)
      PROVE  routes[i].toTime >= now
  <2>1. CASE i = position
    BY <1>3, <2>1 DEF Here
  <2>2. CASE i # position
    BY <1>1, <1>4, <2>2 DEF WalkedInv, NoEndedRoute
  <2>. QED
    BY <2>1, <2>2
<1>. QED
  BY <1>4, <1>5 DEF WalkedInv, NoEndedRoute

LEMMA WalkedStep ==
  ASSUME ListInv, WalkedInv, [ListNext]_listVars
  PROVE  WalkedInv'
<1>1. CASE task = "load" /\ Searching
  BY <1>1, AtHead DEF Searching, walk, WalkedInv
<1>2. CASE Load
  BY <1>2, AtHead
  DEF Load, NextClass, LoadDone, EndAnchored, RecordRoute, LoadFails, walk,
      WalkedInv
<1>3. CASE task # "load" /\ Searching
  <2>1. now' = now
    BY <1>3 DEF Searching, SearchStep, Pass, Backtrack, Finish, plan
  <2>. QED
    BY <1>3, <2>1 DEF Searching, list, walk, WalkedInv, NoEndedRoute
<1>4. CASE Forward \/ Recomputed
  BY <1>4, AtHead DEF Forward, Recomputed
<1>5. CASE DropRoute
  BY <1>5, DroppedKeepsWalked DEF DropRoute, AtRoute, vars, plan, walk
<1>6. CASE DropAndRecompute
  BY <1>6, DroppedKeepsWalked DEF DropAndRecompute, Restart, plan, walk
<1>7. CASE TryRoute
  BY <1>7, TriedKeepsWalked
<1>8. CASE NotRecomputed \/ WalkDone \/ UNCHANGED listVars
  <2>1. UNCHANGED <<routes, position, now>> /\ (task' = "load" => task = "load")
    BY <1>8 DEF NotRecomputed, WalkDone, listVars, vars, plan, list, walk
  <2>2. task # "load" \/ task' = "load"
    BY <1>8 DEF NotRecomputed, WalkDone, listVars
  <2>. QED
    BY <2>1, <2>2 DEF WalkedInv, NoEndedRoute
<1>. QED
  BY <1>1, <1>2, <1>3, <1>4, <1>5, <1>6, <1>7, <1>8 DEF ListNext, Walk

\* No route that has ended is left in the part of the list that the walk is
\* through with, whatever was dropped from it and inserted meanwhile.
THEOREM EndedRoutesAreDropped == ListSpec => []NoEndedRoute
<1>1. ListInit => WalkedInv
  BY DEF ListInit, WalkedInv, NoEndedRoute
<1>2. ListInv /\ WalkedInv /\ [ListNext]_listVars => WalkedInv'
  BY WalkedStep
<1>. QED
  BY <1>1, <1>2, ListInvariant, PTL DEF ListSpec, WalkedInv
=============================================================================
