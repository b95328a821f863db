-------------------------- MODULE ContactPlanProofs --------------------------
(***************************************************************************)
(* Proofs about ContactPlan for every set of nodes, every clock bound and  *)
(* every supply of addresses.                                              *)
(***************************************************************************)
EXTENDS ContactPlan, DataLemmas

\* What the overlap check needs to know of an index entry.
Window(x) ==
  /\ x.fromNode \in Nat /\ x.toNode \in Nat
  /\ x.fromTime \in Nat /\ x.toTime \in Nat
  /\ x.fromTime < x.toTime

\* The entry after c in the index, if its pair has a later one at all, is
\* the earliest of those.
LEMMA SuccessorOfPair ==
  ASSUME NEW S, \A x \in S : Window(x), NEW c, Window(c),
         NEW x \in S, SamePair(x, c), c.fromTime < x.fromTime
  PROVE  \E s \in Successors(S, Key(c)) :
           SamePair(s, c) /\ s.fromTime <= x.fromTime
<1>. DEFINE Later == {y \in S : SamePair(y, c) /\ c.fromTime < y.fromTime}
            T == {y.fromTime : y \in Later}
<1>1. T \in SUBSET Nat /\ T # {}
  BY DEF Window
<1>2. PICK m \in T : \A n \in T : m <= n
  BY <1>1, LeastNat
<1>3. PICK s \in Later : s.fromTime = m
  OBVIOUS
<1>4. \A y \in Later : s.fromTime <= y.fromTime
  BY <1>2, <1>3
<1>5. s \in Successors(S, Key(c))
  <2>1. Before(Key(c), Key(s))
    BY <1>3 DEF Before, Key, SamePair
  <2>2. ASSUME NEW y \in S, Before(Key(c), Key(y)), Before(Key(y), Key(s))
        PROVE  FALSE
    <3>1. y \in Later
      BY <2>2, <1>3 DEF Before, Key, SamePair, Window
    <3>. QED
      BY <3>1, <2>2, <1>3, <1>4 DEF Before, Key, SamePair, Window
  <2>. QED
    BY <2>1, <2>2, <1>3 DEF Successors
<1>. QED
  BY <1>3, <1>4, <1>5

\* The entry before c in the index, if its pair has an earlier one at all,
\* is the latest of those.
LEMMA PredecessorOfPair ==
  ASSUME NEW S, \A x \in S : Window(x), NEW c, Window(c),
         NEW x \in S, SamePair(x, c), x.fromTime < c.fromTime
  PROVE  \E p \in Predecessors(S, Key(c)) :
           SamePair(p, c) /\ x.fromTime <= p.fromTime
<1>. DEFINE Earlier == {y \in S : SamePair(y, c) /\ y.fromTime < c.fromTime}
            T == {c.fromTime - y.fromTime : y \in Earlier}
<1>1. T \in SUBSET Nat /\ T # {}
  BY DEF Window
<1>2. PICK m \in T : \A n \in T : m <= n
  BY <1>1, LeastNat
<1>3. PICK p \in Earlier : c.fromTime - p.fromTime = m
  OBVIOUS
<1>4. ASSUME NEW y \in Earlier PROVE y.fromTime <= p.fromTime
  <2>1. m <= c.fromTime - y.fromTime
    BY <1>2
  <2>2. c.fromTime \in Nat /\ y.fromTime \in Nat /\ p.fromTime \in Nat
    BY <1>3 DEF Window
  <2>. QED
    BY <1>3, <2>1, <2>2
<1>5. p \in Predecessors(S, Key(c))
  <2>1. Before(Key(p), Key(c))
    BY <1>3 DEF Before, Key, SamePair
  <2>2. ASSUME NEW y \in S, Before(Key(y), Key(c)), Before(Key(p), Key(y))
        PROVE  FALSE
    <3>1. y \in Earlier
      BY <2>2, <1>3 DEF Before, Key, SamePair, Window
    <3>. QED
      BY <3>1, <2>2, <1>3, <1>4 DEF Before, Key, SamePair, Window
  <2>. QED
    BY <2>1, <2>2, <1>3 DEF Predecessors
<1>. QED
  BY <1>3, <1>4, <1>5

\* Two neighbours in the index stand for the whole of it: in an index without
\* overlaps, rfx_insert_contact refuses a new window exactly when it overlaps
\* some window of its pair.
LEMMA OverlapCheckExact ==
  ASSUME NEW S, \A x \in S : Window(x), NEW c, Window(c),
         \A x \in S : Key(x) # Key(c),
         \A x, y \in S : x # y => Compatible(x, y)
  PROVE  OverlapFound(S, c) <=> \E x \in S : ~Compatible(x, c)
<1>1. ASSUME OverlapFound(S, c)
      PROVE  \E x \in S : ~Compatible(x, c)
  <2>1. CASE OverlapsNext(c, Successors(S, Key(c)))
    BY <2>1 DEF OverlapsNext, Successors, Before, Key, SamePair, Compatible, Window
  <2>2. CASE OverlapsPrev(c, Predecessors(S, Key(c)))
    BY <2>2 DEF OverlapsPrev, Predecessors, Before, Key, SamePair, Compatible, Window
  <2>. QED
    BY <1>1, <2>1, <2>2 DEF OverlapFound
<1>2. ASSUME NEW x \in S, ~Compatible(x, c)
      PROVE  OverlapFound(S, c)
  <2>1. SamePair(x, c) /\ c.fromTime < x.toTime /\ x.fromTime < c.toTime
    BY <1>2 DEF Compatible, Window
  <2>2. x.fromTime # c.fromTime
    BY <2>1 DEF Key, SamePair
  <2>3. CASE c.fromTime < x.fromTime
    <3>1. PICK s \in Successors(S, Key(c)) :
            SamePair(s, c) /\ s.fromTime <= x.fromTime
      BY <2>1, <2>3, SuccessorOfPair
    <3>2. s \in S
      BY DEF Successors
    <3>3. SamePair(c, s) /\ c.toTime > s.fromTime
      BY <2>1, <3>1, <3>2 DEF Window, SamePair
    <3>. QED
      BY <3>3 DEF OverlapFound, OverlapsNext
  <2>4. CASE x.fromTime < c.fromTime
    <3>1. PICK p \in Predecessors(S, Key(c)) :
            SamePair(p, c) /\ x.fromTime <= p.fromTime
      BY <2>1, <2>4, PredecessorOfPair
    <3>2. p \in S /\ p.fromTime < c.fromTime
      BY <3>1 DEF Predecessors, Before, Key, SamePair
    <3>3. p # x => p.toTime <= x.fromTime \/ x.toTime <= p.fromTime
      BY <2>1, <3>1, <3>2 DEF Compatible, SamePair
    <3>4. SamePair(c, p) /\ c.fromTime < p.toTime
      BY <2>1, <3>1, <3>2, <3>3 DEF Window, SamePair
    <3>. QED
      BY <3>4 DEF OverlapFound, OverlapsPrev
  <2>. QED
    BY <2>2, <2>3, <2>4 DEF Window
<1>. QED
  BY <1>1, <1>2

-----------------------------------------------------------------------------
(* Type correctness.                                                       *)

LEMMA PairsHaveNoPair == NoPair \notin Nodes \X Nodes
  BY NodesAssumption DEF NoPair

LEMMA EventTypes ==
  /\ \A x \in IonCXref : EventsOfContact(x) \subseteq IonEvent
  /\ \A x \in IonRXref : EventsOfRange(x) \subseteq IonEvent
<1>1. ASSUME NEW x \in IonCXref PROVE EventsOfContact(x) \subseteq IonEvent
  BY DEF IonCXref, IonContact, EventsOfContact, IonEvent, ContactEvents
<1>2. ASSUME NEW x \in IonRXref PROVE EventsOfRange(x) \subseteq IonEvent
  BY DEF IonRXref, IonRange, EventsOfRange, IonEvent, RangeEvents, ImputedEvents
<1>. QED
  BY <1>1, <1>2

LEMMA ReversedType == \A r \in IonRange : Reversed(r) \in IonRange
  BY DEF IonRange, Reversed

\* TypeOK is inductive.
LEMMA TypeStep == TypeOK /\ [Next]_vars => TypeOK'
<1>. SUFFICES ASSUME TypeOK, [Next]_vars PROVE TypeOK'
  OBVIOUS
<1>. USE TimeAssumption
<1>t. now \in Nat /\ now <= MaxTime
  BY DEF TypeOK
<1>1. CASE Tick
  <2>1. now' \in 0..MaxTime /\ lastEditTime' \in 0..now'
    BY <1>1, <1>t DEF TypeOK, Tick, planVars
  <2>2. UNCHANGED <<planVars, reverse>> /\ refused' \in BOOLEAN
    BY <1>1 DEF Tick
  <2>. QED
    BY <2>1, <2>2 DEF TypeOK, planVars
<1>2. ASSUME NEW c \in IonContact, InsertContact(c) PROVE TypeOK'
  <2>1. CASE UNCHANGED planVars /\ refused' \in BOOLEAN
    BY <2>1, <1>2 DEF TypeOK, InsertContact, planVars
  <2>2. CASE AddContact(c)
    <3>1. PICK r \in FreeRefs :
            /\ contactIndex' = contactIndex \cup {[ref |-> r, contact |-> c]}
            /\ timeline' = timeline \cup EventsOfContact([ref |-> r, contact |-> c])
      BY <2>2 DEF AddContact
    <3>2. [ref |-> r, contact |-> c] \in IonCXref
      BY DEF FreeRefs, IonCXref
    <3>3. timeline' \subseteq IonEvent
      BY <3>1, <3>2, EventTypes DEF TypeOK
    <3>4. c.fromNode \in Nodes /\ c.toNode \in Nodes
      BY DEF IonContact
    <3>5. lastEditTime' \in 0..now
      BY <2>2, <1>t DEF AddContact, Stamp, TypeOK
    <3>. QED
      BY <1>2, <2>2, <3>1, <3>2, <3>3, <3>4, <3>5
      DEF TypeOK, AddContact, InsertContact
  <2>. QED
    BY <1>2, <2>1, <2>2 DEF InsertContact, ReassertContact, RefuseContact
<1>3. ASSUME NEW xs, DeleteContacts(xs), UNCHANGED <<now, reverse>>,
             refused' = FALSE
      PROVE  TypeOK'
  <2>1. lastEditTime' \in 0..now
    BY <1>3, <1>t DEF DeleteContacts, Stamp, TypeOK
  <2>2. contactsDb' \subseteq contactsDb
    BY <1>3 DEF DeleteContacts
  <2>. QED
    BY <1>3, <2>1, <2>2 DEF TypeOK, DeleteContacts
<1>4. ASSUME NEW r \in IonRange, InsertRange(r) PROVE TypeOK'
  <2>1. CASE UNCHANGED planVars /\ refused' \in BOOLEAN
    BY <2>1, <1>4 DEF TypeOK, InsertRange, planVars
  <2>2. CASE RefuseRange(r)
    <3>1. timeline' \subseteq timeline
      BY <2>2 DEF RefuseRange, OverriddenEvents
    <3>. QED
      BY <1>4, <2>2, <3>1 DEF TypeOK, RefuseRange, InsertRange
  <2>3. CASE AddRange(r)
    <3>. DEFINE hit == ImputedAt(Key(r))
                rest == rangeIndex \ hit
    <3>1. PICK a \in FreeRefs, b \in FreeRefs, kept \in OverriddenEvents(hit) :
            LET x == [ref |-> a, range |-> r, asserted |-> TRUE]
                mirror == IF Imputes(r, {y.range : y \in rest})
                          THEN {[ref |-> b, range |-> Reversed(r),
                                 asserted |-> FALSE]}
                          ELSE {}
            IN  /\ rangeIndex' = rest \cup {x} \cup mirror
                /\ timeline' = kept \cup EventsOfRange(x)
                                    \cup UNION {EventsOfRange(y) : y \in mirror}
      BY <2>3 DEF AddRange
    <3>. DEFINE x == [ref |-> a, range |-> r, asserted |-> TRUE]
                m == [ref |-> b, range |-> Reversed(r), asserted |-> FALSE]
    <3>2. x \in IonRXref /\ m \in IonRXref
      BY ReversedType DEF FreeRefs, IonRXref
    <3>3. kept \subseteq IonEvent
      BY DEF OverriddenEvents, TypeOK
    <3>4. rangeIndex' \subseteq IonRXref
      BY <3>1, <3>2 DEF TypeOK
    <3>5. EventsOfRange(x) \subseteq IonEvent /\ EventsOfRange(m) \subseteq IonEvent
      BY <3>2, EventTypes
    <3>6. timeline' \subseteq IonEvent
      BY <3>1, <3>3, <3>5
    <3>7. r.fromNode \in Nodes /\ r.toNode \in Nodes
      BY DEF IonRange
    <3>8. lastEditTime' \in 0..now
      BY <2>3, <1>t DEF AddRange, Stamp, TypeOK
    <3>. QED
      BY <1>4, <2>3, <3>4, <3>6, <3>7, <3>8 DEF TypeOK, AddRange, InsertRange
  <2>. QED
    BY <1>4, <2>1, <2>2, <2>3 DEF InsertRange, ReassertRange
<1>5. ASSUME NEW xs \in SUBSET rangeIndex, DeleteRanges(xs), now' = now,
             reverse' \in (Nodes \X Nodes) \cup {NoPair}, refused' \in BOOLEAN
      PROVE  TypeOK'
  <2>1. lastEditTime' \in 0..now
    BY <1>5, <1>t DEF DeleteRanges, Stamp, TypeOK
  <2>. QED
    BY <1>5, <2>1 DEF TypeOK, DeleteRanges
<1>6. ASSUME NEW from \in Nodes, NEW to \in Nodes, NEW start \in Times,
             RemoveRange(from, to, start)
      PROVE  TypeOK'
  <2>1. RangesAt(<<from, to, start>>)
          \cup (IF from > to THEN {} ELSE ImputedAt(<<to, from, start>>))
        \in SUBSET rangeIndex
    BY DEF RangesAt, ImputedAt
  <2>. QED
    BY <1>5, <1>6, <2>1 DEF RemoveRange, TypeOK
<1>7. ASSUME NEW from \in Nodes, NEW to \in Nodes, RemoveAllRanges(from, to)
      PROVE  TypeOK'
  BY <1>5, <1>7 DEF RemoveAllRanges
<1>8. CASE RemoveReverse
  <2>1. {x \in ReverseFirst : ~x.asserted} \in SUBSET rangeIndex
    BY DEF ReverseFirst, ReverseRanges
  <2>. QED
    BY <1>5, <1>8, <2>1 DEF RemoveReverse, TypeOK
<1>9. CASE RemoveReverseDone
  BY <1>9 DEF RemoveReverseDone, TypeOK, planVars
<1>10. CASE UNCHANGED vars
  BY <1>10 DEF TypeOK, vars, planVars
<1>. QED
  BY <1>1, <1>2, <1>3, <1>4, <1>6, <1>7, <1>8, <1>9, <1>10
  DEF Next, RemoveContact, RemoveAllContacts

\* Every variable keeps its type; in particular the plan is never stamped
\* with a time still to come.
THEOREM TypeCorrect == Spec => []TypeOK
<1>1. Init => TypeOK
  <2>1. Init => now \in 0..MaxTime /\ lastEditTime \in 0..now
    BY TimeAssumption DEF Init, InitPlan
  <2>2. Init => refused \in BOOLEAN
    BY DEF Init
  <2>. QED
    BY <2>1, <2>2 DEF Init, InitPlan, TypeOK
<1>. QED
  BY <1>1, TypeStep, PTL DEF Spec

-----------------------------------------------------------------------------
(* The contacts.                                                           *)

LEMMA ContactsAreWindows ==
  /\ \A c \in IonContact : Window(c)
  /\ TypeOK => \A x \in Contacts : Window(x)
<1>1. ASSUME NEW c \in IonContact PROVE Window(c)
  <2>1. /\ c.fromNode \in Nodes /\ c.toNode \in Nodes
        /\ c.fromTime \in Times /\ c.toTime \in Times
        /\ c.fromTime < c.toTime
    BY DEF IonContact
  <2>2. Nodes \subseteq Nat /\ Times \subseteq Nat
    BY NodesAssumption, TimeAssumption DEF Times
  <2>. QED
    BY <2>1, <2>2 DEF Window
<1>2. TypeOK => \A x \in Contacts : x \in IonContact
  BY DEF TypeOK, IonCXref, Contacts
<1>. QED
  BY <1>1, <1>2

\* The inductive form of ContactsDoNotOverlap: at most one address for each
\* contact, and no overlap among the contacts.
ContactInv ==
  /\ \A x, y \in contactIndex : x.contact = y.contact => x = y
  /\ \A c, d \in Contacts : c # d => Compatible(c, d)

LEMMA AddedContactFits ==
  ASSUME TypeOK, ContactInv, NEW c \in IonContact, AddContact(c)
  PROVE  /\ c \notin Contacts
         /\ Contacts' = Contacts \cup {c}
         /\ \A d \in Contacts : Compatible(d, c) /\ Compatible(c, d)
         /\ ContactInv'
<1>1. c \notin Contacts /\ \A d \in Contacts : Key(d) # Key(c)
  BY DEF AddContact, ContactsAt, Contacts
<1>2. \A d \in Contacts : Compatible(d, c)
  <2>1. Window(c) /\ \A d \in Contacts : Window(d)
    BY ContactsAreWindows
  <2>2. ~OverlapFound(Contacts, c)
    BY DEF AddContact
  <2>3. \A d, e \in Contacts : d # e => Compatible(d, e)
    BY DEF ContactInv
  <2>. QED
    BY <1>1, <2>1, <2>2, <2>3, OverlapCheckExact
<1>3. \A d \in Contacts : Compatible(c, d)
  BY <1>2 DEF Compatible, SamePair
<1>4. PICK r \in FreeRefs :
        contactIndex' = contactIndex \cup {[ref |-> r, contact |-> c]}
  BY DEF AddContact
<1>. DEFINE new == [ref |-> r, contact |-> c]
<1>5. Contacts' = Contacts \cup {c}
  <2>1. Contacts' = {x.contact : x \in contactIndex \cup {new}}
    BY <1>4 DEF Contacts
  <2>2. new.contact = c
    OBVIOUS
  <2>. HIDE DEF new
  <2>. QED
    BY <2>1, <2>2 DEF Contacts
<1>6. \A x, y \in contactIndex' : x.contact = y.contact => x = y
  BY <1>1, <1>4 DEF ContactInv, Contacts
<1>7. \A d, e \in Contacts' : d # e => Compatible(d, e)
  BY <1>2, <1>3, <1>5 DEF ContactInv
<1>. QED
  BY <1>1, <1>2, <1>3, <1>5, <1>6, <1>7 DEF ContactInv

\* A step adds one contact, or it removes contacts of one pair, or it leaves
\* the contacts alone.
LEMMA ContactSteps ==
  ASSUME TypeOK, [Next]_vars
  PROVE  \/ UNCHANGED contactIndex
         \/ \E c \in IonContact : AddContact(c)
         \/ /\ contactIndex' \subseteq contactIndex
            /\ \A x, y \in contactIndex \ contactIndex' :
                 SamePair(x.contact, y.contact)
<1>1. ASSUME NEW c \in IonContact, InsertContact(c)
      PROVE  UNCHANGED contactIndex \/ AddContact(c)
  BY <1>1 DEF InsertContact, ReassertContact, RefuseContact, planVars
<1>2. ASSUME NEW from \in Nodes, NEW to \in Nodes, NEW start \in Times,
             RemoveContact(from, to, start)
      PROVE  /\ contactIndex' \subseteq contactIndex
             /\ \A x, y \in contactIndex \ contactIndex' :
                  SamePair(x.contact, y.contact)
  BY <1>2 DEF RemoveContact, DeleteContacts, ContactsAt, Key, SamePair
<1>3. ASSUME NEW from \in Nodes, NEW to \in Nodes, RemoveAllContacts(from, to)
      PROVE  /\ contactIndex' \subseteq contactIndex
             /\ \A x, y \in contactIndex \ contactIndex' :
                  SamePair(x.contact, y.contact)
  BY <1>3 DEF RemoveAllContacts, DeleteContacts, SamePair
<1>4. ASSUME NEW r \in IonRange, InsertRange(r)
      PROVE  UNCHANGED contactIndex
  BY <1>4 DEF InsertRange, ReassertRange, RefuseRange, AddRange, planVars
<1>5. ASSUME NEW xs, DeleteRanges(xs) PROVE UNCHANGED contactIndex
  BY <1>5 DEF DeleteRanges
<1>6. CASE Tick \/ RemoveReverseDone \/ UNCHANGED vars
  BY <1>6 DEF Tick, RemoveReverseDone, vars, planVars
<1>. QED
  BY <1>1, <1>2, <1>3, <1>4, <1>5, <1>6
  DEF Next, RemoveRange, RemoveAllRanges, RemoveReverse

LEMMA ContactInvStep == TypeOK /\ ContactInv /\ [Next]_vars => ContactInv'
<1>. SUFFICES ASSUME TypeOK, ContactInv, [Next]_vars PROVE ContactInv'
  OBVIOUS
<1>1. CASE contactIndex' \subseteq contactIndex
  BY <1>1 DEF ContactInv, Contacts
<1>2. ASSUME NEW c \in IonContact, AddContact(c) PROVE ContactInv'
  BY <1>2, AddedContactFits
<1>. QED
  BY <1>1, <1>2, ContactSteps

\* No two contacts of a pair of nodes overlap, for any number of nodes,
\* times and contacts.
THEOREM ContactsNeverOverlap == Spec => []ContactsDoNotOverlap
<1>1. Init => ContactInv
  BY DEF Init, InitPlan, ContactInv, Contacts
<1>2. ContactInv => ContactsDoNotOverlap
  BY DEF ContactInv, ContactsDoNotOverlap, Contacts
<1>. QED
  BY <1>1, <1>2, ContactInvStep, TypeCorrect, PTL DEF Spec

\* Every step of the plan is a reservation, a withdrawal or a stutter of the
\* book.
LEMMA BookStep ==
  TypeOK /\ ContactInv /\ [Next]_vars => [Book!Next]_Contacts
<1>. SUFFICES ASSUME TypeOK, ContactInv, [Next]_vars PROVE [Book!Next]_Contacts
  OBVIOUS
<1>1. CASE UNCHANGED contactIndex
  BY <1>1 DEF Contacts
<1>2. ASSUME NEW c \in IonContact, AddContact(c) PROVE Book!Reserve
  <2>1. /\ Contacts' = Contacts \cup {c}
        /\ \A d \in Contacts : Compatible(d, c)
    BY <1>2, AddedContactFits
  <2>2. Book!Free(c)
    BY <2>1 DEF Book!Free, Book!Pair, Compatible, SamePair
  <2>. QED
    BY <2>1, <2>2 DEF Book!Reserve
<1>3. CASE /\ contactIndex' \subseteq contactIndex
           /\ \A x, y \in contactIndex \ contactIndex' :
                SamePair(x.contact, y.contact)
  <2>1. Contacts' \subseteq Contacts
    BY <1>3 DEF Contacts
  <2>2. ASSUME NEW c \in Contacts \ Contacts', NEW d \in Contacts \ Contacts'
        PROVE  SamePair(c, d)
    <3>1. PICK x \in contactIndex, y \in contactIndex : x.contact = c /\ y.contact = d
      BY DEF Contacts
    <3>2. x \notin contactIndex' /\ y \notin contactIndex'
      BY <3>1 DEF Contacts
    <3>. QED
      BY <1>3, <3>1, <3>2
  <2>3. Book!Withdraw
    BY <2>1, <2>2 DEF Book!Withdraw, Book!Pair, SamePair
  <2>. QED
    BY <2>3 DEF Book!Next
<1>. QED
  BY <1>1, <1>2, <1>3, ContactSteps DEF Book!Next

\* The contact plan implements the book of reservations.
THEOREM PlanImplementsBook == Spec => ContactsImplementBook
<1>1. Init => Book!Init /\ ContactInv
  BY DEF Init, InitPlan, Contacts, ContactInv, Book!Init
<1>. QED
  BY <1>1, BookStep, ContactInvStep, TypeCorrect, PTL
  DEF Spec, ContactsImplementBook, Book!Spec

-----------------------------------------------------------------------------
(* The ranges.                                                             *)

\* The inductive form of the two invariants about ranges.
RangeInv == RangeKeysUnique /\ ImputedMirrorsCanonical

LEMMA RangeInvStep == TypeOK /\ RangeInv /\ [Next]_vars => RangeInv'
<1>. SUFFICES ASSUME TypeOK, RangeInv, [Next]_vars PROVE RangeInv'
  OBVIOUS
<1>1. CASE UNCHANGED <<rangeIndex, reverse>>
  BY <1>1 DEF RangeInv, RangeKeysUnique, ImputedMirrorsCanonical
\* Losing imputed ranges disturbs nothing.
<1>2. ASSUME rangeIndex' \subseteq rangeIndex,
             \A x \in rangeIndex \ rangeIndex' : ~x.asserted,
             reverse' = reverse
      PROVE  RangeInv'
  BY <1>2 DEF RangeInv, RangeKeysUnique, ImputedMirrorsCanonical
<1>3. ASSUME NEW r \in IonRange, AddRange(r), reverse' = reverse
      PROVE  RangeInv'
  <2>. DEFINE hit == ImputedAt(Key(r))
              rest == rangeIndex \ hit
              imputes == Imputes(r, {y.range : y \in rest})
  <2>1. PICK a \in FreeRefs, b \in FreeRefs :
          rangeIndex' = rest \cup {[ref |-> a, range |-> r, asserted |-> TRUE]}
            \cup (IF imputes
                  THEN {[ref |-> b, range |-> Reversed(r), asserted |-> FALSE]}
                  ELSE {})
    BY <1>3 DEF AddRange
  <2>. DEFINE x == [ref |-> a, range |-> r, asserted |-> TRUE]
              m == [ref |-> b, range |-> Reversed(r), asserted |-> FALSE]
  <2>2. \A y \in rest : Key(y.range) # Key(r)
    BY <1>3 DEF AddRange, AssertedAt, ImputedAt, RangesAt
  <2>3. /\ Reversed(r).fromNode = r.toNode /\ Reversed(r).toNode = r.fromNode
        /\ Key(Reversed(r)) = <<r.toNode, r.fromNode, r.fromTime>>
        /\ Reversed(Reversed(r)) = r
    BY DEF Reversed, IonRange, Key
  <2>4. imputes => /\ r.fromNode < r.toNode
                   /\ Key(Reversed(r)) # Key(r)
                   /\ \A y \in rest : Key(y.range) # Key(Reversed(r))
    <3>1. r.fromNode \in Nat /\ r.toNode \in Nat
      BY NodesAssumption DEF IonRange
    <3>. QED
      BY <2>3, <3>1 DEF Imputes, Key
  <2>5. RangeKeysUnique'
    <3>1. \A y, z \in rest : Key(y.range) = Key(z.range) => y = z
      BY DEF RangeInv, RangeKeysUnique
    <3>2. Key(x.range) = Key(r) /\ Key(m.range) = Key(Reversed(r))
      OBVIOUS
    <3>3. rangeIndex' = rest \cup {x} \/ (imputes /\ rangeIndex' = rest \cup {x, m})
      BY <2>1
    <3>. HIDE DEF x, m, rest, imputes
    <3>. QED
      BY <2>2, <2>4, <3>1, <3>2, <3>3 DEF RangeKeysUnique
  <2>6. ASSUME NEW y \in rangeIndex', ~y.asserted
        PROVE  /\ y.range.fromNode > y.range.toNode
               /\ \/ <<y.range.fromNode, y.range.toNode>> = reverse'
                  \/ \E z \in rangeIndex' : z.asserted /\ z.range = Reversed(y.range)
    <3>1. CASE y \in rest
      <4>1. \A z \in rangeIndex : z.asserted => z \in rangeIndex'
        BY <2>1 DEF ImputedAt
      <4>. QED
        BY <1>3, <2>6, <3>1, <4>1 DEF RangeInv, ImputedMirrorsCanonical
    <3>2. CASE y = m /\ imputes
      <4>1. x \in rangeIndex' /\ x.asserted /\ x.range = Reversed(y.range)
        BY <2>1, <2>3, <3>2
      <4>2. y.range.fromNode > y.range.toNode
        <5>1. r.fromNode \in Nat /\ r.toNode \in Nat
          BY NodesAssumption DEF IonRange
        <5>. QED
          BY <2>3, <2>4, <3>2, <5>1
      <4>. QED
        BY <4>1, <4>2
    <3>3. y # x
      BY <2>6
    <3>4. y \in rest \/ y = x \/ (imputes /\ y = m)
      BY <2>1
    <3>. QED
      BY <3>1, <3>2, <3>3, <3>4
  <2>7. ImputedMirrorsCanonical'
    BY <2>6 DEF ImputedMirrorsCanonical
  <2>. QED
    BY <2>5, <2>7 DEF RangeInv
<1>4. ASSUME NEW r \in IonRange, InsertRange(r) PROVE RangeInv'
  <2>1. CASE ReassertRange(r)
    BY <1>1, <1>4, <2>1 DEF InsertRange, ReassertRange, planVars
  <2>2. CASE RefuseRange(r)
    BY <1>2, <1>4, <2>2 DEF InsertRange, RefuseRange, ImputedAt
  <2>. QED
    BY <1>3, <1>4, <2>1, <2>2 DEF InsertRange
<1>5. ASSUME NEW from \in Nodes, NEW to \in Nodes, NEW start \in Times,
             RemoveRange(from, to, start)
      PROVE  RangeInv'
  <2>. DEFINE gone == RangesAt(<<from, to, start>>)
                      \cup (IF from > to THEN {}
                            ELSE ImputedAt(<<to, from, start>>))
  <2>1. rangeIndex' = rangeIndex \ gone /\ reverse' = reverse /\ reverse = NoPair
    BY <1>5 DEF RemoveRange, DeleteRanges
  <2>2. from \in Nat /\ to \in Nat
    BY NodesAssumption
  <2>3. RangeKeysUnique'
    BY <2>1 DEF RangeInv, RangeKeysUnique
  <2>4. ASSUME NEW y \in rangeIndex', ~y.asserted
        PROVE  /\ y.range.fromNode > y.range.toNode
               /\ \/ <<y.range.fromNode, y.range.toNode>> = reverse'
                  \/ \E z \in rangeIndex' : z.asserted /\ z.range = Reversed(y.range)
    <3>1. y \in rangeIndex /\ y \notin gone
      BY <2>1
    <3>2. y.range \in IonRange
      BY <3>1 DEF TypeOK, IonRXref
    <3>3. y.range.fromNode \in Nodes /\ y.range.toNode \in Nodes
      BY <3>2 DEF IonRange
    <3>4. <<y.range.fromNode, y.range.toNode>> # reverse
      BY <2>1, <3>3, PairsHaveNoPair
    <3>5. PICK z \in rangeIndex : z.asserted /\ z.range = Reversed(y.range)
      BY <2>4, <3>1, <3>4 DEF RangeInv, ImputedMirrorsCanonical
    <3>6. y.range.fromNode > y.range.toNode
      BY <2>4, <3>1 DEF RangeInv, ImputedMirrorsCanonical
    <3>7. Key(z.range) = <<y.range.toNode, y.range.fromNode, y.range.fromTime>>
      BY <3>2, <3>5 DEF Reversed, Key, IonRange
    <3>8. z \notin gone
      <4>. SUFFICES ASSUME z \in gone PROVE FALSE
        OBVIOUS
      <4>1. z \in RangesAt(<<from, to, start>>)
        BY <3>5 DEF ImputedAt
      <4>2. /\ y.range.toNode = from /\ y.range.fromNode = to
            /\ y.range.fromTime = start
        BY <3>7, <4>1 DEF RangesAt
      <4>3. ~(from > to)
        BY <2>2, <3>6, <4>2
      <4>4. y \in ImputedAt(<<to, from, start>>)
        BY <2>4, <3>1, <4>2 DEF ImputedAt, RangesAt, Key
      <4>. QED
        BY <3>1, <4>3, <4>4
    <3>. QED
      BY <2>1, <3>5, <3>6, <3>8
  <2>. QED
    BY <2>3, <2>4 DEF RangeInv, ImputedMirrorsCanonical
<1>6. ASSUME NEW from \in Nodes, NEW to \in Nodes, RemoveAllRanges(from, to)
      PROVE  RangeInv'
  <2>. DEFINE gone == {x \in rangeIndex : x.range.fromNode = from
                                          /\ x.range.toNode = to}
  <2>1. /\ rangeIndex' = rangeIndex \ gone /\ reverse = NoPair
        /\ reverse' = IF from > to THEN NoPair ELSE <<to, from>>
    BY <1>6 DEF RemoveAllRanges, DeleteRanges
  <2>2. from \in Nat /\ to \in Nat
    BY NodesAssumption
  <2>3. RangeKeysUnique'
    BY <2>1 DEF RangeInv, RangeKeysUnique
  <2>4. ASSUME NEW y \in rangeIndex', ~y.asserted
        PROVE  /\ y.range.fromNode > y.range.toNode
               /\ \/ <<y.range.fromNode, y.range.toNode>> = reverse'
                  \/ \E z \in rangeIndex' : z.asserted /\ z.range = Reversed(y.range)
    <3>1. y \in rangeIndex /\ y.range \in IonRange
      BY <2>1 DEF TypeOK, IonRXref
    <3>2. <<y.range.fromNode, y.range.toNode>> # reverse
      BY <2>1, <3>1, PairsHaveNoPair DEF IonRange
    <3>3. PICK z \in rangeIndex : z.asserted /\ z.range = Reversed(y.range)
      BY <2>4, <3>1, <3>2 DEF RangeInv, ImputedMirrorsCanonical
    <3>4. y.range.fromNode > y.range.toNode
      BY <2>4, <3>1 DEF RangeInv, ImputedMirrorsCanonical
    <3>5. z.range.fromNode = y.range.toNode /\ z.range.toNode = y.range.fromNode
      BY <3>1, <3>3 DEF Reversed, IonRange
    <3>6. z \in gone => reverse' = <<y.range.fromNode, y.range.toNode>>
      BY <2>1, <2>2, <3>4, <3>5
    <3>. QED
      BY <2>1, <3>3, <3>4, <3>6
  <2>. QED
    BY <2>3, <2>4 DEF RangeInv, ImputedMirrorsCanonical
<1>7. CASE RemoveReverse
  BY <1>2, <1>7 DEF RemoveReverse, DeleteRanges
<1>8. CASE RemoveReverseDone
  BY <1>8 DEF RemoveReverseDone, ReverseRanges, planVars, RangeInv,
              RangeKeysUnique, ImputedMirrorsCanonical
<1>9. ASSUME \/ Tick
             \/ \E c \in IonContact : InsertContact(c)
             \/ \E from, to \in Nodes, start \in Times :
                  RemoveContact(from, to, start)
             \/ \E from, to \in Nodes : RemoveAllContacts(from, to)
             \/ UNCHANGED vars
      PROVE  RangeInv'
  <2>1. UNCHANGED <<rangeIndex, reverse>>
    BY <1>9 DEF Tick, InsertContact, ReassertContact, RefuseContact, AddContact,
                RemoveContact, RemoveAllContacts, DeleteContacts, vars, planVars
  <2>. QED
    BY <1>1, <2>1
<1>. QED
  BY <1>4, <1>5, <1>6, <1>7, <1>8, <1>9 DEF Next

\* A range has one index entry, and an imputed range always mirrors an
\* asserted canonical one unless a wild-card removal is taking it away.
THEOREM RangesStayPaired ==
  Spec => [](RangeKeysUnique /\ ImputedMirrorsCanonical)
<1>1. Init => RangeInv
  BY DEF Init, InitPlan, RangeInv, RangeKeysUnique, ImputedMirrorsCanonical
<1>2. RangeInv => RangeKeysUnique /\ ImputedMirrorsCanonical
  BY DEF RangeInv
<1>. QED
  BY <1>1, <1>2, RangeInvStep, TypeCorrect, PTL DEF Spec

\* No range has two entries in the index, whatever the order in which both
\* directions were asserted, overridden and removed.
THEOREM RangesAreIndexedOnce == Spec => []RangeKeysUnique
<1>1. RangeKeysUnique /\ ImputedMirrorsCanonical => RangeKeysUnique
  OBVIOUS
<1>. QED
  BY <1>1, RangesStayPaired, PTL

-----------------------------------------------------------------------------
(* The database lists and the timeline.                                    *)

LEMMA PlanSteps ==
  ASSUME [Next]_vars
  PROVE  \/ UNCHANGED planVars
         \/ \E c \in IonContact : AddContact(c)
         \/ \E xs \in SUBSET contactIndex : DeleteContacts(xs)
         \/ \E r \in IonRange : RefuseRange(r) \/ AddRange(r)
         \/ \E xs \in SUBSET rangeIndex : DeleteRanges(xs)
<1>1. ASSUME NEW c \in IonContact, InsertContact(c)
      PROVE  UNCHANGED planVars \/ AddContact(c)
  BY <1>1 DEF InsertContact, ReassertContact, RefuseContact
<1>2. ASSUME NEW from, NEW to, NEW start, RemoveContact(from, to, start)
      PROVE  \E xs \in SUBSET contactIndex : DeleteContacts(xs)
  <2>1. ContactsAt(<<from, to, start>>) \in SUBSET contactIndex
    BY DEF ContactsAt
  <2>. QED
    BY <1>2, <2>1 DEF RemoveContact
<1>3. ASSUME NEW from, NEW to, RemoveAllContacts(from, to)
      PROVE  \E xs \in SUBSET contactIndex : DeleteContacts(xs)
  <2>. DEFINE xs == {x \in contactIndex : x.contact.fromNode = from /\ x.contact.toNode = to}
  <2>1. DeleteContacts(xs) /\ xs \in SUBSET contactIndex
    BY <1>3 DEF RemoveAllContacts
  <2>. QED
    BY <2>1
<1>4. ASSUME NEW r \in IonRange, InsertRange(r)
      PROVE  UNCHANGED planVars \/ RefuseRange(r) \/ AddRange(r)
  BY <1>4 DEF InsertRange, ReassertRange
<1>5. ASSUME NEW from, NEW to, NEW start, RemoveRange(from, to, start)
      PROVE  \E xs \in SUBSET rangeIndex : DeleteRanges(xs)
  <2>. DEFINE xs == RangesAt(<<from, to, start>>)
                      \cup (IF from > to THEN {} ELSE ImputedAt(<<to, from, start>>))
  <2>1. DeleteRanges(xs)
    BY <1>5 DEF RemoveRange
  <2>2. xs \in SUBSET rangeIndex
    BY DEF RangesAt, ImputedAt
  <2>. QED
    BY <2>1, <2>2
<1>6. ASSUME NEW from, NEW to, RemoveAllRanges(from, to)
      PROVE  \E xs \in SUBSET rangeIndex : DeleteRanges(xs)
  <2>. DEFINE xs == {x \in rangeIndex : x.range.fromNode = from /\ x.range.toNode = to}
  <2>1. DeleteRanges(xs) /\ xs \in SUBSET rangeIndex
    BY <1>6 DEF RemoveAllRanges
  <2>. QED
    BY <2>1
<1>7. ASSUME RemoveReverse
      PROVE  \E xs \in SUBSET rangeIndex : DeleteRanges(xs)
  <2>. DEFINE xs == {x \in ReverseFirst : ~x.asserted}
  <2>1. DeleteRanges(xs) /\ xs \in SUBSET rangeIndex
    BY <1>7 DEF RemoveReverse, ReverseFirst, ReverseRanges
  <2>. QED
    BY <2>1
<1>8. CASE Tick \/ RemoveReverseDone \/ UNCHANGED vars
  BY <1>8 DEF Tick, RemoveReverseDone, vars
<1>. QED
  BY <1>1, <1>2, <1>3, <1>4, <1>5, <1>6, <1>7, <1>8 DEF Next

\* What an insertion of a range does to the index.
LEMMA AddedRange ==
  ASSUME NEW r \in IonRange, AddRange(r)
  PROVE  \E a \in FreeRefs, b \in FreeRefs : \E mirror :
           LET x == [ref |-> a, range |-> r, asserted |-> TRUE]
               hit == ImputedAt(Key(r))
           IN  /\ a # b \/ mirror = {}
               /\ mirror \subseteq {[ref |-> b, range |-> Reversed(r), asserted |-> FALSE]}
               /\ rangeIndex' = (rangeIndex \ hit) \cup {x} \cup mirror
               /\ \E found \in SUBSET UNION {EventsOfRange(y) : y \in hit} :
                    timeline' = (timeline \ found) \cup EventsOfRange(x)
                                  \cup (UNION {EventsOfRange(y) : y \in mirror})
<1>. DEFINE hit == ImputedAt(Key(r))
            rest == rangeIndex \ hit
<1>1. PICK a \in FreeRefs, b \in FreeRefs, kept \in OverriddenEvents(hit) :
        LET x == [ref |-> a, range |-> r, asserted |-> TRUE]
            mirror == IF Imputes(r, {y.range : y \in rest})
                      THEN {[ref |-> b, range |-> Reversed(r), asserted |-> FALSE]}
                      ELSE {}
        IN  /\ a # b \/ mirror = {}
            /\ rangeIndex' = rest \cup {x} \cup mirror
            /\ timeline' = kept \cup EventsOfRange(x)
                              \cup (UNION {EventsOfRange(y) : y \in mirror})
  BY DEF AddRange
<1>2. PICK found \in SUBSET UNION {EventsOfRange(y) : y \in hit} : kept = timeline \ found
  BY DEF OverriddenEvents
<1>. DEFINE M == IF Imputes(r, {y.range : y \in rest})
                 THEN {[ref |-> b, range |-> Reversed(r), asserted |-> FALSE]} ELSE {}
<1>3. M \subseteq {[ref |-> b, range |-> Reversed(r), asserted |-> FALSE]}
  OBVIOUS
<1>. QED
  BY <1>1, <1>2, <1>3

LEMMA ListsStep ==
  ASSUME DbMatchesIndex, ContactInv, RangeInv, [Next]_vars
  PROVE  DbMatchesIndex'
<1>. USE DEF DbMatchesIndex, Contacts
<1>1. CASE UNCHANGED planVars
  BY <1>1 DEF planVars
<1>2. ASSUME NEW c \in IonContact, AddContact(c) PROVE DbMatchesIndex'
  <2>1. PICK x : x.contact = c /\ contactIndex' = contactIndex \cup {x}
    <3>1. PICK r \in FreeRefs : contactIndex' = contactIndex \cup {[ref |-> r, contact |-> c]}
      BY <1>2 DEF AddContact
    <3>. QED
      BY <3>1
  <2>. QED
    BY <1>2, <2>1 DEF AddContact
<1>3. ASSUME NEW xs \in SUBSET contactIndex, DeleteContacts(xs) PROVE DbMatchesIndex'
  <2>1. \A x, y \in contactIndex : x.contact = y.contact => x = y
    BY DEF ContactInv
  <2>2. PICK missed : contactsDb' = contactsDb \ ({x.contact : x \in xs} \ missed)
    BY <1>3 DEF DeleteContacts
  <2>3. contactIndex' = contactIndex \ xs /\ UNCHANGED <<rangeIndex, rangesDb>>
    BY <1>3 DEF DeleteContacts
  <2>. QED
    BY <2>1, <2>2, <2>3
<1>4. ASSUME NEW r \in IonRange, RefuseRange(r) PROVE DbMatchesIndex'
  BY <1>4 DEF RefuseRange, ImputedAt
<1>5. ASSUME NEW r \in IonRange, AddRange(r) PROVE DbMatchesIndex'
  <2>. DEFINE hit == ImputedAt(Key(r))
  <2>1. PICK x, mirror :
          /\ x.asserted /\ x.range = r /\ \A y \in mirror : ~y.asserted
          /\ rangeIndex' = (rangeIndex \ hit) \cup {x} \cup mirror
    <3>1. PICK a \in FreeRefs, b \in FreeRefs : \E mirror :
            /\ mirror \subseteq {[ref |-> b, range |-> Reversed(r), asserted |-> FALSE]}
            /\ rangeIndex' = (rangeIndex \ hit)
                              \cup {[ref |-> a, range |-> r, asserted |-> TRUE]} \cup mirror
      BY <1>5, AddedRange
    <3>. DEFINE x == [ref |-> a, range |-> r, asserted |-> TRUE]
    <3>3. PICK mirror :
            /\ mirror \subseteq {[ref |-> b, range |-> Reversed(r), asserted |-> FALSE]}
            /\ rangeIndex' = (rangeIndex \ hit) \cup {x} \cup mirror
      BY <3>1
    <3>2. x.asserted /\ x.range = r /\ \A y \in mirror : ~y.asserted
      BY <3>3
    <3>. QED
      BY <3>2, <3>3
  <2>2. \A y \in hit : ~y.asserted
    BY DEF ImputedAt
  <2>3. rangesDb' = rangesDb \cup {r} /\ UNCHANGED <<contactIndex, contactsDb>>
    BY <1>5 DEF AddRange
  <2>. HIDE DEF hit
  <2>4. {y \in rangeIndex' : y.asserted} = {y \in rangeIndex : y.asserted} \cup {x}
    BY <2>1, <2>2
  <2>5. rangesDb' = {z.range : z \in {y \in rangeIndex' : y.asserted}}
    BY <2>1, <2>3, <2>4
  <2>. QED
    BY <2>3, <2>5
<1>6. ASSUME NEW xs \in SUBSET rangeIndex, DeleteRanges(xs) PROVE DbMatchesIndex'
  <2>1. \A x, y \in rangeIndex : x.range = y.range => x = y
    BY DEF RangeInv, RangeKeysUnique
  <2>. QED
    BY <1>6, <2>1 DEF DeleteRanges
<1>. QED
  BY <1>1, <1>2, <1>3, <1>4, <1>5, <1>6, PlanSteps

\* The database never lacks a contact or an asserted range of the indexes,
\* whatever the removals find in the entries they have freed, and lists no
\* range besides: neither a refused nor a repeated call puts them apart.
THEOREM ListsMatchIndexes == Spec => []DbMatchesIndex
<1>1. Init => DbMatchesIndex /\ ContactInv /\ RangeInv
  BY DEF Init, InitPlan, DbMatchesIndex, Contacts, ContactInv, RangeInv,
    RangeKeysUnique, ImputedMirrorsCanonical
<1>. QED
  BY <1>1, ListsStep, ContactInvStep, RangeInvStep, TypeCorrect, PTL DEF Spec

\* The events of given entries, and that no two entries share an address.
Events(cs, rs) ==
  UNION ({EventsOfContact(x) : x \in cs} \cup {EventsOfRange(x) : x \in rs})

RefsDiffer(cs, rs) ==
  /\ \A x, y \in cs : x.ref = y.ref => x = y
  /\ \A x, y \in rs : x.ref = y.ref => x = y
  /\ \A x \in cs, y \in rs : x.ref # y.ref

\* An event refers to its entry by address: the timeline can be kept only if
\* addresses tell entries apart.
EventsInv == EventsMatchPlan /\ RefsDiffer(contactIndex, rangeIndex)

LEMMA EventFacts ==
  /\ \A x : \A e \in EventsOfContact(x) : e.ref = x.ref
  /\ \A x : \A e \in EventsOfRange(x) :
       e.ref = x.ref /\ (~x.asserted => e.type \in ImputedEvents)
<1>1. ASSUME NEW x, NEW e \in EventsOfContact(x) PROVE e.ref = x.ref
  BY DEF EventsOfContact
<1>2. ASSUME NEW x, NEW e \in EventsOfRange(x)
      PROVE  e.ref = x.ref /\ (~x.asserted => e.type \in ImputedEvents)
  BY DEF EventsOfRange, ImputedEvents
<1>. QED
  BY <1>1, <1>2

LEMMA EventsOfBoth ==
  ASSUME NEW cs, NEW rs, NEW e
  PROVE  e \in Events(cs, rs) <=>
           \/ \E x \in cs : e \in EventsOfContact(x)
           \/ \E x \in rs : e \in EventsOfRange(x)
BY DEF Events

\* Entries go with their events, or leave events of imputed ranges behind; new
\* ones come with theirs.
LEMMA EventsStep ==
  ASSUME EventsInv,
         NEW goneC \in SUBSET contactIndex, NEW goneR \in SUBSET rangeIndex,
         NEW newC, NEW newR, NEW found \in SUBSET Events(goneC, goneR),
         \A e \in Events(goneC, goneR) \ found : e.type \in ImputedEvents,
         contactIndex' = (contactIndex \ goneC) \cup newC,
         rangeIndex' = (rangeIndex \ goneR) \cup newR,
         timeline' = (timeline \ found) \cup Events(newC, newR),
         RefsDiffer(newC, newR), \A x \in newC \cup newR : x.ref \in FreeRefs
  PROVE  EventsInv'
<1>. DEFINE due == Events(contactIndex, rangeIndex)
            gone == Events(goneC, goneR)
            new == Events(newC, newR)
            stay == Events(contactIndex \ goneC, rangeIndex \ goneR)
<1>1. due \subseteq timeline /\ \A e \in timeline \ due : e.type \in ImputedEvents
  BY DEF EventsInv, EventsMatchPlan, Events
<1>2. Events(contactIndex', rangeIndex') = stay \cup new /\ due = stay \cup gone
  <2>1. \A e : e \in due <=> e \in stay \cup gone
    BY EventsOfBoth
  <2>2. \A e : e \in Events(contactIndex', rangeIndex') <=> e \in stay \cup new
    BY EventsOfBoth
  <2>. HIDE DEF due, gone, new, stay
  <2>. QED
    BY <2>1, <2>2
<1>3. stay \cap gone = {}
  <2>. SUFFICES ASSUME NEW e \in stay, e \in gone PROVE FALSE
    OBVIOUS
  <2>1. PICK x \in (contactIndex \ goneC) \cup (rangeIndex \ goneR) :
          e.ref = x.ref /\ (x \in contactIndex \ goneC \/ x \in rangeIndex \ goneR)
    BY EventsOfBoth, EventFacts
  <2>2. PICK y \in goneC \cup goneR : e.ref = y.ref
    BY EventsOfBoth, EventFacts
  <2>. QED
    BY <2>1, <2>2 DEF EventsInv, RefsDiffer
<1>. HIDE DEF due, gone, new, stay
<1>4. stay \cup new \subseteq timeline'
  BY <1>1, <1>2, <1>3 DEF gone, new
<1>5. \A e \in timeline' \ (stay \cup new) : e.type \in ImputedEvents
  BY <1>1, <1>2 DEF gone, new
<1>6. EventsMatchPlan'
  BY <1>2, <1>4, <1>5 DEF EventsMatchPlan, Events
<1>7. \A x \in contactIndex \cup rangeIndex : x.ref \notin FreeRefs
  BY DEF FreeRefs
<1>8. RefsDiffer(contactIndex', rangeIndex')
  BY <1>7 DEF RefsDiffer, EventsInv
<1>. QED
  BY <1>6, <1>8 DEF EventsInv

LEMMA EventsInvStep ==
  ASSUME EventsInv, [Next]_vars
  PROVE  EventsInv'
<1>1. CASE UNCHANGED planVars
  BY <1>1 DEF planVars, EventsInv, EventsMatchPlan, RefsDiffer
<1>2. ASSUME NEW c \in IonContact, AddContact(c) PROVE EventsInv'
  <2>1. PICK r \in FreeRefs :
          /\ contactIndex' = contactIndex \cup {[ref |-> r, contact |-> c]}
          /\ timeline' = timeline \cup EventsOfContact([ref |-> r, contact |-> c])
          /\ rangeIndex' = rangeIndex
    BY <1>2 DEF AddContact
  <2>. DEFINE x == [ref |-> r, contact |-> c]
  <2>2. x.ref \in FreeRefs
    OBVIOUS
  <2>. HIDE DEF x
  <2>3. Events({x}, {}) = EventsOfContact(x) /\ Events({}, {}) = {}
    BY DEF Events
  <2>4. /\ contactIndex' = (contactIndex \ {}) \cup {x} /\ rangeIndex' = (rangeIndex \ {}) \cup {}
        /\ timeline' = (timeline \ {}) \cup Events({x}, {})
    BY <2>1, <2>3 DEF x
  <2>5. RefsDiffer({x}, {})
    BY DEF RefsDiffer
  <2>. QED
    BY <2>2, <2>3, <2>4, <2>5, EventsStep
<1>3. ASSUME NEW xs \in SUBSET contactIndex, DeleteContacts(xs) PROVE EventsInv'
  <2>1. /\ contactIndex' = (contactIndex \ xs) \cup {} /\ rangeIndex' = (rangeIndex \ {}) \cup {}
        /\ timeline' = (timeline \ Events(xs, {})) \cup Events({}, {})
    BY <1>3 DEF DeleteContacts, Events
  <2>2. RefsDiffer({}, {})
    BY DEF RefsDiffer
  <2>. QED
    BY <2>1, <2>2, EventsStep
<1>4. ASSUME NEW xs \in SUBSET rangeIndex, DeleteRanges(xs) PROVE EventsInv'
  <2>1. /\ contactIndex' = (contactIndex \ {}) \cup {} /\ rangeIndex' = (rangeIndex \ xs) \cup {}
        /\ timeline' = (timeline \ Events({}, xs)) \cup Events({}, {})
    BY <1>4 DEF DeleteRanges, Events
  <2>2. RefsDiffer({}, {})
    BY DEF RefsDiffer
  <2>. QED
    BY <2>1, <2>2, EventsStep
\* What an override may leave behind are events of an imputed range.
<1>5. ASSUME NEW r PROVE \A e \in Events({}, ImputedAt(Key(r))) : e.type \in ImputedEvents
  BY EventsOfBoth, EventFacts DEF ImputedAt
<1>6. ASSUME NEW r PROVE ImputedAt(Key(r)) \in SUBSET rangeIndex
  BY DEF ImputedAt, RangesAt
<1>7. ASSUME NEW r \in IonRange, RefuseRange(r) PROVE EventsInv'
  <2>. DEFINE hit == ImputedAt(Key(r))
  <2>1. PICK found \in SUBSET Events({}, hit) : timeline' = timeline \ found
    BY <1>7 DEF RefuseRange, OverriddenEvents, Events
  <2>2. /\ contactIndex' = (contactIndex \ {}) \cup {} /\ rangeIndex' = (rangeIndex \ hit) \cup {}
        /\ timeline' = (timeline \ found) \cup Events({}, {})
    BY <1>7, <2>1 DEF RefuseRange, Events
  <2>3. RefsDiffer({}, {})
    BY DEF RefsDiffer
  <2>. QED
    BY <1>5, <1>6, <2>2, <2>3, EventsStep
<1>8. ASSUME NEW r \in IonRange, AddRange(r) PROVE EventsInv'
  <2>. DEFINE hit == ImputedAt(Key(r))
  <2>0. PICK a \in FreeRefs, b \in FreeRefs : \E mirror :
          LET x == [ref |-> a, range |-> r, asserted |-> TRUE]
          IN  /\ a # b \/ mirror = {}
              /\ mirror \subseteq {[ref |-> b, range |-> Reversed(r), asserted |-> FALSE]}
              /\ rangeIndex' = (rangeIndex \ hit) \cup {x} \cup mirror
              /\ \E found \in SUBSET UNION {EventsOfRange(y) : y \in hit} :
                   timeline' = (timeline \ found) \cup EventsOfRange(x)
                                 \cup (UNION {EventsOfRange(y) : y \in mirror})
    BY <1>8, AddedRange
  <2>. DEFINE x == [ref |-> a, range |-> r, asserted |-> TRUE]
  <2>1. PICK mirror :
          /\ a # b \/ mirror = {}
          /\ mirror \subseteq {[ref |-> b, range |-> Reversed(r), asserted |-> FALSE]}
          /\ rangeIndex' = (rangeIndex \ hit) \cup {x} \cup mirror
          /\ \E found \in SUBSET UNION {EventsOfRange(y) : y \in hit} :
               timeline' = (timeline \ found) \cup EventsOfRange(x)
                             \cup (UNION {EventsOfRange(y) : y \in mirror})
    BY <2>0
  <2>6. \A e : e \in Events({}, {x} \cup mirror) <=>
           e \in EventsOfRange(x) \cup (UNION {EventsOfRange(y) : y \in mirror})
    <3>. HIDE DEF x
    <3>. QED
      BY EventsOfBoth
  <2>7. Events({}, hit) = UNION {EventsOfRange(y) : y \in hit}
    BY DEF Events
  <2>2. PICK found \in SUBSET Events({}, hit) :
          timeline' = (timeline \ found) \cup Events({}, {x} \cup mirror)
    BY <2>1, <2>6, <2>7
  <2>3. /\ \A y \in {x} \cup mirror : y.ref \in FreeRefs
        /\ \A y, z \in {x} \cup mirror : y.ref = z.ref => y = z
    <3>1. x.ref = a /\ \A y \in mirror : y.ref = b
      BY <2>1
    <3>2. \A y, z \in mirror : y = z
      BY <2>1
    <3>3. a # b \/ mirror = {}
      BY <2>1
    <3>. HIDE DEF x
    <3>. QED
      BY <3>1, <3>2, <3>3
  <2>4. RefsDiffer({}, {x} \cup mirror)
    BY <2>3 DEF RefsDiffer
  <2>5. /\ contactIndex' = (contactIndex \ {}) \cup {}
        /\ rangeIndex' = (rangeIndex \ hit) \cup ({x} \cup mirror)
    BY <1>8, <2>1 DEF AddRange
  <2>. QED
    BY <1>5, <1>6, <2>2, <2>3, <2>4, <2>5, EventsStep
<1>. QED
  BY <1>1, <1>2, <1>3, <1>4, <1>7, <1>8, PlanSteps

\* Whatever is inserted, overridden, refused and removed, every entry has its
\* events, and what is left over are events of imputed ranges.
THEOREM TimelineMatchesPlan == Spec => []EventsMatchPlan
<1>1. Init => EventsInv
  BY DEF Init, InitPlan, EventsInv, EventsMatchPlan, RefsDiffer
<1>2. EventsInv => EventsMatchPlan
  BY DEF EventsInv
<1>. QED
  BY <1>1, <1>2, EventsInvStep, PTL DEF Spec

-----------------------------------------------------------------------------
(* What single steps do.                                                   *)

\* Every step that adds or removes a contact still to end stamps the plan,
\* which is what makes the next call of CGR discard its routes.
THEOREM EditsAreStamped == Spec => ContactEditsAreStamped
<1>. DEFINE A == \A x \in (contactIndex \ contactIndex') \cup (contactIndex' \ contactIndex) :
                  x.contact.toTime > now => lastEditTime' = now
<1>1. ASSUME [Next]_vars PROVE A
  <2>1. CASE UNCHANGED planVars
    BY <2>1 DEF planVars
  <2>2. ASSUME NEW c \in IonContact, AddContact(c) PROVE A
    <3>1. PICK r \in FreeRefs : contactIndex' = contactIndex \cup {[ref |-> r, contact |-> c]}
      BY <2>2 DEF AddContact
    <3>2. \A x \in contactIndex' \ contactIndex : x.contact = c
      BY <3>1
    <3>. QED
      BY <2>2, <3>1, <3>2 DEF AddContact, Stamp
  <2>3. ASSUME NEW xs \in SUBSET contactIndex, DeleteContacts(xs) PROVE A
    <3>1. \A x \in xs : x.contact \in {y.contact : y \in xs}
      OBVIOUS
    <3>2. contactIndex' = contactIndex \ xs
      BY <2>3 DEF DeleteContacts
    <3>. QED
      BY <2>3, <3>1, <3>2 DEF DeleteContacts, Stamp
  <2>4. ASSUME NEW r, RefuseRange(r) \/ AddRange(r) PROVE A
    BY <2>4 DEF RefuseRange, AddRange
  <2>5. ASSUME NEW xs, DeleteRanges(xs) PROVE A
    BY <2>5 DEF DeleteRanges
  <2>. QED
    BY <1>1, <2>1, <2>2, <2>3, <2>4, <2>5, PlanSteps
<1>2. [Next]_vars => [A]_vars
  BY <1>1
<1>. QED
  BY <1>2, PTL DEF Spec, ContactEditsAreStamped

\* A removal of ranges of one pair loses no asserted range of another, and
\* an insertion loses no asserted range at all.
THEOREM OverridesSurvive == Spec => OverrideSurvivesRemoval
<1>. DEFINE A == \A x, y \in rangeIndex \ rangeIndex' :
                  x.asserted /\ y.asserted => SamePair(x.range, y.range)
<1>1. ASSUME NEW r \in IonRange, InsertRange(r) PROVE A
  <2>1. CASE ReassertRange(r)
    BY <2>1 DEF ReassertRange, planVars
  <2>2. CASE RefuseRange(r)
    BY <2>2 DEF RefuseRange, ImputedAt
  <2>3. CASE AddRange(r)
    <3>1. PICK gone : (\A x \in gone : ~x.asserted) /\ rangeIndex \ gone \subseteq rangeIndex'
      <4>1. \A x \in ImputedAt(Key(r)) : ~x.asserted
        BY DEF ImputedAt
      <4>2. rangeIndex \ ImputedAt(Key(r)) \subseteq rangeIndex'
        BY <2>3, AddedRange
      <4>. QED
        BY <4>1, <4>2
    <3>. QED
      BY <3>1
  <2>. QED
    BY <1>1, <2>1, <2>2, <2>3 DEF InsertRange
<1>2. ASSUME NEW from, NEW to, NEW start, RemoveRange(from, to, start) PROVE A
  BY <1>2 DEF RemoveRange, DeleteRanges, RangesAt, ImputedAt, Key, SamePair
<1>3. ASSUME NEW from, NEW to, RemoveAllRanges(from, to) PROVE A
  BY <1>3 DEF RemoveAllRanges, DeleteRanges, SamePair
<1>4. ASSUME RemoveReverse PROVE A
  BY <1>4 DEF RemoveReverse, DeleteRanges
<1>5. ASSUME \/ Tick \/ RemoveReverseDone \/ \E c \in IonContact : InsertContact(c)
             \/ \E from, to \in Nodes, start \in Times : RemoveContact(from, to, start)
             \/ \E from, to \in Nodes : RemoveAllContacts(from, to)
      PROVE  A
  <2>1. UNCHANGED rangeIndex
    BY <1>5 DEF Tick, RemoveReverseDone, InsertContact, ReassertContact, RefuseContact,
      AddContact, RemoveContact, RemoveAllContacts, DeleteContacts, planVars
  <2>. QED
    BY <2>1
<1>6. Next => A
  BY <1>1, <1>2, <1>3, <1>4, <1>5 DEF Next
<1>7. [Next]_vars => [A]_vars
  BY <1>6
<1>. QED
  BY <1>7, PTL DEF Spec, OverrideSurvivesRemoval
=============================================================================
