----------------------------- MODULE ContactPlan -----------------------------
(***************************************************************************)
(* The contact plan of one node, as ici/library/rfx.c keeps it: the index  *)
(* of contacts, the index of ranges (asserted and imputed), the copies of  *)
(* both in the non-volatile database, the timeline of coming events and    *)
(* the time of the last edit that can affect routes.                       *)
(*                                                                         *)
(* ionadmin calls these operations one at a time from one thread, so an    *)
(* operation is one step.  The exception is the second loop of a wild-card *)
(* rfx_remove_range: each of its passes is a step, because whether that    *)
(* loop ends is a question of its own.                                     *)
(*                                                                         *)
(* Memory allocation is assumed to succeed.  An index entry is identified  *)
(* by its address, as the references in the timeline are.                  *)
(***************************************************************************)
EXTENDS PlanOrder

CONSTANTS
  Nodes,     \* node numbers
  OwnNode,   \* the node this plan belongs to
  MaxTime,   \* bound on the clock and on the times of contacts and ranges
  Rates,     \* transmission rates of contacts
  Owlts,     \* one-way light times of ranges
  Refs,      \* addresses of index entries: bounds the size of the plan
  Losable    \* contacts whose database entry a removal may fail to find

ASSUME NodesAssumption == Nodes \subseteq Nat \ {0} /\ OwnNode \in Nodes
ASSUME TimeAssumption  == MaxTime \in Nat
ASSUME DataAssumption  == Rates \subseteq Nat /\ Owlts \subseteq Nat

VARIABLES
  now,            \* getUTCTime()
  nodes,          \* vdb->nodes: the node numbers addNode has loaded
  contactIndex,   \* vdb->contactIndex, a set of IonCXref
  rangeIndex,     \* vdb->rangeIndex, a set of IonRXref
  contactsDb,     \* the contacts iondb.contacts lists
  rangesDb,       \* iondb.ranges
  timeline,       \* vdb->timeline, a set of IonEvent
  lastEditTime,   \* vdb->lastEditTime
  reverse,        \* the pair a wild-card rfx_remove_range is still clearing
  refused         \* the last call was refused (it returned zero)

planVars == <<nodes, contactIndex, rangeIndex, contactsDb, rangesDb,
              timeline, lastEditTime>>
vars == <<now, planVars, reverse, refused>>

Times == 1..MaxTime

\* No wild-card removal is in its second loop.
NoPair == <<0, 0>>

-----------------------------------------------------------------------------
(* The records of the plan.                                                *)

IonContact ==
  {c \in [fromNode : Nodes, toNode : Nodes, fromTime : Times,
          toTime : Times, xmitRate : Rates] : c.fromTime < c.toTime}

IonRange ==
  {r \in [fromNode : Nodes, toNode : Nodes, fromTime : Times,
          toTime : Times, owlt : Owlts] : r.fromTime < r.toTime}

\* rangeElt = 0 marks an imputed range; here it is asserted = FALSE.
IonCXref == [ref : Refs, contact : IonContact]
IonRXref == [ref : Refs, range : IonRange, asserted : BOOLEAN]

ContactEvents == {"StartXmit", "StopXmit", "StartFire", "StopFire", "Purge"}
RangeEvents   == {"StartAsserted", "StopAsserted"}
ImputedEvents == {"StartImputed", "StopImputed"}
IonEvent ==
  [time : Times, type : ContactEvents \cup RangeEvents \cup ImputedEvents,
   ref : Refs]

TypeOK ==
  /\ now \in 0..MaxTime
  /\ nodes \subseteq Nodes
  /\ contactIndex \subseteq IonCXref
  /\ rangeIndex \subseteq IonRXref
  /\ contactsDb \subseteq IonContact
  /\ rangesDb \subseteq IonRange
  /\ timeline \subseteq IonEvent
  /\ lastEditTime \in 0..now
  /\ reverse \in (Nodes \X Nodes) \cup {NoPair}
  /\ refused \in BOOLEAN

-----------------------------------------------------------------------------
(* Neighbours in the indexes.                                              *)

\* The entry a search for k yields in *successor; none, or one.
Successors(S, k) ==
  {x \in S : /\ Before(k, Key(x))
             /\ \A y \in S : Before(k, Key(y)) => ~Before(Key(y), Key(x))}

\* The entry before the place where k would be.
Predecessors(S, k) ==
  {x \in S : /\ Before(Key(x), k)
             /\ \A y \in S : Before(Key(y), k) => ~Before(Key(x), Key(y))}

\* sm_rbt_last.
Lasts(S) == {x \in S : \A y \in S : ~Before(Key(x), Key(y))}

\* Mutant: the end of the new entry is compared with the end of the next.
OverlapsNext_Ends(x, next) ==
  \E n \in next : SamePair(x, n) /\ x.toTime > n.toTime

\* The two halves of the overlap check of rfx_insert_contact and
\* rfx_insert_range: against the entry after, against the entry before.
OverlapsNext(x, next) == \E n \in next : SamePair(x, n) /\ x.toTime > n.fromTime
OverlapsPrev(x, prev) == \E p \in prev : SamePair(x, p) /\ x.fromTime < p.toTime

\* Mutant: the entry before the new one is not looked at.
OverlapFound_NextOnly(S, x) == OverlapsNext(x, Successors(S, Key(x)))

\* The check against the entries S when the search found nothing at x's key.
OverlapFound(S, x) ==
  \/ OverlapsNext(x, Successors(S, Key(x)))
  \/ OverlapsPrev(x, Predecessors(S, Key(x)))

Contacts == {x.contact : x \in contactIndex}
Ranges   == {x.range : x \in rangeIndex}

\* Addresses the allocator can hand out.  It is assumed not to hand out one
\* that a left-over event still refers to.
FreeRefs ==
  Refs \ ({x.ref : x \in contactIndex} \cup {x.ref : x \in rangeIndex}
          \cup {e.ref : e \in timeline})

-----------------------------------------------------------------------------
(* The events insertCXref and insertRXref post, and deleteContact and      *)
(* deleteRange remove.  maxClockError is 0 here (nothing sets it).         *)

EventsOfContact(x) ==
  LET c == x.contact
      ev(t, y) == [time |-> t, type |-> y, ref |-> x.ref]
  IN  (IF c.fromNode = OwnNode
       THEN {ev(c.fromTime, "StartXmit"), ev(c.toTime, "StopXmit")} ELSE {})
      \cup
      (IF c.toNode = OwnNode
       THEN {ev(c.fromTime, "StartFire"), ev(c.toTime, "StopFire")}
       ELSE {ev(c.toTime, "Purge")})

EventsOfRange(x) ==
  {[time |-> x.range.fromTime, ref |-> x.ref,
    type |-> IF x.asserted THEN "StartAsserted" ELSE "StartImputed"],
   [time |-> x.range.toTime, ref |-> x.ref,
    type |-> IF x.asserted THEN "StopAsserted" ELSE "StopImputed"]}

\* Mutant: stamps only entries that are still to begin.
Stamp_NotBegun(xs) ==
  lastEditTime' = IF \E x \in xs : x.fromTime > now THEN now ELSE lastEditTime

\* Mutant: stamps the second after the edit.
Stamp_NextSecond(xs) ==
  lastEditTime' = IF \E x \in xs : x.toTime > now THEN now + 1 ELSE lastEditTime

\* "Affects routes": an entry whose end is still to come stamps the plan.
Stamp(xs) ==
  lastEditTime' = IF \E x \in xs : x.toTime > now THEN now ELSE lastEditTime

-----------------------------------------------------------------------------
(* rfx_insert_contact and rfx_remove_contact.                              *)

InitPlan ==
  /\ nodes = {}
  /\ contactIndex = {} /\ rangeIndex = {}
  /\ contactsDb = {} /\ rangesDb = {}
  /\ timeline = {}
  /\ lastEditTime = 0

ContactsAt(key) == {x \in contactIndex : Key(x.contact) = key}

\* The contact is in the database already: the call is idempotent, and
\* refused when it would revise the data rate.
ReassertContact(c) ==
  /\ ContactsAt(Key(c)) # {}
  /\ refused' = \A x \in ContactsAt(Key(c)) : x.contact.xmitRate # c.xmitRate
  /\ UNCHANGED planVars

RefuseContact(c) ==
  /\ ContactsAt(Key(c)) = {}
  /\ OverlapFound(Contacts, c)
  /\ refused' = TRUE
  /\ UNCHANGED planVars

AddContact(c) ==
  /\ ContactsAt(Key(c)) = {}
  /\ ~OverlapFound(Contacts, c)
  /\ \E r \in FreeRefs :
       LET x == [ref |-> r, contact |-> c]
       IN  /\ contactIndex' = contactIndex \cup {x}
           /\ timeline' = timeline \cup EventsOfContact(x)
  /\ contactsDb' = contactsDb \cup {c}
  /\ nodes' = nodes \cup {c.fromNode, c.toNode}
  /\ Stamp({c})
  /\ refused' = FALSE
  /\ UNCHANGED <<rangeIndex, rangesDb>>

InsertContact(c) ==
  /\ reverse = NoPair
  /\ ReassertContact(c) \/ RefuseContact(c) \/ AddContact(c)
  /\ UNCHANGED <<now, reverse>>

\* Mutant: the database entry is looked up by the pair of nodes.
DeleteContacts_ByPair(xs) ==
  /\ contactIndex' = contactIndex \ xs
  /\ contactsDb' = {c \in contactsDb : \A x \in xs : ~SamePair(c, x.contact)}
  /\ timeline' = timeline \ UNION {EventsOfContact(x) : x \in xs}
  /\ Stamp({x.contact : x \in xs})
  /\ UNCHANGED <<nodes, rangeIndex, rangesDb>>

\* deleteContact, for every x in xs.  The database entry of a contact is
\* looked up through its index entry, which sm_rbt_delete has freed by then:
\* it may or may not be found.  A contact that was left behind and is inserted
\* again is listed twice and counts once here; its next removal, too, may
\* leave it in the set.
DeleteContacts(xs) ==
  /\ contactIndex' = contactIndex \ xs
  /\ \E missed \in SUBSET Losable :
       contactsDb' = contactsDb \ ({x.contact : x \in xs} \ missed)
  /\ timeline' = timeline \ UNION {EventsOfContact(x) : x \in xs}
  /\ Stamp({x.contact : x \in xs})
  /\ UNCHANGED <<nodes, rangeIndex, rangesDb>>

RemoveContact(from, to, start) ==
  /\ reverse = NoPair
  /\ DeleteContacts(ContactsAt(<<from, to, start>>))
  /\ refused' = FALSE
  /\ UNCHANGED <<now, reverse>>

\* fromTime '*': the loop deletes the first contact of the pair until there
\* is none left, and every pass deletes one.
RemoveAllContacts(from, to) ==
  /\ reverse = NoPair
  /\ DeleteContacts({x \in contactIndex : x.contact.fromNode = from
                                          /\ x.contact.toNode = to})
  /\ refused' = FALSE
  /\ UNCHANGED <<now, reverse>>

-----------------------------------------------------------------------------
(* rfx_insert_range and rfx_remove_range.                                  *)

RangesAt(key)  == {x \in rangeIndex : Key(x.range) = key}
ImputedAt(key) == {x \in RangesAt(key) : ~x.asserted}
AssertedAt(key) == {x \in RangesAt(key) : x.asserted}

\* An asserted range is there already: idempotent, or an attempt to replace
\* it, which is prohibited.
ReassertRange(r) ==
  /\ AssertedAt(Key(r)) # {}
  /\ refused' = \A x \in AssertedAt(Key(r)) : x.range.owlt # r.owlt
  /\ UNCHANGED planVars

\* The overlap check.  When the search found an imputed range it set nextElt
\* to 0, and that range is deleted by now: what the code then takes for the
\* entry before the new one is the last entry of the whole index.
RangeOverlaps(r) ==
  LET hit  == ImputedAt(Key(r))
      rest == {x.range : x \in rangeIndex \ hit}
  IN  IF hit = {} THEN OverlapFound(rest, r) ELSE OverlapsPrev(r, Lasts(rest))

\* The imputed range is erased before its times are read to find its events,
\* so each of the two events may or may not be found.
OverriddenEvents(hit) ==
  {timeline \ found : found \in SUBSET UNION {EventsOfRange(x) : x \in hit}}

\* Not rolled back: an imputed range at the same key is gone already, and
\* the edit is not stamped.
RefuseRange(r) ==
  /\ AssertedAt(Key(r)) = {}
  /\ RangeOverlaps(r)
  /\ rangeIndex' = rangeIndex \ ImputedAt(Key(r))
  /\ timeline' \in OverriddenEvents(ImputedAt(Key(r)))
  /\ refused' = TRUE
  /\ UNCHANGED <<nodes, contactIndex, contactsDb, rangesDb, lastEditTime>>

\* Mutant: imputes whatever the index holds for the reverse direction.
Imputes_Always(r, rest) == r.fromNode < r.toNode

\* insertRXref imputes the reverse of a canonical range unless some range
\* with that key exists.  It does not check that range for overlap.
Imputes(r, rest) ==
  /\ r.fromNode <= r.toNode
  /\ \A x \in rest \cup {r} : Key(x) # <<r.toNode, r.fromNode, r.fromTime>>

Reversed(r) == [r EXCEPT !.fromNode = r.toNode, !.toNode = r.fromNode]

AddRange(r) ==
  /\ AssertedAt(Key(r)) = {}
  /\ ~RangeOverlaps(r)
  /\ LET hit  == ImputedAt(Key(r))
         rest == rangeIndex \ hit
     IN  \E a, b \in FreeRefs, kept \in OverriddenEvents(hit) :
           LET x     == [ref |-> a, range |-> r, asserted |-> TRUE]
               mirror == IF Imputes(r, {y.range : y \in rest})
                         THEN {[ref |-> b, range |-> Reversed(r),
                                asserted |-> FALSE]}
                         ELSE {}
           IN  /\ a # b \/ mirror = {}
               /\ rangeIndex' = rest \cup {x} \cup mirror
               /\ timeline' = kept \cup EventsOfRange(x)
                                   \cup UNION {EventsOfRange(y) : y \in mirror}
  /\ rangesDb' = rangesDb \cup {r}
  /\ nodes' = nodes \cup {r.fromNode, r.toNode}
  /\ Stamp({r})
  /\ refused' = FALSE
  /\ UNCHANGED <<contactIndex, contactsDb>>

InsertRange(r) ==
  /\ reverse = NoPair
  /\ ReassertRange(r) \/ RefuseRange(r) \/ AddRange(r)
  /\ UNCHANGED <<now, reverse>>

\* Mutant: the range stays in the database.
DeleteRanges_KeepDb(xs) ==
  /\ rangeIndex' = rangeIndex \ xs
  /\ timeline' = timeline \ UNION {EventsOfRange(x) : x \in xs}
  /\ Stamp({x.range : x \in xs})
  /\ UNCHANGED <<nodes, contactIndex, contactsDb, rangesDb>>

\* Mutant: the events of the range stay in the timeline.
DeleteRanges_KeepEvents(xs) ==
  /\ rangeIndex' = rangeIndex \ xs
  /\ rangesDb' = rangesDb \ {x.range : x \in {y \in xs : y.asserted}}
  /\ Stamp({x.range : x \in xs})
  /\ UNCHANGED <<nodes, contactIndex, contactsDb, timeline>>

\* deleteRange, for every x in xs.
DeleteRanges(xs) ==
  /\ rangeIndex' = rangeIndex \ xs
  /\ rangesDb' = rangesDb \ {x.range : x \in {y \in xs : y.asserted}}
  /\ timeline' = timeline \ UNION {EventsOfRange(x) : x \in xs}
  /\ Stamp({x.range : x \in xs})
  /\ UNCHANGED <<nodes, contactIndex, contactsDb>>

\* Mutant: the imputed reverse range is forgotten.
RemoveRange_OneWay(from, to, start) ==
  /\ reverse = NoPair
  /\ DeleteRanges(RangesAt(<<from, to, start>>))
  /\ refused' = FALSE
  /\ UNCHANGED <<now, reverse>>

\* Mutant: the reverse range goes along, asserted or not.
RemoveRange_Unconditional(from, to, start) ==
  /\ reverse = NoPair
  /\ DeleteRanges(RangesAt(<<from, to, start>>)
                  \cup IF from > to THEN {} ELSE RangesAt(<<to, from, start>>))
  /\ refused' = FALSE
  /\ UNCHANGED <<now, reverse>>

\* A canonical removal takes the imputed reverse range along, and leaves an
\* asserted one (deleteRange with "conditional" set).
RemoveRange(from, to, start) ==
  /\ reverse = NoPair
  /\ DeleteRanges(RangesAt(<<from, to, start>>)
                  \cup IF from > to THEN {}
                       ELSE ImputedAt(<<to, from, start>>))
  /\ refused' = FALSE
  /\ UNCHANGED <<now, reverse>>

\* fromTime '*', first loop: every range of the pair, unconditionally.
RemoveAllRanges(from, to) ==
  /\ reverse = NoPair
  /\ DeleteRanges({x \in rangeIndex : x.range.fromNode = from
                                      /\ x.range.toNode = to})
  /\ reverse' = IF from > to THEN NoPair ELSE <<to, from>>
  /\ refused' = FALSE
  /\ UNCHANGED now

\* The ranges the second loop has left to visit, and the one it looks at.
ReverseRanges ==
  {x \in rangeIndex : <<x.range.fromNode, x.range.toNode>> = reverse}

ReverseFirst ==
  {x \in ReverseRanges :
     \A y \in ReverseRanges : x.range.fromTime <= y.range.fromTime}

\* fromTime '*', second loop, one pass: the first range of the reverse pair
\* is deleted if imputed and left where it is if asserted.
RemoveReverse ==
  /\ reverse # NoPair
  /\ ReverseRanges # {}
  /\ DeleteRanges({x \in ReverseFirst : ~x.asserted})
  /\ UNCHANGED <<now, reverse, refused>>

RemoveReverseDone ==
  /\ reverse # NoPair
  /\ ReverseRanges = {}
  /\ reverse' = NoPair
  /\ refused' = FALSE
  /\ UNCHANGED <<now, planVars>>

-----------------------------------------------------------------------------
(* The specification.                                                      *)

Tick ==
  /\ reverse = NoPair
  /\ now < MaxTime
  /\ now' = now + 1
  /\ refused' = FALSE
  /\ UNCHANGED <<planVars, reverse>>

Init ==
  /\ InitPlan
  /\ now = 0
  /\ reverse = NoPair
  /\ refused = FALSE

Next ==
  \/ Tick
  \/ \E c \in IonContact : InsertContact(c)
  \/ \E from, to \in Nodes, start \in Times : RemoveContact(from, to, start)
  \/ \E from, to \in Nodes : RemoveAllContacts(from, to)
  \/ \E r \in IonRange : InsertRange(r)
  \/ \E from, to \in Nodes, start \in Times : RemoveRange(from, to, start)
  \/ \E from, to \in Nodes : RemoveAllRanges(from, to)
  \/ RemoveReverse
  \/ RemoveReverseDone

Spec == Init /\ [][Next]_vars

\* The second loop runs on by itself once it is entered.
Fairness == WF_vars(RemoveReverse) /\ WF_vars(RemoveReverseDone)

FairSpec == Spec /\ Fairness

-----------------------------------------------------------------------------
(* Properties.                                                             *)

\* No two contacts of a pair of nodes overlap in time, although an insertion
\* is compared with two entries of the index only (rfx_insert_contact).
ContactsDoNotOverlap ==
  \A x, y \in contactIndex :
    x # y => Compatible(x.contact, y.contact)

Book == INSTANCE ContactBook WITH booked <- Contacts

\* The plan of contacts implements a book of reservations in which a contact
\* is entered only if it is disjoint from every other of its pair.
ContactsImplementBook == Book!Spec

\* A range has one entry in the index, asserted or imputed, whatever the
\* order in which both directions were asserted, overridden and removed.
RangeKeysUnique ==
  \A x, y \in rangeIndex : Key(x.range) = Key(y.range) => x = y

\* An imputed range is the mirror of an asserted canonical range with the
\* same times and the same light time; a wild-card removal in progress is
\* the one moment at which its canonical range may be gone (insertRXref,
\* rfx_remove_range).
ImputedMirrorsCanonical ==
  \A x \in rangeIndex :
    ~x.asserted =>
      /\ x.range.fromNode > x.range.toNode
      /\ \/ <<x.range.fromNode, x.range.toNode>> = reverse
         \/ \E y \in rangeIndex : y.asserted /\ y.range = Reversed(x.range)

\* The database lists hold every contact and every asserted range of the
\* indexes, so that rfx_start would load the whole plan; the list of ranges
\* holds nothing else (rfx_insert_*, deleteContact, deleteRange).
DbMatchesIndex ==
  /\ Contacts \subseteq contactsDb
  /\ rangesDb = {x.range : x \in {y \in rangeIndex : y.asserted}}

\* Every entry has its events in the timeline, and an event that no entry
\* accounts for is one of an imputed range that was overridden.
EventsMatchPlan ==
  LET due == UNION ({EventsOfContact(x) : x \in contactIndex}
                    \cup {EventsOfRange(x) : x \in rangeIndex})
  IN  due \subseteq timeline /\ \A e \in timeline \ due : e.type \in ImputedEvents

\* A step that adds or removes a contact that has not ended yet stamps the
\* plan with the current time, which is what makes cgr_forward drop its
\* routes.
ContactEditsAreStamped ==
  [][\A x \in (contactIndex \ contactIndex') \cup (contactIndex' \ contactIndex) :
       x.contact.toTime > now => lastEditTime' = now]_vars

\* Removing one direction of a pair never takes an asserted override of the
\* other direction along.
OverrideSurvivesRemoval ==
  [][\A x, y \in rangeIndex \ rangeIndex' :
       x.asserted /\ y.asserted => SamePair(x.range, y.range)]_vars

\* A wild-card removal of ranges comes to an end.
WildcardRemovalEnds == (reverse # NoPair) ~> (reverse = NoPair)
=============================================================================
