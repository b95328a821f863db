--------------------------- MODULE RouteCacheProofs ---------------------------
(***************************************************************************)
(* Proofs about RouteCache, for any nodes, contacts, addresses and times:  *)
(* the stamps and the notes in the one CgrVdb are enough to discard every  *)
(* list that does not follow its plan, but for edits in the second of a    *)
(* load.                                                                   *)
(***************************************************************************)
EXTENDS RouteCache, TLAPS

-----------------------------------------------------------------------------
(* The inductive invariant.                                                *)

ListsAreTyped ==
  /\ lists \in [Nodes -> [Termini -> (SUBSET Seq(IonCXref)) \cup {NoList}]]
  /\ tried \in [Nodes -> [Termini -> SUBSET Seq(IonCXref)]]
  /\ vdb \in [lastLoadTime : 0..MaxTime, routeLists : SUBSET (Nodes \X Termini)]

\* A simulation starts without lists and runs with all of its nodes.
StageInv ==
  /\ stage = "building" => lists = NoLists
  /\ stage = "running" => alive = Nodes
  /\ alive # Nodes => tried = Nothing

\* No stamp is ahead of the clock, which starts again with a simulation.
ClockInv ==
  /\ \A n \in alive : lastEditTime[n] <= now
  /\ alive # {} => vdb.lastLoadTime <= now

\* A list holds entries of the plan it was loaded from: what a later call
\* adds to it was in that plan too.
HopsFromBasis ==
  \A n \in Nodes \ late, t \in Termini :
    lists[n][t] # NoList =>
      \A h \in lists[n][t] : \A i \in DOMAIN h : h[i] \in basis[n][t]

CacheInv ==
  /\ TypeOK /\ ListsAreTyped /\ StageInv /\ ClockInv
  /\ ListsAreNoted /\ ListsFollowPlans /\ HopsFromBasis /\ HopsAreInPlan

-----------------------------------------------------------------------------
(* Routes and entries.                                                     *)

LEMMA EntryTypes ==
  ASSUME NEW x \in IonCXref
  PROVE  x.contact \in Contacts /\ x.contact.toTime \in Nat
BY ContactAssumption DEF IonCXref

LEMMA ChainFacts ==
  ASSUME TypeOK, NEW n \in Nodes, NEW t \in Termini, NEW h \in Chains(n, t)
  PROVE  /\ h \in Seq(IonCXref)
         /\ \A i \in DOMAIN h : h[i] \in plan[n] /\ h[i].contact.toTime > now
<1>1. PICK k \in 1..MaxHops : h \in [1..k -> plan[n]]
  BY DEF Chains
<1>2. k \in Nat /\ plan[n] \subseteq IonCXref
  BY BoundAssumption DEF TypeOK
<1>3. h \in Seq(IonCXref)
  BY <1>1, <1>2
<1>4. \A i \in DOMAIN h : h[i].contact.toTime > now
  BY DEF Chains, IsChain
<1>. QED
  BY <1>1, <1>3, <1>4

LEMMA NothingIsTyped ==
  /\ Nothing \in [Nodes -> [Termini -> SUBSET Seq(IonCXref)]]
  /\ Nothing \in [Nodes -> [Termini -> SUBSET IonCXref]]
  /\ NoLists \in [Nodes -> [Termini -> (SUBSET Seq(IonCXref)) \cup {NoList}]]
BY DEF Nothing, NoLists

LEMMA NothingTried ==
  ASSUME tried' = Nothing
  PROVE  HopsAreInPlan'
BY DEF HopsAreInPlan, Nothing

-----------------------------------------------------------------------------
(* Edits.  An edit of an entry that is still to end is stamped.            *)

LEMMA EditKeepsInv ==
  ASSUME CacheInv, NEW n \in alive, NEW c \in Contacts, NEW P \in SUBSET IonCXref,
         stage # "ending", plan' = [plan EXCEPT ![n] = P],
         c.toTime <= now => Unended(P) = Unended(plan[n]),
         Stamp(n, c), tried' = Nothing,
         UNCHANGED <<now, stage, alive, cacheVars>>
  PROVE  CacheInv'
<1>. USE DEF CacheInv, cacheVars
<1>1. n \in Nodes /\ c.toTime \in Nat /\ now \in 1..MaxTime /\ MaxTime \in Nat
  BY ContactAssumption, BoundAssumption DEF TypeOK
<1>2. lastEditTime' \in [Nodes -> 0..MaxTime] /\ late' \subseteq alive /\ late \subseteq late'
  BY <1>1 DEF Stamp, TypeOK
<1>3. \A m \in Nodes \ {n} :
        plan'[m] = plan[m] /\ lastEditTime'[m] = lastEditTime[m]
  BY <1>1 DEF Stamp, TypeOK
<1>4. plan' \in [Nodes -> SUBSET IonCXref] /\ plan'[n] = P
  BY <1>1 DEF TypeOK
<1>5. TypeOK'
  <2>1. \A m \in Nodes \ alive : plan'[m] = {}
    BY <1>3 DEF TypeOK
  <2>. QED
    BY <1>2, <1>4, <2>1 DEF TypeOK
<1>6. ListsAreTyped' /\ StageInv' /\ ListsAreNoted'
  BY NothingIsTyped DEF ListsAreTyped, StageInv, ListsAreNoted
<1>7. ClockInv'
  BY <1>1, <1>3 DEF ClockInv, Stamp, TypeOK
<1>8. ListsFollowPlans'
  <2>. SUFFICES ASSUME NEW m \in Nodes \ late', NEW t \in Termini,
                       lists[m][t] # NoList, ~Outdated(m)'
                PROVE  Unended(basis[m][t]) = Unended(plan'[m])
    BY DEF ListsFollowPlans, Unended
  <2>1. m \notin late /\ ~(lastEditTime'[m] > vdb.lastLoadTime)
    BY <1>2 DEF Outdated
  <2>2. CASE m # n
    BY <1>3, <2>1, <2>2 DEF ListsFollowPlans, Outdated
  <2>3. CASE m = n /\ c.toTime <= now
    <3>1. lastEditTime'[n] = lastEditTime[n]
      BY <1>1, <2>3 DEF Stamp, TypeOK
    <3>. QED
      BY <1>4, <2>1, <2>3, <3>1 DEF ListsFollowPlans, Outdated
  <2>4. CASE m = n /\ c.toTime > now
    <3>1. lastEditTime'[n] = now
      BY <1>1, <2>4 DEF Stamp, TypeOK
    <3>2. vdb.lastLoadTime <= now /\ vdb.lastLoadTime \in Nat
      BY DEF ClockInv, ListsAreTyped
    <3>3. JustLoaded(n)
      BY <1>1, <2>1, <2>4, <3>1, <3>2 DEF JustLoaded
    <3>. QED
      BY <2>4, <3>3 DEF Stamp
  <2>. QED
    BY <1>1, <2>2, <2>3, <2>4
<1>9. HopsFromBasis'
  BY <1>2 DEF HopsFromBasis
<1>. QED
  BY <1>5, <1>6, <1>7, <1>8, <1>9, NothingTried

LEMMA InsertContactKeepsInv ==
  ASSUME CacheInv, NEW n \in Nodes, NEW c \in Contacts, InsertContact(n, c)
  PROVE  CacheInv'
<1>1. PICK r \in Refs : plan' = [plan EXCEPT ![n] = @ \cup {[ref |-> r, contact |-> c]}]
  BY DEF InsertContact
<1>. DEFINE P == plan[n] \cup {[ref |-> r, contact |-> c]}
<1>2. P \in SUBSET IonCXref /\ plan' = [plan EXCEPT ![n] = P]
  BY <1>1 DEF CacheInv, TypeOK, IonCXref
<1>3. c.toTime <= now => Unended(P) = Unended(plan[n])
  BY ContactAssumption DEF Unended, CacheInv, TypeOK
<1>. QED
  BY <1>2, <1>3, EditKeepsInv DEF InsertContact

LEMMA RemoveContactKeepsInv ==
  ASSUME CacheInv, NEW n \in Nodes, NEW x \in plan[n], RemoveContact(n, x)
  PROVE  CacheInv'
<1>. DEFINE P == plan[n] \ {x}
<1>1. P \in SUBSET IonCXref /\ plan' = [plan EXCEPT ![n] = P] /\ x \in IonCXref
  BY DEF RemoveContact, CacheInv, TypeOK
<1>2. x.contact \in Contacts /\ x.contact.toTime \in Nat
  BY <1>1, EntryTypes
<1>3. x.contact.toTime <= now => Unended(P) = Unended(plan[n])
  BY <1>2 DEF Unended, CacheInv, TypeOK
<1>. QED
  BY <1>1, <1>2, <1>3, EditKeepsInv DEF RemoveContact
-----------------------------------------------------------------------------
(* cgr_forward.  After its check, the lists that are left are not outdated *)
(* for the node that calls, and are noted; or none is left.                *)

LEMMA KeptFacts ==
  ASSUME CacheInv, NEW n \in alive
  PROVE  /\ ListsKept(n) \in [Nodes -> [Termini -> (SUBSET Seq(IonCXref)) \cup {NoList}]]
         /\ VdbKept(n) \in [lastLoadTime : 0..MaxTime, routeLists : SUBSET (Nodes \X Termini)]
         /\ VdbKept(n).lastLoadTime <= now
         /\ Outdated(n) => \A m \in Nodes, t \in Termini : ListsKept(n)[m][t] = NoList
         /\ ~Outdated(n) => ListsKept(n) = lists /\ VdbKept(n) = vdb
<1>. USE DEF CacheInv
<1>1. now \in 0..MaxTime /\ vdb.lastLoadTime <= now
  BY BoundAssumption DEF TypeOK, ClockInv
<1>2. CASE Outdated(n)
  <2>1. \A m \in Nodes, t \in Termini : ListsKept(n)[m][t] = NoList
    BY <1>2 DEF ListsKept, Discard, ListsAreNoted
  <2>2. ListsKept(n) \in [Nodes -> [Termini -> (SUBSET Seq(IonCXref)) \cup {NoList}]]
    BY <1>2 DEF ListsKept, Discard, ListsAreTyped
  <2>. QED
    BY <1>1, <1>2, <2>1, <2>2 DEF VdbKept
<1>3. CASE ~Outdated(n)
  BY <1>1, <1>3 DEF ListsKept, VdbKept, ListsAreTyped
<1>. QED
  BY <1>2, <1>3

\* What a call leaves of the lists it does not use.
LEMMA OthersKeepInv ==
  ASSUME CacheInv, NEW n \in alive, NEW m \in Nodes, NEW t \in Termini,
         late' = (IF Outdated(n) THEN {} ELSE late),
         lists'[m][t] = ListsKept(n)[m][t], basis'[m][t] = basis[m][t],
         lists'[m][t] # NoList
  PROVE  /\ ~Outdated(n) /\ lists'[m][t] = lists[m][t] /\ late' = late
         /\ <<m, t>> \in vdb.routeLists
         /\ m \notin late =>
              /\ lastEditTime[m] <= vdb.lastLoadTime => Unended(basis[m][t]) = Unended(plan[m])
              /\ \A h \in lists[m][t] : \A i \in DOMAIN h : h[i] \in basis[m][t]
<1>1. ~Outdated(n) /\ lists'[m][t] = lists[m][t]
  BY KeptFacts
<1>2. late' = late
  BY <1>1
<1>3. lastEditTime[m] <= vdb.lastLoadTime => ~Outdated(m)
  BY DEF Outdated, CacheInv, TypeOK, ListsAreTyped
<1>. QED
  BY <1>1, <1>2, <1>3 DEF CacheInv, ListsAreNoted, ListsFollowPlans, HopsFromBasis
\* The list that a call uses follows the plan, and so do the hops it reads.
LEMMA UsedListFacts ==
  ASSUME CacheInv, NEW n \in alive, NEW t \in Termini,
         NEW routes \in (SUBSET Chains(n, t)) \cup ({lists[n][t]} \ {NoList}),
         Load(n, t, routes) \/ Reuse(n, t, routes),
         WalkList(n, t, routes),
         late' = (IF Outdated(n) THEN {} ELSE late)
  PROVE  /\ lists'[n][t] \in SUBSET Seq(IonCXref)
         /\ tried' \in [Nodes -> [Termini -> SUBSET Seq(IonCXref)]]
         /\ \A m \in Nodes, s \in Termini :
              <<m, s>> # <<n, t>> =>
                /\ lists'[m][s] = ListsKept(n)[m][s] /\ basis'[m][s] = basis[m][s]
                /\ tried'[m][s] = {}
         /\ lists' \in [Nodes -> [Termini -> (SUBSET Seq(IonCXref)) \cup {NoList}]]
         /\ basis' \in [Nodes -> [Termini -> SUBSET IonCXref]]
         /\ vdb' \in [lastLoadTime : 0..MaxTime, routeLists : SUBSET (Nodes \X Termini)]
         /\ <<n, t>> \in vdb'.routeLists
         /\ vdb'.lastLoadTime = VdbKept(n).lastLoadTime
         /\ VdbKept(n).routeLists \subseteq vdb'.routeLists
         /\ n \notin late' =>
              /\ Unended(basis'[n][t]) = Unended(plan[n])
              /\ \A h \in lists'[n][t] : \A i \in DOMAIN h : h[i] \in basis'[n][t]
              /\ \A h \in tried'[n][t] : \A i \in DOMAIN h :
                   h[i] \in plan[n] \/ h[i].contact.toTime = now
<1>. USE DEF CacheInv
<1>1. /\ n \in Nodes /\ now \in Nat
      /\ plan \in [Nodes -> SUBSET IonCXref]
      /\ basis \in [Nodes -> [Termini -> SUBSET IonCXref]]
  BY BoundAssumption DEF TypeOK
<1>2. PICK seen \in SUBSET routes, found \in SUBSET Chains(n, t) :
        /\ lists' = [ListsKept(n) EXCEPT ![n][t] =
                       (routes \ {h \in seen : Ended(h)}) \cup found]
        /\ tried' = [Nothing EXCEPT ![n][t] =
                       {h \in (seen \ {h \in seen : Ended(h)}) \cup found : HopsRead(n, h)}]
  BY DEF WalkList
<1>. DEFINE kept == routes \ {h \in seen : Ended(h)}
            read == {h \in (seen \ {h \in seen : Ended(h)}) \cup found : HopsRead(n, h)}
<1>3. /\ lists' \in [Nodes -> [Termini -> (SUBSET Seq(IonCXref)) \cup {NoList, kept \cup found}]]
      /\ lists'[n][t] = kept \cup found
      /\ tried'[n][t] = read
      /\ \A m \in Nodes, s \in Termini :
           <<m, s>> # <<n, t>> =>
             lists'[m][s] = ListsKept(n)[m][s] /\ tried'[m][s] = {}
  BY <1>1, <1>2, KeptFacts, NothingIsTyped DEF Nothing
<1>4. \A h \in Chains(n, t) :
        /\ h \in Seq(IonCXref)
        /\ \A i \in DOMAIN h : h[i] \in plan[n] /\ h[i].contact.toTime > now
  BY <1>1, ChainFacts
<1>5. routes \in SUBSET Seq(IonCXref)
  BY <1>1, <1>4 DEF ListsAreTyped
<1>6. kept \cup found \in SUBSET Seq(IonCXref) /\ read \in SUBSET Seq(IonCXref)
  BY <1>4, <1>5
<1>7. tried' \in [Nodes -> [Termini -> SUBSET Seq(IonCXref)]]
  BY <1>1, <1>2, <1>6, NothingIsTyped
<1>8. lists' \in [Nodes -> [Termini -> (SUBSET Seq(IonCXref)) \cup {NoList}]]
  BY <1>3, <1>6
<1>9. CASE Load(n, t, routes)
  <2>1. routes \subseteq Chains(n, t)
    BY <1>9 DEF Load
  <2>2. /\ basis' \in [Nodes -> [Termini -> SUBSET IonCXref]]
        /\ basis'[n][t] = plan[n]
        /\ \A m \in Nodes, s \in Termini :
             <<m, s>> # <<n, t>> => basis'[m][s] = basis[m][s]
    BY <1>1, <1>9 DEF Load
  <2>3. /\ vdb' \in [lastLoadTime : 0..MaxTime, routeLists : SUBSET (Nodes \X Termini)]
        /\ <<n, t>> \in vdb'.routeLists
        /\ vdb'.lastLoadTime = VdbKept(n).lastLoadTime
        /\ VdbKept(n).routeLists \subseteq vdb'.routeLists
    <3>1. /\ VdbKept(n) \in [lastLoadTime : 0..MaxTime, routeLists : SUBSET (Nodes \X Termini)]
          /\ vdb' = [VdbKept(n) EXCEPT !.routeLists = @ \cup {<<n, t>>}]
      BY <1>9, KeptFacts DEF Load
    <3>. HIDE DEF CacheInv
    <3>. QED
      BY <1>1, <3>1
  <2>4. /\ \A h \in kept \cup found : \A i \in DOMAIN h : h[i] \in plan[n]
        /\ \A h \in read : \A i \in DOMAIN h : h[i] \in plan[n]
    BY <1>4, <2>1
  <2>. QED
    BY <1>3, <1>6, <1>7, <1>8, <2>2, <2>3, <2>4
<1>10. CASE Reuse(n, t, routes)
  <2>1. /\ ~Outdated(n) /\ routes = lists[n][t] /\ lists[n][t] # NoList
        /\ vdb' = vdb /\ basis' = basis /\ late' = late
        /\ VdbKept(n) = vdb
    BY <1>1, <1>10, KeptFacts DEF Reuse
  <2>2. <<n, t>> \in vdb'.routeLists
    BY <1>1, <2>1 DEF ListsAreNoted
  <2>3. vdb' \in [lastLoadTime : 0..MaxTime, routeLists : SUBSET (Nodes \X Termini)]
    BY <2>1 DEF ListsAreTyped
  <2>4. ASSUME n \notin late
        PROVE  /\ Unended(basis[n][t]) = Unended(plan[n])
               /\ \A h \in routes : \A i \in DOMAIN h : h[i] \in basis[n][t]
    BY <1>1, <2>1, <2>4 DEF ListsFollowPlans, HopsFromBasis
  <2>5. ASSUME n \notin late, NEW h \in found, NEW i \in DOMAIN h
        PROVE  h[i] \in basis[n][t] /\ h[i] \in plan[n]
    BY <1>4, <2>4, <2>5 DEF Unended
  <2>6. ASSUME n \notin late, NEW h \in seen, ~Ended(h), NEW i \in DOMAIN h
        PROVE  h[i] \in plan[n] \/ h[i].contact.toTime = now
    <3>1. h[i] \in basis[n][t] /\ h[i].contact.toTime \in Nat
      BY <1>1, <2>4, <2>6, EntryTypes
    <3>2. ~(h[i].contact.toTime < now) /\ now \in Nat
      BY <1>1, <2>6 DEF Ended
    <3>3. CASE h[i].contact.toTime > now
      <4>1. h[i] \in Unended(basis[n][t])
        BY <3>1, <3>3 DEF Unended
      <4>2. h[i] \in Unended(plan[n])
        BY <2>4, <2>6, <4>1
      <4>. QED
        BY <4>2 DEF Unended
    <3>. HIDE DEF CacheInv
    <3>. QED
      BY <3>1, <3>2, <3>3
  <2>7. n \notin late =>
          /\ \A h \in kept \cup found : \A i \in DOMAIN h : h[i] \in basis[n][t]
          /\ \A h \in read : \A i \in DOMAIN h :
               h[i] \in plan[n] \/ h[i].contact.toTime = now
    BY <2>4, <2>5, <2>6
  <2>. QED
    BY <1>1, <1>3, <1>6, <1>7, <1>8, <2>1, <2>2, <2>3, <2>4, <2>7
<1>. QED
  BY <1>9, <1>10
\* What a call by n leaves as it was, and what it has loaded or reused.
Untouched(n, m, s) ==
  /\ lists'[m][s] = ListsKept(n)[m][s] /\ basis'[m][s] = basis[m][s]
  /\ tried'[m][s] = {}

Follows(m, s) ==
  /\ <<m, s>> \in vdb'.routeLists
  /\ m \notin late' =>
       /\ Unended(basis'[m][s]) = Unended(plan[m])
       /\ \A h \in lists'[m][s] : \A i \in DOMAIN h : h[i] \in basis'[m][s]
       /\ \A h \in tried'[m][s] : \A i \in DOMAIN h :
            h[i] \in plan[m] \/ h[i].contact.toTime = now

LEMMA ForwardFacts ==
  ASSUME CacheInv, NEW n \in alive, NEW t \in Termini, Forward(n, t)
  PROVE  /\ lists' \in [Nodes -> [Termini -> (SUBSET Seq(IonCXref)) \cup {NoList}]]
         /\ basis' \in [Nodes -> [Termini -> SUBSET IonCXref]]
         /\ vdb' \in [lastLoadTime : 0..MaxTime, routeLists : SUBSET (Nodes \X Termini)]
         /\ tried' \in [Nodes -> [Termini -> SUBSET Seq(IonCXref)]]
         /\ vdb'.lastLoadTime = VdbKept(n).lastLoadTime
         /\ VdbKept(n).routeLists \subseteq vdb'.routeLists
         /\ late' = (IF Outdated(n) THEN {} ELSE late)
         /\ \A m \in Nodes, s \in Termini : Untouched(n, m, s) \/ Follows(m, s)
<1>1. late' = (IF Outdated(n) THEN {} ELSE late)
  BY DEF Forward
<1>2. CASE ForwardUnknown(n, t)
  <2>1. \A m \in Nodes, s \in Termini : Untouched(n, m, s)
    BY <1>2 DEF ForwardUnknown, Nothing, Untouched
  <2>2. basis' \in [Nodes -> [Termini -> SUBSET IonCXref]]
    BY <1>2 DEF ForwardUnknown, CacheInv, TypeOK
  <2>. QED
    BY <1>1, <1>2, <2>1, <2>2, KeptFacts, NothingIsTyped DEF ForwardUnknown
<1>3. CASE ForwardKnown(n, t)
  <2>1. PICK routes \in (SUBSET Chains(n, t)) \cup ({lists[n][t]} \ {NoList}) :
          /\ Load(n, t, routes) \/ Reuse(n, t, routes)
          /\ WalkList(n, t, routes)
    BY <1>3 DEF ForwardKnown
  <2>2. /\ tried' \in [Nodes -> [Termini -> SUBSET Seq(IonCXref)]]
        /\ lists' \in [Nodes -> [Termini -> (SUBSET Seq(IonCXref)) \cup {NoList}]]
        /\ basis' \in [Nodes -> [Termini -> SUBSET IonCXref]]
        /\ vdb' \in [lastLoadTime : 0..MaxTime, routeLists : SUBSET (Nodes \X Termini)]
        /\ vdb'.lastLoadTime = VdbKept(n).lastLoadTime
        /\ VdbKept(n).routeLists \subseteq vdb'.routeLists
    BY <1>1, <2>1, UsedListFacts
  <2>3. \A m \in Nodes, s \in Termini : <<m, s>> # <<n, t>> => Untouched(n, m, s)
    BY <1>1, <2>1, UsedListFacts DEF Untouched
  <2>4. Follows(n, t)
    BY <1>1, <2>1, UsedListFacts DEF Follows
  <2>5. \A m \in Nodes, s \in Termini : Untouched(n, m, s) \/ Follows(m, s)
    BY <2>3, <2>4
  <2>. QED
    BY <1>1, <2>2, <2>5
<1>. QED
  BY <1>2, <1>3 DEF Forward

LEMMA ForwardKeepsInv ==
  ASSUME CacheInv, NEW n \in Nodes, NEW t \in Termini, Forward(n, t)
  PROVE  CacheInv'
<1>1. /\ n \in alive /\ stage = "running" /\ alive = Nodes
      /\ UNCHANGED <<now, stage, alive, plan, known, lastEditTime>>
  BY DEF Forward, planVars, CacheInv, StageInv
<1>2. /\ lists' \in [Nodes -> [Termini -> (SUBSET Seq(IonCXref)) \cup {NoList}]]
      /\ basis' \in [Nodes -> [Termini -> SUBSET IonCXref]]
      /\ vdb' \in [lastLoadTime : 0..MaxTime, routeLists : SUBSET (Nodes \X Termini)]
      /\ tried' \in [Nodes -> [Termini -> SUBSET Seq(IonCXref)]]
      /\ vdb'.lastLoadTime = VdbKept(n).lastLoadTime
      /\ VdbKept(n).routeLists \subseteq vdb'.routeLists
      /\ late' = (IF Outdated(n) THEN {} ELSE late)
  BY <1>1, ForwardFacts
<1>3. \A m \in Nodes, s \in Termini : Untouched(n, m, s) \/ Follows(m, s)
  BY <1>1, ForwardFacts
<1>4. TypeOK'
  <2>1. late' \subseteq alive
    BY <1>1, <1>2 DEF CacheInv, TypeOK
  <2>. QED
    BY <1>1, <1>2, <2>1 DEF CacheInv, TypeOK
<1>5. ListsAreTyped' /\ StageInv'
  BY <1>1, <1>2 DEF CacheInv, ListsAreTyped, StageInv
<1>6. ClockInv'
  BY <1>1, <1>2, KeptFacts DEF CacheInv, ClockInv
<1>7. ASSUME NEW m \in Nodes, NEW s \in Termini, Untouched(n, m, s),
             lists'[m][s] # NoList
      PROVE  /\ <<m, s>> \in vdb'.routeLists
             /\ m \notin late' =>
                  /\ lastEditTime[m] <= vdb'.lastLoadTime =>
                       Unended(basis'[m][s]) = Unended(plan[m])
                  /\ \A h \in lists'[m][s] : \A i \in DOMAIN h : h[i] \in basis'[m][s]
  <2>1. lists'[m][s] = ListsKept(n)[m][s] /\ basis'[m][s] = basis[m][s]
    BY <1>7 DEF Untouched
  <2>2. /\ ~Outdated(n) /\ lists'[m][s] = lists[m][s] /\ late' = late
        /\ <<m, s>> \in vdb.routeLists
        /\ m \notin late =>
             /\ lastEditTime[m] <= vdb.lastLoadTime => Unended(basis[m][s]) = Unended(plan[m])
             /\ \A h \in lists[m][s] : \A i \in DOMAIN h : h[i] \in basis[m][s]
    BY <1>1, <1>2, <1>7, <2>1, OthersKeepInv
  <2>3. VdbKept(n) = vdb
    BY <1>1, <2>2, KeptFacts
  <2>. QED
    BY <1>2, <2>1, <2>2, <2>3
<1>8. ListsAreNoted'
  BY <1>3, <1>7 DEF ListsAreNoted, Follows
<1>9. ListsFollowPlans'
  <2>. SUFFICES ASSUME NEW m \in Nodes \ late', NEW s \in Termini,
                       lists'[m][s] # NoList, ~Outdated(m)'
                PROVE  Unended(basis'[m][s]) = Unended(plan[m])
    BY <1>1 DEF ListsFollowPlans, Unended
  <2>1. lastEditTime[m] <= vdb'.lastLoadTime
    BY <1>1, <1>2 DEF Outdated, CacheInv, TypeOK
  <2>2. CASE Untouched(n, m, s)
    BY <1>7, <2>1, <2>2
  <2>3. CASE Follows(m, s)
    BY <2>3 DEF Follows
  <2>. QED
    BY <1>3, <2>2, <2>3
<1>10. HopsFromBasis'
  <2>. SUFFICES ASSUME NEW m \in Nodes \ late', NEW s \in Termini,
                       lists'[m][s] # NoList
                PROVE  \A h \in lists'[m][s] : \A i \in DOMAIN h : h[i] \in basis'[m][s]
    BY DEF HopsFromBasis
  <2>1. CASE Untouched(n, m, s)
    BY <1>7, <2>1
  <2>2. CASE Follows(m, s)
    BY <2>2 DEF Follows
  <2>. QED
    BY <1>3, <2>1, <2>2
<1>11. HopsAreInPlan'
  <2>. SUFFICES ASSUME NEW m \in Nodes \ late', NEW s \in Termini
                PROVE  \A h \in tried'[m][s] : \A i \in DOMAIN h :
                         h[i] \in plan[m] \/ h[i].contact.toTime = now
    BY <1>1 DEF HopsAreInPlan
  <2>1. CASE Untouched(n, m, s)
    BY <2>1 DEF Untouched
  <2>2. CASE Follows(m, s)
    BY <2>2 DEF Follows
  <2>. QED
    BY <1>3, <2>1, <2>2
<1>. QED
  BY <1>4, <1>5, <1>6, <1>8, <1>9, <1>10, <1>11 DEF CacheInv
-----------------------------------------------------------------------------
(* The life of nodes, and time.                                            *)

LEMMA NoListsNoClaims ==
  ASSUME lists' = NoLists, tried' = Nothing
  PROVE  ListsAreNoted' /\ ListsFollowPlans' /\ HopsFromBasis' /\ HopsAreInPlan'
BY NothingTried DEF NoLists, ListsAreNoted, ListsFollowPlans, HopsFromBasis

LEMMA InitializeKeepsInv ==
  ASSUME CacheInv, NEW n \in Nodes, Initialize(n)
  PROVE  CacheInv'
<1>. USE DEF CacheInv, Initialize
<1>1. lists' = NoLists
  BY DEF StageInv
<1>2. TypeOK'
  <2>1. 0 \in 0..MaxTime
    BY BoundAssumption
  <2>2. /\ plan' \in [Nodes -> SUBSET IonCXref]
        /\ \A m \in Nodes \ alive' : plan'[m] = {}
    BY DEF TypeOK
  <2>3. lastEditTime' \in [Nodes -> 0..MaxTime] /\ vdb'.lastLoadTime \in 0..MaxTime
        /\ vdb'.routeLists \subseteq Nodes \X Termini
    BY <2>1 DEF TypeOK, NewVdb
  <2>4. \A m \in Nodes, t \in Termini : lists'[m][t] = NoList
    BY <1>1 DEF NoLists
  <2>5. alive' \subseteq Nodes /\ late' \subseteq alive' /\ basis' = basis
        /\ now' = now /\ stage' = stage
    BY DEF TypeOK
  <2>. QED
    BY <2>2, <2>3, <2>4, <2>5 DEF TypeOK
<1>3. ListsAreTyped'
  BY <1>1, NothingIsTyped, BoundAssumption DEF ListsAreTyped, NewVdb
<1>4. StageInv'
  BY <1>1 DEF StageInv
<1>5. ClockInv'
  BY DEF ClockInv, TypeOK, NewVdb
<1>. QED
  BY <1>1, <1>2, <1>3, <1>4, <1>5, NoListsNoClaims

LEMMA FinalizeKeepsInv ==
  ASSUME CacheInv, NEW n \in Nodes, Finalize(n)
  PROVE  CacheInv'
<1>. USE DEF CacheInv, Finalize
<1>1. /\ \A m \in Nodes \ {n} : lists'[m] = lists[m] /\ basis'[m] = basis[m] /\ plan'[m] = plan[m]
      /\ \A t \in Termini : lists'[n][t] = NoList
  BY DEF TypeOK, ListsAreTyped, NoLists
<1>2. TypeOK'
  <2>1. /\ plan' \in [Nodes -> SUBSET IonCXref]
        /\ \A m \in Nodes \ alive' : plan'[m] = {}
    BY DEF TypeOK
  <2>2. basis' \in [Nodes -> [Termini -> SUBSET IonCXref]]
    BY NothingIsTyped DEF TypeOK
  <2>3. alive' \subseteq Nodes /\ late' \subseteq alive'
    BY DEF TypeOK
  <2>4. \A m \in Nodes, t \in Termini :
          lists'[m][t] # NoList => m \in alive' /\ lists'[m][t] \subseteq Seq(IonCXref)
    BY <1>1 DEF TypeOK
  <2>5. /\ now' = now /\ stage' = stage /\ lastEditTime' = lastEditTime /\ vdb' = vdb
    OBVIOUS
  <2>. QED
    BY <2>1, <2>2, <2>3, <2>4, <2>5 DEF TypeOK
<1>3. ListsAreTyped'
  BY NothingIsTyped DEF ListsAreTyped
<1>4. StageInv' /\ ClockInv'
  BY DEF StageInv, ClockInv
<1>5. ListsAreNoted'
  BY <1>1 DEF ListsAreNoted
<1>6. ListsFollowPlans'
  <2>. SUFFICES ASSUME NEW m \in Nodes \ late', NEW t \in Termini,
                       lists'[m][t] # NoList, ~Outdated(m)'
                PROVE  Unended(basis'[m][t]) = Unended(plan'[m])
    BY DEF ListsFollowPlans, Unended
  <2>1. m # n /\ lists'[m] = lists[m] /\ basis'[m] = basis[m] /\ plan'[m] = plan[m]
    BY <1>1
  <2>2. m \notin late /\ ~Outdated(m)
    BY <2>1 DEF Outdated
  <2>. QED
    BY <2>1, <2>2 DEF ListsFollowPlans
<1>7. HopsFromBasis'
  <2>. SUFFICES ASSUME NEW m \in Nodes \ late', NEW t \in Termini,
                       lists'[m][t] # NoList
                PROVE  \A h \in lists'[m][t] : \A i \in DOMAIN h : h[i] \in basis'[m][t]
    BY DEF HopsFromBasis
  <2>1. m # n /\ lists'[m] = lists[m] /\ basis'[m] = basis[m] /\ m \notin late
    BY <1>1
  <2>. QED
    BY <2>1 DEF HopsFromBasis
<1>. QED
  BY <1>2, <1>3, <1>4, <1>5, <1>6, <1>7, NothingTried

\* Run and End; Restart has no node and so no list and no hop.
LEMMA StageKeepsInv ==
  ASSUME CacheInv, Run \/ End \/ Restart
  PROVE  CacheInv'
<1>. USE DEF CacheInv, planVars, cacheVars
<1>1. CASE Run \/ End
  <2>1. /\ UNCHANGED <<now, alive, plan, known, lastEditTime, vdb, lists, basis, tried, late>>
        /\ (stage' = "running" /\ alive = Nodes) \/ stage' = "ending"
    BY <1>1 DEF Run, End
  <2>2. TypeOK' /\ ListsAreTyped' /\ StageInv' /\ ClockInv'
    BY <2>1 DEF TypeOK, ListsAreTyped, StageInv, ClockInv
  <2>3. ListsAreNoted' /\ ListsFollowPlans' /\ HopsFromBasis' /\ HopsAreInPlan'
    BY <2>1 DEF ListsAreNoted, ListsFollowPlans, HopsFromBasis, HopsAreInPlan, Unended, Outdated
  <2>. QED
    BY <2>2, <2>3
<1>2. CASE Restart
  <2>1. /\ UNCHANGED <<alive, plan, known, lastEditTime, vdb, lists, basis, tried, late>>
        /\ stage' = "building" /\ alive = {} /\ now' = 1
    BY <1>2 DEF Restart
  <2>2. \A n \in Nodes, t \in Termini : lists[n][t] = NoList
    BY <2>1 DEF TypeOK
  <2>3. lists = NoLists
    BY <2>2 DEF NoLists, ListsAreTyped
  <2>4. TypeOK' /\ ListsAreTyped' /\ StageInv' /\ ClockInv'
    BY <2>1, <2>3, BoundAssumption DEF TypeOK, ListsAreTyped, StageInv, ClockInv
  <2>5. ListsAreNoted' /\ ListsFollowPlans' /\ HopsFromBasis'
    BY <2>1, <2>2 DEF ListsAreNoted, ListsFollowPlans, HopsFromBasis
  <2>6. HopsAreInPlan'
    <3>1. CASE Nodes = {}
      BY <3>1 DEF HopsAreInPlan
    <3>2. CASE Nodes # {}
      BY <2>1, <3>2, NothingTried DEF StageInv
    <3>. QED
      BY <3>1, <3>2
  <2>. QED
    BY <2>4, <2>5, <2>6
<1>. QED
  BY <1>1, <1>2

LEMMA TickKeepsInv ==
  ASSUME CacheInv, Tick
  PROVE  CacheInv'
<1>. USE DEF CacheInv, Tick, planVars, cacheVars
<1>1. TypeOK' /\ ListsAreTyped'
  <2>1. now' \in 1..MaxTime
    BY BoundAssumption DEF TypeOK
  <2>. QED
    BY <2>1, NothingIsTyped DEF TypeOK, ListsAreTyped
<1>2. StageInv' /\ ClockInv'
  BY DEF StageInv, ClockInv, TypeOK, ListsAreTyped
<1>3. ListsAreNoted' /\ HopsFromBasis'
  BY DEF ListsAreNoted, HopsFromBasis
<1>4. ListsFollowPlans'
  <2>. SUFFICES ASSUME NEW n \in Nodes \ late, NEW t \in Termini,
                       lists[n][t] # NoList, ~Outdated(n)
                PROVE  {x \in basis[n][t] : x.contact.toTime > now'}
                         = {x \in plan[n] : x.contact.toTime > now'}
    BY DEF ListsFollowPlans, Unended, Outdated
  <2>1. Unended(basis[n][t]) = Unended(plan[n])
    BY DEF ListsFollowPlans
  <2>2. \A x \in IonCXref : x.contact.toTime > now' => x.contact.toTime > now
    BY EntryTypes, BoundAssumption DEF TypeOK
  <2>3. basis[n][t] \subseteq IonCXref /\ plan[n] \subseteq IonCXref
    BY DEF TypeOK
  <2>. QED
    BY <2>1, <2>2, <2>3 DEF Unended
<1>. QED
  BY <1>1, <1>2, <1>3, <1>4, NothingTried
-----------------------------------------------------------------------------
(* The theorems.                                                           *)

LEMMA CacheInvariant == Spec => []CacheInv
<1>1. Init => CacheInv
  <2>. SUFFICES ASSUME Init PROVE CacheInv
    OBVIOUS
  <2>1. TypeOK
    <3>1. 1 \in 1..MaxTime /\ 0 \in 0..MaxTime
      BY BoundAssumption
    <3>2. \A n \in Nodes, t \in Termini : lists[n][t] = NoList
      BY DEF Init, NoLists
    <3>. QED
      BY <3>1, <3>2, NothingIsTyped DEF Init, TypeOK, NewVdb
  <2>2. ListsAreTyped
    BY NothingIsTyped, BoundAssumption DEF Init, ListsAreTyped, NewVdb
  <2>3. StageInv /\ ClockInv
    BY DEF Init, StageInv, ClockInv
  <2>4. ListsAreNoted /\ ListsFollowPlans /\ HopsFromBasis
    BY DEF Init, NoLists, ListsAreNoted, ListsFollowPlans, HopsFromBasis
  <2>5. HopsAreInPlan
    BY DEF Init, Nothing, HopsAreInPlan
  <2>. QED
    BY <2>1, <2>2, <2>3, <2>4, <2>5 DEF CacheInv
<1>2. CacheInv /\ [Next]_vars => CacheInv'
  <2>. SUFFICES ASSUME CacheInv, [Next]_vars
                PROVE  CacheInv'
    OBVIOUS
  <2>1. ASSUME NEW n \in Nodes, NEW c \in Contacts, InsertContact(n, c)
        PROVE  CacheInv'
    BY <2>1, InsertContactKeepsInv
  <2>2. ASSUME NEW n \in Nodes, NEW x \in plan[n], RemoveContact(n, x)
        PROVE  CacheInv'
    BY <2>2, RemoveContactKeepsInv
  <2>3. ASSUME NEW n \in Nodes, NEW t \in Termini, Forward(n, t)
        PROVE  CacheInv'
    BY <2>3, ForwardKeepsInv
  <2>4. ASSUME NEW n \in Nodes, Initialize(n)
        PROVE  CacheInv'
    BY <2>4, InitializeKeepsInv
  <2>5. ASSUME NEW n \in Nodes, Finalize(n)
        PROVE  CacheInv'
    BY <2>5, FinalizeKeepsInv
  <2>6. CASE Run \/ End \/ Restart
    BY <2>6, StageKeepsInv
  <2>7. CASE Tick
    BY <2>7, TickKeepsInv
  <2>8. CASE UNCHANGED vars
    BY <2>8 DEF vars, planVars, cacheVars, CacheInv, TypeOK, ListsAreTyped,
      StageInv, ClockInv, ListsAreNoted, ListsFollowPlans, HopsFromBasis,
      HopsAreInPlan, Unended, Outdated
  <2>. QED
    BY <2>1, <2>2, <2>3, <2>4, <2>5, <2>6, <2>7, <2>8 DEF Next
<1>. QED
  BY <1>1, <1>2, PTL DEF Spec

\* The variables keep their types.
THEOREM CacheTypeCorrect == Spec => []TypeOK
<1>1. CacheInv => TypeOK
  BY DEF CacheInv
<1>. QED
  BY <1>1, CacheInvariant, PTL

\* Every list that exists is noted in the CgrVdb in use, through any number of
\* simulations: an edit by any node discards it.
THEOREM ListsStayNoted == Spec => []ListsAreNoted
<1>1. CacheInv => ListsAreNoted
  BY DEF CacheInv
<1>. QED
  BY <1>1, CacheInvariant, PTL

\* A list that the next call would use was loaded from a plan with the same
\* contacts still to end, but for edits in the second of the load.
THEOREM ListsStayCurrent == Spec => []ListsFollowPlans
<1>1. CacheInv => ListsFollowPlans
  BY DEF CacheInv
<1>. QED
  BY <1>1, CacheInvariant, PTL

\* No hop that computeArrivalTime reads is an entry that was removed, but
\* where it ends now or the edit was in the second of the load.
THEOREM HopsStayInPlan == Spec => []HopsAreInPlan
<1>1. CacheInv => HopsAreInPlan
  BY DEF CacheInv
<1>. QED
  BY <1>1, CacheInvariant, PTL
===============================================================================
