------------------------------ MODULE RouteCache ------------------------------
(***************************************************************************)
(* The route lists that the nodes of one process keep between two calls of *)
(* cgr_forward, and what makes them follow the contact plans: the node's   *)
(* lastEditTime, and the CgrVdb of bp/cgr/libcgr.c with its lastLoadTime   *)
(* and its list of route lists.  Each node has a partition, a plan and its *)
(* own lists; the pointer to the CgrVdb is one static variable for all of  *)
(* them.                                                                   *)
(*                                                                         *)
(* A plan is edited as in ContactPlan, a list is filled and walked as in   *)
(* RouteList.  Here an edit is one contact, and a search may find any of   *)
(* the chains of contacts that are still open: which it finds, and in      *)
(* which order, does not matter to the question whether a list is stale.   *)
(* A hop is the address of an index entry and is only as good as the entry *)
(* found there.                                                            *)
(***************************************************************************)
EXTENDS PlanOrder, Sequences, FiniteSets

CONSTANTS
  Nodes,      \* the nodes of the process
  Termini,    \* nodes to which bundles are addressed
  Contacts,   \* contacts that may be inserted
  Refs,       \* addresses of index entries
  MaxTime,    \* bound on the clock
  MaxHops,    \* bound on the length of a route
  NoList      \* terminusNode->routingObject = 0

ASSUME NodesAssumption == Nodes \subseteq Nat \ {0} /\ Termini \subseteq Nat \ {0}
ASSUME BoundAssumption == MaxTime \in Nat \ {0} /\ MaxHops \in Nat
ASSUME ContactAssumption ==
  \A c \in Contacts :
    /\ DOMAIN c = {"fromNode", "toNode", "fromTime", "toTime"}
    /\ c.fromTime \in Nat \ {0} /\ c.toTime \in Nat /\ c.fromTime < c.toTime

VARIABLES
  now,           \* getUTCTime()
  stage,         \* what the simulator is doing: building, running, ending
  alive,         \* the nodes that are initialized
  plan,          \* per node, vdb->contactIndex
  known,         \* per node, vdb->nodes
  lastEditTime,  \* per node
  vdb,           \* the CgrVdb the static pointer of _cgrvdb points to
  lists,         \* per node and terminus, the routes in the list, or NoList
  basis,         \* history: the plan each list was loaded from
  tried,         \* history: routes whose hops the last call has read
  late           \* history: nodes with an edit that goes unnoticed, as it came
                 \* in the second in which their lists were loaded

planVars == <<plan, known, lastEditTime>>
cacheVars == <<vdb, lists, basis>>
vars == <<now, stage, alive, planVars, cacheVars, tried, late>>

IonCXref == [ref : Refs, contact : Contacts]
NoLists == [n \in Nodes |-> [t \in Termini |-> NoList]]
Nothing == [n \in Nodes |-> [t \in Termini |-> {}]]

-----------------------------------------------------------------------------
(* Routes: sequences of index entries.                                     *)

Unended(S) == {x \in S : x.contact.toTime > now}

IsChain(n, t, h) ==
  LET c(i) == h[i].contact
  IN  /\ c(1).fromNode = n /\ c(Len(h)).toNode = t
      /\ \A i \in 1..(Len(h) - 1) : c(i).toNode = c(i + 1).fromNode
      /\ \A j \in DOMAIN h : /\ c(j).toTime > now
                             /\ \A i \in 1..j : c(j).toTime > c(i).fromTime

\* What a search for routes from n to t may find now.
Chains(n, t) ==
  {h \in UNION {[1..k -> plan[n]] : k \in 1..MaxHops} : IsChain(n, t, h)}

\* Mutant: ended routes stay in the list.
Ended_Never(h) == h = <<>>

\* route->toTime < currentTime.
Ended(h) == \E i \in DOMAIN h : h[i].contact.toTime < now

\* The index entries at the key of the lead contact of route h.  The route
\* keeps that key itself.
LeadEntries(n, h) == {x \in plan[n] : Key(x.contact) = Key(h[1].contact)}

\* computeArrivalTime scans the contacts with the neighbor.  It gives up when
\* it meets an entry beyond the place of the lead contact; it goes on to read
\* the hops when it meets the lead contact, and when it runs off the index.
HopsRead(n, h) ==
  \/ \E x \in LeadEntries(n, h) : x.contact.toTime >= now
  \/ ~\E x \in plan[n] : Before(Key(h[1].contact), Key(x.contact))

-----------------------------------------------------------------------------
(* Edits of a plan, by ionadmin.                                           *)

\* An edit of the plan of n now has the time of the last load: the lists stay.
JustLoaded(n) ==
  now = vdb.lastLoadTime /\ \E t \in Termini : lists[n][t] # NoList

Stamp(n, c) ==
  /\ lastEditTime' = [lastEditTime EXCEPT ![n] = IF c.toTime > now THEN now ELSE @]
  /\ late' = IF JustLoaded(n) /\ c.toTime > now THEN late \cup {n} ELSE late

InsertContact(n, c) ==
  /\ stage # "ending" /\ n \in alive
  /\ \A x \in plan[n] : /\ Key(x.contact) # Key(c)
                        /\ SamePair(x.contact, c) => Compatible(x.contact, c)
  /\ \E r \in Refs :
       /\ \A m \in Nodes : \A x \in plan[m] : x.ref # r
       /\ plan' = [plan EXCEPT ![n] = @ \cup {[ref |-> r, contact |-> c]}]
  /\ known' = [known EXCEPT ![n] = @ \cup {c.fromNode, c.toNode}]
  /\ Stamp(n, c)
  /\ tried' = Nothing
  /\ UNCHANGED <<now, stage, alive, cacheVars>>

RemoveContact(n, x) ==
  /\ stage # "ending" /\ n \in alive
  /\ x \in plan[n]
  /\ plan' = [plan EXCEPT ![n] = @ \ {x}]
  /\ Stamp(n, x.contact)
  /\ tried' = Nothing
  /\ UNCHANGED <<now, stage, alive, known, cacheVars>>

-----------------------------------------------------------------------------
(* cgr_forward.                                                            *)

\* "Contact plan has been modified, so must discard all route lists": those
\* noted in the CgrVdb, whatever node they belong to.
Outdated(n) == lastEditTime[n] > vdb.lastLoadTime

Discard(f, noted) ==
  [n \in Nodes |-> [t \in Termini |->
     IF <<n, t>> \in noted THEN NoList ELSE f[n][t]]]

\* The lists and the CgrVdb after that check.
ListsKept(n) == IF Outdated(n) THEN Discard(lists, vdb.routeLists) ELSE lists
VdbKept(n) ==
  IF Outdated(n) THEN [lastLoadTime |-> now, routeLists |-> {}] ELSE vdb

\* The terminus is in no contact or range the node has heard of.
ForwardUnknown(n, t) ==
  /\ t \notin known[n]
  /\ lists' = ListsKept(n) /\ vdb' = VdbKept(n)
  /\ tried' = Nothing
  /\ UNCHANGED basis

\* Mutant: the list is not noted in the CgrVdb.
Load_Unnoted(n, t, routes) ==
  /\ ListsKept(n)[n][t] = NoList
  /\ routes \in SUBSET Chains(n, t)
  /\ vdb' = VdbKept(n)
  /\ basis' = [basis EXCEPT ![n][t] = plan[n]]

\* loadRouteList, which notes the list in the CgrVdb.
Load(n, t, routes) ==
  /\ ListsKept(n)[n][t] = NoList
  /\ routes \in SUBSET Chains(n, t)
  /\ vdb' = [VdbKept(n) EXCEPT !.routeLists = @ \cup {<<n, t>>}]
  /\ basis' = [basis EXCEPT ![n][t] = plan[n]]

\* The list of an earlier call.
Reuse(n, t, routes) ==
  /\ ListsKept(n)[n][t] # NoList
  /\ routes = ListsKept(n)[n][t]
  /\ vdb' = VdbKept(n)
  /\ UNCHANGED basis

\* identifyProximateNodes: it looks at some routes of the list, until one is
\* too late.  Those that have ended it drops, and for each whose lead contact
\* has not ended it may find a new one.  It tries the others.
WalkList(n, t, routes) ==
  \E seen \in SUBSET routes, found \in SUBSET Chains(n, t) :
    LET ended == {h \in seen : Ended(h)}
    IN  /\ Cardinality(found) <=
             Cardinality({h \in ended : Unended(LeadEntries(n, h)) # {}})
        /\ lists' = [ListsKept(n) EXCEPT ![n][t] = (routes \ ended) \cup found]
        /\ tried' = [Nothing EXCEPT ![n][t] =
                       {h \in (seen \ ended) \cup found : HopsRead(n, h)}]

ForwardKnown(n, t) ==
  /\ t \in known[n]
  /\ \E routes \in (SUBSET Chains(n, t)) \cup ({lists[n][t]} \ {NoList}) :
       /\ Load(n, t, routes) \/ Reuse(n, t, routes)
       /\ WalkList(n, t, routes)

Forward(n, t) ==
  /\ stage = "running" /\ n \in alive
  /\ ForwardUnknown(n, t) \/ ForwardKnown(n, t)
  /\ late' = IF Outdated(n) THEN {} ELSE late
  /\ UNCHANGED <<now, stage, alive, planVars>>

-----------------------------------------------------------------------------
(* The life of nodes.  A simulation, like a test, builds its hosts, runs,  *)
(* finalizes the hosts; another one may follow in the same process.        *)

\* The CgrVdb cgr_start makes, since a new partition has none in its catalog.
NewVdb == [lastLoadTime |-> 0, routeLists |-> {}]

\* Mutant: the CgrVdb of the simulation before is found again.
Initialize_Attach(n) ==
  /\ stage = "building" /\ n \notin alive
  /\ alive' = alive \cup {n}
  /\ plan' = [plan EXCEPT ![n] = {}]
  /\ known' = [known EXCEPT ![n] = {}]
  /\ lastEditTime' = [lastEditTime EXCEPT ![n] = 0]
  /\ tried' = Nothing
  /\ UNCHANGED <<now, stage, vdb, lists, basis, late>>

\* initializeNode: new partitions, a new IonVdb, a new CgrVdb.
Initialize(n) ==
  /\ stage = "building" /\ n \notin alive
  /\ alive' = alive \cup {n}
  /\ plan' = [plan EXCEPT ![n] = {}]
  /\ known' = [known EXCEPT ![n] = {}]
  /\ lastEditTime' = [lastEditTime EXCEPT ![n] = 0]
  /\ vdb' = NewVdb
  /\ tried' = Nothing
  /\ UNCHANGED <<now, stage, lists, basis, late>>

\* Mutant: the lists outlive the nodes they belong to.
Finalize_KeepLists(n) ==
  /\ stage = "ending" /\ n \in alive
  /\ alive' = alive \ {n}
  /\ plan' = [plan EXCEPT ![n] = {}]
  /\ tried' = Nothing
  /\ UNCHANGED <<now, stage, known, lastEditTime, cacheVars, late>>

\* finalizeNode: the IonVdb goes, with its nodes and their lists.  cgr_stop is
\* commented out: the static pointer and what it points to stay.
Finalize(n) ==
  /\ stage = "ending" /\ n \in alive
  /\ alive' = alive \ {n}
  /\ plan' = [plan EXCEPT ![n] = {}]
  /\ lists' = [lists EXCEPT ![n] = NoLists[n]]
  /\ basis' = [basis EXCEPT ![n] = Nothing[n]]
  /\ tried' = Nothing /\ late' = late \ {n}
  /\ UNCHANGED <<now, stage, known, lastEditTime, vdb>>

Run ==
  /\ stage = "building" /\ alive = Nodes
  /\ stage' = "running"
  /\ UNCHANGED <<now, alive, planVars, cacheVars, tried, late>>

End ==
  /\ stage = "running"
  /\ stage' = "ending"
  /\ UNCHANGED <<now, alive, planVars, cacheVars, tried, late>>

\* A new simulation: its clock starts again.
Restart ==
  /\ stage = "ending" /\ alive = {}
  /\ stage' = "building" /\ now' = 1
  /\ UNCHANGED <<alive, planVars, cacheVars, tried, late>>

Tick ==
  /\ stage = "running" /\ now < MaxTime
  /\ now' = now + 1
  /\ tried' = Nothing
  /\ UNCHANGED <<stage, alive, planVars, cacheVars, late>>

-----------------------------------------------------------------------------
(* The specification.                                                      *)

Init ==
  /\ now = 1 /\ stage = "building" /\ alive = {}
  /\ plan = [n \in Nodes |-> {}] /\ known = [n \in Nodes |-> {}]
  /\ lastEditTime = [n \in Nodes |-> 0]
  /\ vdb = NewVdb
  /\ lists = NoLists /\ basis = Nothing
  /\ tried = Nothing /\ late = {}

Next ==
  \/ \E n \in Nodes, c \in Contacts : InsertContact(n, c)
  \/ \E n \in Nodes : \E x \in plan[n] : RemoveContact(n, x)
  \/ \E n \in Nodes, t \in Termini : Forward(n, t)
  \/ \E n \in Nodes : Initialize(n) \/ Finalize(n)
  \/ Run \/ End \/ Restart \/ Tick

Spec == Init /\ [][Next]_vars

-----------------------------------------------------------------------------
(* Properties.                                                             *)

\* The variables have their types, and only nodes that are initialized have
\* contacts and route lists.
TypeOK ==
  /\ now \in 1..MaxTime
  /\ stage \in {"building", "running", "ending"}
  /\ alive \subseteq Nodes
  /\ plan \in [Nodes -> SUBSET IonCXref]
  /\ lastEditTime \in [Nodes -> 0..MaxTime]
  /\ vdb.lastLoadTime \in 0..MaxTime /\ vdb.routeLists \subseteq Nodes \X Termini
  /\ \A n \in Nodes, t \in Termini :
       lists[n][t] # NoList => n \in alive /\ lists[n][t] \subseteq Seq(IonCXref)
  /\ basis \in [Nodes -> [Termini -> SUBSET IonCXref]]
  /\ late \subseteq alive
  /\ \A n \in Nodes \ alive : plan[n] = {}

\* Every list is noted in the CgrVdb in use, so that an edit by any node
\* discards it, although each initialization replaces the CgrVdb and the
\* lists hang on the nodes, not on it.
ListsAreNoted ==
  \A n \in Nodes, t \in Termini :
    lists[n][t] # NoList => <<n, t>> \in vdb.routeLists

\* A list that the next call would use was loaded from a plan that agrees
\* with the current one on every contact that is still to end, whichever
\* nodes have edited, loaded and discarded in between; unless there was an
\* edit in the very second of the load, which the stamps cannot tell.
ListsFollowPlans ==
  \A n \in Nodes \ late, t \in Termini :
    lists[n][t] # NoList /\ ~Outdated(n)
      => Unended(basis[n][t]) = Unended(plan[n])

\* Hops that are read are entries of the node's plan, and still the entries
\* the route was made of; only an entry that ends this very second may be
\* gone (computeArrivalTime).  Again but for edits in the second of the load.
HopsAreInPlan ==
  \A n \in Nodes \ late, t \in Termini : \A h \in tried[n][t] : \A i \in DOMAIN h :
    h[i] \in plan[n] \/ h[i].contact.toTime = now
=============================================================================
