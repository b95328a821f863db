# Verification of cgr-jni

cgr-jni runs the Contact Graph Routing (CGR) code of ION inside the ONE
delay-tolerant-network simulator. The C sources are ION's, cut down; the
Java side drives them through JNI. One process holds many nodes: a C call finds
"its" node by a thread-local node number. ION's locks and transactions are
stubs here: nothing is rolled back.

This directory holds TLA+ models of that code, TLC configurations that check
them on small instances, and TLAPS proofs. `PROJECT.json` maps each definition
to the source lines it stands for.

## 1. Inventory

| Component | Source | State | Operations |
|---|---|---|---|
| Contact plan | `ici/library/rfx.c` | index of contacts, index of ranges (asserted, imputed), database lists, timeline of events, `lastEditTime` | insert/remove contact, insert/remove range (single, wild card), start/stop |
| Route search | `bp/cgr/libcgr.c` `computeDistanceToTerminus`, `findNextBestRoute` | per contact: arrival time, predecessor, visited, suppressed | earliest-arrival search over contacts, one per route |
| Route list | `libcgr.c` `loadRouteList`, `endAnchoredSearch`, `recomputeRouteForContact` | per destination: list of routes; anchor contact; suppressed contacts | load, recompute one entry, discard |
| Forwarding | `libcgr.c` `identifyProximateNodes`, `tryRoute`, `computeArrivalTime`, `cgrForward`, `enqueueToNeighbor` | cached route lists, `lastLoadTime`, excluded nodes, candidates | choose a neighbour for a bundle |
| Embargoes, probes | `rfx.c` `addEmbargo`, `removeEmbargo`, `postProbeEvent` | list per destination, list of probes | add, remove, schedule probe |
| Lists | `ici/library/smlist.c` | doubly linked list in a partition | insert first/last/before/after/sorted, delete, clear |
| Trees | `ici/library/smrbt.c` | red-black tree with parent links | insert, delete, search, traverse |
| Memory, catalog | `ici/library/psm.c`, `cgr_jni/psm/*.java` | addresses, names | malloc, free, catlg, uncatlg, locate |
| Node life cycle | `jni_interface/*.c`, `ici/utils/utils.c` | partitions of each node, shared static `CgrVdb` | initialize, finalize, forward |
| Scalars | `ici/library/platform.c` | gigs + units | load, add, subtract, compare |
| Bundle glue | `bp/library/libbpP.c`, `ONEtoION_interface.c` | bundles built for one call, outduct cache | size estimate, enqueue, convert |
| Command line | `ici/utils/ionadmin.c` | static reference time | parse contact-plan commands |
| Router | `src/routing/ContactGraphRouter.java` | message buffer, one queue per host (outducts), limbo | create, receive, forward, expire, transfer |
| Utilities | `lyst`, `sdr*`, Java `Lyst`, `DefaultList`, `ContactPlan*` | lists, strings | plain containers and file generation |

**How they interact.** The router calls `cgrForward` through JNI with a message
and the current time. The interface builds an ION bundle, `libcgr` looks up the
destination in the contact plan, loads or reuses the cached route list, picks a
neighbour and calls back `bpEnqueueONE`, which puts the message into a queue of
the router. `ionadmin` commands edit the contact plan between two such calls.
The only link between an edit and the cached routes is the pair of times
`lastEditTime` / `lastLoadTime`, in whole seconds, and the pointers that routes
keep to index entries of the plan.

**What is hard.** Nothing runs in parallel on one node's data, so the hazards
are those of long call sequences and of time: overrides and imputed ranges;
caches invalidated by a clock of one second; entries freed while something
refers to them; searches whose loop ends only because of what earlier passes
left behind; messages that expire, are sent, or are rerouted while they sit in
a queue; several nodes that share one static pointer.

**What makes each part correct.**

- Contact plan: contacts of a pair never overlap; an imputed range mirrors its
  canonical range; the three copies agree; route-relevant edits are stamped;
  wild-card removals end.
- Route search: the route found reaches the destination at the earliest time at
  which any chain of contacts does; its hops are connected and feasible.
- Route list: it ends; each route differs from the others; every route the
  search could use is found once.
- Forwarding: a route in use never refers to a contact that is gone; the chosen
  neighbour has the best route among those that can deliver in time; a queued
  bundle makes the contact it counts on.
- Lists and trees: they implement a sequence and a sorted set.
- Router: each message is in one place; queued bytes add up; every message in a
  queue of a connected neighbour is eventually sent.

## 2. Modules

| Module | Models | Extends |
|---|---|---|
| `PlanOrder` | keys of index entries, their order, compatible contacts | – |
| `ContactPlan` | insertions and removals of contacts and ranges (`rfx.c`) | `PlanOrder` |
| `ContactBook` | abstract: a book of disjoint reservations per pair of nodes | – |
| `RouteSearch` | one search for a route (`computeDistanceToTerminus`, `findNextBestRoute`) | `PlanOrder` |
| `RouteList` | loading, walking and repairing the list of routes | `RouteSearch` |
| `RouteCache` | the lists of all nodes of a process between calls | `PlanOrder` |
| `Forwarding` | arrival time behind the backlog, choice of the neighbour | `Scalars` |
| `Scalars` | gigs and units (`platform.c`), used by `Forwarding` | – |
| `OneRouter` | buffer, outducts and limbo of `ContactGraphRouter.java` | – |
| `SmList` | doubly linked lists in a partition (`smlist.c`) | – |
| `ListStore` | abstract: sequences of elements, and searches in them | – |
| `SmRbt` | red-black trees in a partition (`smrbt.c`) | – |
| `KeySet` | abstract: a set of data, with the call that is running | – |
| `ContactPlanProofs`, `RouteCacheProofs`, `OneRouterProofs`, `SmListProofs`, `SmRbtProofs`, `ForwardingProofs` (with `Scalars`) | theorems | the module named |
| `RouteProofs` | theorems about `RouteSearch` and `RouteList` | `RouteList` |
| `DataLemmas` | lemmas used by them | – |
| `MC*` | instances for TLC | the module named |

Mutated forms of a definition (`Name_Word`) stand before it in the module. They
are plausible slips; nothing uses them, and each is refuted by the property it
belongs to when it is put in the place of the definition.

### ContactPlan

State: `contactIndex` and `rangeIndex` are the red-black trees of
`IonCXref`/`IonRXref`, as sets of entries; each entry has an address `ref`.
`contactsDb`, `rangesDb` are the database lists, `timeline` the index of events
(events name an entry by address, as `ref` fields do), `nodes` the known nodes,
`lastEditTime` the stamp. `reverse` is the program counter of the one loop that
may not end (the second loop of a wild-card removal of ranges); every other call
is one action, since calls do not interleave. `refused` is the result of the
last call.

`deleteContact` frees the index entry and reads the place of the database entry
from it afterwards (rfx.c:970-976), as an override does with an imputed range
(rfx.c:1304). Such a read finds what was there or something else, and the
model has both: a removal may miss the database entry of any contact in `Losable`,
and an override the events of the imputed range (`OverriddenEvents`). The proofs are for
any set `Losable`, that of all contacts included.

A range has a canonical direction (from the smaller to the greater number). An
asserted canonical range imputes its reverse unless that is asserted already;
an asserted reverse overrides the imputed one.

Not in the module: what happens when a timeline event is due (`rfx` posts it;
the clock that would dispatch it is not in the repository), embargoes, probes,
`rfx_start`/`rfx_stop`.

### RouteSearch

One `Pass` is one turn of the outer loop of `computeDistanceToTerminus`: relax
the contacts that leave the current one, note the best final contact, go to the
unvisited contact with the earliest arrival. `Backtrack` is one turn of the
loop that follows predecessors and builds the hops, `Finish` its end. The work
area of each contact (`CgrContactNote`) is `arrival`, `predecessor`, `visited`,
`suppressed`. `Owlt` is what `getApplicableRange` yields. The plan is any
subset of a pool of contacts and of ranges; `payloadClass` gives the capacity
floor.

### RouteList

Adds `routes`, `anchor`, `task` (load, walk, recompute, ready), and the place of
the walk. `RecordRoute`, `EndAnchored`, `NextClass`, `LoadDone`, `LoadFails` are
the branches of the loop in `loadRouteList`; `DropRoute`, `DropAndRecompute`,
`Recomputed`, `NotRecomputed`, `TryRoute`, `WalkDone` those of the walk in
`identifyProximateNodes`, with `recomputeRouteForContact`. Each search in
between is run step by step, by the actions of `RouteSearch`. `Forward` is the
next call, at the same or a later time, with a new deadline. What is done with a
route that is tried is in `Forwarding`.

### RouteCache

Several nodes in one process: plan, stamp and lists per node; one `vdb`, since
`_cgrvdb` is one static pointer, replaced by every `initializeNode`. A hop is
an index entry with its address. A search may find any set of open chains;
which of them does not matter to staleness. `HopsRead` is the condition under
which `computeArrivalTime` goes on to read the hops of a route. The life cycle
is that of a simulation: all nodes are built, run, and are finalized; another
one may follow in the same process, from time 1. An address is not used twice
while an entry has it, but may be used again after it is freed.

### Forwarding

`CgrForward` begins a call, `TryRoute` is one route of the list, `StopAtLate` the end
of the walk at the first route that would be late on an idle node, with what is
behind it in the list left untried; `Enqueue` or `NoProximateNode` ends the call. That
earliest arrival (`EarliestArrival`) was computed when the list was loaded, from
`LoadTime`, with neither backlog nor bundle size. The bytes queued to a neighbour (`computePriorClaims`
is the backlog of its outduct, since the port has one class of service) are
spread over its contacts in order. Times are truncated to seconds as in the code
(`\div`). `Second` is external: links carry what the plan says, from the head of
the queue. The outduct that CGR sees is a copy made in each call
(`getONEDirective`); the copies do not outlive the call, so the model reads the
queue. Bytes are `Scalars`, computed as `platform.c` does, with a gig of 4 bytes in
the run, so that every backlog carries and borrows; the properties count the same
bytes in plain numbers. The backlog counts payloads, the consumption of a bundle counts its header
as well; `Header` is 1 in the runs where the code has 29, which is in proportion
to payloads of 1 to 5 bytes.

### SmList and SmRbt

These are the containers under everything `rfx.c` and `libcgr.c` keep: the other
modules take a list for a sequence and a tree for a set with neighbours in order,
and these two modules show what entitles them to. Locks are stubs in the port and a
partition belongs to one node, so that calls do not interleave, and a call without a
loop is one action. Where a call has a loop, each turn is an action, and the working
variables of the loop are variables of the module: the place of an insertion into
an ordered list, a search, the wiping of a list or of a tree, and the descents of
`sm_rbt_insert` and `sm_rbt_delete`, with node, parent, grandparent and directions
as in the code. Addresses are freed and used again.

`SmList` has lists that are kept in order (only `sm_list_insert` with a compare
function puts elements there, and their data are not overwritten) and lists without
order (the four other insertions). In `SmRbt` the dummy root of a running call
is an address of its own. Data of equal keys are not inserted twice, as in `rfx.c`,
which looks for the key first or has the address of the data in it; a deletion may
be asked for data that are not there. `InsertFails` is a failed allocation: the call
returns without recording the root it may have rotated away or turned red.
After such a call the tree is only followed until it is wiped (`Usable`).
User data of trees (set by nobody) are left out.

`ListStore` and `KeySet` say what the callers rely on. In the refinement, the
sequence of a list is read off its forward links, and the set of a tree is the data
of its allocated nodes: `TreeIsSound` says that these are the nodes that can be
reached, `AnswersAreRight` that they are found.

### OneRouter

`duct` holds the queues of the outducts and of the limbo, their bytes, and two
properties of messages: `ref`, the outduct a message is in, and `limit`, its
forfeit time. `update()` is a sequence of steps (`stage`, `toCheck`,
`toForward`), one per message that is rerouted, because each may go any way;
nothing else happens before it is idle again, except that transfers end and
messages are dropped where `super.update()` does that. `cgrForward` is any
answer. `Arrivals` are the message objects that
neighbours send, the others are created at this node; one that arrives may be a copy of one
in the buffer (the same `Id`), which a busy router accepts: an object of its own, which takes
the first one's place in the buffer and leaves it in its queue. `replaced` notes those that
were replaced. What the router inherits from ONE (connections, transfers, dropping,
making room) is modelled from how the router uses it.

## 3. Runs

| Run | Question | Bounds |
|---|---|---|
| `ContactPlan_contacts` | Do contacts stay disjoint, stamped, recorded, and implement the book? | 2 nodes, own node one of them; times to 4; 3 entries; 1 contact that removals may leave in the database |
| `ContactPlan_ranges` | Do asserted and imputed ranges, lists and events stay consistent? | 2 nodes; times to 3; two delays; 3 entries |
| `ContactPlan_endless` | Do wild-card removals end? (no) | times to 2 |
| `RouteSearch_search` | Is the route found optimal and feasible? | every sub-plan of 7 contacts and 6 ranges; 2 classes; one contact suppressed; itineraries of up to 3 hops |
| `RouteList_walk` | Is the list right after loading and after repairs, do calls return? | every sub-plan of 8 contacts; 2 classes; 4 times |
| `RouteList_lost_lead` | Does every useful lead contact get a route? (no) | as above |
| `RouteCache_cache` | Do cached routes follow the plans, whatever nodes edit? | 2 nodes, 2 contacts, 3 addresses, times to 4 |
| `Forwarding_choice` | Is the best route chosen, and does the bundle make it? | 8 contacts, 5 routes in all 120 orders, 4 bundles, deadlines among and after the earliest arrivals, times to 9; a gig of 4 |
| `OneRouter_update` | Is every message in one place, nothing queued that was dropped, and the count of queued bytes right, through any sequence of calls? | 3 hosts, 2 messages, and a copy of one that a neighbour sends; times to 2 |
| `OneRouter_queues` | Is every queue served in the end? | 3 hosts, 3 messages; no expiry |
| `SmList_calls` | Do links tell of sequences, whatever is inserted, deleted, wiped? | 1 ordered and 1 unordered list, 5 elements, 2 keys |
| `SmRbt_calls` | Are trees balanced, sound, right in their answers, and sets? | 9 nodes, 9 keys |

**Why the bounds are enough.** Contacts of different pairs do not meet, except
in the order of the index, where one pair has a successor that belongs to
another: two nodes have four pairs. An overlap needs two contacts and a third
between them in the index; times to 4 allow three disjoint contacts of a pair
and every way to touch, contain or straddle. An override needs a canonical
range, its image and a second canonical range. In the search, the pool has a
detour in both directions, two ways with different order of arrival depending on
which ranges are known, and short contacts that make an earlier arrival the only
one in time; every subset of the pool is a plan. In the list, the pool makes each
branch of loading and walking happen, the failing one included (a contact that
outlasts `MAX_TIME`). In the cache, two nodes are enough for one to discard what
the other loaded, three addresses for one to be freed and used again. In
`Forwarding`, two contacts with one neighbour let bundles spill from one to the
next; one deadline is between the earliest arrivals of the routes (3, 4, 4, 6 and 7), one at
the last of them, and each order of the list meets it elsewhere. In `OneRouter_update` the
copy comes from one neighbour while the message is on its way to the other, is queued or
waits in the limbo. The contact that a removal may leave in the database can be inserted and
removed again, be touched and be overlapped. Five elements give a list with two inner elements beside another list, and
two keys the ties that the order of insertion decides. Nine keys make every case of
the descent of a deletion occur below the root as well as at it, and every case
of an insertion but one: a flip of colours that meets a red parent below the
children of the root takes a tree of eleven nodes. The same instance with twelve
nodes and twelve keys was run once (8.6 million states, about five minutes, no
error); it has that case. Symmetry is used for
addresses only; in `SmRbt_calls` the addresses of nodes are taken out by a `VIEW`
that names each node by its datum, which no two allocated nodes share. All passing runs exhaust the state
space.

**Deadlock.** It is checked in all runs but `RouteSearch_search` and `Forwarding_choice`, where
the end of the one search and the last bundle stop the system rightly.

**Fairness.**
- `ContactPlan`: only the two branches of the loop, which runs without waiting.
- `RouteList`: the steps of a call, its searches included, which are loops in one
  thread; the next bundle need not come.
- `OneRouter`: `WF(UpdateStep)`, since ONE calls `update()` of every router at
  every tick; `SF(TransferDone(h))`, since a transfer over a connection that is
  up again and again proceeds. Connections, messages and time need not move.
  `QueuesAreServed` assumes a neighbour that stays connected and has none of the
  messages queued for it: a neighbour that already has the first message of
  its queue refuses it for ever and holds up the rest, which is how the router
  works (the first message alone is offered).

## 4. Proofs

All with TLAPS, for every value of the constants that meets the named
assumptions.

**ContactPlanProofs** (assumptions: `Nodes` and `Rates`, `Owlts` are sets of numbers,
as declared in `ContactPlan`).
- `TypeCorrect`.
- `ContactsNeverOverlap`. `ContactsDoNotOverlap` is not a fact about what an
  insertion checks: it looks at two neighbours in the index only. It is strengthened to
  `ContactInv` (disjointness, and no contact is indexed twice), and
  `OverlapCheckExact` shows, from `SuccessorOfPair` and `PredecessorOfPair`,
  that given disjointness the two neighbours decide the matter for all entries.
- `PlanImplementsBook`: the plan implements `ContactBook`; each insertion
  that goes through is an entry in the book, each removal a deletion, all
  else stutters.
- `RangesStayPaired`: unique keys of ranges and the pairing of imputed with
  canonical ranges. Each depends on the other, so the invariant `RangeInv` is
  their conjunction. `RangesAreIndexedOnce` is the first half by itself.
- `ListsMatchIndexes`: the database lists hold what the indexes hold. A call finds
  its entry in the index and takes the object of the database from it, so this rests on
  there being one entry to find: on `ContactInv` for contacts and `RangeInv` for ranges.
  Of contacts, it says that the database has all those of the index; that it has no others
  does not hold (see 5).
- `TimelineMatchesPlan`. Events are told apart by the address of their entry, so
  the invariant `EventsInv` adds `RefsDiffer`: no two entries share an address.
- `EditsAreStamped` and `OverridesSurvive` are about single steps.

**RouteProofs**, about one search. `TypeCorrect`, `SearchIsOptimal` (`NoEarlierItinerary` for
itineraries of any length) and `RouteCanBeTravelled` (`RouteIsFeasible`). The
invariant `SearchInv` has these parts: `FrontierInv` (the current contact is the
earliest of those not visited, and none visited is later), `RelaxedInv` (what
leaves a visited contact has been relaxed), `FinalInv` (the final contact is the
earliest that reaches the terminus), `SettledInv` (when the search is over, what
is not visited is no earlier than the route), `TraceInv` (predecessors lead
back to the root, with arrival times that fit) and `WalkInv` (the hops built so
far are the tail of that trace). Optimality follows by taking the first
sending of an earlier itinerary whose contact the search has not reached in time
(`LeastNat` stands in for induction over its length).

**RouteProofs**, about the list. `ListTypeCorrect`, `FirstRoutesAreBest`,
`NoRouteIsRecordedTwice`, `RecomputingIsComplete`, `EndedRoutesAreDropped`, from
`ListInv`: the search's
invariant carried through all searches of a call (`SearchingInv`), `LeadsInv`
(recorded routes start at local contacts), `RecomputeInv` (a recomputation
suppresses other local contacts only), `LoadInv` and `RoutesDiffer`. `LoadInv` is
the point: every route recorded for the class has lost a hop to suppression, a
local one unless its lead is the anchor, and contacts beyond the local ones are
suppressed only while a route over the anchor is recorded. So no route is
found twice, and the first route found through a new lead had all contacts but local
ones to choose from. `EndedRoutesAreDropped` adds `WalkedInv`: a drop leaves what is in
front of the position where it was, an insertion sends the walk back to the head of the
list, and time passes only where the next walk starts.

**RouteCacheProofs** (assumptions: `MaxTime` at least 1, `MaxHops` a number).
`CacheTypeCorrect`, `ListsStayNoted`, `ListsStayCurrent`, `HopsStayInPlan`: that a
list is discarded whenever the plan has moved away from it, in a process whose nodes
share one `CgrVdb` and one time of loading. `CacheInv` adds to the properties:
`ClockInv` (no stamp and no time of loading is ahead of the clock: else an edit to come
would go unnoticed; it restarts with each simulation, hence the condition that a node
is alive), `StageInv` (nodes that are being built have no lists, so that replacing the
`CgrVdb` orphans none) and `HopsFromBasis` (what a list holds comes from the plan
as it was at the load; what later calls add to it does too, since the two agree on
all contacts still to end). An edit is either stamped, so that the lists are
outdated, or leaves what is still to end alone, or puts the node into `late`.

**OneRouterProofs** (assumptions on hosts and sizes as in `OneRouter`).
`MessagesInOnePlace`, `MessagesNotForgotten`, `ExpiredRoutesAreLeft`, and
`QueuedStayBuffered`, all of them whatever neighbours send: a queued message is in the
buffer, or was replaced there by a copy (`BufferInv`). That it is in the buffer, copies or
not, does not hold (see 5). The invariant `RouterInv`:
- `Placed`: every message, in the buffer or not, is in the queue its property names and
  in no other, and no queue holds one twice. That is about all messages because
  a replaced one stays queued.
- `CollectedInPlace`: what an update has collected is where it was collected when its
  turn comes, although the messages before it have been moved, each once.
- `IdsDiffer`: no two messages of the buffer have one identifier, so that looking a
  message up by it finds the message (`removeFromOutducts`).
- `QueuedAreRouted`: what is in an outduct has a forfeit time, so
  `checkExpiredRoutes` never returns early.
- `ExpiredAreCollected`: what has expired in an outduct that was looked at is
  among the collected. A message that is moved to an outduct already looked at, or
  yet to be, has a route in force, so it does not matter which.
- `NothingForgotten` itself.

- `BacklogsAddUp` and `RouterTypeCorrect` (byte counts are never negative) rest on
  `TallyInv`: what is in a queue is there once, and the count of an outduct is the sum
  of the sizes in its queue. The sum is a recursive function; `Sums` of `DataLemmas`
  says what it is, and how it changes when one is appended or taken out.

Each step moves one message and leaves the others alike (`Alike`); `RemoveFacts`,
`LimboFacts`, `InsertFacts` and `CgrForwardFacts` say so of the operators.

**ForwardingProofs** (assumptions, as declared: contacts of a pair do not overlap, which
`ContactPlanProofs` shows of a plan; rates and sizes are not zero; every route of a list
begins at this node; a gig is not zero).
- `ScalarsAreNumbers`, `DifferenceIsExact`, `ValidMeansNotNegative`: the arithmetic in
  gigs and units is that of the numbers, for a gig of any size. From these,
  `ClaimsAre` (taking capacities off the backlog one by one, never below zero, leaves what
  taking off their sum leaves) and `TransmitIs` (what the code makes of a route is what
  plain numbers give). Both are about recursive functions: a witness is built by induction
  over the subsets of a finite set (`AllSubsets`) or over the hops (`UpTo`), and the
  recursion has one solution.
- `TheBestIsChosen` and `NoneOnlyIfNoRoute`: among all routes of a list that is in ascending
  order of earliest arrival, which is the order in which the walk says it goes through it, and
  among those before the first late one in any other. From `NotesInv`: every note is that of a
  route tried before that can take the bundle, and of every such route there is a note of its
  neighbour that it is not better than; no route before the place of the walk was late. In an
  ascending list the stop loses nothing (`LateIsLast`), because behind a backlog and
  with its size a bundle arrives no earlier than on an idle node (`NeverEarlier`). What a route can take does not change meanwhile
  (`Steady`), since a call is not interrupted.
- `BundlesLeaveInTime`. That a bundle's time has not come is not inductive, since the time
  goes on. `QueueInv` is: what is queued up to and with a bundle, less what has been sent of
  the first, is not more than what the plan carries to the neighbour from now until
  the bundle's route ends (`Carries`). A second takes the same from both sides
  (`CarriesStep`); a bundle joins a queue only if `FitsBefore`, where the truncation to seconds
  is made up for by asking for less than the end of the contact, and where the
  contacts that precede the route's first lie before it because they do not overlap.
  `FreshInv` (a bundle that is being forwarded is in no queue) keeps the forfeit times of
  queued bundles as they are.

**SmListProofs** (assumptions, those of `SmList`: no address is both a list and an
element, 0 is neither, the sorted lists are among the lists; data are numbers, of which
the null is none). `ListsStaySound` and `StoreImplemented`, the refinement of `ListStore`. A list in
a partition is links only, so the invariant `ListInv` says that there is for each list a
sequence of elements, without repetition, which the list's `first`, `last` and `length` and
its elements' `prev` and `next` follow, and which is in order if the list is sorted; while
a list is being wiped, what is left of it. It also says where the loops of
an insertion and of a search have got to, and what they have found on the way. Each call maps to the
call on that sequence: linking an element before or after another, or at an end, is an
insertion at a place; unlinking it is a removal.

**SmRbtProofs** (assumptions, those of `SmRbt`: neither 0 nor the dummy root is the address
of a node; data are finitely many numbers, of which the null is none). `TreeStaysSound`,
`AnswersStayRight`, `CallsStayShort` and `TreeIsSet`, the refinement of `KeySet`, all from
`RbtInvariant`.

What `TreeIsSound` says of a tree is said by recursion down from the root, between calls
only, and no call keeps it in between. The invariant `RbtInv` says it without recursion: there
are a function `sub` from each allocated node to the set of nodes at and below it and a function
`H` to the number of black nodes on the paths down from it, such that
- `Shape`: these sets are nested or disjoint, the child of a node on a side has those of
  its nodes that lie on that side (`Linked`), and the data of each of them are an interval of
  all data (`Ordered`). This holds at all times, also when an insertion is cut short and while a tree
  is wiped;
- `Balanced`: the heights of both children are that of the node, less one if it is black, and no
  red node has a red child. This holds whenever a call is idle or goes down.

`Swapped` says what a rotation does to `sub`: it changes for the two nodes that it exchanges
and for no other (`RotationShape`). So each repair is local, and what is above it need not be
looked at. The rest of the invariant is about the place of a call:
- `Path`: no datum between that of the node a call has come to and the one it was given
  lies elsewhere than below. So a leaf that is added where the search has come to nothing
  is in order, and a datum that was not met on the way is not in the tree. It outlasts
  rotations above the place.
- `InsertInv`. A flip of colours can make a node red under a red parent, and then the
  code rotates the grandparent below what it has in `greatgrandparent`. After a rotation
  these two are no longer the ancestors their names say. `Ready` says when they need not be, since
  the next flip cannot meet a red parent (`Quiet`: the node has two black children), and that
  they are right in all other cases.
- `DeleteInv`. The node that a deletion stands on, or the child it will go to, is red, but
  for the top at first. So the last node is red or has a red child, and cutting it out leaves
  the heights as they are. The target, once found, is not where the deletion goes next, and
  the place holds a smaller datum. With `Path` that makes the datum of the last node the
  one next to the target's, so that it may take its place.
- `Paid` bounds the turns of an insertion: each black node still to be met is worth three turns
  and a red one another. A double rotation makes the loop look again at a node it
  has passed; that it cannot do so in two turns one after the other is what `Quiet` saves. Two
  turns for each black node are enough for a deletion. With `HeightCounted` (a node of height
  `h` has at least `2^h - 1` nodes at and below it) this gives `CallsAreShort`.

`IsSubtree`, `Power`, `Descent`, `Ascent` and `Trail` are recursive functions.
`RecursionExists` of `DataLemmas` (a recursion along a measure has a solution) shows for each that it is
what its definition says (`IsSubtreeIs`, `DescentIs`, ...). What they yield is then shown by
induction from the leaves up (`TreeInduction`) or from the top down (`DownInduction`), with a
least counterexample in place of the induction: a descent ends at the first of the nodes below
(`DescentLeads`), an ascent at the first of those above (`AscentLeads`), a search
where its datum is or would be (`TrailEnds`).

The invariant was checked by TLC, with `sub` and `H` computed from the tree, on trees of seven
nodes before it was proved.

**Only model-checked.** All liveness: `CallsReturn`, `QueuesAreServed`,
`WildcardRemovalEnds`. It rests on fairness and on `ENABLED`, which are beyond the prover.
That a call on a tree ends needs neither: `CallsStayShort` bounds its turns. Each
invariant and each action property of a passing run is a theorem.

## 5. What the code does otherwise than it says

Two runs show a disagreement with a comment; the texts are in `PROJECT.json`.

- `ContactPlan_endless`: the wild-card removal of ranges says it deletes imputed
  reverse ranges; when an asserted reverse range comes first it is left where it
  is and looked at for ever (rfx.c:1612).
- `RouteList_lost_lead`: contacts suppressed for an anchored search are said to be
  only temporarily suppressed; if the search finds no route at all they
  are not released for that class (libcgr.c:762).

The models do the following as well, and what the properties say leaves room for exactly
that. That the stronger statement, without the room, fails was seen with TLC.

- A contact is to be deleted "from non-volatile database" (rfx.c:973), but the address of
  its database entry is read from the index entry that has just been freed (rfx.c:975), so
  that it may stay there: `DbMatchesIndex` allows the database more contacts than the
  index has, never less. With `contactsDb \subseteq Contacts` as an invariant, an insertion and
  a removal are a counterexample.
- The removal of a range that has not ended "affects routes" and is stamped
  (rfx.c:1509-1514), but not where an assertion takes the imputed range away and is then
  refused, or has itself ended (rfx.c:1304). CGR keeps routes that use the
  old range. `ContactEditsAreStamped` is about contacts; the like statement about ranges
  fails after four calls.
- The walk is said to be in ascending order of arrival, so that it can stop at the first
  route that is too late (libcgr.c:1501-1510); recomputation inserts routes in that order, but loading
  appends them in order of discovery (libcgr.c:803), and a route in time may stand behind
  the stop (libcgr.c:1572). In a list loaded by `RouteList` the routes of a class arrive at 3, 5,
  3, 5 and 8: a bundle due at 4 does not get to the third. `BestRouteIsChosen` and
  `NoneIfNoRoute` are about the routes of an ascending list, and about those before the stop in any
  other. In the port this is hidden: `ion_bundle` (ONEtoION_interface.c:227) gives an
  expiration time in Unix time, to which libcgr adds the seconds to the year 2000
  again, so no route is too late.
- Lists are to be discarded when the plan has been modified (libcgr.c:1988), but stamps are
  whole seconds and the test is for a later one (libcgr.c:1986): an edit in the second of the
  load is not noticed, and the lists stay, with hops that point to entries the edit has
  freed. `RouteCache` makes such edits and notes the node in `late` until the lists are
  discarded; `ListsFollowPlans` and `HopsAreInPlan` exempt exactly these nodes.
- A router is said to want a message that it "doesn't have"
  (ContactGraphRouter.java:351), but a busy one accepts any (line 358, which turns the
  inherited refusal around). The replaced object stays in its queue and may be forwarded
  from there, without being in the buffer: `QueuedAreBuffered` allows it the messages in `replaced`, and
  `InOnePlace`, `BytesMatchQueue` and the rest watch these like any other. Without `replaced` it
  fails: a neighbour sends a copy while the first is being sent to another.

Seen while modelling, without a run:

- Asking for a transmit time less than the end of a contact, "rather than merely not
  greater", is to account for truncation to seconds (libcgr.c:1246-1253). That makes
  up for one truncation, but each hop truncates again, starting from the
  truncated time of the one before (libcgr.c:1277-1298): a bundle that needs 1.5 s and
  then 0.75 s is accepted for a second contact that ends 0.25 s too early.
  `BundlesMakeTheirContacts` is about the first hop; later ones are not covered by any
  property, since whether a bundle makes them is up to what other nodes have queued.
- Loading a list stops half-way when a route of it fails (libcgr.c:824): the list stays
  attached, and later calls use it as if it were complete. `RouteList` does so
  (`LoadFails`); its properties are about the routes that are there.
- `sm_rbt_insert` returns after a failed allocation without recording the root that
  it may have rotated away or made red (smrbt.c:449-455). Clearing and destroying
  the tree are still right, since they climb to the true root; any other call is not.
- `sm_rbt_clear` leaves the length of the tree (smrbt.c:205-216). Nothing calls it,
  and the next insertion sets the length.
- The insertion of data that are in a tree at the same address counts them
  twice (smrbt.c:522-553); no caller does it.
- The backlog of a queue goes through a signed int (ONEtoION_interface.c:251): from
  2 GB on it is cut.
- Ranges of one pair can overlap: an imputed reverse is inserted unchecked
  (rfx.c:1166-1190), and an override checks against the wrong neighbour
  (rfx.c:1355-1373).
- `getApplicableRange` (libcgr.c:280) applies a range that ends at the very second
  at which a contact starts, rather than the one that starts then.
- After an override the events of the imputed range stay in the timeline
  (rfx.c:1304); `EventsMatchPlan` allows for exactly those.
- A new payload class starts with the anchor of the one before (libcgr.c:723).
  `FirstRouteIsBest` and `RoutesDiffer` hold all the same.
- A route of contacts that all outlast `MAX_TIME` makes loading fail
  (libcgr.c:846).
- Recomputing a route for a lead may yield one over another lead that has none in
  the list at that moment (libcgr.c:980).
- A removal of a contact that ends in the current second is not stamped; a route
  over it may be read once more. `HopsAreInPlan` exempts exactly this entry.
- A message can be on its way to two neighbours, if it is rerouted while it is
  being sent; after a transfer it stays in the buffer, in no queue.
- `contactPlanChanged` is never reset: from the first edit on, every update tries
  all of the limbo again.
- The limbo's `totalEnqueuedBytes` gets negative (not modelled; nothing reads it).

Uses of the code on which the models rely:

- A simulation builds all nodes, runs, then finalizes all. Initializing a node
  when others have lists would orphan these; finalizing one while others
  go on would leave freed entries in the common list of lists.
- No bundle is critical, none excludes its sender (`returnToSender` is 1).
  Overbooking is compiled out.

## 6. Not modelled, and the plan

Not modelled: parsing of commands (`ionadmin.c`; the calls it makes are the actions of
`ContactPlan`), the glue that copies bundles and outducts between Java and C,
memory and catalog (addresses are fresh until they are freed, as `malloc` gives
them), lists and strings of `sdr` and `lyst` (thin wrappers), the writer of contact
plans; and what nothing in the port reaches: embargoes, probes, critical bundles,
custody, and `rfx_start`/`rfx_stop`, which would reload a plan from its database
lists, in an order that decides what is imputed.

What is left to do: the embargoes and `rfx_start`/`rfx_stop`, if the port comes to call
them; liveness, when it can be proved; and proofs that the modules which take a tree for
a set and a list for a sequence may do so, which here is said in words (`TreeIsSet`,
`StoreImplemented` and `AnswersStayRight` are what they rest on).

## 7. Running

    tlc -config RouteList_walk.cfg MCRouteList
    tlapm RouteProofs.tla

The runs named above with "(no)" end with a counterexample.
