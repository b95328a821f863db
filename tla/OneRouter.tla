------------------------------- MODULE OneRouter -------------------------------
(***************************************************************************)
(* The router of one node (routing/ContactGraphRouter.java): its buffer of *)
(* messages, a queue (Outduct) for every host, the limbo for messages      *)
(* without a route, and the update that the simulator calls at every tick. *)
(* CGR answers a call with any neighbor and forfeit time, or with none.    *)
(*                                                                         *)
(* An update is a sequence of steps, one per message it reroutes; nothing  *)
(* comes between them.  What the router inherits (ActiveRouter of ONE:     *)
(* links, transfers, making room, dropping messages) is external.          *)
(***************************************************************************)
EXTENDS Integers, FiniteSets, SequencesExt

CONSTANTS
  Hosts,     \* addresses of all hosts
  OwnHost,   \* the host of this router
  Messages,  \* messages, as objects
  Id(_),     \* their identifiers: two objects may be copies of one message
  Size(_),   \* their sizes
  MaxTime,   \* bound on the clock and on forfeit times
  Arrivals,  \* messages, as objects, that neighbors send; others are created here
  Nobody     \* no message

LIMBO_ID == -1
NONE_ID == -2
Neighbors == Hosts \ {OwnHost}

ASSUME HostAssumption == Hosts \subseteq Nat \ {0} /\ OwnHost \in Hosts /\ IsFiniteSet(Hosts)
ASSUME MessageAssumption ==
  Nobody \notin Messages /\ \A m \in Messages : Size(m) \in Nat \ {0}
ASSUME ArrivalAssumption == Arrivals \subseteq Messages
ASSUME TimeAssumption == MaxTime \in Nat \ {0}

VARIABLES
  now,                 \* SimClock.getIntTime()
  stage,               \* "idle", or where update() is
  toCheck,             \* outducts that checkExpiredRoutes has still to look at
  toForward,           \* messages to call cgrForward for, with their queue
  messages,            \* the buffer
  duct,                \* queues with their bytes, and the messages' properties
  contactPlanChanged,  \* the flag
  firstOutductIndex,   \* the host whose queue is served first
  up,                  \* neighbors that are connected and have room
  sending,             \* per neighbor, the message on its connection
  from,                \* history: the host a message came from
  handed,              \* history: the hosts that took a message from here
  replaced             \* history: messages whose place in the buffer a copy took

control == <<stage, toCheck, toForward>>
links == <<up, sending>>
history == <<from, handed, replaced>>
vars == <<now, control, messages, duct, contactPlanChanged, firstOutductIndex,
          links, history>>

-----------------------------------------------------------------------------
(* Outducts.  The limbo is the one without a host; its bytes are not kept. *)

Outduct == Hosts \cup {LIMBO_ID}

\* Mutant: the bytes of a message stay with the queue that it leaves.
RemoveMessageFromOutduct_KeepBytes(d, o, m) ==
  IF m \notin ToSet(d.queue[o]) THEN d
  ELSE [d EXCEPT !.queue[o] = RemoveFirst(@, m), !.ref[m] = NONE_ID]

\* Outduct.removeMessageFromOutduct
RemoveMessageFromOutduct(d, o, m) ==
  IF m \notin ToSet(d.queue[o]) THEN d
  ELSE [d EXCEPT !.queue[o] = RemoveFirst(@, m),
                 !.ref[m] = NONE_ID,
                 !.bytes = [h \in Hosts |-> IF h = o THEN @[h] - Size(m) ELSE @[h]]]

\* Outduct.containsMessage goes by identifier.
IsMessageIntoLimbo(d, m) == \E k \in ToSet(d.queue[LIMBO_ID]) : Id(k) = Id(m)

\* Outduct.insertMessageIntoOutduct, of the limbo and of the outduct to a host
InsertIntoLimbo(d, m) ==
  [d EXCEPT !.queue[LIMBO_ID] = Append(@, m), !.ref[m] = LIMBO_ID]

\* Mutant: a message that gets a route stays in the limbo.
InsertMessageIntoOutduct_StayInLimbo(d, h, m) ==
  [d EXCEPT !.queue[h] = Append(@, m), !.ref[m] = h, !.bytes[h] = @ + Size(m)]

InsertMessageIntoOutduct(d, h, m) ==
  LET e == IF IsMessageIntoLimbo(d, m)
           THEN RemoveMessageFromOutduct(d, LIMBO_ID, m) ELSE d
  IN  [e EXCEPT !.queue[h] = Append(@, m), !.ref[m] = h, !.bytes[h] = @ + Size(m)]

PutMessageIntoLimbo(d, m) ==
  InsertIntoLimbo(IF d.ref[m] >= 0 THEN RemoveMessageFromOutduct(d, d.ref[m], m)
                  ELSE d, m)

\* The outcomes of cgrForward.  A route that is found is in force for some
\* time, and the message joins the outduct of its first neighbor.
CgrForward(d, m) ==
  {d} \cup {InsertMessageIntoOutduct([d EXCEPT !.limit[m] = f], h, m) :
              h \in Neighbors, f \in now..MaxTime}

\* removeFromOutducts, which looks the message up by its identifier
RemoveFromOutducts(d, m) ==
  LET found == {k \in messages : Id(k) = Id(m) /\ d.ref[k] # NONE_ID}
  IN  IF found = {} THEN d
      ELSE LET removed == CHOOSE k \in found : TRUE
           IN  RemoveMessageFromOutduct(d, d.ref[removed], removed)

-----------------------------------------------------------------------------
(* Messages come and go.                                                   *)

Idle == stage = "idle"

\* update() has come to super.update().
Active == stage = "limbo" /\ toForward = <<>>

Fresh(m) ==
  /\ m \notin messages
  /\ \A o \in Outduct : m \notin ToSet(duct.queue[o])
  /\ \A h \in Neighbors : sending[h] # m

\* createNewMessage, of a message for another host
CreateNewMessage(m) ==
  /\ Idle /\ Fresh(m) /\ m \notin Arrivals
  /\ \A k \in messages : Id(k) # Id(m)
  /\ duct' \in CgrForward(PutMessageIntoLimbo(
                 [duct EXCEPT !.limit[m] = 0, !.ref[m] = NONE_ID], m), m)
  /\ messages' = messages \cup {m}
  /\ from' = [from EXCEPT ![m] = OwnHost]
  /\ handed' = [handed EXCEPT ![m] = {}]
  /\ replaced' = replaced \ {m}
  /\ UNCHANGED <<now, control, contactPlanChanged, firstOutductIndex, links>>

\* messageTransferred, for a message that goes on to another host.  Its
\* properties are those the neighbor gave it, and the connection carries
\* nothing else.  A known message is refused, unless the router is busy:
\* checkReceiving makes "busy" an acceptance.  The copy then takes the place
\* of the first in the buffer, which stays where it is queued.
MessageTransferred(m, h) ==
  /\ Idle /\ Fresh(m) /\ m \in Arrivals /\ h \in up /\ sending[h] = Nobody
  /\ \/ \A k \in messages : Id(k) # Id(m)
     \/ \E g \in Neighbors : sending[g] # Nobody
  /\ \E f \in now..MaxTime :
       duct' \in CgrForward(PutMessageIntoLimbo(
                   [duct EXCEPT !.limit[m] = f, !.ref[m] = OwnHost], m), m)
  /\ messages' = {k \in messages : Id(k) # Id(m)} \cup {m}
  /\ from' = [from EXCEPT ![m] = h]
  /\ handed' = [handed EXCEPT ![m] = {}]
  /\ replaced' = (replaced \ {m}) \cup {k \in messages : Id(k) = Id(m)}
  /\ UNCHANGED <<now, control, contactPlanChanged, firstOutductIndex, links>>

\* Mutant: a message that is dropped stays in its queue.
RemoveFromMessages_KeepQueued(m) ==
  /\ (Idle \/ Active) /\ m \in messages
  /\ \A h \in Neighbors : sending[h] # Nobody => Id(sending[h]) # Id(m)
  /\ messages' = messages \ {m}
  /\ UNCHANGED <<now, control, duct, contactPlanChanged, firstOutductIndex, links,
                 history>>

\* removeFromMessages: a message whose time to live is over, or that has to
\* make room for another.  None that is being sent is chosen.  Its properties
\* go with it.
RemoveFromMessages(m) ==
  /\ (Idle \/ Active) /\ m \in messages
  /\ \A h \in Neighbors : sending[h] # Nobody => Id(sending[h]) # Id(m)
  /\ duct' = [RemoveFromOutducts(duct, m) EXCEPT !.limit[m] = 0]
  /\ messages' = messages \ {m}
  /\ from' = [from EXCEPT ![m] = OwnHost] /\ handed' = [handed EXCEPT ![m] = {}]
  /\ UNCHANGED <<now, control, contactPlanChanged, firstOutductIndex, links, replaced>>

\* processLine, readContactPlan: nothing ever resets the flag.
ContactPlanChanged ==
  /\ Idle /\ ~contactPlanChanged
  /\ contactPlanChanged' = TRUE
  /\ UNCHANGED <<now, control, messages, duct, firstOutductIndex, links, history>>

Connect(h) ==
  /\ Idle /\ h \notin up /\ sending[h] = Nobody
  /\ up' = up \cup {h}
  /\ UNCHANGED <<now, control, messages, duct, contactPlanChanged,
                 firstOutductIndex, sending, history>>

Disconnect(h) ==
  /\ Idle /\ h \in up
  /\ up' = up \ {h}
  /\ UNCHANGED <<now, control, messages, duct, contactPlanChanged,
                 firstOutductIndex, sending, history>>

Tick ==
  /\ Idle /\ now < MaxTime
  /\ now' = now + 1
  /\ UNCHANGED <<control, messages, duct, contactPlanChanged, firstOutductIndex,
                 links, history>>

-----------------------------------------------------------------------------
(* update(): expired routes.                                               *)

Waiting(o, q) == [i \in DOMAIN q |-> [queue |-> o, message |-> q[i]]]

Update ==
  /\ Idle
  /\ stage' = "expired" /\ toCheck' = Hosts /\ toForward' = <<>>
  /\ UNCHANGED <<now, messages, duct, contactPlanChanged, firstOutductIndex,
                 links, history>>

\* Outducts are looked at in the order of their hosts.
IsNextOutduct(o) == o \in toCheck /\ \A h \in toCheck : o <= h

\* at: where the messages with expired routes are in queue q, from its head.
ExpiredAt(q, at) ==
  /\ \A i, j \in DOMAIN at : i < j => at[i] < at[j]
  /\ {at[i] : i \in DOMAIN at} = {i \in DOMAIN q : now > duct.limit[q[i]]}

\* Mutant: only the first expired message of an outduct is collected.
CheckExpiredRoutes_First ==
  /\ stage = "expired" /\ toForward = <<>>
  /\ \E o \in toCheck : \E n \in 0..Len(duct.queue[o]) :
       \E at \in [1..n -> DOMAIN duct.queue[o]] :
         /\ IsNextOutduct(o) /\ ExpiredAt(duct.queue[o], at)
         /\ toCheck' = toCheck \ {o}
         /\ toForward' = Waiting(o, [i \in 1..Min({1, n}) |-> duct.queue[o][at[i]]])
  /\ UNCHANGED <<now, stage, messages, duct, contactPlanChanged,
                 firstOutductIndex, links, history>>

\* checkExpiredRoutes collects what has expired in the next outduct.  It
\* returns, done or not, when it meets a message that was never routed.
CheckExpiredRoutes ==
  /\ stage = "expired" /\ toForward = <<>>
  /\ \E o \in toCheck : \E n \in 0..Len(duct.queue[o]) :
       \E at \in [1..n -> DOMAIN duct.queue[o]] :
         LET q == duct.queue[o]
             returns == \E i \in DOMAIN q : duct.limit[q[i]] = 0
         IN  /\ IsNextOutduct(o) /\ ExpiredAt(q, at)
             /\ toCheck' = IF returns THEN {} ELSE toCheck \ {o}
             /\ toForward' = IF returns THEN <<>>
                             ELSE Waiting(o, [i \in 1..n |-> q[at[i]]])
  /\ UNCHANGED <<now, stage, messages, duct, contactPlanChanged,
                 firstOutductIndex, links, history>>

\* Mutant: CGR is invoked without putting the message into the limbo.
Reroute_NoLimbo ==
  /\ stage = "expired" /\ toForward # <<>>
  /\ duct' \in CgrForward(RemoveMessageFromOutduct(duct, Head(toForward).queue,
                           Head(toForward).message), Head(toForward).message)
  /\ toForward' = Tail(toForward)
  /\ UNCHANGED <<now, stage, toCheck, messages, contactPlanChanged,
                 firstOutductIndex, links, history>>

\* "I put it into the limbo and invoke CGR"
Reroute ==
  /\ stage = "expired" /\ toForward # <<>>
  /\ LET o == Head(toForward).queue
         m == Head(toForward).message
     IN  duct' \in CgrForward(
                     PutMessageIntoLimbo(RemoveMessageFromOutduct(duct, o, m), m), m)
  /\ toForward' = Tail(toForward)
  /\ UNCHANGED <<now, stage, toCheck, messages, contactPlanChanged,
                 firstOutductIndex, links, history>>

\* tryRouteForMessageIntoLimbo, over a copy of the limbo
CheckLimbo ==
  /\ stage = "expired" /\ toForward = <<>> /\ toCheck = {}
  /\ stage' = "limbo"
  /\ toForward' = IF contactPlanChanged
                  THEN Waiting(LIMBO_ID, duct.queue[LIMBO_ID]) ELSE <<>>
  /\ UNCHANGED <<now, toCheck, messages, duct, contactPlanChanged,
                 firstOutductIndex, links, history>>

TryRouteForMessageIntoLimbo ==
  /\ stage = "limbo" /\ toForward # <<>>
  /\ duct' \in CgrForward(duct, Head(toForward).message)
  /\ toForward' = Tail(toForward)
  /\ UNCHANGED <<now, stage, toCheck, messages, contactPlanChanged,
                 firstOutductIndex, links, history>>

-----------------------------------------------------------------------------
(* update(): transfers.                                                    *)

\* transferDone: the message leaves the queue that it is in by now.
TransferDone(h) ==
  /\ Active /\ h \in up /\ sending[h] # Nobody
  /\ duct' = RemoveFromOutducts(duct, sending[h])
  /\ sending' = [sending EXCEPT ![h] = Nobody]
  /\ handed' = [m \in Messages |->
                  IF Id(m) = Id(sending[h]) THEN handed[m] \cup {h} ELSE handed[m]]
  /\ UNCHANGED <<now, control, messages, contactPlanChanged, firstOutductIndex,
                 up, from, replaced>>

TransferAborted(h) ==
  /\ Active /\ h \notin up /\ sending[h] # Nobody
  /\ sending' = [sending EXCEPT ![h] = Nobody]
  /\ UNCHANGED <<now, control, messages, duct, contactPlanChanged,
                 firstOutductIndex, up, history>>

\* A neighbor refuses a message that it has.
Has(h, m) == h = from[m] \/ h \in handed[m]

\* The neighbors that would take the first message of their queue
Takers ==
  {h \in up : /\ duct.queue[h] # <<>> /\ sending[h] = Nobody
              /\ ~Has(h, Head(duct.queue[h]))}

\* The hosts in the order in which getMessagesForConnected goes round
Turn(h) == (h - firstOutductIndex) % (Max(Hosts) + 1)

\* Mutant: no first key after the last.
HigherKey_NoWrap(h) ==
  LET higher == {g \in Hosts : g > h}
  IN  IF higher = {} THEN LIMBO_ID ELSE Min(higher)

\* outducts.higherKey, or else outducts.firstKey
HigherKey(h) ==
  LET higher == {g \in Hosts : g > h}
  IN  Min(IF higher = {} THEN Hosts ELSE higher)

Finished == \A h \in Neighbors : sending[h] # Nobody => h \in up

\* Mutant: the next update starts from the same outduct again.
StartTransfer_SamePlace(h) ==
  /\ Active /\ Finished
  /\ h \in Takers /\ \A g \in Takers : Turn(h) <= Turn(g)
  /\ sending' = [sending EXCEPT ![h] = Head(duct.queue[h])]
  /\ stage' = "idle"
  /\ UNCHANGED <<now, toCheck, toForward, messages, duct, contactPlanChanged,
                 firstOutductIndex, up, history>>

\* tryMessagesForConnected starts at most one transfer.
StartTransfer(h) ==
  /\ Active /\ Finished
  /\ h \in Takers /\ \A g \in Takers : Turn(h) <= Turn(g)
  /\ sending' = [sending EXCEPT ![h] = Head(duct.queue[h])]
  /\ firstOutductIndex' = HigherKey(h)
  /\ stage' = "idle"
  /\ UNCHANGED <<now, toCheck, toForward, messages, duct, contactPlanChanged,
                 up, history>>

NothingToSend ==
  /\ Active /\ Finished /\ Takers = {}
  /\ stage' = "idle"
  /\ UNCHANGED <<now, toCheck, toForward, messages, duct, contactPlanChanged,
                 firstOutductIndex, links, history>>

-----------------------------------------------------------------------------
(* The specification.                                                      *)

Init ==
  /\ now = 1 /\ stage = "idle" /\ toCheck = {} /\ toForward = <<>>
  /\ messages = {} /\ contactPlanChanged = FALSE
  /\ duct = [queue |-> [o \in Outduct |-> <<>>], bytes |-> [h \in Hosts |-> 0],
             ref |-> [m \in Messages |-> NONE_ID], limit |-> [m \in Messages |-> 0]]
  /\ firstOutductIndex = Min(Hosts)
  /\ up = {} /\ sending = [h \in Neighbors |-> Nobody]
  /\ from = [m \in Messages |-> OwnHost] /\ handed = [m \in Messages |-> {}]
  /\ replaced = {}

UpdateStep ==
  \/ Update \/ CheckExpiredRoutes \/ Reroute
  \/ CheckLimbo \/ TryRouteForMessageIntoLimbo
  \/ \E h \in Neighbors : TransferAborted(h) \/ StartTransfer(h)
  \/ NothingToSend

Next ==
  \/ UpdateStep
  \/ \E h \in Neighbors : TransferDone(h) \/ Connect(h) \/ Disconnect(h)
  \/ \E m \in Messages :
       \/ CreateNewMessage(m) \/ RemoveFromMessages(m)
       \/ \E h \in Neighbors : MessageTransferred(m, h)
  \/ ContactPlanChanged \/ Tick

Spec == Init /\ [][Next]_vars

\* The simulator updates every router at every tick, and a transfer over a
\* connection that stays ends.
FairSpec ==
  /\ Spec /\ WF_vars(UpdateStep)
  /\ \A h \in Neighbors : SF_vars(TransferDone(h))

-----------------------------------------------------------------------------
(* Properties.                                                             *)

Places(m) == {o \in Outduct : m \in ToSet(duct.queue[o])}
Total(q) ==
  LET sum[i \in 0..Len(q)] == IF i = 0 THEN 0 ELSE sum[i - 1] + Size(q[i])
  IN  sum[Len(q)]

\* The variables keep their types; no backlog gets negative.
TypeOK ==
  /\ now \in 1..MaxTime
  /\ stage \in {"idle", "expired", "limbo"}
  /\ messages \subseteq Messages /\ up \subseteq Neighbors
  /\ duct.queue \in [Outduct -> Seq(Messages)] /\ duct.bytes \in [Hosts -> Nat]
  /\ duct.ref \in [Messages -> Outduct \cup {NONE_ID}]
  /\ duct.limit \in [Messages -> 0..MaxTime]
  /\ sending \in [Neighbors -> Messages \cup {Nobody}]
  /\ firstOutductIndex \in Hosts /\ replaced \subseteq Messages

\* A message of the buffer is in the one queue that its property names, once,
\* and one that the property says is in none is in none, however it was moved
\* about while it was waiting, under way or rerouted.  So is one that a copy
\* has replaced in the buffer, which is forwarded all the same.
InOnePlace ==
  \A m \in messages \cup replaced :
    /\ Places(m) = {duct.ref[m]} \ {NONE_ID}
    /\ \A o \in Outduct : Cardinality({i \in DOMAIN duct.queue[o] : duct.queue[o][i] = m}) <= 1

Queued == UNION {ToSet(duct.queue[o]) : o \in Outduct}

\* What is queued is in the buffer, unless a copy took its place there: no
\* queue keeps a message that was dropped.
QueuedAreBuffered == Queued \subseteq messages \cup replaced

\* The bytes that CGR takes for the backlog of an outduct are those queued.
BytesMatchQueue == \A h \in Hosts : duct.bytes[h] = Total(duct.queue[h])

\* A message that waits in no queue has been taken by some neighbor; none is
\* forgotten in the buffer.
NothingForgotten ==
  \A m \in messages : duct.ref[m] = NONE_ID => handed[m] # {}

\* Once an update has looked for expired routes, no outduct holds a message
\* whose route has expired.
NoExpiredRoute ==
  stage = "limbo" => \A h \in Hosts : \A m \in ToSet(duct.queue[h]) : duct.limit[m] >= now

\* A message waiting for a neighbor that stays connected leaves the queue in
\* the end, if the neighbor has none of the messages in it: outducts are
\* served in turn.
QueuesAreServed ==
  \A h \in Neighbors, m \in Messages :
    <>[](h \in up /\ \A k \in ToSet(duct.queue[h]) : ~Has(h, k))
      => (m \in ToSet(duct.queue[h]) ~> m \notin ToSet(duct.queue[h]))
================================================================================
