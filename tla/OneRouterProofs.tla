---------------------------- MODULE OneRouterProofs ----------------------------
(***************************************************************************)
(* Proofs about OneRouter, for any hosts, messages and times: however      *)
(* messages are queued, rerouted, dropped, replaced and sent, each is in   *)
(* the one place that its property names.                                  *)
(***************************************************************************)
EXTENDS OneRouter, DataLemmas

-----------------------------------------------------------------------------
(* The inductive invariant.                                                *)

DuctType ==
  [queue : [Outduct -> Seq(Messages)], bytes : [Hosts -> Int],
   ref : [Messages -> Outduct \cup {NONE_ID}], limit : [Messages -> Int]]

\* No queue holds a message twice.
Sound(d) == d \in DuctType /\ \A o \in Outduct : Distinct(d.queue[o])

InPlace(d, m) == \A o \in Outduct : m \in ToSet(d.queue[o]) <=> d.ref[m] = o
Unplaced(d, m) == \A o \in Outduct : m \notin ToSet(d.queue[o])

Placed(d) == Sound(d) /\ \A m \in Messages : InPlace(d, m)

\* What an update has collected is still where it was collected, so that it
\* may be moved without looking again.
CollectedInPlace ==
  /\ toForward \in Seq([queue : Outduct, message : Messages])
  /\ \A i \in DOMAIN toForward :
       /\ duct.ref[toForward[i].message] = toForward[i].queue
       /\ stage = "limbo" => toForward[i].queue = LIMBO_ID
  /\ \A i, j \in DOMAIN toForward :
       toForward[i].message = toForward[j].message => i = j

\* No two messages of the buffer have one identifier: looking a message up by
\* it finds the message.
IdsDiffer == \A k, m \in messages : Id(k) = Id(m) => k = m

\* A message in an outduct has been routed, so the search for expired routes
\* never gives up.
QueuedAreRouted == \A m \in Messages : duct.ref[m] \in Hosts => duct.limit[m] # 0

\* What has expired in an outduct that was looked at is collected.
ExpiredAreCollected ==
  /\ stage = "expired" =>
       \A m \in Messages :
         duct.ref[m] \in Hosts \ toCheck /\ duct.limit[m] < now =>
           \E i \in DOMAIN toForward : toForward[i].message = m
  /\ stage = "limbo" =>
       \A m \in Messages : duct.ref[m] \in Hosts => duct.limit[m] >= now

RouterTypes ==
  /\ now \in Nat \ {0} /\ messages \subseteq Messages /\ toCheck \subseteq Hosts
  /\ stage \in {"idle", "expired", "limbo"}
  /\ stage = "idle" => toForward = <<>>
  /\ sending \in [Neighbors -> Messages \cup {Nobody}]
  /\ handed \in [Messages -> SUBSET Neighbors]

RouterInv ==
  /\ RouterTypes /\ Placed(duct) /\ CollectedInPlace /\ IdsDiffer
  /\ QueuedAreRouted /\ ExpiredAreCollected /\ NothingForgotten

-----------------------------------------------------------------------------
(* Moving one message.                                                     *)

\* All but m are where they were.
Alike(d, e, m) ==
  \A k \in Messages \ {m} :
    /\ e.ref[k] = d.ref[k] /\ e.limit[k] = d.limit[k]
    /\ \A o \in Outduct : k \in ToSet(e.queue[o]) <=> k \in ToSet(d.queue[o])

LEMMA OutductTypes ==
  /\ LIMBO_ID \in Outduct /\ Neighbors \subseteq Hosts /\ Hosts \subseteq Outduct
  /\ NONE_ID \notin Outduct /\ LIMBO_ID \notin Hosts /\ OwnHost \in Hosts
  /\ \A h \in Hosts : h \in Nat /\ h >= 0
  /\ \A o \in Outduct : o >= 0 <=> o \in Hosts
BY HostAssumption DEF Outduct, LIMBO_ID, NONE_ID, Neighbors

LEMMA AlikePlaced ==
  ASSUME NEW d, NEW e, NEW m \in Messages, Sound(e), Alike(d, e, m), InPlace(e, m),
         \A k \in Messages \ {m} : InPlace(d, k)
  PROVE  Placed(e)
BY DEF Placed, InPlace, Alike

\* Taking a message out of a queue that holds it.
LEMMA RemoveFacts ==
  ASSUME NEW d, Sound(d), NEW o \in Outduct, NEW m \in ToSet(d.queue[o]),
         InPlace(d, m)
  PROVE  LET e == RemoveMessageFromOutduct(d, o, m)
         IN  /\ Sound(e) /\ Unplaced(e, m) /\ e.ref[m] = NONE_ID
             /\ Alike(d, e, m) /\ e.limit = d.limit
<1>. DEFINE e == RemoveMessageFromOutduct(d, o, m)
            q == d.queue[o]
<1>1. q \in Seq(Messages) /\ Distinct(q) /\ m \in Messages
  <2>1. q \in Seq(Messages) /\ Distinct(q)
    BY DEF Sound, DuctType
  <2>. QED
    BY <2>1 DEF ToSet
<1>2. /\ RemoveFirst(q, m) \in Seq(Messages) /\ Distinct(RemoveFirst(q, m))
      /\ ToSet(RemoveFirst(q, m)) = ToSet(q) \ {m}
  BY <1>1, RemoveFirstDistinct
<1>3. /\ e.queue = [d.queue EXCEPT ![o] = RemoveFirst(q, m)]
      /\ e.ref = [d.ref EXCEPT ![m] = NONE_ID] /\ e.limit = d.limit
      /\ e \in DuctType
  <2>1. d \in DuctType
    BY DEF Sound
  <2>. DEFINE Q == [d.queue EXCEPT ![o] = RemoveFirst(q, m)]
              R == [d.ref EXCEPT ![m] = NONE_ID]
              B == [h \in Hosts |-> IF h = o THEN d.bytes[h] - Size(m) ELSE d.bytes[h]]
  <2>2. Q \in [Outduct -> Seq(Messages)] /\ R \in [Messages -> Outduct \cup {NONE_ID}]
    BY <1>1, <1>2, <2>1 DEF DuctType
  <2>3. B \in [Hosts -> Int]
    BY <1>1, <2>1, MessageAssumption DEF DuctType, Outduct
  <2>4. d = [queue |-> d.queue, bytes |-> d.bytes, ref |-> d.ref, limit |-> d.limit]
    BY <2>1 DEF DuctType
  <2>5. e = [queue |-> Q, bytes |-> B, ref |-> R, limit |-> d.limit]
    BY <2>4 DEF RemoveMessageFromOutduct
  <2>. HIDE DEF Q, R, B, e
  <2>6. e \in DuctType
    BY <2>1, <2>2, <2>3, <2>5 DEF DuctType
  <2>. QED
    BY <2>5, <2>6 DEF Q, R
<1>. HIDE DEF e
<1>4. d.queue \in [Outduct -> Seq(Messages)] /\ d.ref \in [Messages -> Outduct \cup {NONE_ID}]
  BY DEF Sound, DuctType
<1>5. /\ e.queue[o] = RemoveFirst(q, m)
      /\ \A p \in Outduct \ {o} : e.queue[p] = d.queue[p]
      /\ e.ref[m] = NONE_ID /\ \A k \in Messages \ {m} : e.ref[k] = d.ref[k]
  BY <1>1, <1>3, <1>4
<1>6. Sound(e)
  BY <1>2, <1>3, <1>5 DEF Sound
<1>7. Unplaced(e, m)
  BY <1>2, <1>5 DEF Unplaced, InPlace
<1>8. Alike(d, e, m)
  BY <1>2, <1>3, <1>5 DEF Alike
<1>. QED
  BY <1>3, <1>5, <1>6, <1>7, <1>8 DEF e

\* Adding a message that is in no queue.
LEMMA EnqueueFacts ==
  ASSUME NEW d, Sound(d), NEW m \in Messages, Unplaced(d, m), NEW o \in Outduct,
         NEW e, e \in DuctType,
         e.queue = [d.queue EXCEPT ![o] = Append(@, m)],
         e.ref = [d.ref EXCEPT ![m] = o], e.limit = d.limit
  PROVE  Sound(e) /\ InPlace(e, m) /\ e.ref[m] = o /\ Alike(d, e, m)
<1>1. d.queue \in [Outduct -> Seq(Messages)] /\ d.ref \in [Messages -> Outduct \cup {NONE_ID}]
  BY DEF Sound, DuctType
<1>2. /\ e.queue[o] = Append(d.queue[o], m)
      /\ \A p \in Outduct \ {o} : e.queue[p] = d.queue[p]
      /\ e.ref[m] = o /\ \A k \in Messages \ {m} : e.ref[k] = d.ref[k]
  BY <1>1
<1>3. d.queue[o] \in Seq(Messages) /\ Distinct(d.queue[o]) /\ m \notin ToSet(d.queue[o])
  BY <1>1 DEF Sound, Unplaced
<1>4. Distinct(e.queue[o]) /\ ToSet(e.queue[o]) = ToSet(d.queue[o]) \cup {m}
  BY <1>2, <1>3, AppendDistinct, ToSetAppend
<1>5. Sound(e)
  BY <1>2, <1>4 DEF Sound
<1>6. InPlace(e, m)
  BY <1>2, <1>4 DEF InPlace, Unplaced
<1>7. Alike(d, e, m)
  BY <1>2, <1>4 DEF Alike
<1>. QED
  BY <1>2, <1>5, <1>6, <1>7

LEMMA AlikeTransitive ==
  ASSUME NEW d, NEW e, NEW f, NEW m, Alike(d, e, m), Alike(e, f, m)
  PROVE  Alike(d, f, m)
BY DEF Alike

LEMMA LimboFacts ==
  ASSUME NEW d, Sound(d), NEW m \in Messages, Unplaced(d, m)
  PROVE  LET e == InsertIntoLimbo(d, m)
         IN  Sound(e) /\ InPlace(e, m) /\ e.ref[m] = LIMBO_ID /\ Alike(d, e, m)
<1>. DEFINE e == InsertIntoLimbo(d, m)
            Q == [d.queue EXCEPT ![LIMBO_ID] = Append(@, m)]
            R == [d.ref EXCEPT ![m] = LIMBO_ID]
<1>1. /\ d \in DuctType /\ LIMBO_ID \in Outduct
      /\ d = [queue |-> d.queue, bytes |-> d.bytes, ref |-> d.ref, limit |-> d.limit]
  BY OutductTypes DEF Sound, DuctType
<1>0. e = [d EXCEPT !.queue[LIMBO_ID] = Append(@, m), !.ref[m] = LIMBO_ID]
  BY DEF InsertIntoLimbo
<1>. HIDE DEF e
<1>2. e = [queue |-> Q, bytes |-> d.bytes, ref |-> R, limit |-> d.limit]
  BY <1>0, <1>1
<1>3. Q \in [Outduct -> Seq(Messages)] /\ R \in [Messages -> Outduct \cup {NONE_ID}]
  BY <1>1 DEF DuctType
<1>. HIDE DEF Q, R
<1>4. e \in DuctType
  BY <1>1, <1>2, <1>3 DEF DuctType
<1>5. e.queue = Q /\ e.ref = R /\ e.limit = d.limit
  BY <1>2
<1>. QED
  BY <1>1, <1>4, <1>5, EnqueueFacts DEF Q, R, e

\* A message that gets a route leaves the limbo for the outduct.
LEMMA InsertFacts ==
  ASSUME NEW d, Sound(d), NEW m \in Messages, InPlace(d, m), d.ref[m] = LIMBO_ID,
         NEW h \in Hosts
  PROVE  LET e == InsertMessageIntoOutduct(d, h, m)
         IN  /\ Sound(e) /\ InPlace(e, m) /\ e.ref[m] = h /\ Alike(d, e, m)
             /\ e.limit[m] = d.limit[m]
<1>. DEFINE b == RemoveMessageFromOutduct(d, LIMBO_ID, m)
            e == InsertMessageIntoOutduct(d, h, m)
            Q == [b.queue EXCEPT ![h] = Append(@, m)]
            R == [b.ref EXCEPT ![m] = h]
            B == [b.bytes EXCEPT ![h] = @ + Size(m)]
<1>1. m \in ToSet(d.queue[LIMBO_ID])
  BY OutductTypes DEF InPlace
<1>2. IsMessageIntoLimbo(d, m)
  BY <1>1 DEF IsMessageIntoLimbo
<1>3. Sound(b) /\ Unplaced(b, m) /\ Alike(d, b, m) /\ b.limit = d.limit
  BY <1>1, OutductTypes, RemoveFacts
<1>4. h \in Outduct /\ Size(m) \in Int
  BY OutductTypes, MessageAssumption
<1>5. e = [b EXCEPT !.queue[h] = Append(@, m), !.ref[m] = h, !.bytes[h] = @ + Size(m)]
  BY <1>2 DEF InsertMessageIntoOutduct
<1>. HIDE DEF b
<1>6. /\ b \in DuctType
      /\ b = [queue |-> b.queue, bytes |-> b.bytes, ref |-> b.ref, limit |-> b.limit]
  BY <1>3 DEF Sound, DuctType
<1>. HIDE DEF e
<1>7. e = [queue |-> Q, bytes |-> B, ref |-> R, limit |-> b.limit]
  BY <1>5, <1>6
<1>8. /\ Q \in [Outduct -> Seq(Messages)] /\ R \in [Messages -> Outduct \cup {NONE_ID}]
      /\ B \in [Hosts -> Int]
  BY <1>4, <1>6 DEF DuctType
<1>. HIDE DEF Q, R, B
<1>9. e \in DuctType
  BY <1>6, <1>7, <1>8 DEF DuctType
<1>10. e.queue = Q /\ e.ref = R /\ e.limit = b.limit
  BY <1>7
<1>11. Sound(e) /\ InPlace(e, m) /\ e.ref[m] = h /\ Alike(b, e, m)
  BY <1>3, <1>4, <1>9, <1>10, EnqueueFacts DEF Q, R
<1>. QED
  BY <1>3, <1>10, <1>11, AlikeTransitive DEF e

\* A route that is found is in force; without one the message stays.
LEMMA CgrForwardFacts ==
  ASSUME NEW d, Sound(d), NEW m \in Messages, InPlace(d, m), d.ref[m] = LIMBO_ID,
         now \in Nat, NEW e \in CgrForward(d, m)
  PROVE  /\ Sound(e) /\ InPlace(e, m) /\ Alike(d, e, m)
         /\ e.ref[m] \in Outduct
         /\ e.ref[m] \in Hosts => e.limit[m] >= now
<1>1. CASE e = d
  BY <1>1, OutductTypes DEF Alike
<1>2. CASE e # d
  <2>1. PICK h \in Neighbors, f \in now..MaxTime :
          e = InsertMessageIntoOutduct([d EXCEPT !.limit[m] = f], h, m)
    BY <1>2 DEF CgrForward
  <2>. DEFINE b == [d EXCEPT !.limit[m] = f]
  <2>2. d \in DuctType /\ f \in Int /\ f >= now
    BY TimeAssumption DEF Sound
  <2>3. /\ b \in DuctType /\ b.queue = d.queue /\ b.ref = d.ref
        /\ b.limit = [d.limit EXCEPT ![m] = f]
    BY <2>2 DEF DuctType
  <2>. HIDE DEF b
  <2>4. b.limit[m] = f /\ \A k \in Messages \ {m} : b.limit[k] = d.limit[k]
    BY <2>2, <2>3 DEF DuctType
  <2>5. Sound(b) /\ InPlace(b, m) /\ b.ref[m] = LIMBO_ID /\ Alike(d, b, m)
    BY <2>3, <2>4 DEF Sound, InPlace, Alike
  <2>6. h \in Hosts /\ h \in Outduct
    BY OutductTypes
  <2>7. /\ Sound(e) /\ InPlace(e, m) /\ e.ref[m] = h /\ Alike(b, e, m)
        /\ e.limit[m] = b.limit[m]
    BY <2>1, <2>5, <2>6, InsertFacts DEF b
  <2>. QED
    BY <2>2, <2>4, <2>5, <2>6, <2>7, AlikeTransitive
<1>. QED
  BY <1>1, <1>2

\* A message that comes to the router, with whatever properties.
LEMMA ArriveFacts ==
  ASSUME NEW d, Placed(d), NEW m \in Messages, Unplaced(d, m), now \in Nat,
         NEW f \in Int, NEW r \in Outduct \cup {NONE_ID},
         NEW e \in CgrForward(PutMessageIntoLimbo(
                      [d EXCEPT !.limit[m] = f, !.ref[m] = r], m), m)
  PROVE  /\ Placed(e) /\ Alike(d, e, m) /\ e.ref[m] \in Outduct
         /\ e.ref[m] \in Hosts => e.limit[m] >= now
<1>. DEFINE b == [d EXCEPT !.limit[m] = f, !.ref[m] = r]
            c == PutMessageIntoLimbo(b, m)
<1>1. /\ d \in DuctType
      /\ d = [queue |-> d.queue, bytes |-> d.bytes, ref |-> d.ref, limit |-> d.limit]
  BY DEF Placed, Sound, DuctType
<1>0. b = [d EXCEPT !.limit[m] = f, !.ref[m] = r]
  OBVIOUS
<1>. HIDE DEF b
<1>2. b = [queue |-> d.queue, bytes |-> d.bytes, ref |-> [d.ref EXCEPT ![m] = r],
           limit |-> [d.limit EXCEPT ![m] = f]]
  BY <1>0, <1>1
<1>3. [d.ref EXCEPT ![m] = r] \in [Messages -> Outduct \cup {NONE_ID}]
      /\ [d.limit EXCEPT ![m] = f] \in [Messages -> Int]
  BY <1>1 DEF DuctType
<1>4. b \in DuctType /\ b.queue = d.queue /\ b.ref = [d.ref EXCEPT ![m] = r]
      /\ b.limit = [d.limit EXCEPT ![m] = f]
  BY <1>1, <1>2, <1>3 DEF DuctType
<1>5. \A k \in Messages \ {m} : b.ref[k] = d.ref[k] /\ b.limit[k] = d.limit[k]
  BY <1>1, <1>4 DEF DuctType
<1>6. Sound(b) /\ Unplaced(b, m) /\ Alike(d, b, m)
  BY <1>4, <1>5 DEF Placed, Sound, Unplaced, Alike
<1>7. b.ref[m] \in Outduct => RemoveMessageFromOutduct(b, b.ref[m], m) = b
  BY <1>6 DEF Unplaced, RemoveMessageFromOutduct
<1>8. b.ref[m] \in Outduct \cup {NONE_ID}
  BY <1>4 DEF DuctType
<1>9. c = InsertIntoLimbo(b, m)
  BY <1>7, <1>8, OutductTypes DEF PutMessageIntoLimbo, NONE_ID
<1>. HIDE DEF c
<1>10. Sound(c) /\ InPlace(c, m) /\ c.ref[m] = LIMBO_ID /\ Alike(b, c, m)
  BY <1>6, <1>9, LimboFacts
<1>11. e \in CgrForward(c, m)
  BY DEF b, c
<1>12. /\ Sound(e) /\ InPlace(e, m) /\ Alike(c, e, m) /\ e.ref[m] \in Outduct
       /\ e.ref[m] \in Hosts => e.limit[m] >= now
  BY <1>10, <1>11, CgrForwardFacts
<1>13. Alike(d, e, m)
  BY <1>6, <1>10, <1>12, AlikeTransitive
<1>14. Placed(e)
  BY <1>12, <1>13, AlikePlaced DEF Placed
<1>. QED
  BY <1>12, <1>13, <1>14

\* A message that was looked up by its identifier and taken from its queue.
LEMMA RemoveFromOutductsFacts ==
  ASSUME NEW d, Placed(d), messages \subseteq Messages, NEW m \in Messages
  PROVE  LET e == RemoveFromOutducts(d, m)
         IN  /\ Placed(e) /\ e.limit = d.limit
             /\ \/ e = d /\ \A k \in messages : Id(k) = Id(m) => d.ref[k] = NONE_ID
                \/ \E k \in messages :
                     Id(k) = Id(m) /\ e.ref[k] = NONE_ID /\ Alike(d, e, k)
<1>. DEFINE found == {k \in messages : Id(k) = Id(m) /\ d.ref[k] # NONE_ID}
            e == RemoveFromOutducts(d, m)
<1>1. CASE found = {}
  BY <1>1 DEF RemoveFromOutducts
<1>2. CASE found # {}
  <2>1. PICK k \in found : e = RemoveMessageFromOutduct(d, d.ref[k], k)
    BY <1>2 DEF RemoveFromOutducts
  <2>2. k \in Messages /\ d.ref[k] \in Outduct
    BY DEF Placed, Sound, DuctType
  <2>3. k \in ToSet(d.queue[d.ref[k]]) /\ InPlace(d, k)
    BY <2>2 DEF Placed, InPlace
  <2>. HIDE DEF e
  <2>4. /\ Sound(e) /\ Unplaced(e, k) /\ e.ref[k] = NONE_ID /\ Alike(d, e, k)
        /\ e.limit = d.limit
    BY <2>1, <2>2, <2>3, RemoveFacts DEF Placed
  <2>5. InPlace(e, k)
    BY <2>4, OutductTypes DEF InPlace, Unplaced
  <2>6. Placed(e)
    BY <2>2, <2>4, <2>5, AlikePlaced DEF Placed
  <2>. QED
    BY <2>4, <2>6 DEF e
<1>. QED
  BY <1>1, <1>2

-----------------------------------------------------------------------------
(* The actions: messages come and go.                                      *)

\* With nothing collected, what matters of a step is where it puts messages.
LEMMA QuietStep ==
  ASSUME RouterInv, RouterTypes', Placed(duct'), IdsDiffer', NothingForgotten',
         toForward = <<>>, stage # "expired", UNCHANGED <<now, control>>,
         \A k \in Messages :
           duct'.ref[k] \in Hosts =>
             \/ duct.ref[k] \in Hosts /\ duct'.limit[k] = duct.limit[k]
             \/ stage = "idle" /\ duct'.limit[k] >= now
  PROVE  RouterInv'
<1>. USE DEF RouterInv, control
<1>1. CollectedInPlace'
  BY DEF CollectedInPlace
<1>2. now \in Nat \ {0} /\ duct' \in DuctType
  BY DEF RouterTypes, Placed, Sound
<1>3. QueuedAreRouted'
  <2>1. \A k \in Messages : duct'.limit[k] \in Int
    BY <1>2 DEF DuctType
  <2>. QED
    BY <1>2, <2>1 DEF QueuedAreRouted
<1>4. ExpiredAreCollected'
  BY DEF ExpiredAreCollected
<1>. QED
  BY <1>1, <1>3, <1>4

LEMMA FreshFacts ==
  ASSUME NEW m \in Messages, Fresh(m)
  PROVE  m \notin messages /\ Unplaced(duct, m) /\ \A h \in Neighbors : sending[h] # m
BY DEF Fresh, Unplaced

\* A message joins the buffer; it may replace one with its identifier.
LEMMA ArrivalKeepsInv ==
  ASSUME RouterInv, NEW m \in Messages, Fresh(m), Idle, UNCHANGED <<now, control, links>>,
         NEW f \in Int, NEW r \in Outduct \cup {NONE_ID},
         duct' \in CgrForward(PutMessageIntoLimbo(
                     [duct EXCEPT !.limit[m] = f, !.ref[m] = r], m), m),
         messages' \subseteq messages \cup {m},
         \A k \in messages' \ {m} : Id(k) # Id(m),
         handed' = [handed EXCEPT ![m] = {}]
  PROVE  RouterInv' /\ Alike(duct, duct', m)
<1>. USE DEF RouterInv
<1>1. now \in Nat /\ Placed(duct) /\ Unplaced(duct, m) /\ toForward = <<>> /\ stage # "expired"
  BY FreshFacts DEF RouterTypes, Idle
<1>2. /\ Placed(duct') /\ Alike(duct, duct', m) /\ duct'.ref[m] \in Outduct
      /\ duct'.ref[m] \in Hosts => duct'.limit[m] >= now
  BY <1>1, ArriveFacts
<1>3. RouterTypes'
  BY DEF RouterTypes, control, links
<1>4. IdsDiffer'
  BY DEF IdsDiffer
<1>5. NothingForgotten'
  <2>1. \A k \in messages' \ {m} :
          k \in messages /\ duct'.ref[k] = duct.ref[k] /\ handed'[k] = handed[k]
    BY <1>2 DEF Alike, RouterTypes
  <2>. QED
    BY <1>2, <2>1, OutductTypes DEF NothingForgotten
<1>6. \A k \in Messages :
        duct'.ref[k] \in Hosts =>
          \/ duct.ref[k] \in Hosts /\ duct'.limit[k] = duct.limit[k]
          \/ stage = "idle" /\ duct'.limit[k] >= now
  BY <1>2 DEF Alike, Idle
<1>. QED
  BY <1>1, <1>2, <1>3, <1>4, <1>5, <1>6, QuietStep

LEMMA CreateNewMessageKeepsInv ==
  ASSUME RouterInv, NEW m \in Messages, CreateNewMessage(m)
  PROVE  RouterInv' /\ Alike(duct, duct', m)
<1>1. 0 \in Int /\ NONE_ID \in Outduct \cup {NONE_ID}
  OBVIOUS
<1>2. \A k \in messages' \ {m} : Id(k) # Id(m)
  BY DEF CreateNewMessage
<1>. QED
  BY <1>1, <1>2, ArrivalKeepsInv DEF CreateNewMessage

LEMMA MessageTransferredKeepsInv ==
  ASSUME RouterInv, NEW m \in Messages, NEW h \in Neighbors, MessageTransferred(m, h)
  PROVE  RouterInv' /\ Alike(duct, duct', m)
<1>1. PICK f \in now..MaxTime :
        duct' \in CgrForward(PutMessageIntoLimbo(
                    [duct EXCEPT !.limit[m] = f, !.ref[m] = OwnHost], m), m)
  BY DEF MessageTransferred
<1>2. f \in Int /\ OwnHost \in Outduct \cup {NONE_ID}
  BY OutductTypes
<1>3. messages' \subseteq messages \cup {m} /\ \A k \in messages' \ {m} : Id(k) # Id(m)
  BY DEF MessageTransferred
<1>. QED
  BY <1>1, <1>2, <1>3, ArrivalKeepsInv DEF MessageTransferred

LEMMA RemoveFromMessagesKeepsInv ==
  ASSUME RouterInv, NEW m \in Messages, RemoveFromMessages(m)
  PROVE  /\ RouterInv' /\ duct'.ref[m] = NONE_ID
         /\ \A k \in Messages \ {m} : duct'.ref[k] = duct.ref[k]
<1>. USE DEF RouterInv
<1>. DEFINE e == RemoveFromOutducts(duct, m)
<1>1. messages \subseteq Messages /\ Placed(duct) /\ toForward = <<>>
      /\ stage # "expired"
  BY DEF RouterTypes, RemoveFromMessages, Idle, Active
<1>2. /\ Placed(e) /\ e.limit = duct.limit /\ e.ref[m] = NONE_ID
      /\ e = duct \/ Alike(duct, e, m)
  BY <1>1, RemoveFromOutductsFacts DEF RemoveFromMessages, IdsDiffer
<1>. HIDE DEF e
<1>3. e \in DuctType
  BY <1>2 DEF Placed, Sound
<1>4. duct' = [e EXCEPT !.limit[m] = 0]
  BY DEF RemoveFromMessages, e
<1>5. /\ duct' \in DuctType /\ duct'.queue = e.queue /\ duct'.ref = e.ref
      /\ \A k \in Messages \ {m} : duct'.limit[k] = e.limit[k]
  <2>. DEFINE L == [e.limit EXCEPT ![m] = 0]
  <2>1. L \in [Messages -> Int] /\ \A k \in Messages \ {m} : L[k] = e.limit[k]
    BY <1>3 DEF DuctType
  <2>2. e = [queue |-> e.queue, bytes |-> e.bytes, ref |-> e.ref, limit |-> e.limit]
    BY <1>3 DEF DuctType
  <2>3. duct' = [queue |-> e.queue, bytes |-> e.bytes, ref |-> e.ref, limit |-> L]
    BY <1>4, <2>2
  <2>. HIDE DEF L
  <2>. QED
    BY <1>3, <2>1, <2>3 DEF DuctType
<1>6. Placed(duct')
  BY <1>2, <1>5 DEF Placed, Sound, InPlace
<1>7. \A k \in Messages \ {m} : duct'.ref[k] = duct.ref[k] /\ duct'.limit[k] = duct.limit[k]
  BY <1>2, <1>5 DEF Alike
<1>8. duct'.ref[m] = NONE_ID /\ NONE_ID \notin Hosts
  BY <1>2, <1>5, OutductTypes
<1>9. /\ messages' = messages \ {m} /\ handed' = [handed EXCEPT ![m] = {}]
      /\ UNCHANGED <<now, control, links>>
  BY DEF RemoveFromMessages
<1>10. RouterTypes'
  BY <1>9 DEF RouterTypes, control, links
<1>11. IdsDiffer'
  BY <1>9 DEF IdsDiffer
<1>12. NothingForgotten'
  BY <1>1, <1>7, <1>9 DEF NothingForgotten, RouterTypes
<1>13. \A k \in Messages :
         duct'.ref[k] \in Hosts => duct.ref[k] \in Hosts /\ duct'.limit[k] = duct.limit[k]
  BY <1>7, <1>8
<1>. QED
  BY <1>1, <1>6, <1>7, <1>8, <1>9, <1>10, <1>11, <1>12, <1>13, QuietStep

LEMMA TransferDoneKeepsInv ==
  ASSUME RouterInv, NEW h \in Neighbors, TransferDone(h)
  PROVE  RouterInv' /\ \A k \in Messages : duct'.ref[k] \in {duct.ref[k], NONE_ID}
<1>. USE DEF RouterInv
<1>. DEFINE s == sending[h]
<1>1. /\ messages \subseteq Messages /\ Placed(duct) /\ toForward = <<>>
      /\ s \in Messages /\ stage # "expired"
  BY DEF RouterTypes, TransferDone, Active
<1>2. duct' = RemoveFromOutducts(duct, s)
  BY DEF TransferDone
<1>3. /\ Placed(duct') /\ duct'.limit = duct.limit
      /\ \/ duct' = duct /\ \A k \in messages : Id(k) = Id(s) => duct.ref[k] = NONE_ID
         \/ \E k \in messages :
              Id(k) = Id(s) /\ duct'.ref[k] = NONE_ID /\ Alike(duct, duct', k)
  BY <1>1, <1>2, RemoveFromOutductsFacts
<1>4. /\ messages' = messages /\ sending' = [sending EXCEPT ![h] = Nobody]
      /\ handed' = [m \in Messages |->
                      IF Id(m) = Id(s) THEN handed[m] \cup {h} ELSE handed[m]]
      /\ UNCHANGED <<now, control>>
  BY DEF TransferDone
<1>. HIDE DEF s
<1>5. RouterTypes'
  <2>1. handed' \in [Messages -> SUBSET Neighbors]
    BY <1>4 DEF RouterTypes
  <2>. QED
    BY <1>4, <2>1 DEF RouterTypes, control
<1>6. IdsDiffer'
  BY <1>4 DEF IdsDiffer
<1>7. NothingForgotten'
  <2>. SUFFICES ASSUME NEW m \in messages, duct'.ref[m] = NONE_ID
                PROVE  handed'[m] # {}
    BY <1>4 DEF NothingForgotten
  <2>1. CASE Id(m) = Id(s)
    BY <1>1, <1>4, <2>1
  <2>2. CASE Id(m) # Id(s)
    <3>1. duct.ref[m] = NONE_ID
      BY <1>1, <1>3, <2>2 DEF Alike
    <3>. QED
      BY <1>1, <1>4, <2>2, <3>1 DEF NothingForgotten
  <2>. QED
    BY <2>1, <2>2
<1>8. \A k \in Messages :
        duct'.ref[k] \in Hosts => duct.ref[k] \in Hosts /\ duct'.limit[k] = duct.limit[k]
  BY <1>3, OutductTypes DEF Alike
<1>9. \A k \in Messages : duct'.ref[k] \in {duct.ref[k], NONE_ID}
  BY <1>3 DEF Alike
<1>. QED
  BY <1>1, <1>3, <1>4, <1>5, <1>6, <1>7, <1>8, <1>9, QuietStep

-----------------------------------------------------------------------------
(* The actions: updates.                                                   *)

LEMMA UpdateKeepsInv ==
  ASSUME RouterInv, Update
  PROVE  RouterInv'
<1>. USE DEF RouterInv, Update, links, history
<1>1. RouterTypes' /\ Placed(duct)' /\ IdsDiffer' /\ QueuedAreRouted' /\ NothingForgotten'
  BY DEF RouterTypes, IdsDiffer, QueuedAreRouted, NothingForgotten, Placed, Sound,
    InPlace
<1>2. CollectedInPlace' /\ ExpiredAreCollected'
  BY DEF CollectedInPlace, ExpiredAreCollected
<1>. QED
  BY <1>1, <1>2

\* What is collected from a queue is in it, once each.
LEMMA WaitingFacts ==
  ASSUME NEW o \in Outduct, Placed(duct), NEW q \in Seq(Messages), Distinct(q),
         \A i \in DOMAIN q : q[i] \in ToSet(duct.queue[o]),
         stage' = "limbo" => o = LIMBO_ID,
         toForward' = Waiting(o, q), duct' = duct
  PROVE  CollectedInPlace'
<1>1. DOMAIN q = 1..Len(q) /\ Len(q) \in Nat /\ \A i \in DOMAIN q : q[i] \in Messages
  OBVIOUS
<1>2. /\ DOMAIN toForward' = DOMAIN q
      /\ \A i \in DOMAIN q :
           toForward'[i].queue = o /\ toForward'[i].message = q[i]
  BY DEF Waiting
<1>3. toForward' \in Seq([queue : Outduct, message : Messages])
  BY <1>1 DEF Waiting
<1>4. \A i \in DOMAIN q : duct.ref[q[i]] = o
  BY <1>1 DEF Placed, InPlace
<1>5. \A i, j \in DOMAIN q : q[i] = q[j] => i = j
  BY DEF Distinct
<1>. QED
  BY <1>2, <1>3, <1>4, <1>5 DEF CollectedInPlace

LEMMA CheckExpiredRoutesKeepsInv ==
  ASSUME RouterInv, CheckExpiredRoutes
  PROVE  RouterInv'
<1>. USE DEF RouterInv
<1>1. PICK o \in toCheck : \E n \in 0..Len(duct.queue[o]) :
         \E at \in [1..n -> DOMAIN duct.queue[o]] :
           LET q == duct.queue[o]
               returns == \E i \in DOMAIN q : duct.limit[q[i]] = 0
           IN  /\ IsNextOutduct(o) /\ ExpiredAt(q, at)
               /\ toCheck' = IF returns THEN {} ELSE toCheck \ {o}
               /\ toForward' = IF returns THEN <<>>
                               ELSE Waiting(o, [i \in 1..n |-> q[at[i]]])
  BY DEF CheckExpiredRoutes
<1>. DEFINE q == duct.queue[o]
<1>2. /\ o \in Hosts /\ o \in Outduct /\ o # LIMBO_ID
      /\ q \in Seq(Messages) /\ Distinct(q) /\ Placed(duct)
  BY OutductTypes DEF RouterTypes, Placed, Sound, DuctType
<1>3. /\ DOMAIN q = 1..Len(q) /\ Len(q) \in Nat
      /\ \A i \in DOMAIN q : q[i] \in Messages /\ q[i] \in ToSet(q)
  BY <1>2 DEF ToSet
<1>4. \A i \in DOMAIN q : duct.limit[q[i]] # 0
  BY <1>2, <1>3 DEF QueuedAreRouted, Placed, InPlace
<1>5. PICK n \in 0..Len(q) : \E at \in [1..n -> DOMAIN q] :
         /\ ExpiredAt(q, at)
         /\ toCheck' = toCheck \ {o}
         /\ toForward' = Waiting(o, [i \in 1..n |-> q[at[i]]])
  BY <1>1, <1>4
<1>6. PICK at \in [1..n -> DOMAIN q] :
         /\ ExpiredAt(q, at)
         /\ toCheck' = toCheck \ {o}
         /\ toForward' = Waiting(o, [i \in 1..n |-> q[at[i]]])
  BY <1>5
<1>7. /\ stage = "expired" /\ stage' = stage /\ toForward = <<>>
      /\ UNCHANGED <<now, messages, duct, sending, handed>>
  BY DEF CheckExpiredRoutes, links, history
<1>. DEFINE c == [i \in 1..n |-> q[at[i]]]
<1>. HIDE DEF q
<1>9. /\ n \in Nat /\ DOMAIN at = 1..n
      /\ \A i \in 1..n : at[i] \in DOMAIN q /\ at[i] \in Nat /\ q[at[i]] \in Messages
  <2>1. \A i \in 1..n : at[i] \in DOMAIN q
    OBVIOUS
  <2>. QED
    BY <1>3, <2>1
<1>8. /\ c \in Seq(Messages) /\ DOMAIN c = 1..n
      /\ \A i \in 1..n : c[i] = q[at[i]]
  BY <1>9
<1>. HIDE DEF c
<1>10. \A i, j \in 1..n : at[i] = at[j] => i = j
  <2>1. \A i, j \in 1..n : i < j => at[i] < at[j]
    BY <1>6, <1>9 DEF ExpiredAt
  <2>2. ASSUME NEW i \in 1..n, NEW j \in 1..n, at[i] = at[j] PROVE i = j
    <3>1. i \in Nat /\ j \in Nat /\ at[i] \in Nat /\ at[j] \in Nat
      BY <1>9
    <3>2. ~(at[i] < at[j]) /\ ~(at[j] < at[i])
      BY <2>2, <3>1
    <3>3. ~(i < j) /\ ~(j < i)
      BY <2>1, <3>2
    <3>. QED
      BY <3>1, <3>3
  <2>. QED
    BY <2>2
<1>11. Distinct(c)
  BY <1>2, <1>8, <1>10 DEF Distinct
<1>12. CollectedInPlace'
  BY <1>2, <1>3, <1>6, <1>7, <1>8, <1>11, WaitingFacts DEF c, q
<1>13. RouterTypes' /\ Placed(duct)' /\ IdsDiffer' /\ QueuedAreRouted' /\ NothingForgotten'
  BY <1>6, <1>7 DEF RouterTypes, IdsDiffer, QueuedAreRouted, NothingForgotten,
    Placed, Sound, InPlace
<1>14. ExpiredAreCollected'
  <2>. SUFFICES ASSUME NEW m \in Messages, duct.ref[m] \in Hosts \ toCheck',
                       duct.limit[m] < now
                PROVE  \E i \in DOMAIN toForward' : toForward'[i].message = m
    BY <1>7 DEF ExpiredAreCollected
  <2>1. CASE duct.ref[m] # o
    <3>1. duct.ref[m] \in Hosts \ toCheck
      BY <1>6, <2>1
    <3>. QED
      BY <1>7, <3>1 DEF ExpiredAreCollected
  <2>2. CASE duct.ref[m] = o
    <3>1. m \in ToSet(q)
      BY <1>2, <2>2 DEF Placed, InPlace, q
    <3>2. PICK i \in DOMAIN q : q[i] = m
      BY <3>1 DEF ToSet
    <3>3. now > duct.limit[q[i]]
      BY <1>2, <3>2 DEF Placed, Sound, DuctType, RouterTypes
    <3>4. PICK k \in 1..n : at[k] = i
      BY <1>6, <1>9, <3>3 DEF ExpiredAt
    <3>5. c[k] = m /\ k \in DOMAIN c
      BY <1>8, <3>2, <3>4
    <3>6. toForward' = Waiting(o, c)
      BY <1>6 DEF c
    <3>. QED
      BY <3>5, <3>6 DEF Waiting
  <2>. QED
    BY <2>1, <2>2
<1>. QED
  BY <1>12, <1>13, <1>14

\* The first message collected is moved; the others stay as they were.
LEMMA ForwardStep ==
  ASSUME RouterInv, toForward # <<>>, toForward' = Tail(toForward),
         UNCHANGED <<now, stage, toCheck, messages, links, history>>,
         NEW m \in Messages, Head(toForward).message = m,
         Placed(duct'), Alike(duct, duct', m), duct'.ref[m] \in Outduct,
         duct'.ref[m] \in Hosts => duct'.limit[m] >= now
  PROVE  RouterInv'
<1>. USE DEF RouterInv
<1>. DEFINE s == toForward
<1>. DEFINE S == [queue : Outduct, message : Messages]
<1>0. s \in Seq(S) /\ s # <<>>
  BY DEF CollectedInPlace
<1>2. /\ toForward' \in Seq(S)
      /\ \A i \in DOMAIN toForward' :
           i \in Nat /\ i + 1 \in DOMAIN s /\ toForward'[i] = s[i + 1] /\ i + 1 # 1
      /\ \A i \in DOMAIN s \ {1} :
           i - 1 \in DOMAIN toForward' /\ toForward'[i - 1] = s[i]
      /\ 1 \in DOMAIN s /\ Head(s) = s[1] /\ Head(s) \in S
  BY <1>0, HeadTailFacts
<1>1. m = s[1].message /\ m \in Messages /\ 1 \in DOMAIN s
  BY <1>2
<1>10. \A i \in DOMAIN s : s[i] \in S
  BY <1>0, LenProperties
<1>3. /\ Placed(duct') /\ Alike(duct, duct', m) /\ duct'.ref[m] \in Outduct
      /\ duct'.ref[m] \in Hosts => duct'.limit[m] >= now
  OBVIOUS
<1>. HIDE DEF s, S
<1>4. now \in Nat \ {0} /\ messages \subseteq Messages
  BY DEF RouterTypes
<1>5. RouterTypes' /\ IdsDiffer'
  BY DEF RouterTypes, IdsDiffer, links, history
<1>6. CollectedInPlace'
  <2>1. \A i \in DOMAIN toForward' :
          /\ toForward'[i].message \in Messages \ {m}
          /\ duct.ref[toForward'[i].message] = toForward'[i].queue
          /\ stage = "limbo" => toForward'[i].queue = LIMBO_ID
    <3>. SUFFICES ASSUME NEW i \in DOMAIN toForward'
                  PROVE  /\ s[i + 1].message \in Messages \ {m}
                         /\ duct.ref[s[i + 1].message] = s[i + 1].queue
                         /\ stage = "limbo" => s[i + 1].queue = LIMBO_ID
      BY <1>2
    <3>1. i + 1 \in DOMAIN s /\ i + 1 # 1
      BY <1>2
    <3>2. s[i + 1].message \in Messages
      BY <1>10, <3>1 DEF S
    <3>. QED
      BY <1>1, <3>1, <3>2 DEF CollectedInPlace, s
  <2>2. \A i, j \in DOMAIN toForward' :
          toForward'[i].message = toForward'[j].message => i = j
    <3>. SUFFICES ASSUME NEW i \in DOMAIN toForward', NEW j \in DOMAIN toForward',
                         toForward'[i].message = toForward'[j].message
                  PROVE  i = j
      OBVIOUS
    <3>1. i + 1 = j + 1
      BY <1>2 DEF CollectedInPlace, s
    <3>2. i \in Nat /\ j \in Nat
      BY <1>2
    <3>. QED
      BY <3>1, <3>2
  <2>. QED
    BY <1>2, <1>3, <2>1, <2>2 DEF CollectedInPlace, Alike, S
<1>7. QueuedAreRouted'
  <2>1. \A k \in Messages : duct'.limit[k] \in Int
    BY <1>3 DEF Placed, Sound, DuctType
  <2>. QED
    BY <1>3, <1>4, <2>1 DEF QueuedAreRouted, Alike
<1>8. NothingForgotten'
  BY <1>3, <1>4, OutductTypes DEF NothingForgotten, Alike, history
<1>9. ExpiredAreCollected'
  <2>1. \A k \in Messages : duct'.limit[k] \in Int
    BY <1>3 DEF Placed, Sound, DuctType
  <2>2. \A k \in Messages \ {m} :
          duct'.ref[k] = duct.ref[k] /\ duct'.limit[k] = duct.limit[k]
    BY <1>3 DEF Alike
  <2>3. ASSUME stage = "expired", NEW k \in Messages,
               duct'.ref[k] \in Hosts \ toCheck, duct'.limit[k] < now
        PROVE  \E i \in DOMAIN toForward' : toForward'[i].message = k
    <3>1. k # m
      BY <1>3, <1>4, <2>1, <2>3
    <3>2. PICK i \in DOMAIN s : s[i].message = k
      BY <2>2, <2>3, <3>1 DEF ExpiredAreCollected, s
    <3>3. i # 1
      BY <1>1, <3>1, <3>2
    <3>. QED
      BY <1>2, <3>2, <3>3
  <2>4. ASSUME stage = "limbo", NEW k \in Messages, duct'.ref[k] \in Hosts
        PROVE  duct'.limit[k] >= now
    BY <1>3, <2>2, <2>4 DEF ExpiredAreCollected
  <2>. QED
    BY <2>3, <2>4 DEF ExpiredAreCollected
<1>. QED
  BY <1>3, <1>5, <1>6, <1>7, <1>8, <1>9

LEMMA RerouteKeepsInv ==
  ASSUME RouterInv, Reroute
  PROVE  RouterInv' /\ \E m \in Messages : duct.ref[m] # NONE_ID /\ Alike(duct, duct', m)
<1>. USE DEF RouterInv
<1>0. PICK m : Head(toForward).message = m
  OBVIOUS
<1>. DEFINE o == Head(toForward).queue
            b == RemoveMessageFromOutduct(duct, o, m)
            c == PutMessageIntoLimbo(b, m)
<1>1. /\ toForward # <<>> /\ toForward' = Tail(toForward) /\ duct' \in CgrForward(c, m)
      /\ UNCHANGED <<now, stage, toCheck, messages, links, history>>
  BY <1>0 DEF Reroute
<1>2. o \in Outduct /\ m \in Messages /\ duct.ref[m] = o
  <2>1. 1 \in DOMAIN toForward /\ Head(toForward) = toForward[1]
        /\ toForward[1] \in [queue : Outduct, message : Messages]
    BY <1>1, HeadTailFacts DEF CollectedInPlace
  <2>. QED
    BY <1>0, <2>1 DEF CollectedInPlace
<1>3. Sound(duct) /\ InPlace(duct, m) /\ m \in ToSet(duct.queue[o]) /\ now \in Nat
  BY <1>2 DEF Placed, InPlace, RouterTypes
<1>. HIDE DEF o
<1>4. /\ Sound(b) /\ Unplaced(b, m) /\ b.ref[m] = NONE_ID /\ Alike(duct, b, m)
  BY <1>2, <1>3, RemoveFacts
<1>. HIDE DEF b
<1>5. c = InsertIntoLimbo(b, m)
  BY <1>4 DEF PutMessageIntoLimbo, NONE_ID
<1>. HIDE DEF c
<1>6. Sound(c) /\ InPlace(c, m) /\ c.ref[m] = LIMBO_ID /\ Alike(b, c, m)
  BY <1>2, <1>4, <1>5, LimboFacts
<1>7. /\ Sound(duct') /\ InPlace(duct', m) /\ Alike(c, duct', m)
      /\ duct'.ref[m] \in Outduct
      /\ duct'.ref[m] \in Hosts => duct'.limit[m] >= now
  BY <1>1, <1>2, <1>3, <1>6, CgrForwardFacts
<1>8. Alike(duct, duct', m)
  BY <1>4, <1>6, <1>7, AlikeTransitive
<1>9. Placed(duct')
  BY <1>2, <1>7, <1>8, AlikePlaced DEF Placed
<1>10. RouterInv'
  BY <1>0, <1>1, <1>2, <1>7, <1>8, <1>9, ForwardStep
<1>. QED
  BY <1>2, <1>8, <1>10, OutductTypes

LEMMA CheckLimboKeepsInv ==
  ASSUME RouterInv, CheckLimbo
  PROVE  RouterInv'
<1>. USE DEF RouterInv
<1>. DEFINE q == duct.queue[LIMBO_ID]
<1>1. /\ stage = "expired" /\ toForward = <<>> /\ toCheck = {} /\ stage' = "limbo"
      /\ UNCHANGED <<now, toCheck, messages, duct, sending, handed>>
  BY DEF CheckLimbo, links, history
<1>2. RouterTypes' /\ Placed(duct)' /\ IdsDiffer' /\ QueuedAreRouted' /\ NothingForgotten'
  BY <1>1 DEF RouterTypes, IdsDiffer, QueuedAreRouted, NothingForgotten,
    Placed, Sound, InPlace
<1>3. LIMBO_ID \in Outduct /\ q \in Seq(Messages) /\ Distinct(q)
  BY OutductTypes DEF Placed, Sound, DuctType
<1>4. CollectedInPlace'
  <2>1. CASE toForward' = <<>>
    BY <2>1 DEF CollectedInPlace
  <2>2. CASE toForward' = Waiting(LIMBO_ID, q)
    BY <1>1, <1>3, <2>2, WaitingFacts DEF ToSet
  <2>. QED
    BY <2>1, <2>2 DEF CheckLimbo
<1>5. ExpiredAreCollected'
  <2>. SUFFICES ASSUME NEW m \in Messages, duct.ref[m] \in Hosts
                PROVE  duct.limit[m] >= now
    BY <1>1 DEF ExpiredAreCollected
  <2>1. ~(duct.limit[m] < now)
    BY <1>1 DEF ExpiredAreCollected
  <2>. QED
    BY <2>1 DEF Placed, Sound, DuctType, RouterTypes
<1>. QED
  BY <1>2, <1>4, <1>5

LEMMA TryRouteForMessageIntoLimboKeepsInv ==
  ASSUME RouterInv, TryRouteForMessageIntoLimbo
  PROVE  RouterInv' /\ \E m \in Messages : duct.ref[m] # NONE_ID /\ Alike(duct, duct', m)
<1>. USE DEF RouterInv
<1>0. PICK m : Head(toForward).message = m
  OBVIOUS
<1>1. /\ toForward # <<>> /\ toForward' = Tail(toForward) /\ duct' \in CgrForward(duct, m)
      /\ stage = "limbo" /\ UNCHANGED <<now, stage, toCheck, messages, links, history>>
  BY <1>0 DEF TryRouteForMessageIntoLimbo
<1>2. m \in Messages /\ duct.ref[m] = LIMBO_ID
  <2>1. 1 \in DOMAIN toForward /\ Head(toForward) = toForward[1]
        /\ toForward[1] \in [queue : Outduct, message : Messages]
    BY <1>1, HeadTailFacts DEF CollectedInPlace
  <2>. QED
    BY <1>0, <1>1, <2>1 DEF CollectedInPlace
<1>3. Sound(duct) /\ InPlace(duct, m) /\ now \in Nat
  BY <1>2 DEF Placed, RouterTypes
<1>4. /\ Sound(duct') /\ InPlace(duct', m) /\ Alike(duct, duct', m)
      /\ duct'.ref[m] \in Outduct
      /\ duct'.ref[m] \in Hosts => duct'.limit[m] >= now
  BY <1>1, <1>2, <1>3, CgrForwardFacts
<1>5. Placed(duct')
  BY <1>2, <1>4, AlikePlaced DEF Placed
<1>6. RouterInv'
  BY <1>0, <1>1, <1>2, <1>4, <1>5, ForwardStep
<1>. QED
  BY <1>2, <1>4, <1>6, OutductTypes

-----------------------------------------------------------------------------
(* The invariant of the specification.                                     *)

\* The other steps collect nothing and move no message.
LEMMA OtherStepKeepsInv ==
  ASSUME RouterInv,
         UNCHANGED <<toCheck, toForward, messages, duct, handed>>,
         sending' \in [Neighbors -> Messages \cup {Nobody}],
         toForward = <<>>, stage # "expired", stage' \in {stage, "idle"},
         \/ now' = now
         \/ now' = now + 1 /\ stage' = "idle"
  PROVE  RouterInv'
<1>. USE DEF RouterInv
<1>1. RouterTypes' /\ IdsDiffer' /\ QueuedAreRouted' /\ NothingForgotten'
  BY DEF RouterTypes, IdsDiffer, QueuedAreRouted, NothingForgotten
<1>2. Placed(duct)'
  BY DEF Placed, Sound, InPlace
<1>3. CollectedInPlace' /\ ExpiredAreCollected'
  BY DEF CollectedInPlace, ExpiredAreCollected
<1>. QED
  BY <1>1, <1>2, <1>3

LEMMA SendingTypes ==
  ASSUME RouterInv, NEW h \in Neighbors
  PROVE  /\ sending \in [Neighbors -> Messages \cup {Nobody}]
         /\ [sending EXCEPT ![h] = Nobody] \in [Neighbors -> Messages \cup {Nobody}]
         /\ duct.queue[h] # <<>> =>
              [sending EXCEPT ![h] = Head(duct.queue[h])]
                \in [Neighbors -> Messages \cup {Nobody}]
<1>1. sending \in [Neighbors -> Messages \cup {Nobody}]
  BY DEF RouterInv, RouterTypes
<1>2. duct.queue[h] \in Seq(Messages)
  BY OutductTypes DEF RouterInv, Placed, Sound, DuctType
<1>3. duct.queue[h] # <<>> => Head(duct.queue[h]) \in Messages
  BY <1>2, HeadTailFacts
<1>. QED
  BY <1>1, <1>3

LEMMA QuietUpdatesKeepInv ==
  ASSUME RouterInv,
         \/ \E h \in Neighbors : TransferAborted(h) \/ StartTransfer(h)
         \/ NothingToSend
  PROVE  RouterInv'
<1>1. ASSUME NEW h \in Neighbors, TransferAborted(h) PROVE RouterInv'
  BY <1>1, SendingTypes, OtherStepKeepsInv DEF TransferAborted, Active, control, history
<1>2. ASSUME NEW h \in Neighbors, StartTransfer(h) PROVE RouterInv'
  <2>1. duct.queue[h] # <<>>
    BY <1>2 DEF StartTransfer, Takers
  <2>. QED
    BY <1>2, <2>1, SendingTypes, OtherStepKeepsInv DEF StartTransfer, Active, history
<1>3. ASSUME NothingToSend PROVE RouterInv'
  BY <1>3, OtherStepKeepsInv DEF NothingToSend, Active, links, history, RouterInv, RouterTypes
<1>. QED
  BY <1>1, <1>2, <1>3

LEMMA QuietEventsKeepInv ==
  ASSUME RouterInv,
         \/ \E h \in Neighbors : Connect(h) \/ Disconnect(h)
         \/ ContactPlanChanged \/ Tick
  PROVE  RouterInv'
<1>1. /\ UNCHANGED <<control, messages, duct, handed, sending>>
      /\ stage = "idle"
      /\ now' \in {now, now + 1}
  BY DEF Connect, Disconnect, ContactPlanChanged, Tick, links, history, Idle
<1>2. toForward = <<>> /\ sending \in [Neighbors -> Messages \cup {Nobody}]
  BY <1>1 DEF RouterInv, RouterTypes
<1>. QED
  BY <1>1, <1>2, OtherStepKeepsInv DEF control

LEMMA StutterKeepsInv ==
  ASSUME RouterInv, UNCHANGED vars
  PROVE  RouterInv'
BY DEF vars, control, links, history, RouterInv, RouterTypes, IdsDiffer,
  QueuedAreRouted, NothingForgotten, Placed, Sound, InPlace, CollectedInPlace,
  ExpiredAreCollected

LEMMA InitRouterInv ==
  ASSUME Init
  PROVE  RouterInv
<1>1. /\ now = 1 /\ stage = "idle" /\ toCheck = {} /\ toForward = <<>>
      /\ messages = {} /\ sending = [h \in Neighbors |-> Nobody]
      /\ handed = [m \in Messages |-> {}]
  BY DEF Init
<1>2. duct = [queue |-> [o \in Outduct |-> <<>>], bytes |-> [h \in Hosts |-> 0],
              ref |-> [m \in Messages |-> NONE_ID], limit |-> [m \in Messages |-> 0]]
  BY DEF Init
<1>3. RouterTypes /\ CollectedInPlace /\ IdsDiffer /\ ExpiredAreCollected /\ NothingForgotten
  BY <1>1 DEF RouterTypes, CollectedInPlace, IdsDiffer, ExpiredAreCollected,
    NothingForgotten
<1>4. duct \in DuctType
  BY <1>2 DEF DuctType
<1>5. Placed(duct) /\ QueuedAreRouted
  BY <1>2, <1>4, OutductTypes DEF Placed, Sound, InPlace, QueuedAreRouted, Distinct, ToSet
<1>. QED
  BY <1>3, <1>5 DEF RouterInv

LEMMA NextKeepsInv ==
  ASSUME RouterInv, [Next]_vars
  PROVE  RouterInv'
<1>1. CASE UpdateStep
  BY <1>1, UpdateKeepsInv, CheckExpiredRoutesKeepsInv, RerouteKeepsInv,
    CheckLimboKeepsInv, TryRouteForMessageIntoLimboKeepsInv, QuietUpdatesKeepInv
    DEF UpdateStep
<1>2. ASSUME NEW h \in Neighbors, TransferDone(h) \/ Connect(h) \/ Disconnect(h)
      PROVE  RouterInv'
  BY <1>2, TransferDoneKeepsInv, QuietEventsKeepInv
<1>3. ASSUME NEW m \in Messages,
             \/ CreateNewMessage(m) \/ RemoveFromMessages(m)
             \/ \E h \in Neighbors : MessageTransferred(m, h)
      PROVE  RouterInv'
  BY <1>3, CreateNewMessageKeepsInv, RemoveFromMessagesKeepsInv, MessageTransferredKeepsInv
<1>4. CASE ContactPlanChanged \/ Tick
  BY <1>4, QuietEventsKeepInv
<1>. QED
  BY <1>1, <1>2, <1>3, <1>4, StutterKeepsInv DEF Next

LEMMA RouterInvariant == Spec => []RouterInv
<1>1. Init => RouterInv
  BY InitRouterInv
<1>2. RouterInv /\ [Next]_vars => RouterInv'
  BY NextKeepsInv
<1>. QED
  BY <1>1, <1>2, PTL DEF Spec

-----------------------------------------------------------------------------
(* What the invariant means for the router.                                *)

LEMMA OneIndex ==
  ASSUME NEW d, Sound(d), NEW o \in Outduct, NEW m \in Messages
  PROVE  Cardinality({i \in DOMAIN d.queue[o] : d.queue[o][i] = m}) <= 1
<1>. DEFINE I == {i \in DOMAIN d.queue[o] : d.queue[o][i] = m}
<1>1. \A i, j \in I : i = j
  BY DEF Sound, Distinct
<1>2. CASE I = {}
  BY <1>2, FS_EmptySet
<1>3. CASE I # {}
  <2>1. PICK i \in I : TRUE
    BY <1>3
  <2>2. I = {i}
    BY <1>1
  <2>. HIDE DEF I
  <2>. QED
    BY <2>2, FS_Singleton DEF I
<1>. QED
  BY <1>2, <1>3

\* A message of the buffer that waits in no queue was taken by some neighbor.
THEOREM MessagesNotForgotten == Spec => []NothingForgotten
<1>1. RouterInv => NothingForgotten
  BY DEF RouterInv
<1>. QED
  BY <1>1, RouterInvariant, PTL

\* When an update has looked for expired routes, no outduct holds a message
\* whose route has expired.
THEOREM ExpiredRoutesAreLeft == Spec => []NoExpiredRoute
<1>1. RouterInv => NoExpiredRoute
  <2>. SUFFICES ASSUME RouterInv, stage = "limbo", NEW h \in Hosts,
                       NEW m \in ToSet(duct.queue[h])
                PROVE  duct.limit[m] >= now
    BY DEF NoExpiredRoute
  <2>1. h \in Outduct /\ duct.queue[h] \in Seq(Messages)
    BY OutductTypes DEF RouterInv, Placed, Sound, DuctType
  <2>2. m \in Messages
    BY <2>1 DEF ToSet
  <2>. QED
    BY <2>1, <2>2 DEF RouterInv, Placed, InPlace, ExpiredAreCollected
<1>. QED
  BY <1>1, RouterInvariant, PTL

-----------------------------------------------------------------------------
(* Queues hold nothing that was dropped: what is queued is in the buffer,  *)
(* or a copy replaced it there while it was queued.                        *)

BufferInv ==
  /\ \A k \in Messages : duct.ref[k] # NONE_ID => k \in messages \cup replaced
  /\ replaced \subseteq Messages

LEMMA NextKeepsBuffered ==
  ASSUME RouterInv, BufferInv, [Next]_vars
  PROVE  BufferInv'
<1>. USE DEF BufferInv
<1>1. ASSUME UNCHANGED <<messages, duct, replaced>>
      PROVE  BufferInv'
  BY <1>1
<1>2. ASSUME NEW m \in Messages, CreateNewMessage(m)
      PROVE  BufferInv'
  <2>1. messages' = messages \cup {m} /\ replaced' = replaced \ {m}
    BY <1>2 DEF CreateNewMessage
  <2>. QED
    BY <1>2, <2>1, CreateNewMessageKeepsInv DEF Alike
<1>3. ASSUME NEW m \in Messages, NEW h \in Neighbors, MessageTransferred(m, h)
      PROVE  BufferInv'
  <2>1. messages \subseteq Messages /\ messages \cup replaced \cup {m} = messages' \cup replaced'
    BY <1>3 DEF MessageTransferred, RouterInv, RouterTypes
  <2>2. replaced' \subseteq Messages
    BY <1>3, <2>1 DEF MessageTransferred
  <2>. QED
    BY <1>3, <2>1, <2>2, MessageTransferredKeepsInv DEF Alike
<1>4. ASSUME NEW m \in Messages, RemoveFromMessages(m)
      PROVE  BufferInv'
  <2>1. messages' = messages \ {m} /\ replaced' = replaced
    BY <1>4 DEF RemoveFromMessages
  <2>. QED
    BY <1>4, <2>1, RemoveFromMessagesKeepsInv
<1>5. ASSUME NEW h \in Neighbors, TransferDone(h)
      PROVE  BufferInv'
  <2>1. messages' = messages /\ replaced' = replaced
    BY <1>5 DEF TransferDone
  <2>. QED
    BY <1>5, <2>1, TransferDoneKeepsInv
<1>6. ASSUME Reroute \/ TryRouteForMessageIntoLimbo
      PROVE  BufferInv'
  <2>1. messages' = messages /\ replaced' = replaced
    BY <1>6 DEF Reroute, TryRouteForMessageIntoLimbo, history
  <2>2. PICK m \in Messages : duct.ref[m] # NONE_ID /\ Alike(duct, duct', m)
    BY <1>6, RerouteKeepsInv, TryRouteForMessageIntoLimboKeepsInv
  <2>. QED
    BY <2>1, <2>2 DEF Alike
<1>7. ASSUME \/ Update \/ CheckExpiredRoutes \/ CheckLimbo \/ NothingToSend
             \/ \E h \in Neighbors : TransferAborted(h) \/ StartTransfer(h)
             \/ \E h \in Neighbors : Connect(h) \/ Disconnect(h)
             \/ ContactPlanChanged \/ Tick \/ UNCHANGED vars
      PROVE  BufferInv'
  <2>1. UNCHANGED <<messages, duct, replaced>>
    BY <1>7 DEF Update, CheckExpiredRoutes, CheckLimbo, NothingToSend,
      TransferAborted, StartTransfer, Connect, Disconnect, ContactPlanChanged,
      Tick, vars, history
  <2>. QED
    BY <1>1, <2>1
<1>. QED
  BY <1>2, <1>3, <1>4, <1>5, <1>6, <1>7 DEF Next, UpdateStep

LEMMA BufferInvariant == Spec => []BufferInv
<1>1. Init => BufferInv
  <2>1. ASSUME Init PROVE duct.ref = [m \in Messages |-> NONE_ID] /\ replaced = {}
    BY <2>1 DEF Init
  <2>. QED
    BY <2>1 DEF BufferInv
<1>2. RouterInv /\ BufferInv /\ [Next]_vars => BufferInv'
  BY NextKeepsBuffered
<1>. QED
  BY <1>1, <1>2, RouterInvariant, PTL DEF Spec

\* Every message of the buffer is in the one queue that its property names,
\* and there once, or in none if it names none; so is one that was replaced.
THEOREM MessagesInOnePlace == Spec => []InOnePlace
<1>1. RouterInv /\ BufferInv => InOnePlace
  <2>. SUFFICES ASSUME RouterInv, BufferInv, NEW m \in messages \cup replaced
                PROVE  /\ Places(m) = {duct.ref[m]} \ {NONE_ID}
                       /\ \A o \in Outduct :
                            Cardinality({i \in DOMAIN duct.queue[o] : duct.queue[o][i] = m}) <= 1
    BY DEF InOnePlace
  <2>1. m \in Messages /\ Sound(duct) /\ InPlace(duct, m)
    BY DEF RouterInv, BufferInv, RouterTypes, Placed
  <2>2. duct.ref[m] \in Outduct \cup {NONE_ID}
    BY <2>1 DEF Sound, DuctType
  <2>3. Places(m) = {duct.ref[m]} \ {NONE_ID}
    BY <2>1, <2>2, OutductTypes DEF Places, InPlace
  <2>. QED
    BY <2>1, <2>3, OneIndex
<1>. QED
  BY <1>1, RouterInvariant, BufferInvariant, PTL

\* Whatever neighbors send, copies of known messages included, a message in a
\* queue is in the buffer or was replaced there by a copy: no drop, transfer
\* or rerouting leaves one behind.
THEOREM QueuedStayBuffered == Spec => []QueuedAreBuffered
<1>1. RouterInv /\ BufferInv => QueuedAreBuffered
  <2>. SUFFICES ASSUME RouterInv, BufferInv, NEW o \in Outduct,
                       NEW m \in ToSet(duct.queue[o])
                PROVE  m \in messages \cup replaced
    BY DEF QueuedAreBuffered, Queued
  <2>1. duct.queue[o] \in Seq(Messages)
    BY DEF RouterInv, Placed, Sound, DuctType
  <2>2. m \in Messages
    BY <2>1 DEF ToSet
  <2>. QED
    BY <2>2, OutductTypes DEF RouterInv, Placed, InPlace, BufferInv
<1>. QED
  BY <1>1, RouterInvariant, BufferInvariant, PTL

-----------------------------------------------------------------------------
(* The backlog.  Moving a message from one queue to another takes its size *)
(* from one sum and adds it to the other.                                  *)

Sizes(q) == [i \in 1..Len(q) |-> Size(q[i])]

LEMMA TotalIs ==
  ASSUME NEW q \in Seq(Messages), NEW f, Sums(Sizes(q), f)
  PROVE  Total(q) = f[Len(q)]
<1>. DEFINE n == Len(q)
            Next1(g) == [i \in 0..n |-> IF i = 0 THEN 0 ELSE g[i - 1] + Size(q[i])]
            s == CHOOSE g : g = Next1(g)
            P == {i \in Nat : i <= n => s[i] = f[i]}
<1>1. /\ n \in Nat /\ n \in 0..n /\ Len(Sizes(q)) = n
      /\ \A i \in 1..n : Sizes(q)[i] = Size(q[i])
  BY DEF Sizes
<1>2. /\ f \in [0..n -> Int] /\ f[0] = 0
      /\ \A i \in 1..n : f[i] = f[i - 1] + Size(q[i])
  BY <1>1 DEF Sums, SumsUpTo
<1>3. f = Next1(f)
  <2>1. \A i \in 0..n : f[i] = Next1(f)[i]
    BY <1>2
  <2>. QED
    BY <1>2, <2>1
<1>. HIDE DEF Next1
<1>4. s = Next1(s)
  BY <1>3
<1>. HIDE DEF s
<1>5. /\ s[0] = 0
      /\ \A i \in 1..n : s[i] = s[i - 1] + Size(q[i])
  <2>1. Next1(s) = [i \in 0..n |-> IF i = 0 THEN 0 ELSE s[i - 1] + Size(q[i])]
    BY DEF Next1
  <2>2. 0 \in 0..n /\ \A i \in 1..n : i \in 0..n /\ i # 0
    BY <1>1
  <2>. HIDE DEF n, P
  <2>. QED
    BY <1>4, <2>1, <2>2
<1>6. 0 \in P /\ P \in SUBSET Nat
  BY <1>2, <1>5
<1>7. ASSUME NEW i \in 1..n, i - 1 \in P PROVE i \in P
  <2>1. s[i - 1] = f[i - 1]
    BY <1>1, <1>7
  <2>. QED
    BY <1>2, <1>5, <2>1
<1>. HIDE DEF P
<1>8. n \in P
  BY <1>1, <1>6, <1>7, UpTo
<1>9. s[n] = f[n]
  BY <1>1, <1>8 DEF P
<1>. QED
  BY <1>9 DEF Total, s, Next1

\* The sums of the sizes in a queue, which Total has the last of.
LEMMA TotalSums ==
  ASSUME NEW q \in Seq(Messages)
  PROVE  /\ Sizes(q) \in Seq(Int) /\ Len(Sizes(q)) = Len(q)
         /\ Total(q) \in Nat
         /\ \E f : Sums(Sizes(q), f) /\ Total(q) = f[Len(q)]
<1>1. /\ Sizes(q) \in Seq(Int) /\ Len(Sizes(q)) = Len(q)
      /\ \A i \in 1..Len(q) : Sizes(q)[i] >= 0
  BY MessageAssumption DEF Sizes
<1>2. PICK f : Sums(Sizes(q), f)
  BY <1>1, SumsExist
<1>3. Total(q) = f[Len(q)]
  BY <1>2, TotalIs
<1>4. f[Len(Sizes(q))] \in Nat
  BY <1>1, <1>2, SumsNotNegative
<1>. QED
  BY <1>1, <1>2, <1>3, <1>4

LEMMA TotalAppend ==
  ASSUME NEW q \in Seq(Messages), NEW m \in Messages
  PROVE  Total(Append(q, m)) = Total(q) + Size(m)
<1>. DEFINE p == Append(q, m)
            w == Sizes(q)
<1>1. /\ p \in Seq(Messages) /\ Len(p) = Len(q) + 1 /\ p[Len(q) + 1] = m
      /\ \A i \in 1..Len(q) : p[i] = q[i]
  OBVIOUS
<1>2. w \in Seq(Int) /\ Len(w) = Len(q) /\ \A i \in 1..Len(q) : w[i] = Size(q[i])
  BY TotalSums DEF Sizes
<1>3. PICK x \in Int : x = Size(m)
  BY MessageAssumption
<1>. HIDE DEF p
<1>. HIDE DEF w
<1>4. Sizes(p) = Append(w, x)
  <2>1. /\ Append(w, x) \in Seq(Int) /\ Len(Append(w, x)) = Len(q) + 1
        /\ Append(w, x)[Len(q) + 1] = x
        /\ \A i \in 1..Len(q) : Append(w, x)[i] = w[i]
    BY <1>2
  <2>2. Sizes(p) \in Seq(Int) /\ Len(Sizes(p)) = Len(q) + 1
    BY <1>1, TotalSums
  <2>3. \A i \in 1..(Len(q) + 1) : Sizes(p)[i] = Size(p[i])
    BY <1>1 DEF Sizes
  <2>4. \A i \in 1..(Len(q) + 1) : i \in 1..Len(q) \/ i = Len(q) + 1
    OBVIOUS
  <2>5. \A i \in 1..(Len(q) + 1) : Sizes(p)[i] = Append(w, x)[i]
    BY <1>1, <1>2, <1>3, <2>1, <2>3, <2>4
  <2>. QED
    BY <2>1, <2>2, <2>5, SeqEqual
<1>5. PICK f : Sums(w, f) /\ Total(q) = f[Len(q)]
  BY TotalSums DEF w
<1>6. PICK g : Sums(Sizes(p), g) /\ Total(p) = g[Len(p)]
  BY <1>1, TotalSums
<1>7. g[Len(w) + 1] = f[Len(w)] + x
  BY <1>2, <1>4, <1>5, <1>6, SumsAppend
<1>. QED
  BY <1>1, <1>2, <1>3, <1>5, <1>6, <1>7 DEF p

LEMMA TotalRemove ==
  ASSUME NEW q \in Seq(Messages), NEW m \in ToSet(q)
  PROVE  /\ RemoveFirst(q, m) \in Seq(Messages)
         /\ Total(RemoveFirst(q, m)) = Total(q) - Size(m)
<1>1. PICK k \in 1..Len(q) : q[k] = m /\ RemoveFirst(q, m) = RemoveAt(q, k)
  BY RemoveFirstIs
<1>. DEFINE p == RemoveAt(q, k)
            w == Sizes(q)
<1>2. /\ p \in Seq(Messages) /\ Len(p) = Len(q) - 1
      /\ \A i \in 1..(Len(q) - 1) : p[i] = IF i < k THEN q[i] ELSE q[i + 1]
  BY RemoveAtFacts
<1>3. w \in Seq(Int) /\ Len(w) = Len(q) /\ \A i \in 1..Len(q) : w[i] = Size(q[i])
  BY TotalSums DEF Sizes
<1>. HIDE DEF p
<1>. HIDE DEF w
<1>4. Sizes(p) = RemoveAt(w, k)
  <2>1. /\ RemoveAt(w, k) \in Seq(Int) /\ Len(RemoveAt(w, k)) = Len(q) - 1
        /\ \A i \in 1..(Len(q) - 1) :
             RemoveAt(w, k)[i] = IF i < k THEN w[i] ELSE w[i + 1]
    <3>1. w \in Seq(Int) /\ k \in 1..Len(w) /\ Len(w) = Len(q)
      BY <1>3
    <3>2. /\ RemoveAt(w, k) \in Seq(Int) /\ Len(RemoveAt(w, k)) = Len(w) - 1
          /\ \A i \in 1..(Len(w) - 1) :
               RemoveAt(w, k)[i] = IF i < k THEN w[i] ELSE w[i + 1]
      BY ONLY <3>1, RemoveAtFacts
    <3>. QED
      BY <3>1, <3>2
  <2>2. Sizes(p) \in Seq(Int) /\ Len(Sizes(p)) = Len(q) - 1
    BY <1>2, TotalSums
  <2>3. \A i \in 1..(Len(q) - 1) : Sizes(p)[i] = Size(p[i])
    BY <1>2 DEF Sizes
  <2>4. \A i \in 1..(Len(q) - 1) : i \in 1..Len(q) /\ i + 1 \in 1..Len(q)
    OBVIOUS
  <2>5. \A i \in 1..(Len(q) - 1) : Sizes(p)[i] = RemoveAt(w, k)[i]
    BY <1>2, <1>3, <2>1, <2>3, <2>4
  <2>. QED
    BY <2>1, <2>2, <2>5, SeqEqual
<1>5. PICK f : Sums(w, f) /\ Total(q) = f[Len(q)]
  BY TotalSums DEF w
<1>6. PICK g : Sums(Sizes(p), g) /\ Total(p) = g[Len(p)]
  BY <1>2, TotalSums
<1>7. g[Len(w) - 1] = f[Len(w)] - w[k]
  BY <1>3, <1>4, <1>5, <1>6, SumsRemoveAt
<1>. QED
  BY <1>1, <1>2, <1>3, <1>5, <1>6, <1>7 DEF p

\* The bytes kept for every outduct are those in its queue.
Tallied(d) ==
  /\ d \in DuctType /\ d.limit \in [Messages -> 0..MaxTime]
  /\ \A h \in Hosts : d.bytes[h] = Total(d.queue[h])

LEMMA TalliedIs ==
  ASSUME NEW Q \in [Outduct -> Seq(Messages)], NEW B \in [Hosts -> Int],
         NEW R \in [Messages -> Outduct \cup {NONE_ID}],
         NEW L \in [Messages -> 0..MaxTime],
         \A h \in Hosts : B[h] = Total(Q[h])
  PROVE  Tallied([queue |-> Q, bytes |-> B, ref |-> R, limit |-> L])
<1>1. L \in [Messages -> Int]
  BY TimeAssumption
<1>. QED
  BY <1>1 DEF Tallied, DuctType

LEMMA TalliedFacts ==
  ASSUME NEW d, Tallied(d)
  PROVE  /\ d = [queue |-> d.queue, bytes |-> d.bytes, ref |-> d.ref, limit |-> d.limit]
         /\ d.queue \in [Outduct -> Seq(Messages)] /\ d.bytes \in [Hosts -> Int]
         /\ d.ref \in [Messages -> Outduct \cup {NONE_ID}]
         /\ d.limit \in [Messages -> 0..MaxTime]
         /\ \A h \in Hosts : d.bytes[h] = Total(d.queue[h])
BY DEF Tallied, DuctType

LEMMA RemoveKeepsTally ==
  ASSUME NEW d, Tallied(d), NEW o \in Outduct, NEW m \in Messages
  PROVE  Tallied(RemoveMessageFromOutduct(d, o, m))
<1>. DEFINE e == RemoveMessageFromOutduct(d, o, m)
            q == d.queue[o]
            Q == [d.queue EXCEPT ![o] = RemoveFirst(q, m)]
            R == [d.ref EXCEPT ![m] = NONE_ID]
            B == [h \in Hosts |-> IF h = o THEN d.bytes[h] - Size(m) ELSE d.bytes[h]]
<1>1. CASE m \notin ToSet(q)
  BY <1>1 DEF RemoveMessageFromOutduct
<1>2. CASE m \in ToSet(q)
  <2>1. q \in Seq(Messages) /\ Size(m) \in Int
    BY TalliedFacts, MessageAssumption
  <2>2. RemoveFirst(q, m) \in Seq(Messages)
        /\ Total(RemoveFirst(q, m)) = Total(q) - Size(m)
    BY <1>2, <2>1, TotalRemove
  <2>3. e = [queue |-> Q, bytes |-> B, ref |-> R, limit |-> d.limit]
    <3>1. d = [queue |-> d.queue, bytes |-> d.bytes, ref |-> d.ref, limit |-> d.limit]
      BY TalliedFacts
    <3>. QED
      BY <1>2, <3>1 DEF RemoveMessageFromOutduct
  <2>. HIDE DEF e
  <2>4. /\ Q \in [Outduct -> Seq(Messages)] /\ B \in [Hosts -> Int]
        /\ R \in [Messages -> Outduct \cup {NONE_ID}]
        /\ d.limit \in [Messages -> 0..MaxTime]
    BY <2>1, <2>2, TalliedFacts DEF Outduct
  <2>5. ASSUME NEW h \in Hosts PROVE B[h] = Total(Q[h])
    <3>1. /\ h \in Outduct /\ d.queue \in [Outduct -> Seq(Messages)]
          /\ d.bytes[h] = Total(d.queue[h])
      BY OutductTypes, TalliedFacts
    <3>2. CASE h = o
      BY <2>2, <3>1, <3>2
    <3>3. CASE h # o
      BY <3>1, <3>3
    <3>. QED
      BY <3>2, <3>3
  <2>. HIDE DEF Q, B, R
  <2>6. Tallied(e)
    BY <2>3, <2>4, <2>5, TalliedIs
  <2>. QED
    BY <2>6 DEF e
<1>. QED
  BY <1>1, <1>2

LEMMA LimboKeepsTally ==
  ASSUME NEW d, Tallied(d), NEW m \in Messages
  PROVE  Tallied(InsertIntoLimbo(d, m))
<1>. DEFINE e == InsertIntoLimbo(d, m)
            Q == [d.queue EXCEPT ![LIMBO_ID] = Append(@, m)]
            R == [d.ref EXCEPT ![m] = LIMBO_ID]
<1>0. e = [d EXCEPT !.queue[LIMBO_ID] = Append(@, m), !.ref[m] = LIMBO_ID]
  BY DEF InsertIntoLimbo
<1>. HIDE DEF e
<1>1. e = [queue |-> Q, bytes |-> d.bytes, ref |-> R, limit |-> d.limit]
  <2>1. d = [queue |-> d.queue, bytes |-> d.bytes, ref |-> d.ref, limit |-> d.limit]
    BY TalliedFacts
  <2>. QED
    BY <1>0, <2>1
<1>2. /\ Q \in [Outduct -> Seq(Messages)] /\ d.bytes \in [Hosts -> Int]
      /\ R \in [Messages -> Outduct \cup {NONE_ID}]
      /\ d.limit \in [Messages -> 0..MaxTime]
  BY TalliedFacts, OutductTypes
<1>3. \A h \in Hosts : d.bytes[h] = Total(Q[h])
  BY TalliedFacts, OutductTypes
<1>. HIDE DEF Q, R
<1>4. Tallied(e)
  BY <1>1, <1>2, <1>3, TalliedIs
<1>. QED
  BY <1>4 DEF e

LEMMA InsertKeepsTally ==
  ASSUME NEW d, Tallied(d), NEW h \in Hosts, NEW m \in Messages
  PROVE  Tallied(InsertMessageIntoOutduct(d, h, m))
<1>. DEFINE b == IF IsMessageIntoLimbo(d, m)
                 THEN RemoveMessageFromOutduct(d, LIMBO_ID, m) ELSE d
            e == InsertMessageIntoOutduct(d, h, m)
            Q == [b.queue EXCEPT ![h] = Append(@, m)]
            R == [b.ref EXCEPT ![m] = h]
            B == [b.bytes EXCEPT ![h] = @ + Size(m)]
<1>1. Tallied(b)
  BY RemoveKeepsTally, OutductTypes
<1>2. e = [b EXCEPT !.queue[h] = Append(@, m), !.ref[m] = h, !.bytes[h] = @ + Size(m)]
  BY DEF InsertMessageIntoOutduct
<1>. HIDE DEF b
<1>. HIDE DEF e
<1>3. e = [queue |-> Q, bytes |-> B, ref |-> R, limit |-> b.limit]
  <2>1. b = [queue |-> b.queue, bytes |-> b.bytes, ref |-> b.ref, limit |-> b.limit]
    BY <1>1, TalliedFacts
  <2>. QED
    BY <1>2, <2>1
<1>4. /\ h \in Outduct /\ Size(m) \in Int
      /\ b.queue \in [Outduct -> Seq(Messages)] /\ b.bytes \in [Hosts -> Int]
      /\ b.ref \in [Messages -> Outduct \cup {NONE_ID}]
      /\ b.limit \in [Messages -> 0..MaxTime]
      /\ \A g \in Hosts : g \in Outduct /\ b.bytes[g] = Total(b.queue[g])
  <2>1. h \in Outduct /\ \A g \in Hosts : g \in Outduct
    BY OutductTypes
  <2>2. Size(m) \in Int
    BY MessageAssumption
  <2>3. /\ b.queue \in [Outduct -> Seq(Messages)] /\ b.bytes \in [Hosts -> Int]
        /\ b.ref \in [Messages -> Outduct \cup {NONE_ID}]
        /\ b.limit \in [Messages -> 0..MaxTime]
        /\ \A g \in Hosts : b.bytes[g] = Total(b.queue[g])
    BY <1>1, TalliedFacts
  <2>. QED
    BY <2>1, <2>2, <2>3
<1>5. /\ Q \in [Outduct -> Seq(Messages)] /\ B \in [Hosts -> Int]
      /\ R \in [Messages -> Outduct \cup {NONE_ID}]
  BY <1>4
<1>6. ASSUME NEW g \in Hosts PROVE B[g] = Total(Q[g])
  <2>1. CASE g = h
    <3>1. b.queue[h] \in Seq(Messages)
      BY <1>4
    <3>2. Total(Append(b.queue[h], m)) = Total(b.queue[h]) + Size(m)
      BY <3>1, TotalAppend
    <3>3. B[h] = b.bytes[h] + Size(m) /\ Q[h] = Append(b.queue[h], m)
      BY <1>4
    <3>. HIDE DEF B, Q
    <3>. QED
      BY <1>4, <2>1, <3>2, <3>3
  <2>2. CASE g # h
    BY <1>4, <2>2
  <2>. QED
    BY <2>1, <2>2
<1>. HIDE DEF Q, R, B
<1>7. Tallied(e)
  BY <1>3, <1>4, <1>5, <1>6, TalliedIs
<1>. QED
  BY <1>7 DEF e

LEMMA PutKeepsTally ==
  ASSUME NEW d, Tallied(d), NEW m \in Messages
  PROVE  Tallied(PutMessageIntoLimbo(d, m))
<1>1. d.ref[m] \in Outduct \cup {NONE_ID}
  BY TalliedFacts
<1>2. CASE d.ref[m] >= 0
  <2>1. d.ref[m] \in Outduct
    BY <1>1, <1>2 DEF NONE_ID
  <2>2. Tallied(RemoveMessageFromOutduct(d, d.ref[m], m))
    BY <2>1, RemoveKeepsTally
  <2>. QED
    BY <1>2, <2>2, LimboKeepsTally DEF PutMessageIntoLimbo
<1>3. CASE ~(d.ref[m] >= 0)
  BY <1>3, LimboKeepsTally DEF PutMessageIntoLimbo
<1>. QED
  BY <1>2, <1>3

\* Properties that are written do not touch a queue.
LEMMA PropertiesKeepTally ==
  ASSUME NEW d, Tallied(d), NEW m \in Messages, NEW f \in 0..MaxTime
  PROVE  /\ Tallied([d EXCEPT !.limit[m] = f])
         /\ \A r \in Outduct \cup {NONE_ID} :
              Tallied([d EXCEPT !.limit[m] = f, !.ref[m] = r])
<1>. DEFINE L == [d.limit EXCEPT ![m] = f]
<1>1. /\ d = [queue |-> d.queue, bytes |-> d.bytes, ref |-> d.ref, limit |-> d.limit]
      /\ d.queue \in [Outduct -> Seq(Messages)] /\ d.bytes \in [Hosts -> Int]
      /\ d.ref \in [Messages -> Outduct \cup {NONE_ID}]
      /\ L \in [Messages -> 0..MaxTime]
      /\ \A h \in Hosts : d.bytes[h] = Total(d.queue[h])
  BY TalliedFacts
<1>2. Tallied([d EXCEPT !.limit[m] = f])
  <2>. DEFINE e == [d EXCEPT !.limit[m] = f]
  <2>0. e = [d EXCEPT !.limit[m] = f]
    OBVIOUS
  <2>. HIDE DEF e
  <2>1. e = [queue |-> d.queue, bytes |-> d.bytes, ref |-> d.ref, limit |-> L]
    BY <1>1, <2>0
  <2>. HIDE DEF L
  <2>2. Tallied(e)
    BY <1>1, <2>1, TalliedIs
  <2>. QED
    BY <2>2 DEF e
<1>3. ASSUME NEW r \in Outduct \cup {NONE_ID}
      PROVE  Tallied([d EXCEPT !.limit[m] = f, !.ref[m] = r])
  <2>. DEFINE e == [d EXCEPT !.limit[m] = f, !.ref[m] = r]
              R == [d.ref EXCEPT ![m] = r]
  <2>0. e = [d EXCEPT !.limit[m] = f, !.ref[m] = r]
    OBVIOUS
  <2>. HIDE DEF e
  <2>1. e = [queue |-> d.queue, bytes |-> d.bytes, ref |-> R, limit |-> L]
    BY <1>1, <2>0
  <2>2. R \in [Messages -> Outduct \cup {NONE_ID}]
    BY <1>1
  <2>. HIDE DEF L, R
  <2>3. Tallied(e)
    BY <1>1, <2>1, <2>2, TalliedIs
  <2>. QED
    BY <2>3 DEF e
<1>. QED
  BY <1>2, <1>3

LEMMA ForwardKeepsTally ==
  ASSUME NEW d, Tallied(d), NEW m \in Messages, now \in 1..MaxTime,
         NEW e \in CgrForward(d, m)
  PROVE  Tallied(e)
<1>1. CASE e = d
  BY <1>1
<1>2. CASE e # d
  <2>1. PICK h \in Neighbors, f \in now..MaxTime :
          e = InsertMessageIntoOutduct([d EXCEPT !.limit[m] = f], h, m)
    BY <1>2 DEF CgrForward
  <2>2. h \in Hosts /\ f \in 0..MaxTime
    BY OutductTypes, TimeAssumption
  <2>. DEFINE b == [d EXCEPT !.limit[m] = f]
  <2>3. Tallied(b)
    BY <2>2, PropertiesKeepTally
  <2>. HIDE DEF b
  <2>4. Tallied(InsertMessageIntoOutduct(b, h, m))
    BY <2>2, <2>3, InsertKeepsTally
  <2>. QED
    BY <2>1, <2>4 DEF b
<1>. QED
  BY <1>1, <1>2

LEMMA RemoveFromOutductsKeepsTally ==
  ASSUME NEW d, Tallied(d), messages \subseteq Messages, NEW m
  PROVE  Tallied(RemoveFromOutducts(d, m))
<1>. DEFINE found == {k \in messages : Id(k) = Id(m) /\ d.ref[k] # NONE_ID}
<1>1. CASE found = {}
  BY <1>1 DEF RemoveFromOutducts
<1>2. CASE found # {}
  <2>1. PICK k \in found :
          RemoveFromOutducts(d, m) = RemoveMessageFromOutduct(d, d.ref[k], k)
    BY <1>2 DEF RemoveFromOutducts
  <2>2. k \in Messages /\ d.ref[k] \in Outduct
    BY TalliedFacts
  <2>. QED
    BY <2>1, <2>2, RemoveKeepsTally
<1>. QED
  BY <1>1, <1>2

LEMMA ArrivalKeepsTally ==
  ASSUME NEW d, Tallied(d), NEW m \in Messages, now \in 1..MaxTime,
         NEW f \in 0..MaxTime, NEW r \in Outduct \cup {NONE_ID},
         NEW e \in CgrForward(PutMessageIntoLimbo(
                      [d EXCEPT !.limit[m] = f, !.ref[m] = r], m), m)
  PROVE  Tallied(e)
<1>. DEFINE b == [d EXCEPT !.limit[m] = f, !.ref[m] = r]
<1>1. Tallied(b)
  BY PropertiesKeepTally
<1>. HIDE DEF b
<1>2. PICK c : c = PutMessageIntoLimbo(b, m)
  OBVIOUS
<1>3. Tallied(c)
  BY <1>1, <1>2, PutKeepsTally
<1>4. e \in CgrForward(c, m)
  BY <1>2 DEF b
<1>. QED
  BY <1>3, <1>4, ForwardKeepsTally

\* The variables that RouterInv has no type for.
TallyInv ==
  /\ Tallied(duct) /\ now \in 1..MaxTime /\ up \subseteq Neighbors
  /\ firstOutductIndex \in Hosts

LEMMA HigherKeyIsHost ==
  /\ Min(Hosts) \in Hosts
  /\ \A h \in Hosts : HigherKey(h) \in Hosts
<1>1. ASSUME NEW T \in SUBSET Hosts, T # {} PROVE Min(T) \in T
  <2>1. T \in SUBSET Nat
    BY OutductTypes
  <2>2. \E k \in T : \A i \in T : k <= i
    BY <1>1, <2>1, LeastNat
  <2>. QED
    BY <2>2 DEF Min
<1>2. Hosts # {}
  BY OutductTypes
<1>3. ASSUME NEW h \in Hosts PROVE HigherKey(h) \in Hosts
  <2>. DEFINE higher == {g \in Hosts : g > h}
              T == IF higher = {} THEN Hosts ELSE higher
  <2>1. T \in SUBSET Hosts /\ T # {}
    BY <1>2
  <2>2. HigherKey(h) = Min(T)
    BY DEF HigherKey
  <2>. HIDE DEF T
  <2>. QED
    BY <1>1, <2>1, <2>2
<1>. QED
  BY <1>1, <1>2, <1>3

LEMMA InitTally == Init => TallyInv
<1>. SUFFICES ASSUME Init PROVE TallyInv
  OBVIOUS
<1>. DEFINE Q == [o \in Outduct |-> <<>>]
            B == [h \in Hosts |-> 0]
            R == [m \in Messages |-> NONE_ID]
            L == [m \in Messages |-> 0]
<1>1. duct = [queue |-> Q, bytes |-> B, ref |-> R, limit |-> L]
  BY DEF Init
<1>2. Total(<<>>) = 0
  <2>1. <<>> \in Seq(Messages) /\ Len(<<>>) = 0
    OBVIOUS
  <2>2. PICK f : Sums(Sizes(<<>>), f) /\ Total(<<>>) = f[Len(<<>>)]
    BY <2>1, TotalSums
  <2>. QED
    BY <2>1, <2>2 DEF Sums, SumsUpTo
<1>3. /\ Q \in [Outduct -> Seq(Messages)] /\ B \in [Hosts -> Int]
      /\ R \in [Messages -> Outduct \cup {NONE_ID}] /\ L \in [Messages -> 0..MaxTime]
      /\ \A h \in Hosts : B[h] = Total(Q[h])
  BY <1>2, OutductTypes, TimeAssumption
<1>. HIDE DEF Q, B, R, L
<1>4. Tallied(duct)
  BY <1>1, <1>3, TalliedIs
<1>5. now = 1 /\ up = {} /\ firstOutductIndex = Min(Hosts)
  BY DEF Init
<1>. QED
  BY <1>4, <1>5, HigherKeyIsHost, TimeAssumption DEF TallyInv

LEMMA NextKeepsTally == RouterInv /\ TallyInv /\ [Next]_vars => TallyInv'
<1>. SUFFICES ASSUME RouterInv, TallyInv, [Next]_vars PROVE TallyInv'
  OBVIOUS
<1>0. /\ Tallied(duct) /\ now \in 1..MaxTime /\ up \subseteq Neighbors
      /\ firstOutductIndex \in Hosts /\ messages \subseteq Messages
      /\ NONE_ID \in Outduct \cup {NONE_ID} /\ OwnHost \in Outduct \cup {NONE_ID}
      /\ 0 \in 0..MaxTime
  BY OutductTypes, TimeAssumption DEF TallyInv, RouterInv, RouterTypes
<1>1. ASSUME Tallied(duct'), UNCHANGED <<now, up, firstOutductIndex>>
      PROVE  TallyInv'
  BY <1>0, <1>1 DEF TallyInv
<1>2. ASSUME duct' = duct, now' \in 1..MaxTime, up' \subseteq Neighbors,
             firstOutductIndex' \in Hosts
      PROVE  TallyInv'
  BY <1>0, <1>2 DEF TallyInv
<1>3. ASSUME NEW m \in Messages, CreateNewMessage(m)
      PROVE  TallyInv'
  <2>1. duct' \in CgrForward(PutMessageIntoLimbo(
                    [duct EXCEPT !.limit[m] = 0, !.ref[m] = NONE_ID], m), m)
    BY <1>3 DEF CreateNewMessage
  <2>2. UNCHANGED <<now, up, firstOutductIndex>>
    BY <1>3 DEF CreateNewMessage, links
  <2>3. PICK e : e = duct'
    OBVIOUS
  <2>4. Tallied(e)
    BY <1>0, <2>1, <2>3, ArrivalKeepsTally
  <2>. QED
    BY <1>1, <2>2, <2>3, <2>4
<1>4. ASSUME NEW m \in Messages, NEW h \in Neighbors, MessageTransferred(m, h)
      PROVE  TallyInv'
  <2>1. PICK f \in now..MaxTime :
          duct' \in CgrForward(PutMessageIntoLimbo(
                      [duct EXCEPT !.limit[m] = f, !.ref[m] = OwnHost], m), m)
    BY <1>4 DEF MessageTransferred
  <2>2. UNCHANGED <<now, up, firstOutductIndex>>
    BY <1>4 DEF MessageTransferred, links
  <2>3. f \in 0..MaxTime
    BY <1>0
  <2>4. PICK e : e = duct'
    OBVIOUS
  <2>5. Tallied(e)
    BY <1>0, <2>1, <2>3, <2>4, ArrivalKeepsTally
  <2>. QED
    BY <1>1, <2>2, <2>4, <2>5
<1>5. ASSUME NEW m \in Messages, RemoveFromMessages(m)
      PROVE  TallyInv'
  <2>1. PICK b : b = RemoveFromOutducts(duct, m)
    OBVIOUS
  <2>2. Tallied(b)
    BY <1>0, <2>1, RemoveFromOutductsKeepsTally
  <2>3. duct' = [b EXCEPT !.limit[m] = 0] /\ UNCHANGED <<now, up, firstOutductIndex>>
    BY <1>5, <2>1 DEF RemoveFromMessages, links
  <2>4. PICK z \in 0..MaxTime : z = 0
    BY <1>0
  <2>5. Tallied([b EXCEPT !.limit[m] = z])
    BY <2>2, PropertiesKeepTally
  <2>. QED
    BY <1>1, <2>3, <2>4, <2>5
<1>6. ASSUME Reroute
      PROVE  TallyInv'
  <2>. DEFINE o == Head(toForward).queue
              m == Head(toForward).message
              b == RemoveMessageFromOutduct(duct, o, m)
              c == PutMessageIntoLimbo(b, m)
  <2>1. duct' \in CgrForward(c, m) /\ UNCHANGED <<now, up, firstOutductIndex>>
    BY <1>6 DEF Reroute, links
  <2>2. o \in Outduct /\ m \in Messages
    <3>1. toForward \in Seq([queue : Outduct, message : Messages]) /\ toForward # <<>>
      BY <1>6 DEF Reroute, RouterInv, CollectedInPlace
    <3>2. Head(toForward) \in [queue : Outduct, message : Messages]
      BY <3>1, HeadTailFacts
    <3>. QED
      BY <3>2
  <2>. HIDE DEF o, m
  <2>3. Tallied(b)
    BY <1>0, <2>2, RemoveKeepsTally
  <2>. HIDE DEF b
  <2>4. Tallied(c)
    BY <2>2, <2>3, PutKeepsTally
  <2>. HIDE DEF c
  <2>5. PICK e : e = duct'
    OBVIOUS
  <2>6. Tallied(e)
    BY <1>0, <2>1, <2>2, <2>4, <2>5, ForwardKeepsTally
  <2>. QED
    BY <1>1, <2>1, <2>5, <2>6
<1>7. ASSUME TryRouteForMessageIntoLimbo
      PROVE  TallyInv'
  <2>. DEFINE m == Head(toForward).message
  <2>1. duct' \in CgrForward(duct, m) /\ UNCHANGED <<now, up, firstOutductIndex>>
    BY <1>7 DEF TryRouteForMessageIntoLimbo, links
  <2>2. m \in Messages
    <3>1. toForward \in Seq([queue : Outduct, message : Messages]) /\ toForward # <<>>
      BY <1>7 DEF TryRouteForMessageIntoLimbo, RouterInv, CollectedInPlace
    <3>2. Head(toForward) \in [queue : Outduct, message : Messages]
      BY <3>1, HeadTailFacts
    <3>. QED
      BY <3>2
  <2>. HIDE DEF m
  <2>3. PICK e : e = duct'
    OBVIOUS
  <2>4. Tallied(e)
    BY <1>0, <2>1, <2>2, <2>3, ForwardKeepsTally
  <2>. QED
    BY <1>1, <2>1, <2>3, <2>4
<1>8. ASSUME NEW h \in Neighbors, TransferDone(h)
      PROVE  TallyInv'
  <2>1. PICK b : b = RemoveFromOutducts(duct, sending[h])
    OBVIOUS
  <2>2. Tallied(b)
    BY <1>0, <2>1, RemoveFromOutductsKeepsTally
  <2>3. duct' = b /\ UNCHANGED <<now, up, firstOutductIndex>>
    BY <1>8, <2>1 DEF TransferDone
  <2>. QED
    BY <1>1, <2>2, <2>3
<1>9. ASSUME NEW h \in Neighbors, StartTransfer(h)
      PROVE  TallyInv'
  <2>1. firstOutductIndex' \in Hosts
    BY <1>9, HigherKeyIsHost, OutductTypes DEF StartTransfer
  <2>2. duct' = duct /\ now' = now /\ up' = up
    BY <1>9 DEF StartTransfer
  <2>. QED
    BY <1>0, <1>2, <2>1, <2>2
<1>10. ASSUME Tick
       PROVE  TallyInv'
  <2>1. now' = now + 1 /\ now < MaxTime /\ duct' = duct
        /\ UNCHANGED <<up, firstOutductIndex>>
    BY <1>10 DEF Tick, links
  <2>2. now' \in 1..MaxTime
    BY <1>0, <2>1, TimeAssumption
  <2>. QED
    BY <1>0, <1>2, <2>1, <2>2
<1>11. ASSUME NEW h \in Neighbors, Connect(h) \/ Disconnect(h)
       PROVE  TallyInv'
  <2>1. up' \subseteq Neighbors
    BY <1>0, <1>11 DEF Connect, Disconnect
  <2>2. UNCHANGED <<now, duct, firstOutductIndex>>
    BY <1>11 DEF Connect, Disconnect
  <2>. QED
    BY <1>0, <1>2, <2>1, <2>2
<1>12. ASSUME \/ Update \/ CheckExpiredRoutes \/ CheckLimbo \/ NothingToSend
              \/ \E h \in Neighbors : TransferAborted(h)
              \/ ContactPlanChanged \/ UNCHANGED vars
       PROVE  TallyInv'
  <2>1. UNCHANGED <<now, duct, up, firstOutductIndex>>
    BY <1>12 DEF Update, CheckExpiredRoutes, CheckLimbo, NothingToSend,
      TransferAborted, ContactPlanChanged, vars, links
  <2>. QED
    BY <1>0, <1>2, <2>1
<1>. QED
  BY <1>3, <1>4, <1>5, <1>6, <1>7, <1>8, <1>9, <1>10, <1>11, <1>12 DEF Next, UpdateStep

LEMMA TallyInvariant == Spec => []TallyInv
BY InitTally, NextKeepsTally, RouterInvariant, PTL DEF Spec

\* The bytes that CGR takes for the backlog of an outduct are those queued,
\* over any sequence of insertions, removals and reroutings.
THEOREM BacklogsAddUp == Spec => []BytesMatchQueue
<1>1. TallyInv => BytesMatchQueue
  BY TalliedFacts DEF TallyInv, BytesMatchQueue
<1>. QED
  BY <1>1, TallyInvariant, PTL

\* The router keeps its types.  No backlog gets negative.
THEOREM RouterTypeCorrect == Spec => []TypeOK
<1>1. RouterInv /\ BufferInv /\ TallyInv => TypeOK
  <2>. SUFFICES ASSUME RouterInv, BufferInv, TallyInv PROVE TypeOK
    OBVIOUS
  <2>1. /\ duct.queue \in [Outduct -> Seq(Messages)] /\ duct.bytes \in [Hosts -> Int]
        /\ duct.ref \in [Messages -> Outduct \cup {NONE_ID}]
        /\ duct.limit \in [Messages -> 0..MaxTime]
        /\ \A h \in Hosts : duct.bytes[h] = Total(duct.queue[h])
    BY TalliedFacts DEF TallyInv
  <2>2. \A h \in Hosts : duct.bytes[h] \in Nat
    BY <2>1, TotalSums, OutductTypes
  <2>3. duct.bytes \in [Hosts -> Nat]
    BY <2>1, <2>2
  <2>4. /\ now \in 1..MaxTime /\ up \subseteq Neighbors /\ firstOutductIndex \in Hosts
        /\ stage \in {"idle", "expired", "limbo"} /\ messages \subseteq Messages
        /\ sending \in [Neighbors -> Messages \cup {Nobody}]
        /\ replaced \subseteq Messages
    BY DEF TallyInv, BufferInv, RouterInv, RouterTypes
  <2>. QED
    BY <2>1, <2>3, <2>4 DEF TypeOK
<1>. QED
  BY <1>1, RouterInvariant, BufferInvariant, TallyInvariant, PTL
================================================================================
