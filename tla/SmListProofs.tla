----------------------------- MODULE SmListProofs -----------------------------
(***************************************************************************)
(* Proofs about SmList, for any number of lists, elements and data: the    *)
(* links are sound after any sequence of calls, and the lists implement    *)
(* the sequences of ListStore.                                             *)
(***************************************************************************)
EXTENDS SmList, DataLemmas

-----------------------------------------------------------------------------
(* The inductive invariant.  The elements of each list in order are given  *)
(* by a function ss that no variable holds; that there is always one is    *)
(* what the invariant says.                                                *)

\* The k-th element of s, Null before the first and after the last.
Nth(s, k) == IF k \in 1..Len(s) THEN s[k] ELSE Null

\* Sequence s has every element of list l once.
Enumerates(l, s) ==
  /\ s \in Seq(Elts)
  /\ \A i, j \in 1..Len(s) : s[i] = s[j] => i = j
  /\ \A i \in 1..Len(s) :
       s[i] \in heap /\ elt[s[i]].list = l /\ elt[s[i]].data \in Data
  /\ \A x \in Elts : x \in heap /\ elt[x].list = l => \E i \in 1..Len(s) : s[i] = x

\* The links of list l follow s.  While the list is wiped, what is in front
\* of s is gone, and the links to it are stale.
LinksFollow(l, s) ==
  /\ \A i \in 1..Len(s) : elt[s[i]].next = Nth(s, i + 1)
  /\ \A i \in 1..Len(s) :
       (i = 1 /\ WipedNow(l)) \/ elt[s[i]].prev = Nth(s, i - 1)
  /\ FirstLeft(l) = Nth(s, 1)
  /\ s # <<>> => list[l].last = Nth(s, Len(s))
  /\ ~WipedNow(l) => list[l].length = Len(s) /\ list[l].last = Nth(s, Len(s))

InOrder(l, s) ==
  l \in Sorted =>
    \A i, j \in 1..Len(s) : i < j => elt[s[i]].data <= elt[s[j]].data

Chain(l, s) == Enumerates(l, s) /\ LinksFollow(l, s) /\ InOrder(l, s)

\* Where the loop of an insertion is, all that comes after it is greater.
Seeking(s) ==
  \E k \in 0..Len(s) :
    at = Nth(s, k) /\ \A j \in (k + 1)..Len(s) : elt[s[j]].data > key

\* Where the loop of a search is, it has met nothing that matches.
Searching(s) ==
  \E i, k \in 1..Len(s) :
    /\ i <= k /\ from = s[i] /\ at = s[k]
    /\ \A j \in i..(k - 1) : elt[s[j]].data # key

CallInv(ss) ==
  /\ op # "none" => on \in Created
  /\ op \in {"insert", "search"} => key \in Data
  /\ op = "insert" => on \in Sorted /\ Seeking(ss[on])
  /\ op = "search" => Searching(ss[on])

StoreInv(ss) ==
  /\ TypeOK
  /\ ss \in [Lists -> Seq(Elts)]
  /\ \A l \in Lists : IF l \in heap THEN Chain(l, ss[l]) ELSE ss[l] = <<>>
  /\ \A x \in Linked : elt[x].list \in Created
  /\ \A x \in Elts \ heap : elt[x] = ErasedElt
  /\ CallInv(ss)

ListInv == \E ss \in [Lists -> Seq(Elts)] : StoreInv(ss)
-----------------------------------------------------------------------------
(* What is listed.                                                         *)

LEMMA MembersOfChain ==
  ASSUME NEW l, NEW s, Enumerates(l, s)
  PROVE  /\ Cardinality(Members(l)) = Len(s) /\ s \in Orders(l)
         /\ Len(s) \in Nat /\ s \in [1..Len(s) -> Members(l)]
<1>1. s \in Seq(Elts) /\ Len(s) \in Nat /\ DOMAIN s = 1..Len(s)
  BY LenProperties DEF Enumerates
<1>2. s \in [1..Len(s) -> Members(l)]
  <2>1. \A i \in 1..Len(s) : s[i] \in Elts
    BY <1>1, ElementOfSeq
  <2>2. s = [i \in 1..Len(s) |-> s[i]]
    BY <1>1, LenProperties
  <2>. QED
    BY <2>1, <2>2 DEF Enumerates, Members, Linked
<1>3. s \in Bijection(1..Len(s), Members(l))
  <2>1. \A x \in Members(l) : \E i \in 1..Len(s) : s[i] = x
    BY DEF Enumerates, Members, Linked
  <2>2. \A i, j \in 1..Len(s) : s[i] = s[j] => i = j
    BY DEF Enumerates
  <2>. QED
    BY <1>2, <2>1, <2>2 DEF Bijection, Injection, Surjection, IsInjective
<1>4. Cardinality(Members(l)) = Len(s)
  BY <1>1, <1>3, FS_CountingElements DEF ExistsBijection
<1>. QED
  BY <1>1, <1>2, <1>4 DEF Orders, Enumerates

\* Going along the links from the first element gives the sequence.
LEMMA ContentsOfChain ==
  ASSUME NEW l, NEW s, Chain(l, s)
  PROVE  Contents(l) = s
<1>. DEFINE n == Cardinality(Members(l))
            Follows(f) == f = [i \in 1..n |-> IF i = 1 THEN FirstLeft(l)
                                              ELSE elt[f[i - 1]].next]
            nth == CHOOSE f : Follows(f)
<1>1. n = Len(s) /\ n \in Nat /\ s \in [1..n -> Members(l)]
  BY MembersOfChain DEF Chain
<1>2. LinksFollow(l, s)
  BY DEF Chain
<1>. HIDE DEF n
<1>3. ASSUME NEW i \in 1..n
      PROVE  s[i] = IF i = 1 THEN FirstLeft(l) ELSE elt[s[i - 1]].next
  <2>1. CASE i = 1
    BY <1>1, <1>2, <2>1 DEF LinksFollow, Nth
  <2>2. CASE i # 1
    <3>1. i - 1 \in 1..n /\ (i - 1) + 1 = i
      BY <1>1, <2>2
    <3>. QED
      BY <1>1, <1>2, <2>2, <3>1 DEF LinksFollow, Nth
  <2>. QED
    BY <2>1, <2>2
<1>4. Follows(s)
  BY <1>1, <1>3
<1>5. Follows(nth)
  BY <1>4
<1>6. Contents(l) = nth
  BY DEF Contents, n
<1>. HIDE DEF nth
<1>7. DOMAIN nth = 1..n
      /\ \A i \in 1..n : nth[i] = IF i = 1 THEN FirstLeft(l) ELSE elt[nth[i - 1]].next
  BY <1>5
<1>8. \A i \in 1..n : nth[i] = s[i]
  <2>. DEFINE T == {i \in 1..n : nth[i] # s[i]}
  <2>1. SUFFICES ASSUME T # {} PROVE FALSE
    OBVIOUS
  <2>2. T \in SUBSET Nat
    BY <1>1
  <2>3. PICK i \in T : \A j \in T : i <= j
    BY <2>1, <2>2, LeastNat
  <2>4. CASE i = 1
    BY <1>3, <1>7, <2>3, <2>4
  <2>5. CASE i # 1
    <3>1. i - 1 \in 1..n /\ ~(i <= i - 1)
      BY <1>1, <2>3, <2>5
    <3>2. nth[i - 1] = s[i - 1]
      BY <2>3, <3>1
    <3>. QED
      BY <1>3, <1>7, <2>3, <2>5, <3>2
  <2>. QED
    BY <2>4, <2>5
<1>9. nth = s
  BY <1>1, <1>5, <1>7, <1>8
<1>. QED
  BY <1>6, <1>9

\* The lists as the abstract store has them.
Entries(s) == [i \in 1..Len(s) |-> [elt |-> s[i], data |-> elt[s[i]].data]]

LEMMA StoreOf ==
  ASSUME NEW ss, StoreInv(ss), NEW l \in Lists
  PROVE  Elements(l) = Entries(ss[l])
<1>1. CASE l \in heap
  <2>1. Chain(l, ss[l]) /\ DOMAIN ss[l] = 1..Len(ss[l])
    BY <1>1, LenProperties DEF StoreInv
  <2>. QED
    BY <1>1, <2>1, ContentsOfChain DEF Elements, Entries
<1>2. CASE l \notin heap
  <2>1. ss[l] = <<>>
    BY <1>2 DEF StoreInv
  <2>. QED
    BY <1>2, <2>1 DEF Elements, Entries
<1>. QED
  BY <1>1, <1>2

\* The invariant says what the runs check.
LEMMA InvIsSound == ListInv => ListsAreSound
<1>. SUFFICES ASSUME NEW ss \in [Lists -> Seq(Elts)], StoreInv(ss)
              PROVE  ListsAreSound
  BY DEF ListInv
<1>1. ASSUME NEW l \in Created
      PROVE  \E s \in Orders(l) :
               /\ Represents(l, s)
               /\ ~WipedNow(l) => /\ list[l].length = Len(s)
                                  /\ IF s = <<>> THEN list[l].last = Null
                                     ELSE elt[s[1]].prev = Null
  <2>. DEFINE s == ss[l]
  <2>1. Chain(l, s)
    BY DEF StoreInv, Created
  <2>2. s \in Orders(l) /\ Len(s) \in Nat /\ (s = <<>> <=> Len(s) = 0)
    BY <2>1, MembersOfChain, EmptySeq DEF Chain, Enumerates
  <2>. HIDE DEF s
  <2>3. Represents(l, s)
    BY <2>1, <2>2 DEF Represents, Chain, LinksFollow, Nth
  <2>4. ~WipedNow(l) => /\ list[l].length = Len(s)
                        /\ IF s = <<>> THEN list[l].last = Null
                           ELSE elt[s[1]].prev = Null
    BY <2>1, <2>2 DEF Chain, LinksFollow, Nth
  <2>. QED
    BY <2>2, <2>3, <2>4
<1>. QED
  BY <1>1 DEF ListsAreSound, StoreInv
-----------------------------------------------------------------------------
(* Steps.                                                                  *)

\* What a list that no link of which is written has to do with a step.
LEMMA ChainKept ==
  ASSUME NEW l, NEW s, Chain(l, s), list'[l] = list[l],
         WipedNow(l)' <=> WipedNow(l), WipedNow(l) => at' = at,
         \A x \in Elts : /\ x \in heap /\ elt[x].list = l =>
                              x \in heap' /\ elt'[x] = elt[x]
                         /\ x \in heap' /\ elt'[x].list = l =>
                              x \in heap /\ elt[x].list = l
  PROVE  Chain(l, s)'
<1>1. \A i \in 1..Len(s) : s[i] \in Elts
  BY ElementOfSeq DEF Chain, Enumerates
<1>2. \A i \in 1..Len(s) : s[i] \in heap' /\ elt'[s[i]] = elt[s[i]]
  BY <1>1 DEF Chain, Enumerates
<1>3. Enumerates(l, s)'
  BY <1>2 DEF Chain, Enumerates
<1>4. LinksFollow(l, s)'
  BY <1>2 DEF Chain, LinksFollow, FirstLeft
<1>5. InOrder(l, s)'
  BY <1>2 DEF Chain, InOrder
<1>. QED
  BY <1>3, <1>4, <1>5 DEF Chain

\* The elements of other lists are others.
LEMMA NthFacts ==
  ASSUME NEW ss, StoreInv(ss), NEW l \in Created
  PROVE  /\ ss[l] \in Seq(Elts) /\ Len(ss[l]) \in Nat /\ Chain(l, ss[l])
         /\ \A i \in 1..Len(ss[l]) :
              /\ ss[l][i] \in Elts /\ ss[l][i] \in heap /\ ss[l][i] # Null
              /\ elt[ss[l][i]].list = l /\ elt[ss[l][i]].data \in Data
         /\ l \in Lists /\ l \in heap /\ l # Null
<1>1. Chain(l, ss[l]) /\ l \in Lists /\ l \in heap
  BY DEF StoreInv, Created
<1>2. ss[l] \in Seq(Elts)
  BY <1>1 DEF Chain, Enumerates
<1>. QED
  BY <1>1, <1>2, LenProperties, ElementOfSeq, AddressAssumption DEF Chain, Enumerates

\* Writing the two links of an element.
EltRecord == [list : Lists \cup {Null}, prev : Address, next : Address,
              data : Data \cup {Null}]
ListRecord == [userData : Users \cup {Null}, first : Address, last : Address,
               length : Nat]

LEMMA EltWritten ==
  ASSUME NEW e \in EltRecord, NEW a, NEW b
  PROVE  [e EXCEPT !.next = a, !.prev = b]
           = [list |-> e.list, prev |-> b, next |-> a, data |-> e.data]
<1>. DEFINE f == [e EXCEPT !.next = a, !.prev = b]
<1>1. PICK g : g = f
  OBVIOUS
<1>2. g = [list |-> e.list, prev |-> b, next |-> a, data |-> e.data]
  BY <1>1 DEF EltRecord
<1>. QED
  BY <1>1, <1>2, Zenon

\* What Link and Unlink do to the elements: x becomes e, the next of p
\* becomes a and the previous of n becomes b.
Relinking(x, e, p, a, n, b) ==
  elt' = [y \in Elts |->
    IF y = x THEN e
    ELSE [elt[y] EXCEPT !.next = IF y = p THEN a ELSE @,
                        !.prev = IF y = n THEN b ELSE @]]

\* ... field by field.
Relinked(x, e, p, a, n, b) ==
  /\ elt'[x] = e
  /\ \A y \in Elts \ {x} :
       /\ elt'[y].list = elt[y].list /\ elt'[y].data = elt[y].data
       /\ elt'[y].next = IF y = p THEN a ELSE elt[y].next
       /\ elt'[y].prev = IF y = n THEN b ELSE elt[y].prev
       /\ y # p /\ y # n => elt'[y] = elt[y]
  /\ e \in EltRecord /\ a \in Address /\ b \in Address => elt' \in [Elts -> EltRecord]

LEMMA Relinks ==
  ASSUME TypeOK, NEW x \in Elts, NEW e, NEW p, NEW a, NEW n, NEW b,
         Relinking(x, e, p, a, n, b)
  PROVE  Relinked(x, e, p, a, n, b)
<1>1. elt \in [Elts -> EltRecord]
  BY DEF TypeOK, EltRecord
<1>2. elt'[x] = e /\ DOMAIN elt' = Elts /\ elt' = [y \in Elts |-> elt'[y]]
  BY DEF Relinking
<1>3. ASSUME NEW y \in Elts \ {x}
      PROVE  /\ elt'[y].list = elt[y].list /\ elt'[y].data = elt[y].data
             /\ elt'[y].next = IF y = p THEN a ELSE elt[y].next
             /\ elt'[y].prev = IF y = n THEN b ELSE elt[y].prev
             /\ a \in Address /\ b \in Address => elt'[y] \in EltRecord
  <2>. DEFINE f == IF y = p THEN a ELSE elt[y].next
              g == IF y = n THEN b ELSE elt[y].prev
  <2>1. elt'[y] = [elt[y] EXCEPT !.next = f, !.prev = g]
    BY Zenon DEF Relinking
  <2>2. elt[y] \in EltRecord
    BY <1>1
  <2>3. elt[y].next \in Address /\ elt[y].prev \in Address
    BY <2>2 DEF EltRecord
  <2>4. a \in Address /\ b \in Address => f \in Address /\ g \in Address
    BY <2>3 DEF Address
  <2>. HIDE DEF f, g
  <2>5. /\ elt'[y].next = f /\ elt'[y].prev = g
        /\ elt'[y].list = elt[y].list /\ elt'[y].data = elt[y].data
        /\ f \in Address /\ g \in Address => elt'[y] \in EltRecord
    <3>1. elt'[y] = [list |-> elt[y].list, prev |-> g, next |-> f,
                     data |-> elt[y].data]
      <4>1. [elt[y] EXCEPT !.next = f, !.prev = g]
              = [list |-> elt[y].list, prev |-> g, next |-> f, data |-> elt[y].data]
        BY <2>2, EltWritten
      <4>. QED
        BY <2>1, <4>1, Zenon
    <3>2. elt[y].list \in Lists \cup {Null} /\ elt[y].data \in Data \cup {Null}
      BY <2>2 DEF EltRecord
    <3>. QED
      BY <3>1, <3>2 DEF EltRecord
  <2>. QED
    BY <2>4, <2>5 DEF f, g
<1>4. ASSUME NEW y \in Elts \ {x}, y # p, y # n PROVE elt'[y] = elt[y]
  <2>1. elt'[y] = [elt[y] EXCEPT !.next = elt[y].next, !.prev = elt[y].prev]
    BY <1>4 DEF Relinking
  <2>2. elt[y] \in EltRecord
    BY <1>1
  <2>. QED
    BY <2>1, <2>2 DEF EltRecord
<1>5. e \in EltRecord /\ a \in Address /\ b \in Address => elt' \in [Elts -> EltRecord]
  BY <1>2, <1>3
<1>. QED
  BY <1>2, <1>3, <1>4, <1>5 DEF Relinked

\* ... and to their list.
Rewriting(l, f, t, c) ==
  list' = [list EXCEPT ![l].first = f, ![l].last = t, ![l].length = c]

Rewritten(l, f, t, c) ==
  /\ list'[l].first = f /\ list'[l].last = t /\ list'[l].length = c
  /\ \A m \in Lists \ {l} : list'[m] = list[m]
  /\ f \in Address /\ t \in Address /\ c \in Nat => list' \in [Lists -> ListRecord]

LEMMA Rewrites ==
  ASSUME TypeOK, NEW l \in Lists, NEW f, NEW t, NEW c,
         Rewriting(l, f, t, c)
  PROVE  Rewritten(l, f, t, c)
<1>1. list \in [Lists -> ListRecord]
  BY DEF TypeOK, ListRecord
<1>2. /\ list'[l] = [list[l] EXCEPT !.first = f, !.last = t, !.length = c]
      /\ \A m \in Lists \ {l} : list'[m] = list[m]
      /\ list' = [m \in Lists |-> list'[m]]
  BY <1>1 DEF Rewriting
<1>3. list'[l] = [userData |-> list[l].userData, first |-> f, last |-> t, length |-> c]
  <2>. DEFINE e == list[l]
  <2>1. e \in ListRecord
    BY <1>1
  <2>. HIDE DEF e
  <2>2. list'[l] = [e EXCEPT !.first = f, !.last = t, !.length = c]
    BY <1>2 DEF e
  <2>3. list'[l] = [userData |-> e.userData, first |-> f, last |-> t, length |-> c]
    BY <2>1, <2>2 DEF ListRecord
  <2>. QED
    BY <2>3 DEF e
<1>4. list[l].userData \in Users \cup {Null}
  BY <1>1 DEF ListRecord
<1>5. f \in Address /\ t \in Address /\ c \in Nat => list'[l] \in ListRecord
  BY <1>3, <1>4 DEF ListRecord
<1>. QED
  BY <1>1, <1>2, <1>3, <1>5 DEF Rewritten

\* An insertion and a deletion, field by field.
LEMMA LinkWrites ==
  ASSUME TypeOK, NEW l \in Lists, NEW p, NEW n, NEW x \in Elts, NEW d,
         Link(l, p, n, x, d)
  PROVE  /\ Relinked(x, [list |-> l, prev |-> p, next |-> n, data |-> d], p, x, n, x)
         /\ Rewritten(l, IF p = Null THEN x ELSE list[l].first,
                      IF n = Null THEN x ELSE list[l].last, list[l].length + 1)
<1>1. list \in [Lists -> ListRecord]
  BY DEF TypeOK, ListRecord
<1>2. Relinked(x, [list |-> l, prev |-> p, next |-> n, data |-> d], p, x, n, x)
  BY Relinks, Zenon DEF Link, Relinking
<1>3. list' = [list EXCEPT ![l].first = IF p = Null THEN x ELSE list[l].first,
                           ![l].last = IF n = Null THEN x ELSE list[l].last,
                           ![l].length = list[l].length + 1]
  BY <1>1, Zenon DEF Link
<1>. QED
  BY <1>2, <1>3, Rewrites, Zenon DEF Rewriting

LEMMA UnlinkWrites ==
  ASSUME TypeOK, NEW x \in Elts, NEW l \in Lists, elt[x].list = l,
         NEW p, p = elt[x].prev, NEW n, n = elt[x].next, Unlink(x)
  PROVE  /\ Relinked(x, ErasedElt, p, n, n, p)
         /\ Rewritten(l, IF p = Null THEN n ELSE list[l].first,
                      IF n = Null THEN p ELSE list[l].last, list[l].length - 1)
<1>1. list \in [Lists -> ListRecord]
  BY DEF TypeOK, ListRecord
<1>2. Relinked(x, ErasedElt, p, n, n, p)
  BY Relinks, Zenon DEF Unlink, Relinking
<1>3. list' = [list EXCEPT ![l].first = IF p = Null THEN n ELSE list[l].first,
                           ![l].last = IF n = Null THEN p ELSE list[l].last,
                           ![l].length = list[l].length - 1]
  BY <1>1, Zenon DEF Unlink
<1>. QED
  BY <1>2, <1>3, Rewrites, Zenon DEF Rewriting

\* Sequence t is s with x put after the k-th.
Grown(s, k, x, t) ==
  /\ Len(t) = Len(s) + 1 /\ t[k + 1] = x
  /\ \A i \in 1..k : t[i] = s[i]
  /\ \A i \in (k + 1)..Len(s) : t[i + 1] = s[i]

LEMMA InsertGrows ==
  ASSUME NEW S, NEW s \in Seq(S), NEW k \in 0..Len(s), NEW x \in S
  PROVE  InsertAt(s, k + 1, x) \in Seq(S) /\ Grown(s, k, x, InsertAt(s, k + 1, x))
<1>. DEFINE t == InsertAt(s, k + 1, x)
<1>1. Len(s) \in Nat /\ k + 1 \in 1..(Len(s) + 1)
  BY LenProperties
<1>2. /\ t \in Seq(S) /\ Len(t) = Len(s) + 1
      /\ \A i \in 1..(Len(s) + 1) :
           t[i] = IF i < k + 1 THEN s[i] ELSE IF i = k + 1 THEN x ELSE s[i - 1]
  <2>1. PICK j \in 1..(Len(s) + 1) : j = k + 1
    BY <1>1
  <2>2. InsertAt(s, j, x) \in Seq(S) /\ Len(InsertAt(s, j, x)) = Len(s) + 1
    BY InsertAtFacts
  <2>3. \A i \in 1..(Len(s) + 1) :
          InsertAt(s, j, x)[i] = IF i < j THEN s[i] ELSE IF i = j THEN x ELSE s[i - 1]
    <3>1. s \in Seq(S) /\ x \in S /\ j \in 1..(Len(s) + 1)
      OBVIOUS
    <3>. QED
      BY <3>1, InsertAtFacts, SMTT(60)
  <2>. QED
    BY <2>1, <2>2, <2>3
<1>. HIDE DEF t
<1>3. ASSUME NEW i \in (k + 1)..Len(s) PROVE t[i + 1] = s[i]
  <2>1. i + 1 \in 1..(Len(s) + 1) /\ ~(i + 1 < k + 1) /\ i + 1 # k + 1 /\ (i + 1) - 1 = i
    BY <1>1
  <2>. QED
    BY <1>2, <2>1
<1>4. ASSUME NEW i \in 1..k PROVE t[i] = s[i]
  BY <1>1, <1>2
<1>5. t[k + 1] = x
  BY <1>1, <1>2
<1>. QED
  BY <1>2, <1>3, <1>4, <1>5 DEF Grown, t

\* A new element between the k-th and its successor.
LEMMA LinkedChain ==
  ASSUME TypeOK, NEW l \in Lists, l # Null, l \in heap, ~Wiping, ~Wiping',
         NEW s \in Seq(Elts), Chain(l, s), NEW d \in Data, NEW x \in Elts \ heap,
         NEW k \in 0..Len(s), NEW p, p = Nth(s, k), NEW n, n = Nth(s, k + 1),
         Link(l, p, n, x, d), NEW t \in Seq(Elts), Grown(s, k, x, t),
         l \in Sorted => /\ \A j \in 1..k : elt[s[j]].data <= d
                         /\ \A j \in (k + 1)..Len(s) : elt[s[j]].data > d
  PROVE  Chain(l, t)'
<1>1. /\ Len(s) \in Nat
      /\ \A i \in 1..Len(s) : /\ s[i] \in Elts /\ s[i] \in heap /\ s[i] # Null
                              /\ elt[s[i]].list = l /\ elt[s[i]].data \in Data
      /\ \A i, j \in 1..Len(s) : s[i] = s[j] => i = j
      /\ \A y \in Elts : y \in heap /\ elt[y].list = l => \E i \in 1..Len(s) : s[i] = y
  BY LenProperties, ElementOfSeq, AddressAssumption DEF Chain, Enumerates
<1>2. /\ \A i \in 1..Len(s) : elt[s[i]].next = Nth(s, i + 1)
      /\ \A i \in 1..Len(s) : elt[s[i]].prev = Nth(s, i - 1)
      /\ list[l].first = Nth(s, 1) /\ list[l].length = Len(s)
      /\ list[l].last = Nth(s, Len(s))
  BY DEF Chain, LinksFollow, WipedNow, FirstLeft
<1>3. /\ t \in Seq(Elts) /\ Len(t) = Len(s) + 1 /\ t[k + 1] = x
      /\ \A i \in 1..k : t[i] = s[i]
      /\ \A i \in (k + 1)..Len(s) : t[i + 1] = s[i]
  BY DEF Grown
<1>4. ASSUME NEW i \in 1..Len(t)
      PROVE  \/ i = k + 1 /\ t[i] = x
             \/ i \in 1..k /\ i \in 1..Len(s) /\ t[i] = s[i]
             \/ i - 1 \in (k + 1)..Len(s) /\ i - 1 \in 1..Len(s) /\ t[i] = s[i - 1]
  <2>1. CASE i > k + 1
    <3>1. i - 1 \in (k + 1)..Len(s) /\ (i - 1) + 1 = i
      BY <1>1, <1>3, <2>1
    <3>2. t[(i - 1) + 1] = s[i - 1]
      BY <1>3, <3>1
    <3>. QED
      BY <1>1, <3>1, <3>2
  <2>. QED
    BY <1>1, <1>3, <2>1
<1>5. /\ x # Null /\ \A i \in 1..Len(s) : s[i] # x
      /\ \A i \in 1..Len(s) : (s[i] = p <=> i = k) /\ (s[i] = n <=> i = k + 1)
      /\ p = Null <=> k = 0
      /\ n = Null <=> k = Len(s)
  <2>1. x # Null /\ \A i \in 1..Len(s) : s[i] # x
    BY <1>1, AddressAssumption
  <2>2. CASE k = 0
    BY <1>1, <2>1, <2>2 DEF Nth
  <2>3. CASE k # 0
    BY <1>1, <2>1, <2>3 DEF Nth
  <2>. QED
    BY <2>1, <2>2, <2>3
<1>6. /\ heap' = heap \cup {x}
      /\ elt'[x] = [list |-> l, prev |-> p, next |-> n, data |-> d]
      /\ \A y \in Elts \ {x} :
           /\ elt'[y].list = elt[y].list /\ elt'[y].data = elt[y].data
           /\ elt'[y].next = IF y = p THEN x ELSE elt[y].next
           /\ elt'[y].prev = IF y = n THEN x ELSE elt[y].prev
      /\ list'[l].first = IF p = Null THEN x ELSE list[l].first
      /\ list'[l].last = IF n = Null THEN x ELSE list[l].last
      /\ list'[l].length = list[l].length + 1
  <2>1. x \in Elts
    OBVIOUS
  <2>2. heap' = heap \cup {x}
    BY DEF Link
  <2>3. /\ Relinked(x, [list |-> l, prev |-> p, next |-> n, data |-> d], p, x, n, x)
        /\ Rewritten(l, IF p = Null THEN x ELSE list[l].first,
                     IF n = Null THEN x ELSE list[l].last, list[l].length + 1)
    BY <2>1, LinkWrites
  <2>. QED
    BY <2>2, <2>3 DEF Relinked, Rewritten
<1>7. elt'[x].list = l /\ elt'[x].prev = p /\ elt'[x].next = n /\ elt'[x].data = d
  BY <1>6
<1>8. \A i \in 1..Len(s) : /\ elt'[s[i]].list = l /\ elt'[s[i]].data = elt[s[i]].data
                           /\ elt'[s[i]].next = IF i = k THEN x ELSE Nth(s, i + 1)
                           /\ elt'[s[i]].prev = IF i = k + 1 THEN x ELSE Nth(s, i - 1)
  <2>. TAKE i \in 1..Len(s)
  <2>1. s[i] \in Elts \ {x} /\ (s[i] = p <=> i = k) /\ (s[i] = n <=> i = k + 1)
    BY <1>1, <1>5
  <2>2. /\ elt'[s[i]].list = elt[s[i]].list /\ elt'[s[i]].data = elt[s[i]].data
        /\ elt'[s[i]].next = IF s[i] = p THEN x ELSE elt[s[i]].next
        /\ elt'[s[i]].prev = IF s[i] = n THEN x ELSE elt[s[i]].prev
    BY <1>6, <2>1
  <2>. QED
    BY <1>1, <1>2, <2>1, <2>2
<1>9. Enumerates(l, t)'
  <2>1. ASSUME NEW i \in 1..Len(t), NEW j \in 1..Len(t), t[i] = t[j]
        PROVE  i = j
    <3>1. \/ i = k + 1 /\ t[i] = x
          \/ i \in 1..k /\ i \in 1..Len(s) /\ t[i] = s[i]
          \/ i - 1 \in (k + 1)..Len(s) /\ i - 1 \in 1..Len(s) /\ t[i] = s[i - 1]
      BY <1>4
    <3>2. \/ j = k + 1 /\ t[j] = x
          \/ j \in 1..k /\ j \in 1..Len(s) /\ t[j] = s[j]
          \/ j - 1 \in (k + 1)..Len(s) /\ j - 1 \in 1..Len(s) /\ t[j] = s[j - 1]
      BY <1>4
    <3>. QED
      BY <1>1, <1>5, <2>1, <3>1, <3>2
  <2>2. ASSUME NEW i \in 1..Len(t)
        PROVE  t[i] \in heap' /\ elt'[t[i]].list = l /\ elt'[t[i]].data \in Data
    <3>1. ASSUME NEW j \in 1..Len(s), t[i] = s[j]
          PROVE  t[i] \in heap' /\ elt'[t[i]].list = l /\ elt'[t[i]].data \in Data
      <4>1. s[j] \in heap' /\ elt[s[j]].data \in Data
        BY <1>1, <1>6
      <4>2. elt'[s[j]].list = l /\ elt'[s[j]].data = elt[s[j]].data
        BY <1>8
      <4>. QED
        BY <3>1, <4>1, <4>2
    <3>2. CASE t[i] = x
      BY <1>6, <1>7, <3>2
    <3>. QED
      BY <1>4, <3>1, <3>2
  <2>3. ASSUME NEW y \in Elts, y \in heap', elt'[y].list = l
        PROVE  \E i \in 1..Len(t) : t[i] = y
    <3>1. CASE y = x
      BY <1>1, <1>3, <3>1
    <3>2. CASE y # x
      <4>1. PICK i \in 1..Len(s) : s[i] = y
        BY <1>1, <1>6, <2>3, <3>2
      <4>2. CASE i \in 1..k
        BY <1>1, <1>3, <4>1, <4>2
      <4>3. CASE i \in (k + 1)..Len(s)
        <5>1. i + 1 \in 1..Len(t) /\ t[i + 1] = s[i]
          BY <1>1, <1>3, <4>3
        <5>. QED
          BY <4>1, <5>1
      <4>. QED
        BY <1>1, <4>2, <4>3
    <3>. QED
      BY <3>1, <3>2
  <2>. QED
    BY <1>3, <2>1, <2>2, <2>3 DEF Enumerates
<1>10. LinksFollow(l, t)'
  <2>1. ASSUME NEW i \in 1..Len(t) PROVE elt'[t[i]].next = Nth(t, i + 1)
    <3>1. CASE i = k + 1
      <4>1. k < Len(s) => k + 1 \in (k + 1)..Len(s) /\ t[(k + 1) + 1] = s[k + 1]
        BY <1>1, <1>3
      <4>. QED
        BY <1>1, <1>3, <1>7, <3>1, <4>1 DEF Nth
    <3>2. CASE i \in 1..k /\ i \in 1..Len(s) /\ t[i] = s[i]
      <4>1. elt'[t[i]].next = IF i = k THEN x ELSE Nth(s, i + 1)
        BY <1>8, <3>2
      <4>2. CASE i = k
        BY <1>1, <1>3, <4>1, <4>2 DEF Nth
      <4>3. CASE i # k
        <5>1. i + 1 \in 1..k /\ i + 1 \in 1..Len(s) /\ i + 1 \in 1..Len(t)
          BY <1>1, <1>3, <3>2, <4>3
        <5>2. t[i + 1] = s[i + 1]
          BY <1>3, <5>1
        <5>. QED
          BY <4>1, <4>3, <5>1, <5>2 DEF Nth
      <4>. QED
        BY <4>2, <4>3
    <3>3. CASE i - 1 \in (k + 1)..Len(s) /\ i - 1 \in 1..Len(s) /\ t[i] = s[i - 1]
      <4>1. elt'[t[i]].next = Nth(s, i)
        BY <1>8, <3>3
      <4>2. i \in 1..Len(s) => t[i + 1] = s[i]
        BY <1>1, <1>3, <3>3
      <4>. QED
        BY <1>1, <1>3, <3>3, <4>1, <4>2 DEF Nth
    <3>. QED
      BY <1>4, <3>1, <3>2, <3>3
  <2>2. ASSUME NEW i \in 1..Len(t) PROVE elt'[t[i]].prev = Nth(t, i - 1)
    <3>1. CASE i = k + 1
      BY <1>1, <1>3, <1>7, <3>1 DEF Nth
    <3>2. CASE i \in 1..k /\ i \in 1..Len(s) /\ t[i] = s[i]
      <4>1. elt'[t[i]].prev = Nth(s, i - 1)
        BY <1>1, <1>8, <3>2
      <4>2. i - 1 \in 1..Len(s) <=> i - 1 \in 1..Len(t)
        BY <1>1, <1>3, <3>2
      <4>3. i - 1 \in 1..Len(s) => t[i - 1] = s[i - 1]
        BY <1>1, <1>3, <3>2
      <4>. QED
        BY <4>1, <4>2, <4>3 DEF Nth
    <3>3. CASE i - 1 \in (k + 1)..Len(s) /\ i - 1 \in 1..Len(s) /\ t[i] = s[i - 1]
      <4>1. elt'[t[i]].prev = IF i - 1 = k + 1 THEN x ELSE Nth(s, (i - 1) - 1)
        BY <1>8, <3>3
      <4>2. CASE i - 1 = k + 1
        BY <1>1, <1>3, <4>1, <4>2 DEF Nth
      <4>3. CASE i - 1 # k + 1
        <5>1. (i - 1) - 1 \in (k + 1)..Len(s) /\ ((i - 1) - 1) + 1 = i - 1
          BY <1>1, <3>3, <4>3
        <5>2. t[i - 1] = s[(i - 1) - 1] /\ (i - 1) - 1 \in 1..Len(s) /\ i - 1 \in 1..Len(t)
          BY <1>1, <1>3, <5>1
        <5>. QED
          BY <4>1, <4>3, <5>2 DEF Nth
      <4>. QED
        BY <4>2, <4>3
    <3>. QED
      BY <1>4, <3>1, <3>2, <3>3
  <2>3. list'[l].first = Nth(t, 1)
    BY <1>1, <1>2, <1>3, <1>5, <1>6 DEF Nth
  <2>4. list'[l].last = Nth(t, Len(t)) /\ list'[l].length = Len(t)
    <3>1. CASE k = Len(s)
      BY <1>1, <1>2, <1>3, <1>5, <1>6, <3>1 DEF Nth
    <3>2. CASE k < Len(s)
      BY <1>1, <1>2, <1>3, <1>5, <1>6, <3>2 DEF Nth
    <3>. QED
      BY <1>1, <3>1, <3>2
  <2>. QED
    BY <2>1, <2>2, <2>3, <2>4 DEF LinksFollow, WipedNow, FirstLeft
<1>11. InOrder(l, t)'
  <2>. SUFFICES ASSUME l \in Sorted, NEW i \in 1..Len(t), NEW j \in 1..Len(t), i < j
                PROVE  elt'[t[i]].data <= elt'[t[j]].data
    BY DEF InOrder
  <2>1. /\ \A g, h \in 1..Len(s) : g < h => elt[s[g]].data <= elt[s[h]].data
        /\ \A h \in 1..k : elt[s[h]].data <= d
        /\ \A h \in (k + 1)..Len(s) : elt[s[h]].data > d
    BY DEF Chain, InOrder
  <2>2. d \in Nat /\ \A h \in 1..Len(s) : elt[s[h]].data \in Nat
    BY <1>1, DataAssumption
  <2>3. \A h \in 1..Len(s) : elt'[s[h]].data = elt[s[h]].data
    BY <1>8
  <2>4. \/ i = k + 1 /\ t[i] = x
        \/ i \in 1..k /\ i \in 1..Len(s) /\ t[i] = s[i]
        \/ i - 1 \in (k + 1)..Len(s) /\ i - 1 \in 1..Len(s) /\ t[i] = s[i - 1]
    BY <1>4
  <2>5. \/ j = k + 1 /\ t[j] = x
        \/ j \in 1..k /\ j \in 1..Len(s) /\ t[j] = s[j]
        \/ j - 1 \in (k + 1)..Len(s) /\ j - 1 \in 1..Len(s) /\ t[j] = s[j - 1]
    BY <1>4
  <2>6. elt'[x].data = d
    BY <1>7
  <2>7. CASE t[i] = x /\ i = k + 1
    <3>1. j - 1 \in (k + 1)..Len(s) /\ j - 1 \in 1..Len(s) /\ t[j] = s[j - 1]
      BY <2>5, <2>7
    <3>2. PICK h \in 1..Len(s) : h = j - 1 /\ h \in (k + 1)..Len(s) /\ t[j] = s[h]
      BY <3>1
    <3>3. d <= elt[s[h]].data
      BY <2>1, <2>2, <3>2
    <3>4. elt'[t[i]].data = d /\ elt'[t[j]].data = elt[s[h]].data
      BY <2>3, <2>6, <2>7, <3>2
    <3>. QED
      BY <3>3, <3>4
  <2>8. CASE i \in 1..k /\ i \in 1..Len(s) /\ t[i] = s[i]
    <3>1. elt'[t[i]].data = elt[s[i]].data /\ elt[s[i]].data <= d
      BY <2>1, <2>3, <2>8
    <3>2. elt'[t[j]].data = d \/ (\E h \in 1..Len(s) : elt'[t[j]].data = elt[s[h]].data
                                                       /\ i < h)
      BY <2>3, <2>5, <2>6, <2>8
    <3>. QED
      BY <2>1, <2>8, <3>1, <3>2
  <2>9. CASE i - 1 \in (k + 1)..Len(s) /\ i - 1 \in 1..Len(s) /\ t[i] = s[i - 1]
    <3>1. j - 1 \in 1..Len(s) /\ t[j] = s[j - 1] /\ i - 1 < j - 1
      BY <2>5, <2>9
    <3>. QED
      BY <2>1, <2>3, <2>9, <3>1
  <2>. QED
    BY <2>4, <2>7, <2>8, <2>9
<1>. QED
  BY <1>9, <1>10, <1>11 DEF Chain

\* Sequence t is s without its k-th.
Shrunk(s, k, t) ==
  /\ Len(t) = Len(s) - 1
  /\ \A i \in 1..(k - 1) : t[i] = s[i]
  /\ \A i \in (k + 1)..Len(s) : t[i - 1] = s[i]

LEMMA RemoveShrinks ==
  ASSUME NEW S, NEW s \in Seq(S), NEW k \in 1..Len(s)
  PROVE  RemoveAt(s, k) \in Seq(S) /\ Shrunk(s, k, RemoveAt(s, k))
<1>. DEFINE t == RemoveAt(s, k)
<1>1. /\ t \in Seq(S) /\ Len(t) = Len(s) - 1
      /\ \A i \in 1..(Len(s) - 1) : t[i] = IF i < k THEN s[i] ELSE s[i + 1]
  BY RemoveAtFacts
<1>. HIDE DEF t
<1>2. Len(s) \in Nat
  BY LenProperties
<1>3. ASSUME NEW i \in (k + 1)..Len(s) PROVE t[i - 1] = s[i]
  <2>1. i - 1 \in 1..(Len(s) - 1) /\ ~(i - 1 < k) /\ (i - 1) + 1 = i
    BY <1>2
  <2>. QED
    BY <1>1, <2>1
<1>4. ASSUME NEW i \in 1..(k - 1) PROVE t[i] = s[i]
  BY <1>1, <1>2
<1>. QED
  BY <1>1, <1>3, <1>4 DEF Shrunk, t

LEMMA ShrunkFacts ==
  ASSUME NEW s \in Seq(Elts), NEW k \in 1..Len(s), NEW t \in Seq(Elts), Shrunk(s, k, t)
  PROVE  /\ Len(s) \in Nat /\ Len(t) = Len(s) - 1
         /\ \A i \in 0..(k - 1) : Nth(t, i) = Nth(s, i)
         /\ \A i \in (k + 1)..(Len(s) + 1) : Nth(t, i - 1) = Nth(s, i)
         /\ \A i \in 1..Len(t) :
              \/ i \in 1..(k - 1) /\ i \in 1..Len(s) /\ t[i] = s[i]
              \/ i + 1 \in (k + 1)..Len(s) /\ i + 1 \in 1..Len(s) /\ t[i] = s[i + 1]
<1>1. Len(s) \in Nat /\ Len(t) = Len(s) - 1
  BY LenProperties DEF Shrunk
<1>2. ASSUME NEW i \in 0..(k - 1) PROVE Nth(t, i) = Nth(s, i)
  BY <1>1 DEF Shrunk, Nth
<1>3. ASSUME NEW i \in (k + 1)..(Len(s) + 1) PROVE Nth(t, i - 1) = Nth(s, i)
  <2>1. i - 1 \in 1..Len(t) <=> i \in 1..Len(s)
    BY <1>1
  <2>2. i \in 1..Len(s) => t[i - 1] = s[i]
    BY <1>1 DEF Shrunk
  <2>. QED
    BY <2>1, <2>2 DEF Nth
<1>4. ASSUME NEW i \in 1..Len(t)
      PROVE  \/ i \in 1..(k - 1) /\ i \in 1..Len(s) /\ t[i] = s[i]
             \/ i + 1 \in (k + 1)..Len(s) /\ i + 1 \in 1..Len(s) /\ t[i] = s[i + 1]
  <2>1. CASE i >= k
    <3>1. i + 1 \in (k + 1)..Len(s) /\ (i + 1) - 1 = i
      BY <1>1, <2>1
    <3>2. t[(i + 1) - 1] = s[i + 1]
      BY <3>1 DEF Shrunk
    <3>. QED
      BY <1>1, <3>1, <3>2
  <2>2. CASE i < k
    BY <1>1, <2>2 DEF Shrunk
  <2>. QED
    BY <1>1, <2>1, <2>2
<1>. QED
  BY <1>1, <1>2, <1>3, <1>4

\* When the k-th element of a list is freed, its others are still listed.
LEMMA ShrunkListed ==
  ASSUME NEW l, NEW s \in Seq(Elts), Chain(l, s), NEW k \in 1..Len(s),
         NEW t \in Seq(Elts), Shrunk(s, k, t), heap' = heap \ {s[k]},
         \A y \in Elts \ {s[k]} : elt'[y].list = elt[y].list /\ elt'[y].data = elt[y].data
  PROVE  (Enumerates(l, t) /\ InOrder(l, t))'
<1>1. /\ Len(s) \in Nat
      /\ \A i \in 1..Len(s) : /\ s[i] \in Elts /\ s[i] \in heap
                              /\ elt[s[i]].list = l /\ elt[s[i]].data \in Data
      /\ \A i, j \in 1..Len(s) : s[i] = s[j] => i = j
      /\ \A y \in Elts : y \in heap /\ elt[y].list = l => \E i \in 1..Len(s) : s[i] = y
  BY LenProperties, ElementOfSeq DEF Chain, Enumerates
<1>2. /\ Len(t) = Len(s) - 1
      /\ \A i \in 1..Len(t) :
           \/ i \in 1..(k - 1) /\ i \in 1..Len(s) /\ t[i] = s[i]
           \/ i + 1 \in (k + 1)..Len(s) /\ i + 1 \in 1..Len(s) /\ t[i] = s[i + 1]
  BY ShrunkFacts
<1>3. \A i \in 1..Len(s) : i # k =>
        /\ s[i] \in heap' /\ elt'[s[i]].list = l
        /\ elt'[s[i]].data = elt[s[i]].data /\ elt'[s[i]].data \in Data
  BY <1>1
<1>4. ASSUME NEW i \in 1..Len(t), NEW j \in 1..Len(t), t[i] = t[j]
      PROVE  i = j
  <2>1. \/ i \in 1..(k - 1) /\ i \in 1..Len(s) /\ t[i] = s[i]
        \/ i + 1 \in (k + 1)..Len(s) /\ i + 1 \in 1..Len(s) /\ t[i] = s[i + 1]
    BY <1>2
  <2>2. \/ j \in 1..(k - 1) /\ j \in 1..Len(s) /\ t[j] = s[j]
        \/ j + 1 \in (k + 1)..Len(s) /\ j + 1 \in 1..Len(s) /\ t[j] = s[j + 1]
    BY <1>2
  <2>. QED
    BY <1>1, <1>4, <2>1, <2>2
<1>5. ASSUME NEW i \in 1..Len(t)
      PROVE  t[i] \in heap' /\ elt'[t[i]].list = l /\ elt'[t[i]].data \in Data
  <2>1. CASE i \in 1..(k - 1) /\ i \in 1..Len(s) /\ t[i] = s[i]
    BY <1>1, <1>3, <2>1
  <2>2. CASE i + 1 \in (k + 1)..Len(s) /\ i + 1 \in 1..Len(s) /\ t[i] = s[i + 1]
    BY <1>1, <1>3, <2>2
  <2>. QED
    BY <1>2, <2>1, <2>2
<1>6. ASSUME NEW y \in Elts, y \in heap', elt'[y].list = l
      PROVE  \E i \in 1..Len(t) : t[i] = y
  <2>1. PICK i \in 1..Len(s) : s[i] = y /\ i # k
    BY <1>1, <1>6
  <2>2. CASE i < k
    BY <1>1, <1>2, <2>1, <2>2 DEF Shrunk
  <2>3. CASE i > k
    <3>1. i - 1 \in 1..Len(t) /\ t[i - 1] = s[i]
      BY <1>1, <1>2, <2>3 DEF Shrunk
    <3>. QED
      BY <2>1, <3>1
  <2>. QED
    BY <1>1, <2>1, <2>2, <2>3
<1>7. Enumerates(l, t)'
  BY <1>4, <1>5, <1>6 DEF Enumerates
<1>8. InOrder(l, t)'
  <2>. SUFFICES ASSUME l \in Sorted, NEW i \in 1..Len(t), NEW j \in 1..Len(t), i < j
                PROVE  elt'[t[i]].data <= elt'[t[j]].data
    BY DEF InOrder
  <2>1. \A g, h \in 1..Len(s) : g < h => elt[s[g]].data <= elt[s[h]].data
    BY DEF Chain, InOrder
  <2>2. PICK g, h \in 1..Len(s) : g < h /\ g # k /\ h # k /\ t[i] = s[g] /\ t[j] = s[h]
    <3>1. \/ j \in 1..(k - 1) /\ j \in 1..Len(s) /\ t[j] = s[j]
          \/ j + 1 \in (k + 1)..Len(s) /\ j + 1 \in 1..Len(s) /\ t[j] = s[j + 1]
      BY <1>2
    <3>2. PICK h \in 1..Len(s) : h # k /\ t[j] = s[h] /\ ((h = j /\ j < k) \/ h = j + 1)
      BY <3>1
    <3>3. CASE i \in 1..(k - 1) /\ i \in 1..Len(s) /\ t[i] = s[i]
      BY <3>2, <3>3
    <3>4. CASE i + 1 \in (k + 1)..Len(s) /\ i + 1 \in 1..Len(s) /\ t[i] = s[i + 1]
      BY <3>1, <3>2, <3>4
    <3>. QED
      BY <1>2, <3>3, <3>4
  <2>. QED
    BY <1>3, <2>1, <2>2
<1>. QED
  BY <1>7, <1>8

\* A list without its k-th element.
LEMMA UnlinkedChain ==
  ASSUME TypeOK, NEW l \in Lists, l # Null, ~Wiping, ~Wiping',
         NEW s \in Seq(Elts), Chain(l, s), NEW k \in 1..Len(s), Unlink(s[k]),
         NEW t \in Seq(Elts), Shrunk(s, k, t)
  PROVE  Chain(l, t)'
<1>1. /\ Len(s) \in Nat
      /\ \A i \in 1..Len(s) : /\ s[i] \in Elts /\ s[i] \in heap /\ s[i] # Null
                              /\ elt[s[i]].list = l /\ elt[s[i]].data \in Data
      /\ \A i, j \in 1..Len(s) : s[i] = s[j] => i = j
  BY LenProperties, ElementOfSeq, AddressAssumption DEF Chain, Enumerates
<1>2. /\ \A i \in 1..Len(s) : elt[s[i]].next = Nth(s, i + 1)
      /\ \A i \in 1..Len(s) : elt[s[i]].prev = Nth(s, i - 1)
      /\ list[l].first = Nth(s, 1) /\ list[l].length = Len(s)
      /\ list[l].last = Nth(s, Len(s))
  BY DEF Chain, LinksFollow, WipedNow, FirstLeft
<1>3. /\ Len(t) = Len(s) - 1
      /\ \A i \in 0..(k - 1) : Nth(t, i) = Nth(s, i)
      /\ \A i \in (k + 1)..(Len(s) + 1) : Nth(t, i - 1) = Nth(s, i)
      /\ \A i \in 1..Len(t) :
           \/ i \in 1..(k - 1) /\ i \in 1..Len(s) /\ t[i] = s[i]
           \/ i + 1 \in (k + 1)..Len(s) /\ i + 1 \in 1..Len(s) /\ t[i] = s[i + 1]
  BY ShrunkFacts
<1>4. PICK x \in Elts : x = s[k]
  BY <1>1
<1>5. PICK p, n : p = Nth(s, k - 1) /\ n = Nth(s, k + 1)
  OBVIOUS
<1>6. elt[x].list = l /\ elt[x].prev = p /\ elt[x].next = n /\ Unlink(x)
  BY <1>1, <1>2, <1>4, <1>5
<1>7. /\ Relinked(x, ErasedElt, p, n, n, p)
      /\ Rewritten(l, IF p = Null THEN n ELSE list[l].first,
                   IF n = Null THEN p ELSE list[l].last, list[l].length - 1)
  BY <1>6, UnlinkWrites
<1>8. heap' = heap \ {x}
  BY <1>6 DEF Unlink
<1>9. \A y \in Elts \ {x} : elt'[y].list = elt[y].list /\ elt'[y].data = elt[y].data
  BY <1>7 DEF Relinked
<1>10. Enumerates(l, t)' /\ InOrder(l, t)'
  BY <1>4, <1>8, <1>9, ShrunkListed
<1>11. /\ \A i \in 1..Len(s) : (s[i] = p <=> i = k - 1) /\ (s[i] = n <=> i = k + 1)
       /\ p = Null <=> k = 1
       /\ n = Null <=> k = Len(s)
  <2>1. /\ Len(s) \in Nat /\ k \in 1..Len(s)
        /\ p = IF k - 1 \in 1..Len(s) THEN s[k - 1] ELSE Null
        /\ n = IF k + 1 \in 1..Len(s) THEN s[k + 1] ELSE Null
    BY <1>1, <1>5 DEF Nth
  <2>2. /\ \A i \in 1..Len(s) : s[i] = p <=> i = k - 1
        /\ p = Null <=> k = 1
    <3>1. CASE k = 1
      <4>1. p = Null /\ k - 1 \notin 1..Len(s)
        BY ONLY <2>1, <3>1
      <4>. QED
        BY ONLY <1>1, <3>1, <4>1
    <3>2. CASE k # 1
      <4>1. k - 1 \in 1..Len(s) /\ p = s[k - 1]
        BY ONLY <2>1, <3>2
      <4>. QED
        BY ONLY <1>1, <3>2, <4>1
    <3>. QED
      BY ONLY <3>1, <3>2
  <2>3. /\ \A i \in 1..Len(s) : s[i] = n <=> i = k + 1
        /\ n = Null <=> k = Len(s)
    <3>1. CASE k = Len(s)
      <4>1. n = Null /\ k + 1 \notin 1..Len(s)
        BY ONLY <2>1, <3>1
      <4>. QED
        BY ONLY <1>1, <3>1, <4>1
    <3>2. CASE k # Len(s)
      <4>1. k + 1 \in 1..Len(s) /\ n = s[k + 1]
        BY ONLY <2>1, <3>2
      <4>. QED
        BY ONLY <1>1, <3>2, <4>1
    <3>. QED
      BY ONLY <3>1, <3>2
  <2>. QED
    BY ONLY <2>2, <2>3
<1>12. ASSUME NEW i \in 1..Len(s), i # k
       PROVE  /\ elt'[s[i]].next = IF i = k - 1 THEN n ELSE Nth(s, i + 1)
              /\ elt'[s[i]].prev = IF i = k + 1 THEN p ELSE Nth(s, i - 1)
  <2>1. s[i] \in Elts \ {x} /\ (s[i] = p <=> i = k - 1) /\ (s[i] = n <=> i = k + 1)
    BY <1>1, <1>4, <1>11, <1>12
  <2>2. /\ elt'[s[i]].next = IF s[i] = p THEN n ELSE elt[s[i]].next
        /\ elt'[s[i]].prev = IF s[i] = n THEN p ELSE elt[s[i]].prev
    BY <1>7, <2>1 DEF Relinked
  <2>. QED
    BY <1>2, <2>1, <2>2
<1>13. LinksFollow(l, t)'
  <2>1. ASSUME NEW i \in 1..Len(t)
        PROVE  elt'[t[i]].next = Nth(t, i + 1) /\ elt'[t[i]].prev = Nth(t, i - 1)
    <3>1. CASE i \in 1..(k - 1) /\ i \in 1..Len(s) /\ t[i] = s[i]
      <4>1. /\ elt'[t[i]].next = IF i = k - 1 THEN n ELSE Nth(s, i + 1)
            /\ elt'[t[i]].prev = Nth(s, i - 1)
        BY <1>12, <3>1
      <4>2. Nth(t, i - 1) = Nth(s, i - 1)
        BY <1>3, <3>1
      <4>3. i # k - 1 => Nth(t, i + 1) = Nth(s, i + 1)
        BY <1>3, <3>1
      <4>4. Nth(t, (k + 1) - 1) = n
        BY <1>1, <1>3, <1>5
      <4>5. i = k - 1 => i + 1 = (k + 1) - 1
        BY <3>1
      <4>. QED
        BY <4>1, <4>2, <4>3, <4>4, <4>5
    <3>2. CASE i + 1 \in (k + 1)..Len(s) /\ i + 1 \in 1..Len(s) /\ t[i] = s[i + 1]
      <4>1. /\ elt'[t[i]].next = Nth(s, (i + 1) + 1)
            /\ elt'[t[i]].prev = IF i + 1 = k + 1 THEN p ELSE Nth(s, (i + 1) - 1)
        <5>1. PICK j \in 1..Len(s) : j = i + 1 /\ t[i] = s[j]
          BY <3>2
        <5>2. j # k /\ j # k - 1
          BY <1>1, <3>2, <5>1
        <5>3. /\ elt'[s[j]].next = Nth(s, j + 1)
              /\ elt'[s[j]].prev = IF j = k + 1 THEN p ELSE Nth(s, j - 1)
          BY <1>12, <5>2
        <5>. QED
          BY <5>1, <5>3
      <4>2. Nth(t, ((i + 1) + 1) - 1) = Nth(s, (i + 1) + 1) /\ ((i + 1) + 1) - 1 = i + 1
        BY <1>1, <1>3, <3>2
      <4>3. CASE i = k
        <5>1. Nth(t, k - 1) = p
          BY <1>3, <1>5
        <5>. QED
          BY <4>1, <4>2, <4>3, <5>1
      <4>4. CASE i # k
        <5>1. Nth(t, i - 1) = Nth(s, i) /\ (i + 1) - 1 = i /\ i + 1 # k + 1
          BY <1>1, <1>3, <3>2, <4>4
        <5>. QED
          BY <4>1, <4>2, <5>1
      <4>. QED
        BY <4>3, <4>4
    <3>. QED
      BY <1>3, <3>1, <3>2
  <2>2. list'[l].length = Len(t)
    BY <1>2, <1>3, <1>7 DEF Rewritten
  <2>3. list'[l].first = Nth(t, 1)
    <3>1. list'[l].first = IF k = 1 THEN n ELSE Nth(s, 1)
      BY <1>2, <1>7, <1>11 DEF Rewritten
    <3>2. CASE k = 1
      BY <1>1, <1>3, <1>5, <3>1, <3>2 DEF Nth
    <3>3. CASE k # 1
      <4>1. Nth(t, 1) = Nth(s, 1)
        BY <1>1, <1>3, <3>3
      <4>. QED
        BY <3>1, <3>3, <4>1
    <3>. QED
      BY <3>2, <3>3
  <2>4. list'[l].last = Nth(t, Len(t))
    <3>1. list'[l].last = IF k = Len(s) THEN p ELSE Nth(s, Len(s))
      BY <1>2, <1>7, <1>11 DEF Rewritten
    <3>2. CASE k = Len(s)
      BY <1>1, <1>3, <1>5, <3>1, <3>2
    <3>3. CASE k # Len(s)
      BY <1>1, <1>3, <3>1, <3>3
    <3>. QED
      BY <3>2, <3>3
  <2>. QED
    BY <2>1, <2>2, <2>3, <2>4 DEF LinksFollow, WipedNow, FirstLeft
<1>. QED
  BY <1>10, <1>13 DEF Chain

\* What is left of a list when its first element is wiped.
LEMMA WipedChain ==
  ASSUME TypeOK, NEW l \in Lists, on = l, NEW s \in Seq(Elts), Chain(l, s), WipeElt,
         NEW t \in Seq(Elts), Shrunk(s, 1, t)
  PROVE  Len(s) >= 1 /\ at = s[1] /\ Chain(l, t)'
<1>1. /\ Len(s) \in Nat
      /\ \A i \in 1..Len(s) : s[i] \in Elts
      /\ \A i, j \in 1..Len(s) : s[i] = s[j] => i = j
  BY LenProperties, ElementOfSeq DEF Chain, Enumerates
<1>2. /\ WipedNow(l) /\ WipedNow(l)' /\ at = Nth(s, 1) /\ at # Null
      /\ \A i \in 1..Len(s) : elt[s[i]].next = Nth(s, i + 1)
      /\ \A i \in 1..Len(s) : i = 1 \/ elt[s[i]].prev = Nth(s, i - 1)
      /\ s # <<>> => list[l].last = Nth(s, Len(s))
  BY DEF Chain, LinksFollow, WipedNow, FirstLeft, WipeElt, Wiping, Running
<1>3. Len(s) >= 1 /\ 1 \in 1..Len(s) /\ at = s[1]
  BY <1>1, <1>2 DEF Nth
<1>4. /\ Len(t) = Len(s) - 1
      /\ \A i \in (1 + 1)..(Len(s) + 1) : Nth(t, i - 1) = Nth(s, i)
      /\ \A i \in 1..Len(t) :
           i + 1 \in (1 + 1)..Len(s) /\ i + 1 \in 1..Len(s) /\ t[i] = s[i + 1]
  BY <1>3, ShrunkFacts
<1>5. /\ heap' = heap \ {s[1]} /\ list' = list /\ at' = elt[s[1]].next
      /\ \A y \in Elts \ {s[1]} : elt'[y] = elt[y]
  BY <1>3 DEF WipeElt, Running, TypeOK
<1>6. Enumerates(l, t)' /\ InOrder(l, t)'
  BY <1>3, <1>5, ShrunkListed
<1>7. ASSUME NEW i \in 1..Len(t)
      PROVE  /\ elt'[t[i]].next = Nth(t, i + 1)
             /\ i = 1 \/ elt'[t[i]].prev = Nth(t, i - 1)
  <2>1. i + 1 \in 1..Len(s) /\ t[i] = s[i + 1] /\ elt'[t[i]] = elt[s[i + 1]]
    <3>1. i + 1 \in 1..Len(s) /\ t[i] = s[i + 1] /\ i + 1 # 1
      BY <1>4
    <3>2. s[i + 1] \in Elts \ {s[1]}
      BY <1>1, <1>3, <3>1
    <3>. QED
      BY <1>5, <3>1, <3>2
  <2>2. Nth(t, ((i + 1) + 1) - 1) = Nth(s, (i + 1) + 1) /\ ((i + 1) + 1) - 1 = i + 1
    BY <1>1, <1>4
  <2>3. i # 1 => Nth(t, i - 1) = Nth(s, i) /\ (i + 1) - 1 = i
    BY <1>1, <1>4
  <2>. QED
    BY <1>2, <2>1, <2>2, <2>3
<1>8. at' = Nth(t, 1)
  <2>1. Nth(t, (1 + 1) - 1) = Nth(s, 1 + 1)
    BY <1>1, <1>3, <1>4
  <2>. QED
    BY <1>2, <1>3, <1>5, <2>1
<1>9. t # <<>> => list'[l].last = Nth(t, Len(t))
  <2>. SUFFICES ASSUME t # <<>> PROVE list'[l].last = Nth(t, Len(t))
    OBVIOUS
  <2>1. Len(t) >= 1
    BY EmptySeq, LenProperties
  <2>2. Len(s) \in (1 + 1)..(Len(s) + 1) /\ s # <<>>
    BY <1>1, <1>4, <2>1
  <2>3. Nth(t, Len(s) - 1) = Nth(s, Len(s))
    BY <1>4, <2>2
  <2>. QED
    BY <1>2, <1>4, <1>5, <2>2, <2>3
<1>10. LinksFollow(l, t)'
  BY <1>2, <1>7, <1>8, <1>9 DEF LinksFollow, FirstLeft
<1>. QED
  BY <1>3, <1>6, <1>10 DEF Chain

-----------------------------------------------------------------------------
(* Steps of the lists are steps of the store.                              *)

LEMMA GrownIs ==
  ASSUME NEW S, NEW s \in Seq(S), NEW k \in 0..Len(s), NEW x \in S,
         NEW t \in Seq(S), Grown(s, k, x, t)
  PROVE  t = SubSeq(s, 1, k) \o <<x>> \o SubSeq(s, k + 1, Len(s))
<1>. DEFINE u == InsertAt(s, k + 1, x)
<1>1. u \in Seq(S) /\ Grown(s, k, x, u)
  BY InsertGrows
<1>2. u = SubSeq(s, 1, k) \o <<x>> \o SubSeq(s, k + 1, Len(s))
  <2>1. (k + 1) - 1 = k
    OBVIOUS
  <2>. QED
    BY <2>1, Zenon DEF InsertAt
<1>. HIDE DEF u
<1>3. Len(s) \in Nat
  BY LenProperties
<1>4. ASSUME NEW i \in 1..Len(t) PROVE t[i] = u[i]
  <2>1. CASE i = k + 1
    BY <1>1, <2>1 DEF Grown
  <2>2. CASE i \in 1..k
    BY <1>1, <2>2 DEF Grown
  <2>3. CASE i > k + 1
    <3>1. i - 1 \in (k + 1)..Len(s) /\ (i - 1) + 1 = i
      BY <1>3, <2>3 DEF Grown
    <3>2. t[(i - 1) + 1] = s[i - 1] /\ u[(i - 1) + 1] = s[i - 1]
      BY <1>1, <3>1 DEF Grown
    <3>. QED
      BY <3>1, <3>2
  <2>. QED
    BY <1>3, <2>1, <2>2, <2>3
<1>5. Len(t) = Len(u)
  BY <1>1 DEF Grown
<1>6. t = u
  BY <1>1, <1>4, <1>5, SeqEqual
<1>. QED
  BY <1>2, <1>6

LEMMA ShrunkIs ==
  ASSUME NEW S, NEW s \in Seq(S), NEW k \in 1..Len(s),
         NEW t \in Seq(S), Shrunk(s, k, t)
  PROVE  t = SubSeq(s, 1, k - 1) \o SubSeq(s, k + 1, Len(s))
<1>. DEFINE u == RemoveAt(s, k)
<1>1. u \in Seq(S) /\ Shrunk(s, k, u)
  BY RemoveShrinks
<1>2. u = SubSeq(s, 1, k - 1) \o SubSeq(s, k + 1, Len(s))
  BY Zenon DEF RemoveAt
<1>. HIDE DEF u
<1>3. Len(s) \in Nat /\ Len(t) \in Nat
  BY LenProperties
<1>4. ASSUME NEW i \in 1..Len(t) PROVE t[i] = u[i]
  <2>1. CASE i \in 1..(k - 1)
    BY <1>1, <2>1 DEF Shrunk
  <2>2. CASE i >= k
    <3>1. i + 1 \in (k + 1)..Len(s) /\ (i + 1) - 1 = i
      BY <1>3, <2>2 DEF Shrunk
    <3>2. t[(i + 1) - 1] = s[i + 1] /\ u[(i + 1) - 1] = s[i + 1]
      BY <1>1, <3>1 DEF Shrunk
    <3>. QED
      BY <3>1, <3>2
  <2>. QED
    BY <1>3, <2>1, <2>2
<1>5. Len(t) = Len(u)
  BY <1>1 DEF Shrunk
<1>6. t = u
  BY <1>1, <1>4, <1>5, SeqEqual
<1>. QED
  BY <1>2, <1>6

\* A call works on one list, l, and leaves the others alone.
OthersKept(l) ==
  /\ \A m \in Lists \ {l} : /\ m \in heap' <=> m \in heap
                            /\ list'[m] = list[m]
                            /\ ~WipedNow(m) /\ ~WipedNow(m)'
  /\ \A y \in Elts : y \in heap /\ elt[y].list # l => y \in heap' /\ elt'[y] = elt[y]
  /\ \A y \in Elts : y \in heap' /\ elt'[y].list # l => y \in heap /\ elt[y].list # l

LEMMA EntriesKept ==
  ASSUME NEW s \in Seq(Elts), \A i \in 1..Len(s) : elt'[s[i]].data = elt[s[i]].data
  PROVE  Entries(s)' = Entries(s)
<1>1. \A i \in 1..Len(s) : [elt |-> s[i], data |-> elt'[s[i]].data]
                             = [elt |-> s[i], data |-> elt[s[i]].data]
  OBVIOUS
<1>. QED
  BY <1>1 DEF Entries

\* List l becomes t.
Becomes(ss, l, t, tt) ==
  /\ tt = [ss EXCEPT ![l] = t]
  /\ TypeOK' /\ OthersKept(l) /\ CallInv(tt)'
  /\ IF l \in heap' THEN Chain(l, t)'
     ELSE t = <<>> /\ \A y \in Elts : y \in heap' => elt'[y].list # l
  /\ \A y \in Elts \ heap' : elt'[y] = ErasedElt

LEMMA OthersFollow ==
  ASSUME NEW ss, StoreInv(ss), NEW l \in Lists, NEW t \in Seq(Elts), NEW tt,
         Becomes(ss, l, t, tt)
  PROVE  /\ StoreInv(tt)' /\ tt \in [Lists -> Seq(Elts)] /\ tt[l] = t
         /\ \A m \in Lists \ {l} : Entries(tt[m])' = Entries(ss[m])
<1>1. /\ ss \in [Lists -> Seq(Elts)]
      /\ \A m \in Lists : IF m \in heap THEN Chain(m, ss[m]) ELSE ss[m] = <<>>
      /\ \A x \in Elts : x \in heap => elt[x].list \in Lists /\ elt[x].list \in heap
  BY DEF StoreInv, Linked, Created
<1>2. /\ tt \in [Lists -> Seq(Elts)] /\ tt[l] = t
      /\ \A m \in Lists \ {l} : tt[m] = ss[m]
  BY <1>1 DEF Becomes
<1>. TypeOK' /\ OthersKept(l) /\ CallInv(tt)'
  BY DEF Becomes
<1>3. ASSUME NEW m \in Lists \ {l}, m \in heap PROVE Chain(m, ss[m])'
  <2>1. Chain(m, ss[m])
    BY <1>1, <1>3
  <2>2. /\ list'[m] = list[m] /\ (WipedNow(m)' <=> WipedNow(m)) /\ ~WipedNow(m)
        /\ \A x \in Elts : /\ x \in heap /\ elt[x].list = m =>
                                x \in heap' /\ elt'[x] = elt[x]
                           /\ x \in heap' /\ elt'[x].list = m =>
                                x \in heap /\ elt[x].list = m
    BY DEF OthersKept
  <2>. QED
    BY <2>1, <2>2, ChainKept
<1>4. ASSUME NEW m \in Lists \ {l} PROVE Entries(ss[m])' = Entries(ss[m])
  <2>1. ss[m] \in Seq(Elts)
    BY <1>1
  <2>2. CASE m \in heap
    <3>1. \A i \in 1..Len(ss[m]) :
            ss[m][i] \in Elts /\ ss[m][i] \in heap /\ elt[ss[m][i]].list = m
      BY <1>1, <2>1, <2>2, ElementOfSeq DEF Chain, Enumerates
    <3>2. \A i \in 1..Len(ss[m]) : elt'[ss[m][i]].data = elt[ss[m][i]].data
      BY <3>1 DEF OthersKept
    <3>. QED
      BY <2>1, <3>2, EntriesKept
  <2>3. CASE m \notin heap
    <3>1. ss[m] = <<>>
      BY <1>1, <2>3
    <3>. QED
      BY <3>1 DEF Entries
  <2>. QED
    BY <2>2, <2>3
<1>5. \A m \in Lists \ {l} : IF m \in heap' THEN Chain(m, ss[m])' ELSE ss[m] = <<>>
  BY <1>1, <1>3 DEF OthersKept
<1>6. \A m \in Lists : IF m \in heap' THEN Chain(m, tt[m])' ELSE tt[m] = <<>>
  <2>. SUFFICES ASSUME NEW m \in Lists
                PROVE  IF m \in heap' THEN Chain(m, tt[m])' ELSE tt[m] = <<>>
    OBVIOUS
  <2>1. CASE m = l
    BY <1>2, <2>1 DEF Becomes
  <2>2. CASE m # l
    BY <1>2, <1>5, <2>2
  <2>. QED
    BY <2>1, <2>2
<1>7. \A x \in Elts : x \in heap' => elt'[x].list \in Lists /\ elt'[x].list \in heap'
  <2>. SUFFICES ASSUME NEW x \in Elts, x \in heap'
                PROVE  elt'[x].list \in Lists /\ elt'[x].list \in heap'
    OBVIOUS
  <2>1. CASE elt'[x].list = l
    BY <2>1 DEF Becomes
  <2>2. CASE elt'[x].list # l
    BY <1>1, <2>2 DEF OthersKept
  <2>. QED
    BY <2>1, <2>2
<1>8. StoreInv(tt)'
  BY <1>2, <1>6, <1>7 DEF StoreInv, Linked, Created, Becomes
<1>9. \A m \in Lists \ {l} : Entries(tt[m])' = Entries(ss[m])
  BY <1>2, <1>4
<1>. QED
  BY <1>2, <1>8, <1>9

Entry == [elt : Elts, data : Data]

LEMMA EntriesFacts ==
  ASSUME NEW l, NEW s \in Seq(Elts), Enumerates(l, s)
  PROVE  /\ Entries(s) \in Seq(Entry) /\ Len(Entries(s)) = Len(s) /\ Len(s) \in Nat
         /\ DOMAIN Entries(s) = 1..Len(s)
         /\ \A i \in 1..Len(s) :
              /\ Entries(s)[i] = [elt |-> s[i], data |-> elt[s[i]].data]
              /\ Entries(s)[i].elt = s[i] /\ Entries(s)[i].data = elt[s[i]].data
<1>1. Len(s) \in Nat /\ \A i \in 1..Len(s) : s[i] \in Elts /\ elt[s[i]].data \in Data
  BY LenProperties, ElementOfSeq DEF Enumerates
<1>. QED
  BY <1>1 DEF Entries, Entry

LEMMA EntriesThen ==
  ASSUME NEW l, NEW s \in Seq(Elts), Enumerates(l, s)'
  PROVE  /\ Entries(s)' \in Seq(Entry) /\ Len(Entries(s)') = Len(s) /\ Len(s) \in Nat
         /\ \A i \in 1..Len(s) : Entries(s)'[i] = [elt |-> s[i], data |-> elt'[s[i]].data]
<1>1. Len(s) \in Nat /\ \A i \in 1..Len(s) : s[i] \in Elts /\ elt'[s[i]].data \in Data
  BY LenProperties, ElementOfSeq DEF Enumerates
<1>. QED
  BY <1>1 DEF Entries, Entry

\* The entries of a list with one element more, or one less.
LEMMA EntriesGrow ==
  ASSUME NEW l, NEW s \in Seq(Elts), NEW t \in Seq(Elts), Enumerates(l, s),
         Enumerates(l, t)', NEW k \in 0..Len(s), NEW x \in Elts, NEW d \in Data,
         Grown(s, k, x, t), elt'[x].data = d,
         \A i \in 1..Len(s) : elt'[s[i]].data = elt[s[i]].data
  PROVE  Entries(t)' = SubSeq(Entries(s), 1, k) \o <<[elt |-> x, data |-> d]>>
                         \o SubSeq(Entries(s), k + 1, Len(Entries(s)))
<1>1. PICK e \in Seq(Entry) :
        /\ e = Entries(s) /\ Len(e) = Len(s) /\ Len(s) \in Nat
        /\ \A i \in 1..Len(s) : e[i] = [elt |-> s[i], data |-> elt[s[i]].data]
  BY EntriesFacts
<1>2. PICK v \in Seq(Entry) :
        /\ v = Entries(t)' /\ Len(v) = Len(t) /\ Len(t) \in Nat
        /\ \A i \in 1..Len(t) : v[i] = [elt |-> t[i], data |-> elt'[t[i]].data]
  BY EntriesThen
<1>3. PICK a \in Entry : a = [elt |-> x, data |-> d]
  BY DEF Entry
<1>4. Len(t) = Len(s) + 1
  BY DEF Grown
<1>5. v[k + 1] = a
  <2>1. k + 1 \in 1..Len(t) /\ t[k + 1] = x
    BY <1>1, <1>4 DEF Grown
  <2>. QED
    BY <1>2, <1>3, <2>1
<1>6. ASSUME NEW i \in 1..k PROVE v[i] = e[i]
  <2>1. i \in 1..Len(s) /\ i \in 1..Len(t) /\ t[i] = s[i]
    BY <1>1, <1>4 DEF Grown
  <2>2. v[i] = [elt |-> t[i], data |-> elt'[t[i]].data]
    BY <1>2, <2>1
  <2>. QED
    BY <1>1, <2>1, <2>2
<1>7. ASSUME NEW i \in (k + 1)..Len(e) PROVE v[i + 1] = e[i]
  <2>1. i \in 1..Len(s) /\ i + 1 \in 1..Len(t) /\ t[i + 1] = s[i]
    BY <1>1, <1>4 DEF Grown
  <2>2. v[i + 1] = [elt |-> t[i + 1], data |-> elt'[t[i + 1]].data]
    BY <1>2, <2>1
  <2>. QED
    BY <1>1, <2>1, <2>2
<1>8. Grown(e, k, a, v)
  BY <1>1, <1>2, <1>4, <1>5, <1>6, <1>7 DEF Grown
<1>9. k \in 0..Len(e)
  BY <1>1
<1>10. v = SubSeq(e, 1, k) \o <<a>> \o SubSeq(e, k + 1, Len(e))
  BY <1>8, <1>9, GrownIs
<1>. QED
  BY <1>1, <1>2, <1>3, <1>10

LEMMA EntriesShrink ==
  ASSUME NEW l, NEW s \in Seq(Elts), NEW t \in Seq(Elts), Enumerates(l, s),
         Enumerates(l, t)', NEW k \in 1..Len(s), Shrunk(s, k, t),
         \A i \in 1..Len(s) : i # k => elt'[s[i]].data = elt[s[i]].data
  PROVE  Entries(t)' = SubSeq(Entries(s), 1, k - 1)
                         \o SubSeq(Entries(s), k + 1, Len(Entries(s)))
<1>1. PICK e \in Seq(Entry) :
        /\ e = Entries(s) /\ Len(e) = Len(s) /\ Len(s) \in Nat
        /\ \A i \in 1..Len(s) : e[i] = [elt |-> s[i], data |-> elt[s[i]].data]
  BY EntriesFacts
<1>2. PICK v \in Seq(Entry) :
        /\ v = Entries(t)' /\ Len(v) = Len(t) /\ Len(t) \in Nat
        /\ \A i \in 1..Len(t) : v[i] = [elt |-> t[i], data |-> elt'[t[i]].data]
  BY EntriesThen
<1>3. Len(t) = Len(s) - 1
  BY DEF Shrunk
<1>4. ASSUME NEW i \in 1..(k - 1) PROVE v[i] = e[i]
  <2>1. i \in 1..Len(s) /\ i # k /\ i \in 1..Len(t) /\ t[i] = s[i]
    BY <1>1, <1>3 DEF Shrunk
  <2>2. v[i] = [elt |-> t[i], data |-> elt'[t[i]].data]
    BY <1>2, <2>1
  <2>. QED
    BY <1>1, <2>1, <2>2
<1>5. ASSUME NEW i \in (k + 1)..Len(e) PROVE v[i - 1] = e[i]
  <2>1. i \in 1..Len(s) /\ i # k /\ i - 1 \in 1..Len(t) /\ t[i - 1] = s[i]
    BY <1>1, <1>3 DEF Shrunk
  <2>2. v[i - 1] = [elt |-> t[i - 1], data |-> elt'[t[i - 1]].data]
    BY <1>2, <2>1
  <2>. QED
    BY <1>1, <2>1, <2>2
<1>6. Shrunk(e, k, v)
  BY <1>1, <1>2, <1>3, <1>4, <1>5 DEF Shrunk
<1>7. k \in 1..Len(e)
  BY <1>1
<1>8. v = SubSeq(e, 1, k - 1) \o SubSeq(e, k + 1, Len(e))
  BY <1>6, <1>7, ShrunkIs
<1>. QED
  BY <1>1, <1>2, <1>8

LEMMA SeqsOf ==
  \A ss : StoreInv(ss) =>
    [l \in Lists |-> Elements(l)] = [l \in Lists |-> Entries(ss[l])]
BY StoreOf

LEMMA SeqsThen ==
  ASSUME NEW tt, StoreInv(tt)'
  PROVE  [l \in Lists |-> Elements(l)]' = [l \in Lists |-> Entries(tt[l])']
<1>1. (\A ss : StoreInv(ss) =>
         [l \in Lists |-> Elements(l)] = [l \in Lists |-> Entries(ss[l])])'
  BY SeqsOf, PTL
<1>. QED
  BY <1>1

\* What the store has stays the same, and what a search has found as well.
LEMMA SameRefines ==
  ASSUME NEW ss, StoreInv(ss), NEW tt, StoreInv(tt)',
         \A l \in Lists : Entries(tt[l])' = Entries(ss[l]),
         op # "found", op' # "found"
  PROVE  UNCHANGED Store!vars
<1>1. [l \in Lists |-> Elements(l)]' = [l \in Lists |-> Elements(l)]
  BY SeqsOf, SeqsThen
<1>. QED
  BY <1>1 DEF Store!vars

\* One list changes.
LEMMA SeqsChange ==
  ASSUME NEW ss, StoreInv(ss), NEW tt, StoreInv(tt)', NEW l \in Lists,
         \A m \in Lists \ {l} : Entries(tt[m])' = Entries(ss[m])
  PROVE  [m \in Lists |-> Elements(m)]' =
           [[m \in Lists |-> Elements(m)] EXCEPT ![l] = Entries(tt[l])']
<1>1. PICK v : v = Entries(tt[l])'
  OBVIOUS
<1>2. [m \in Lists |-> Elements(m)]' = [m \in Lists |-> IF m = l THEN v ELSE Entries(ss[m])]
  BY <1>1, SeqsThen
<1>3. [m \in Lists |-> Elements(m)] = [m \in Lists |-> Entries(ss[m])]
  BY SeqsOf
<1>. QED
  BY <1>1, <1>2, <1>3

\* A new element where it belongs.
LEMMA PutRefines ==
  ASSUME NEW ss, StoreInv(ss), NEW tt, StoreInv(tt)', NEW l \in Created,
         NEW x \in Elts \ heap, NEW d \in Data, NEW k \in 0..Len(ss[l]),
         Grown(ss[l], k, x, tt[l]), Chain(l, tt[l])', tt[l] \in Seq(Elts),
         elt'[x].data = d,
         \A i \in 1..Len(ss[l]) : elt'[ss[l][i]].data = elt[ss[l][i]].data,
         l \in Sorted => /\ \A j \in 1..k : elt[ss[l][j]].data <= d
                         /\ \A j \in (k + 1)..Len(ss[l]) : elt[ss[l][j]].data > d,
         \A m \in Lists \ {l} : Entries(tt[m])' = Entries(ss[m]),
         op # "found", op' # "found"
  PROVE  Store!Next
<1>. DEFINE S1 == [m \in Lists |-> Elements(m)]
            e == Entries(ss[l])
<1>1. l \in Lists /\ ss[l] \in Seq(Elts) /\ Chain(l, ss[l]) /\ x \in Elts
  BY NthFacts
<1>2. \A m \in Lists : S1[m] = Entries(ss[m])
  BY SeqsOf
<1>3. ~\E m \in Lists : \E i \in DOMAIN S1[m] : S1[m][i].elt = x
  <2>. SUFFICES ASSUME NEW m \in Lists, NEW i \in DOMAIN Entries(ss[m])
                PROVE  Entries(ss[m])[i].elt # x
    BY <1>2
  <2>1. CASE m \in heap
    <3>1. Chain(m, ss[m]) /\ ss[m] \in Seq(Elts)
      BY <2>1 DEF StoreInv
    <3>2. i \in 1..Len(ss[m]) /\ Entries(ss[m])[i].elt = ss[m][i]
      <4>1. Enumerates(m, ss[m])
        BY <3>1 DEF Chain
      <4>2. /\ DOMAIN Entries(ss[m]) = 1..Len(ss[m])
            /\ \A j \in 1..Len(ss[m]) : Entries(ss[m])[j].elt = ss[m][j]
        BY <3>1, <4>1, EntriesFacts
      <4>3. i \in 1..Len(ss[m])
        BY <4>2
      <4>. QED
        BY <4>2, <4>3
    <3>. QED
      BY <3>1, <3>2 DEF Chain, Enumerates
  <2>2. CASE m \notin heap
    <3>1. ss[m] = <<>>
      BY <2>2 DEF StoreInv
    <3>. QED
      BY <3>1 DEF Entries
  <2>. QED
    BY <2>1, <2>2
<1>4. Entries(tt[l])' = SubSeq(e, 1, k) \o <<[elt |-> x, data |-> d]>>
                          \o SubSeq(e, k + 1, Len(e))
  <2>1. PICK s \in Seq(Elts), t \in Seq(Elts) : s = ss[l] /\ t = tt[l]
    BY <1>1
  <2>2. /\ s \in Seq(Elts) /\ t \in Seq(Elts) /\ x \in Elts /\ d \in Data
        /\ Enumerates(l, s) /\ Enumerates(l, t)' /\ k \in 0..Len(s)
        /\ Grown(s, k, x, t) /\ elt'[x].data = d
        /\ \A i \in 1..Len(s) : elt'[s[i]].data = elt[s[i]].data
    BY <1>1, <2>1 DEF Chain
  <2>3. Entries(t)' = SubSeq(Entries(s), 1, k) \o <<[elt |-> x, data |-> d]>>
                         \o SubSeq(Entries(s), k + 1, Len(Entries(s)))
    BY ONLY <2>2, EntriesGrow
  <2>. QED
    BY <2>1, <2>3
<1>5. S1' = [S1 EXCEPT ![l] = Entries(tt[l])']
  BY <1>1, SeqsChange
<1>6. /\ k \in 0..Len(e)
      /\ l \in Sorted => /\ \A j \in 1..k : e[j].data <= d
                         /\ \A j \in (k + 1)..Len(e) : e[j].data > d
  <2>1. /\ Len(e) = Len(ss[l]) /\ Len(ss[l]) \in Nat
        /\ \A i \in 1..Len(ss[l]) : e[i].data = elt[ss[l][i]].data
    BY <1>1, EntriesFacts DEF Chain
  <2>. HIDE DEF e
  <2>2. ASSUME l \in Sorted, NEW j \in 1..k PROVE e[j].data <= d
    <3>1. elt[ss[l][j]].data <= d /\ j \in 1..Len(ss[l])
      BY <2>1, <2>2
    <3>. QED
      BY <2>1, <3>1
  <2>3. ASSUME l \in Sorted, NEW j \in (k + 1)..Len(e) PROVE e[j].data > d
    <3>1. elt[ss[l][j]].data > d /\ j \in 1..Len(ss[l])
      BY <2>1, <2>3
    <3>. QED
      BY <2>1, <3>1
  <2>. QED
    BY <2>1, <2>2, <2>3
<1>7. S1[l] = e
  BY <1>1, <1>2
<1>. HIDE DEF S1, e
<1>8. S1' = [S1 EXCEPT ![l] = SubSeq(S1[l], 1, k) \o <<[elt |-> x, data |-> d]>>
                                \o SubSeq(S1[l], k + 1, Len(S1[l]))]
  BY <1>4, <1>5, <1>7
<1>9. Store!Put(l, x, d)
  BY <1>3, <1>6, <1>7, <1>8 DEF Store!Put, Store!Listed, S1
<1>. QED
  BY <1>1, <1>9 DEF Store!Next

\* An element taken out.
LEMMA TakeRefines ==
  ASSUME NEW ss, StoreInv(ss), NEW tt, StoreInv(tt)', NEW l \in Created,
         NEW k \in 1..Len(ss[l]), Shrunk(ss[l], k, tt[l]), Chain(l, tt[l])',
         tt[l] \in Seq(Elts),
         \A i \in 1..Len(ss[l]) : i # k => elt'[ss[l][i]].data = elt[ss[l][i]].data,
         \A m \in Lists \ {l} : Entries(tt[m])' = Entries(ss[m]),
         op # "found", op' # "found"
  PROVE  Store!Next
<1>. DEFINE S1 == [m \in Lists |-> Elements(m)]
            e == Entries(ss[l])
<1>1. l \in Lists /\ ss[l] \in Seq(Elts) /\ Chain(l, ss[l])
  BY NthFacts
<1>2. S1[l] = e
  BY <1>1, SeqsOf
<1>3. Entries(tt[l])' = SubSeq(e, 1, k - 1) \o SubSeq(e, k + 1, Len(e))
  BY <1>1, EntriesShrink DEF Chain
<1>4. S1' = [S1 EXCEPT ![l] = Entries(tt[l])']
  BY <1>1, SeqsChange
<1>5. k \in DOMAIN e
  BY <1>1, EntriesFacts DEF Chain
<1>. HIDE DEF S1, e
<1>6. S1' = [S1 EXCEPT ![l] = SubSeq(S1[l], 1, k - 1) \o SubSeq(S1[l], k + 1, Len(S1[l]))]
  BY <1>2, <1>3, <1>4
<1>7. k \in DOMAIN S1[l] /\ Store!Take(l, k)
  BY <1>2, <1>5, <1>6 DEF Store!Take, S1
<1>. QED
  BY <1>1, <1>7 DEF Store!Next, S1

-----------------------------------------------------------------------------
(* The calls.                                                              *)

Implements == ListInv' /\ [Store!Next]_(Store!vars)

CallTyped ==
  /\ op \in {"none", "insert", "search", "found", "clear", "destroy"}
  /\ on \in Lists \cup {Null} /\ at \in Address /\ from \in Address
  /\ key \in Data \cup {Null}

\* What is written is of the right type.
LEMMA TypesKept ==
  ASSUME elt' \in [Elts -> EltRecord], list' \in [Lists -> ListRecord],
         heap' \subseteq Lists \cup Elts, CallTyped'
  PROVE  TypeOK'
BY DEF TypeOK, CallTyped, EltRecord, ListRecord

LEMMA Types ==
  ASSUME TypeOK
  PROVE  /\ elt \in [Elts -> EltRecord] /\ list \in [Lists -> ListRecord]
         /\ heap \subseteq Lists \cup Elts /\ CallTyped
BY DEF TypeOK, CallTyped, EltRecord, ListRecord

\* The five insertions.
LEMMA LinkRefines ==
  ASSUME NEW ss, StoreInv(ss), NEW l \in Created, NEW d \in Data, NEW x \in Elts \ heap,
         NEW k \in 0..Len(ss[l]), Link(l, Nth(ss[l], k), Nth(ss[l], k + 1), x, d),
         l \in Sorted => /\ \A j \in 1..k : elt[ss[l][j]].data <= d
                         /\ \A j \in (k + 1)..Len(ss[l]) : elt[ss[l][j]].data > d,
         op \in {"none", "insert"}, op' = "none", CallTyped'
  PROVE  Implements
<1>1. PICK s \in Seq(Elts) : s = ss[l]
  BY NthFacts
<1>2. /\ l \in Lists /\ l \in heap /\ l # Null /\ Chain(l, s) /\ Len(s) \in Nat
      /\ \A i \in 1..Len(s) : /\ s[i] \in Elts /\ s[i] \in heap /\ s[i] # Null
                              /\ elt[s[i]].list = l /\ elt[s[i]].data \in Data
  BY <1>1, NthFacts
<1>3. PICK p, n : p = Nth(s, k) /\ n = Nth(s, k + 1)
  OBVIOUS
<1>4. Link(l, p, n, x, d) /\ x \in Elts /\ x \notin heap /\ k \in 0..Len(s)
  BY <1>1, <1>3
<1>5. PICK t \in Seq(Elts) : Grown(s, k, x, t)
  BY <1>4, InsertGrows
<1>6. PICK tt : tt = [ss EXCEPT ![l] = t]
  OBVIOUS
<1>7. ~Wiping /\ ~Wiping' /\ TypeOK
  BY DEF Wiping, StoreInv
<1>8. l \in Sorted => /\ \A j \in 1..k : elt[s[j]].data <= d
                      /\ \A j \in (k + 1)..Len(s) : elt[s[j]].data > d
  BY <1>1
<1>9. Chain(l, t)'
  BY <1>2, <1>3, <1>4, <1>5, <1>7, <1>8, LinkedChain
<1>10. /\ Relinked(x, [list |-> l, prev |-> p, next |-> n, data |-> d], p, x, n, x)
       /\ Rewritten(l, IF p = Null THEN x ELSE list[l].first,
                    IF n = Null THEN x ELSE list[l].last, list[l].length + 1)
  BY <1>2, <1>4, <1>7, LinkWrites
<1>11. /\ elt'[x].list = l /\ elt'[x].data = d
       /\ \A y \in Elts \ {x} :
            /\ elt'[y].list = elt[y].list /\ elt'[y].data = elt[y].data
            /\ y # p /\ y # n => elt'[y] = elt[y]
       /\ \A m \in Lists \ {l} : list'[m] = list[m]
  BY <1>10 DEF Relinked, Rewritten
<1>12. heap' = heap \cup {x}
  BY <1>4 DEF Link
<1>13. \A y \in Elts : y \in {p, n} => elt[y].list = l
  BY <1>2, <1>3, AddressAssumption DEF Nth
<1>14. OthersKept(l)
  <2>1. \A m \in Lists : ~WipedNow(m) /\ ~WipedNow(m)' /\ m # x
    BY <1>4, <1>7, AddressAssumption DEF WipedNow
  <2>2. ASSUME NEW y \in Elts, y \in heap, elt[y].list # l
        PROVE  y \in heap' /\ elt'[y] = elt[y]
    BY <1>4, <1>11, <1>12, <1>13, <2>2
  <2>3. ASSUME NEW y \in Elts, y \in heap', elt'[y].list # l
        PROVE  y \in heap /\ elt[y].list # l
    BY <1>11, <1>12, <2>3
  <2>. QED
    BY <1>11, <1>12, <2>1, <2>2, <2>3 DEF OthersKept
<1>15. TypeOK'
  <2>1. list[l] \in ListRecord /\ heap \subseteq Lists \cup Elts
    BY <1>2, <1>7, Types
  <2>2. p \in Address /\ n \in Address
    BY <1>2, <1>3 DEF Nth, Address
  <2>3. [list |-> l, prev |-> p, next |-> n, data |-> d] \in EltRecord /\ x \in Address
    BY <1>2, <1>4, <2>2 DEF EltRecord, Address
  <2>4. elt' \in [Elts -> EltRecord]
    BY <1>10, <2>3 DEF Relinked
  <2>5. list' \in [Lists -> ListRecord]
    BY <1>10, <2>1, <2>3 DEF Rewritten, ListRecord
  <2>. QED
    BY <1>4, <1>12, <2>1, <2>4, <2>5, TypesKept
<1>16. \A y \in Elts \ heap' : elt'[y] = ErasedElt
  <2>1. \A y \in Elts \ heap : elt[y] = ErasedElt
    BY DEF StoreInv
  <2>2. \A y \in Elts \ heap' : y \in Elts \ {x} /\ y \notin heap /\ y # p /\ y # n
    BY <1>2, <1>3, <1>12, AddressAssumption DEF Nth
  <2>. QED
    BY <1>11, <2>1, <2>2
<1>17. CallInv(tt)'
  BY DEF CallInv
<1>18. l \in heap'
  BY <1>2, <1>12
<1>19. /\ StoreInv(tt)' /\ tt \in [Lists -> Seq(Elts)] /\ tt[l] = t
       /\ \A m \in Lists \ {l} : Entries(tt[m])' = Entries(ss[m])
  <2>1. Becomes(ss, l, t, tt)
    BY <1>6, <1>9, <1>14, <1>15, <1>16, <1>17, <1>18 DEF Becomes
  <2>. QED
    BY <1>2, <2>1, OthersFollow
<1>20. \A i \in 1..Len(s) : elt'[s[i]].data = elt[s[i]].data
  BY <1>2, <1>4, <1>11
<1>21. op # "found" /\ op' # "found"
  OBVIOUS
<1>22. Store!Next
  <2>1. /\ tt[l] \in Seq(Elts) /\ Grown(ss[l], k, x, tt[l]) /\ Chain(l, tt[l])'
        /\ \A i \in 1..Len(ss[l]) : elt'[ss[l][i]].data = elt[ss[l][i]].data
    BY <1>1, <1>5, <1>9, <1>19, <1>20
  <2>2. elt'[x].data = d
    BY <1>11
  <2>3. StoreInv(tt)' /\ \A m \in Lists \ {l} : Entries(tt[m])' = Entries(ss[m])
    BY <1>19
  <2>. HIDE <1>1, <1>6
  <2>. QED
    BY <1>21, <2>1, <2>2, <2>3, PutRefines
<1>. QED
  BY <1>19, <1>22 DEF Implements, ListInv

LEMMA UnlinkRefines ==
  ASSUME NEW ss, StoreInv(ss), NEW l \in Created, NEW k \in 1..Len(ss[l]),
         Unlink(ss[l][k]), op = "none", op' = "none", CallTyped'
  PROVE  Implements
<1>1. PICK s \in Seq(Elts) : s = ss[l]
  BY NthFacts
<1>2. /\ l \in Lists /\ l \in heap /\ l # Null /\ Chain(l, s) /\ Len(s) \in Nat
      /\ \A i \in 1..Len(s) : /\ s[i] \in Elts /\ s[i] \in heap /\ s[i] # Null
                              /\ elt[s[i]].list = l /\ elt[s[i]].data \in Data
      /\ \A i, j \in 1..Len(s) : s[i] = s[j] => i = j
  BY <1>1, NthFacts DEF Chain, Enumerates
<1>3. PICK x \in Elts : x = s[k] /\ k \in 1..Len(s) /\ Unlink(x)
  BY <1>1, <1>2
<1>4. PICK p, n : p = Nth(s, k - 1) /\ n = Nth(s, k + 1)
  OBVIOUS
<1>5. PICK t \in Seq(Elts) : Shrunk(s, k, t)
  BY <1>3, RemoveShrinks
<1>6. PICK tt : tt = [ss EXCEPT ![l] = t]
  OBVIOUS
<1>7. ~Wiping /\ ~Wiping' /\ TypeOK
  BY DEF Wiping, StoreInv
<1>8. Chain(l, t)'
  BY <1>2, <1>3, <1>5, <1>7, UnlinkedChain
<1>9. elt[x].list = l /\ elt[x].prev = p /\ elt[x].next = n /\ list[l].length = Len(s)
  BY <1>2, <1>3, <1>4, <1>7 DEF Chain, LinksFollow, WipedNow
<1>10. /\ Relinked(x, ErasedElt, p, n, n, p)
       /\ Rewritten(l, IF p = Null THEN n ELSE list[l].first,
                    IF n = Null THEN p ELSE list[l].last, list[l].length - 1)
  <2>1. /\ TypeOK /\ l \in Lists /\ elt[x].list = l /\ Unlink(x)
        /\ p = elt[x].prev /\ n = elt[x].next
    BY <1>2, <1>3, <1>7, <1>9
  <2>. QED
    BY <2>1, UnlinkWrites
<1>11. /\ elt'[x] = ErasedElt
       /\ \A y \in Elts \ {x} :
            /\ elt'[y].list = elt[y].list /\ elt'[y].data = elt[y].data
            /\ y # p /\ y # n => elt'[y] = elt[y]
       /\ \A m \in Lists \ {l} : list'[m] = list[m]
  BY <1>10 DEF Relinked, Rewritten
<1>12. heap' = heap \ {x}
  BY <1>3 DEF Unlink
<1>13. /\ \A y \in Elts : y \in {p, n} => elt[y].list = l /\ y \in heap
       /\ p \in Address /\ n \in Address
  BY <1>2, <1>4, AddressAssumption DEF Nth, Address
<1>14. OthersKept(l)
  <2>1. \A m \in Lists : ~WipedNow(m) /\ ~WipedNow(m)' /\ m # x
    BY <1>7, AddressAssumption DEF WipedNow
  <2>2. ASSUME NEW y \in Elts, y \in heap, elt[y].list # l
        PROVE  y \in heap' /\ elt'[y] = elt[y]
    BY <1>9, <1>11, <1>12, <1>13, <2>2
  <2>3. ASSUME NEW y \in Elts, y \in heap', elt'[y].list # l
        PROVE  y \in heap /\ elt[y].list # l
    BY <1>11, <1>12, <2>3
  <2>. QED
    BY <1>11, <1>12, <2>1, <2>2, <2>3 DEF OthersKept
<1>15. TypeOK'
  <2>1. list[l] \in ListRecord /\ heap \subseteq Lists \cup Elts
    BY <1>2, <1>7, Types
  <2>2. ErasedElt \in EltRecord
    BY DEF EltRecord, ErasedElt, Address
  <2>3. elt' \in [Elts -> EltRecord]
    BY <1>10, <1>13, <2>2 DEF Relinked
  <2>4. list[l].length - 1 \in Nat
    BY <1>2, <1>3, <1>9
  <2>5. list' \in [Lists -> ListRecord]
    BY <1>10, <1>13, <2>1, <2>4 DEF Rewritten, ListRecord
  <2>. QED
    BY <1>12, <2>1, <2>3, <2>5, TypesKept
<1>16. \A y \in Elts \ heap' : elt'[y] = ErasedElt
  <2>1. \A y \in Elts \ heap : elt[y] = ErasedElt
    BY DEF StoreInv
  <2>2. ASSUME NEW y \in Elts \ heap', y # x PROVE elt'[y] = ErasedElt
    <3>1. y \notin heap /\ y # p /\ y # n
      BY <1>12, <1>13, <2>2
    <3>. QED
      BY <1>11, <2>1, <2>2, <3>1
  <2>. QED
    BY <1>11, <2>2
<1>17. CallInv(tt)'
  BY DEF CallInv
<1>18. l \in heap'
  BY <1>2, <1>3, <1>12, AddressAssumption
<1>19. /\ StoreInv(tt)' /\ tt \in [Lists -> Seq(Elts)] /\ tt[l] = t
       /\ \A m \in Lists \ {l} : Entries(tt[m])' = Entries(ss[m])
  <2>1. Becomes(ss, l, t, tt)
    BY <1>6, <1>8, <1>14, <1>15, <1>16, <1>17, <1>18 DEF Becomes
  <2>. QED
    BY <1>2, <2>1, OthersFollow
<1>20. \A i \in 1..Len(s) : i # k => elt'[s[i]].data = elt[s[i]].data
  BY <1>2, <1>3, <1>11
<1>21. op # "found" /\ op' # "found"
  OBVIOUS
<1>22. Store!Next
  <2>1. /\ tt[l] \in Seq(Elts) /\ Shrunk(ss[l], k, tt[l]) /\ Chain(l, tt[l])'
        /\ \A i \in 1..Len(ss[l]) : i # k => elt'[ss[l][i]].data = elt[ss[l][i]].data
    BY <1>1, <1>5, <1>8, <1>19, <1>20
  <2>2. StoreInv(tt)' /\ \A m \in Lists \ {l} : Entries(tt[m])' = Entries(ss[m])
    BY <1>19
  <2>. HIDE <1>1, <1>6
  <2>. QED
    BY <1>21, <2>1, <2>2, TakeRefines
<1>. QED
  BY <1>19, <1>22 DEF Implements, ListInv

\* A step that writes no memory.
LEMMA QuietStep ==
  ASSUME NEW ss, StoreInv(ss), UNCHANGED memory, ~Wiping, ~Wiping', CallTyped',
         CallInv(ss)'
  PROVE  /\ StoreInv(ss)' /\ ss \in [Lists -> Seq(Elts)]
         /\ \A l \in Lists : Entries(ss[l])' = Entries(ss[l])
<1>1. list' = list /\ elt' = elt /\ heap' = heap
  BY DEF memory
<1>2. ASSUME NEW l \in Lists, l \in heap PROVE Chain(l, ss[l])'
  <2>1. Chain(l, ss[l])
    BY <1>2 DEF StoreInv
  <2>. QED
    BY <1>1, <2>1 DEF Chain, Enumerates, LinksFollow, InOrder, FirstLeft, WipedNow
<1>3. TypeOK'
  BY <1>1, Types, TypesKept DEF StoreInv
<1>4. \A l \in Lists : Entries(ss[l])' = Entries(ss[l])
  BY <1>1 DEF Entries
<1>5. StoreInv(ss)'
  BY <1>1, <1>2, <1>3 DEF StoreInv, Linked, Created
<1>. QED
  BY <1>4, <1>5 DEF StoreInv

LEMMA QuietRefines ==
  ASSUME NEW ss, StoreInv(ss), UNCHANGED memory, ~Wiping, ~Wiping', CallTyped',
         CallInv(ss)', op # "found", op' # "found"
  PROVE  Implements
<1>1. /\ StoreInv(ss)' /\ ss \in [Lists -> Seq(Elts)]
      /\ \A l \in Lists : Entries(ss[l])' = Entries(ss[l])
  BY QuietStep
<1>2. UNCHANGED Store!vars
  BY <1>1, SameRefines
<1>. QED
  BY <1>1, <1>2 DEF Implements, ListInv

\* The links of a list that is not being wiped.
LEMMA LinksOf ==
  ASSUME NEW ss, StoreInv(ss), NEW l \in Created, ~Wiping
  PROVE  /\ \A i \in 1..Len(ss[l]) : /\ elt[ss[l][i]].next = Nth(ss[l], i + 1)
                                     /\ elt[ss[l][i]].prev = Nth(ss[l], i - 1)
         /\ list[l].first = Nth(ss[l], 1)
         /\ list[l].last = Nth(ss[l], Len(ss[l]))
BY NthFacts DEF Chain, LinksFollow, FirstLeft, WipedNow

LEMMA PlaceOf ==
  ASSUME NEW ss, StoreInv(ss), NEW x \in Linked
  PROVE  elt[x].list \in Created /\ \E i \in 1..Len(ss[elt[x].list]) : ss[elt[x].list][i] = x
<1>1. elt[x].list \in Created /\ x \in Elts /\ x \in heap
  BY DEF StoreInv, Linked
<1>2. Chain(elt[x].list, ss[elt[x].list])
  BY <1>1, NthFacts
<1>. QED
  BY <1>1, <1>2 DEF Chain, Enumerates

LEMMA InsertFirstRefines ==
  ASSUME NEW ss, StoreInv(ss), NEW l \in Created \ Sorted, NEW d \in Data,
         InsertFirst(l, d)
  PROVE  Implements
<1>1. PICK x \in Elts \ heap : Link(l, Null, list[l].first, x, d)
  BY DEF InsertFirst
<1>2. /\ op = "none" /\ op' = "none" /\ CallTyped' /\ ~Wiping
  BY Types DEF InsertFirst, StoreInv, CallTyped, call, Wiping
<1>3. PICK k \in 0..Len(ss[l]) : k = 0
  BY NthFacts
<1>4. Null = Nth(ss[l], k) /\ list[l].first = Nth(ss[l], k + 1)
  BY <1>2, <1>3, LinksOf DEF Nth
<1>. QED
  BY <1>1, <1>2, <1>4, LinkRefines

LEMMA InsertLastRefines ==
  ASSUME NEW ss, StoreInv(ss), NEW l \in Created \ Sorted, NEW d \in Data,
         InsertLast(l, d)
  PROVE  Implements
<1>1. PICK x \in Elts \ heap : Link(l, list[l].last, Null, x, d)
  BY DEF InsertLast
<1>2. /\ op = "none" /\ op' = "none" /\ CallTyped' /\ ~Wiping
  BY Types DEF InsertLast, StoreInv, CallTyped, call, Wiping
<1>3. PICK k \in 0..Len(ss[l]) : k = Len(ss[l]) /\ Len(ss[l]) \in Nat
  BY NthFacts
<1>4. list[l].last = Nth(ss[l], k) /\ Null = Nth(ss[l], k + 1)
  BY <1>2, <1>3, LinksOf DEF Nth
<1>. QED
  BY <1>1, <1>2, <1>4, LinkRefines

LEMMA InsertBeforeRefines ==
  ASSUME NEW ss, StoreInv(ss), NEW y \in Linked, NEW d \in Data,
         elt[y].list \notin Sorted, InsertBefore(y, d)
  PROVE  Implements
<1>1. PICK l \in Created : l = elt[y].list
  BY PlaceOf
<1>2. PICK i \in 1..Len(ss[l]) : ss[l][i] = y
  BY <1>1, PlaceOf
<1>3. PICK x \in Elts \ heap : Link(l, elt[y].prev, y, x, d)
  BY <1>1 DEF InsertBefore
<1>4. /\ op = "none" /\ op' = "none" /\ CallTyped' /\ ~Wiping
  BY Types DEF InsertBefore, StoreInv, CallTyped, call, Wiping
<1>5. PICK k \in 0..Len(ss[l]) : k = i - 1 /\ k + 1 = i
  BY NthFacts
<1>6. elt[y].prev = Nth(ss[l], k) /\ y = Nth(ss[l], k + 1)
  BY <1>2, <1>4, <1>5, LinksOf DEF Nth
<1>7. l \notin Sorted
  BY <1>1
<1>8. Link(l, Nth(ss[l], k), Nth(ss[l], k + 1), x, d)
  BY <1>3, <1>6
<1>. QED
  BY <1>4, <1>7, <1>8, LinkRefines

LEMMA InsertAfterRefines ==
  ASSUME NEW ss, StoreInv(ss), NEW y \in Linked, NEW d \in Data,
         elt[y].list \notin Sorted, InsertAfter(y, d)
  PROVE  Implements
<1>1. PICK l \in Created : l = elt[y].list
  BY PlaceOf
<1>2. PICK i \in 1..Len(ss[l]) : ss[l][i] = y
  BY <1>1, PlaceOf
<1>3. PICK x \in Elts \ heap : Link(l, y, elt[y].next, x, d)
  BY <1>1 DEF InsertAfter
<1>4. /\ op = "none" /\ op' = "none" /\ CallTyped' /\ ~Wiping
  BY Types DEF InsertAfter, StoreInv, CallTyped, call, Wiping
<1>5. i \in 0..Len(ss[l])
  BY NthFacts
<1>6. y = Nth(ss[l], i) /\ elt[y].next = Nth(ss[l], i + 1)
  BY <1>2, <1>4, LinksOf DEF Nth
<1>7. l \notin Sorted
  BY <1>1
<1>8. Link(l, Nth(ss[l], i), Nth(ss[l], i + 1), x, d)
  BY <1>3, <1>6
<1>. QED
  BY <1>4, <1>5, <1>7, <1>8, LinkRefines

LEMMA DeleteRefines ==
  ASSUME NEW ss, StoreInv(ss), NEW x \in Linked, Delete(x)
  PROVE  Implements
<1>1. PICK l \in Created : l = elt[x].list
  BY PlaceOf
<1>2. PICK k \in 1..Len(ss[l]) : ss[l][k] = x
  BY <1>1, PlaceOf
<1>3. /\ op = "none" /\ op' = "none" /\ CallTyped'
  BY Types DEF Delete, StoreInv, CallTyped, call
<1>4. Unlink(ss[l][k])
  BY <1>2 DEF Delete
<1>. QED
  BY <1>3, <1>4, UnlinkRefines

-----------------------------------------------------------------------------
(* The insertion that looks for its place.                                 *)

LEMMA InsertRefines ==
  ASSUME NEW ss, StoreInv(ss), NEW l \in Created \cap Sorted, NEW d \in Data,
         Insert(l, d)
  PROVE  Implements
<1>1. /\ op = "none" /\ op' = "insert" /\ on' = l /\ at' = list[l].last
      /\ from' = Null /\ key' = d /\ UNCHANGED memory
  BY DEF Insert, Running
<1>2. ~Wiping /\ ~Wiping'
  BY <1>1 DEF Wiping
<1>3. list[l].last = Nth(ss[l], Len(ss[l])) /\ l \in Lists /\ Len(ss[l]) \in Nat
  BY <1>2, LinksOf, NthFacts
<1>4. CallTyped'
  BY <1>1, <1>3, Types DEF StoreInv, CallTyped, ListRecord, Address
<1>5. Seeking(ss[l])'
  BY <1>1, <1>3 DEF Seeking
<1>6. CallInv(ss)'
  BY <1>1, <1>5 DEF CallInv, Created, memory
<1>. QED
  BY <1>1, <1>2, <1>4, <1>6, QuietRefines

\* Where the search for a place is, and what its loop condition says there.
LEMMA SeekingAt ==
  ASSUME NEW ss, StoreInv(ss), op = "insert"
  PROVE  /\ on \in Created /\ on \in Sorted /\ key \in Data /\ key \in Nat /\ ~Wiping
         /\ \A i \in 1..Len(ss[on]) : elt[ss[on][i]].data \in Nat
         /\ \E k \in 0..Len(ss[on]) :
              /\ at = Nth(ss[on], k)
              /\ \A j \in (k + 1)..Len(ss[on]) : elt[ss[on][j]].data > key
              /\ at = Null <=> k = 0
<1>1. on \in Created /\ on \in Sorted /\ key \in Data /\ key \in Nat /\ ~Wiping
  BY DataAssumption DEF StoreInv, CallInv, Wiping
<1>2. \A i \in 1..Len(ss[on]) : elt[ss[on][i]].data \in Nat /\ ss[on][i] # Null
  <2>1. \A i \in 1..Len(ss[on]) : elt[ss[on][i]].data \in Data /\ ss[on][i] # Null
    BY <1>1, NthFacts
  <2>. QED
    BY <2>1, DataAssumption
<1>3. PICK k \in 0..Len(ss[on]) :
        at = Nth(ss[on], k) /\ \A j \in (k + 1)..Len(ss[on]) : elt[ss[on][j]].data > key
  BY DEF StoreInv, CallInv, Seeking
<1>4. at = Null <=> k = 0
  BY <1>1, <1>2, <1>3, NthFacts DEF Nth
<1>. QED
  BY <1>1, <1>2, <1>3, <1>4

LEMMA SeekBackRefines ==
  ASSUME NEW ss, StoreInv(ss), SeekBack
  PROVE  Implements
<1>1. /\ op = "insert" /\ op' = op /\ on' = on /\ at' = elt[at].prev
      /\ from' = from /\ key' = key /\ UNCHANGED memory /\ ~Placed(at)
  BY DEF SeekBack, Running
<1>2. /\ on \in Created /\ on \in Sorted /\ key \in Data /\ key \in Nat /\ ~Wiping
      /\ \A i \in 1..Len(ss[on]) : elt[ss[on][i]].data \in Nat
  BY <1>1, SeekingAt
<1>3. PICK k \in 0..Len(ss[on]) :
        /\ at = Nth(ss[on], k) /\ (at = Null <=> k = 0)
        /\ \A j \in (k + 1)..Len(ss[on]) : elt[ss[on][j]].data > key
  BY <1>1, SeekingAt
<1>4. Len(ss[on]) \in Nat /\ k \in 1..Len(ss[on]) /\ at = ss[on][k] /\ elt[at].data > key
  BY <1>1, <1>2, <1>3, NthFacts DEF Placed, Nth
<1>5. elt[at].prev = Nth(ss[on], k - 1) /\ ~Wiping'
  BY <1>1, <1>2, <1>4, LinksOf DEF Wiping
<1>6. Seeking(ss[on])'
  <2>1. k - 1 \in 0..Len(ss[on])
    BY <1>4
  <2>2. \A j \in ((k - 1) + 1)..Len(ss[on]) : elt[ss[on][j]].data > key
    BY <1>3, <1>4
  <2>. QED
    BY <1>1, <1>5, <2>1, <2>2 DEF Seeking, memory
<1>7. CallTyped'
  <2>1. elt[at] \in EltRecord
    BY <1>2, <1>4, NthFacts, Types DEF StoreInv
  <2>. QED
    BY <1>1, <2>1, Types DEF StoreInv, CallTyped, EltRecord
<1>8. CallInv(ss)'
  BY <1>1, <1>2, <1>6 DEF CallInv, Created, memory
<1>. QED
  BY <1>1, <1>2, <1>5, <1>7, <1>8, QuietRefines

LEMMA FinishInsertingRefines ==
  ASSUME NEW ss, StoreInv(ss), FinishInserting
  PROVE  Implements
<1>1. /\ op = "insert" /\ op' = "none" /\ on' = Null /\ at' = Null
      /\ from' = Null /\ key' = Null /\ Placed(at)
  BY DEF FinishInserting, Return, Running
<1>2. /\ on \in Created /\ on \in Sorted /\ key \in Data /\ key \in Nat /\ ~Wiping
      /\ \A i \in 1..Len(ss[on]) : elt[ss[on][i]].data \in Nat
  BY <1>1, SeekingAt
<1>3. PICK k \in 0..Len(ss[on]) :
        /\ at = Nth(ss[on], k) /\ (at = Null <=> k = 0)
        /\ \A j \in (k + 1)..Len(ss[on]) : elt[ss[on][j]].data > key
  BY <1>1, SeekingAt
<1>4. CallTyped' /\ ~Wiping' /\ CallInv(ss)'
  BY <1>1 DEF CallTyped, Wiping, CallInv, Address
<1>5. CASE UNCHANGED memory
  BY <1>1, <1>2, <1>4, <1>5, QuietRefines
<1>6. CASE ~UNCHANGED memory
  <2>1. PICK x \in Elts \ heap :
          Link(on, at, IF at = Null THEN list[on].first ELSE elt[at].next, x, key)
    BY <1>6 DEF FinishInserting
  <2>2. (IF at = Null THEN list[on].first ELSE elt[at].next) = Nth(ss[on], k + 1)
    <3>1. CASE k = 0
      BY <1>2, <1>3, <3>1, LinksOf
    <3>2. CASE k # 0
      BY <1>2, <1>3, <3>2, LinksOf, NthFacts DEF Nth
    <3>. QED
      BY <3>1, <3>2
  <2>3. Link(on, Nth(ss[on], k), Nth(ss[on], k + 1), x, key)
    BY <1>3, <2>1, <2>2
  <2>4. \A j \in 1..k : elt[ss[on][j]].data <= key
    <3>. SUFFICES ASSUME NEW j \in 1..k PROVE elt[ss[on][j]].data <= key
      OBVIOUS
    <3>1. /\ Len(ss[on]) \in Nat /\ k \in 1..Len(ss[on]) /\ j \in 1..Len(ss[on])
          /\ at = ss[on][k] /\ elt[at].data <= key
      BY <1>1, <1>2, <1>3, NthFacts DEF Placed, Nth
    <3>2. j < k => elt[ss[on][j]].data <= elt[ss[on][k]].data
      BY <1>2, <3>1, NthFacts DEF Chain, InOrder
    <3>. QED
      BY <1>2, <3>1, <3>2
  <2>. QED
    BY <1>1, <1>2, <1>3, <1>4, <2>3, <2>4, LinkRefines
<1>. QED
  BY <1>5, <1>6

-----------------------------------------------------------------------------
(* The search.                                                             *)

LEMMA SearchRefines ==
  ASSUME NEW ss, StoreInv(ss), NEW x \in Linked, NEW d \in Data, Search(x, d)
  PROVE  Implements
<1>1. PICK l \in Created : l = elt[x].list
  BY PlaceOf
<1>2. PICK i \in 1..Len(ss[l]) : ss[l][i] = x
  BY <1>1, PlaceOf
<1>3. /\ op = "none" /\ op' = "search" /\ on' = l /\ at' = x
      /\ from' = x /\ key' = d /\ UNCHANGED memory
  BY <1>1 DEF Search, Running
<1>4. ~Wiping /\ ~Wiping'
  BY <1>3 DEF Wiping
<1>5. CallTyped'
  BY <1>3 DEF CallTyped, Address, Created, Linked
<1>6. Searching(ss[l])'
  <2>1. i <= i /\ \A j \in i..(i - 1) : elt'[ss[l][j]].data # key'
    BY NthFacts
  <2>. QED
    BY <1>2, <1>3, <2>1 DEF Searching
<1>7. CallInv(ss)'
  BY <1>3, <1>6 DEF CallInv, Created, memory
<1>. QED
  BY <1>3, <1>4, <1>5, <1>7, QuietRefines

\* A search that ends has found the first that matches, or Null where none does.
LEMMA FindRefines ==
  ASSUME NEW ss, StoreInv(ss), NEW l \in Created, NEW i \in 1..Len(ss[l]),
         NEW d \in Data, UNCHANGED memory, op = "search", op' = "found",
         on' \in Created, CallTyped',
         \/ /\ at' = Null
            /\ \A j \in i..Len(ss[l]) : elt[ss[l][j]].data # d
         \/ \E k \in i..Len(ss[l]) :
              /\ at' = ss[l][k] /\ elt[ss[l][k]].data = d
              /\ \A j \in i..(k - 1) : elt[ss[l][j]].data # d
  PROVE  Implements
<1>. DEFINE S1 == [m \in Lists |-> Elements(m)]
            e == Entries(ss[l])
            hits == {j \in i..Len(e) : e[j].data = d}
<1>1. ~Wiping /\ ~Wiping' /\ CallInv(ss)'
  BY DEF Wiping, CallInv, Created, memory
<1>2. /\ StoreInv(ss)' /\ ss \in [Lists -> Seq(Elts)]
      /\ \A m \in Lists : Entries(ss[m])' = Entries(ss[m])
  BY <1>1, QuietStep
<1>3. S1' = S1
  BY <1>2, SeqsOf, SeqsThen
<1>4. l \in Lists /\ Chain(l, ss[l]) /\ ss[l] \in Seq(Elts)
  BY NthFacts
<1>5. S1[l] = e
  BY <1>4, SeqsOf
<1>6. /\ Len(e) = Len(ss[l]) /\ Len(e) \in Nat /\ DOMAIN e = 1..Len(e)
      /\ \A j \in 1..Len(e) : e[j].elt = ss[l][j] /\ e[j].data = elt[ss[l][j]].data
  <2>1. PICK s \in Seq(Elts) : s = ss[l] /\ Enumerates(l, s)
    BY <1>4 DEF Chain
  <2>2. /\ Len(Entries(s)) = Len(s) /\ Len(s) \in Nat
        /\ DOMAIN Entries(s) = 1..Len(s)
        /\ \A j \in 1..Len(s) :
             Entries(s)[j].elt = s[j] /\ Entries(s)[j].data = elt[s[j]].data
    BY <2>1, EntriesFacts
  <2>. QED
    BY <2>1, <2>2
<1>. HIDE DEF S1, e
<1>7. at' = IF hits = {} THEN Null
            ELSE e[CHOOSE j \in hits : \A k \in hits : j <= k].elt
  <2>1. CASE at' = Null /\ \A j \in i..Len(ss[l]) : elt[ss[l][j]].data # d
    <3>1. hits = {}
      BY <1>6, <2>1
    <3>. QED
      BY <2>1, <3>1
  <2>2. CASE \E k \in i..Len(ss[l]) :
               /\ at' = ss[l][k] /\ elt[ss[l][k]].data = d
               /\ \A j \in i..(k - 1) : elt[ss[l][j]].data # d
    <3>1. PICK k \in i..Len(ss[l]) :
            /\ at' = ss[l][k] /\ elt[ss[l][k]].data = d
            /\ \A j \in i..(k - 1) : elt[ss[l][j]].data # d
      BY <2>2
    <3>2. k \in hits /\ \A j \in hits : k <= j
      BY <1>6, <3>1
    <3>3. \A m \in hits : (\A j \in hits : m <= j) => m = k
      BY <1>6, <3>2
    <3>. HIDE DEF hits
    <3>4. (CHOOSE j \in hits : \A g \in hits : j <= g) = k
      BY <3>2, <3>3
    <3>5. e[k].elt = at'
      BY <1>6, <3>1
    <3>. QED
      BY <3>2, <3>4, <3>5
  <2>. QED
    BY <2>1, <2>2
<1>8. Store!FirstFrom(S1[l], i, d) = at'
  BY <1>5, <1>7 DEF Store!FirstFrom
<1>9. i \in DOMAIN S1[l]
  BY <1>5, <1>6
<1>10. Store!Find(l, i, d)
  BY <1>3, <1>8 DEF Store!Find, Store!NoAnswer, S1
<1>11. Store!Next
  BY <1>4, <1>9, <1>10 DEF Store!Next, S1
<1>. QED
  BY <1>2, <1>11 DEF Implements, ListInv

LEMMA SearchStepRefines ==
  ASSUME NEW ss, StoreInv(ss), SearchStep
  PROVE  Implements
<1>1. op = "search" /\ on' = on /\ from' = from /\ key' = key /\ UNCHANGED memory
  BY DEF SearchStep, Running
<1>2. on \in Created /\ key \in Data /\ key \in Nat /\ ~Wiping
  BY <1>1, DataAssumption DEF StoreInv, CallInv, Wiping
<1>3. PICK s \in Seq(Elts) : s = ss[on]
  BY <1>2, NthFacts
<1>4. /\ Len(s) \in Nat /\ on \in Lists
      /\ \A i \in 1..Len(s) : /\ elt[s[i]].data \in Data /\ s[i] \in Elts /\ s[i] # Null
                              /\ elt[s[i]].next = Nth(s, i + 1)
  BY <1>2, <1>3, NthFacts, LinksOf
<1>5. \A i \in 1..Len(s) : elt[s[i]].data \in Nat
  BY <1>4, DataAssumption
<1>6. PICK i \in 1..Len(s), k \in 1..Len(s) :
        /\ i <= k /\ from = s[i] /\ at = s[k]
        /\ \A j \in i..(k - 1) : elt[s[j]].data # key
  BY <1>1, <1>3 DEF StoreInv, CallInv, Searching
<1>7. elt[at].next = Nth(s, k + 1) /\ at \in Elts /\ at # Null
  BY <1>4, <1>6
<1>8. op' \in {"search", "found"} /\ at' \in Address => CallTyped'
  BY <1>1, Types DEF CallTyped, StoreInv
<1>9. CASE Past(at)
  <2>1. op' = "found" /\ at' = Null
    BY <1>9 DEF SearchStep, Running
  <2>2. ASSUME NEW j \in i..Len(s) PROVE elt[s[j]].data # key
    <3>1. elt[s[k]].data > key /\ elt[s[k]].data \in Nat
      BY <1>5, <1>6, <1>9 DEF Past
    <3>2. j > k => elt[s[k]].data <= elt[s[j]].data /\ elt[s[j]].data \in Nat
      <4>1. Chain(on, s) /\ on \in Sorted
        BY <1>2, <1>3, <1>9, NthFacts DEF Past
      <4>2. j \in 1..Len(s)
        BY <1>4, <1>6
      <4>. QED
        BY <1>4, <1>5, <1>6, <4>1, <4>2 DEF Chain, InOrder
    <3>3. CASE j < k
      <4>1. j \in i..(k - 1)
        BY <1>4, <1>6, <3>3
      <4>. QED
        BY <1>6, <4>1
    <3>4. CASE j = k
      BY <1>2, <3>1, <3>4
    <3>5. CASE j > k
      <4>1. elt[s[j]].data > key
        BY <1>2, <3>1, <3>2, <3>5
      <4>. QED
        BY <1>2, <4>1
    <3>. QED
      BY <1>4, <1>6, <3>3, <3>4, <3>5
  <2>3. CallTyped' /\ on' \in Created
    BY <1>1, <1>2, <1>8, <2>1 DEF Address
  <2>. QED
    BY <1>1, <1>2, <1>3, <1>6, <2>1, <2>2, <2>3, FindRefines
<1>10. CASE ~Past(at) /\ elt[at].data = key
  <2>1. op' = "found" /\ at' = at
    BY <1>10 DEF SearchStep, Running
  <2>2. CallTyped' /\ on' \in Created
    BY <1>1, <1>2, <1>7, <1>8, <2>1 DEF Address
  <2>3. k \in i..Len(s) /\ at' = s[k] /\ elt[s[k]].data = key
    BY <1>4, <1>6, <1>10, <2>1
  <2>. QED
    BY <1>1, <1>2, <1>3, <1>6, <2>1, <2>2, <2>3, FindRefines
<1>11. CASE ~Past(at) /\ elt[at].data # key /\ elt[at].next = Null
  <2>1. op' = "found" /\ at' = Null
    BY <1>11 DEF SearchStep, Running
  <2>2. k = Len(s)
    BY <1>4, <1>6, <1>7, <1>11 DEF Nth
  <2>3. \A j \in i..Len(s) : elt[s[j]].data # key
    BY <1>4, <1>6, <1>11, <2>2
  <2>4. CallTyped' /\ on' \in Created
    BY <1>1, <1>2, <1>8, <2>1 DEF Address
  <2>5. i \in 1..Len(ss[on]) /\ \A j \in i..Len(ss[on]) : elt[ss[on][j]].data # key
    BY <1>3, <2>3
  <2>. QED
    BY <1>1, <1>2, <2>1, <2>4, <2>5, FindRefines, SMTT(60)
<1>12. CASE ~Past(at) /\ elt[at].data # key /\ elt[at].next # Null
  <2>1. op' = "search" /\ at' = elt[at].next
    BY <1>12 DEF SearchStep, Running
  <2>2. k + 1 \in 1..Len(s) /\ at' = s[k + 1]
    BY <1>4, <1>7, <1>12, <2>1 DEF Nth
  <2>3. CallTyped' /\ ~Wiping'
    BY <1>4, <1>8, <2>1, <2>2 DEF Address, Wiping
  <2>4. i <= k + 1 /\ \A j \in i..((k + 1) - 1) : elt[s[j]].data # key
    BY <1>4, <1>6, <1>12
  <2>5. Searching(s)'
    BY <1>1, <1>6, <2>2, <2>4 DEF Searching, memory
  <2>6. CallInv(ss)'
    BY <1>1, <1>2, <1>3, <2>1, <2>5 DEF CallInv, Created, memory
  <2>7. op # "found" /\ op' # "found"
    BY <1>1, <2>1
  <2>. QED
    BY <1>1, <1>2, <2>3, <2>6, <2>7, QuietRefines
<1>. QED
  BY <1>9, <1>10, <1>11, <1>12

LEMMA SearchReturnRefines ==
  ASSUME NEW ss, StoreInv(ss), SearchReturn
  PROVE  Implements
<1>1. /\ op = "found" /\ op' = "none" /\ on' = Null /\ at' = Null /\ from' = Null
      /\ key' = Null /\ UNCHANGED memory
  BY DEF SearchReturn, Return, Running
<1>2. ~Wiping /\ ~Wiping' /\ CallTyped' /\ CallInv(ss)'
  BY <1>1 DEF Wiping, CallTyped, CallInv, Address
<1>3. /\ StoreInv(ss)' /\ ss \in [Lists -> Seq(Elts)]
      /\ \A m \in Lists : Entries(ss[m])' = Entries(ss[m])
  BY <1>1, <1>2, QuietStep
<1>4. [m \in Lists |-> Elements(m)]' = [m \in Lists |-> Elements(m)]
  BY <1>3, SeqsOf, SeqsThen
<1>5. <<at>> # <<>>
  OBVIOUS
<1>6. Store!Answered
  BY <1>1, <1>4, <1>5 DEF Store!Answered, Store!NoAnswer
<1>. QED
  BY <1>3, <1>6 DEF Implements, ListInv, Store!Next

-----------------------------------------------------------------------------
(* Data, user data, and the beginning and the end of a list.               *)

LEMMA DataWritten ==
  ASSUME NEW e \in EltRecord, NEW d \in Data, NEW f, f = [e EXCEPT !.data = d]
  PROVE  /\ f \in EltRecord /\ f.data = d
         /\ f.list = e.list /\ f.next = e.next /\ f.prev = e.prev
<1>1. f = [list |-> e.list, prev |-> e.prev, next |-> e.next, data |-> d]
  BY DEF EltRecord
<1>. QED
  BY <1>1 DEF EltRecord

LEMMA DataSetRefines ==
  ASSUME NEW ss, StoreInv(ss), NEW x \in Linked, NEW d \in Data,
         elt[x].list \notin Sorted, DataSet(x, d)
  PROVE  Implements
<1>1. PICK l \in Created : l = elt[x].list /\ l \notin Sorted
  BY PlaceOf
<1>2. PICK s \in Seq(Elts) : s = ss[l]
  BY NthFacts
<1>3. PICK k \in 1..Len(s) : s[k] = x
  BY <1>1, <1>2, PlaceOf
<1>4. /\ l \in Lists /\ l \in heap /\ Chain(l, s) /\ Len(s) \in Nat
      /\ \A i \in 1..Len(s) : s[i] \in Elts /\ elt[s[i]].data \in Data
      /\ \A i, j \in 1..Len(s) : s[i] = s[j] => i = j
  BY <1>2, NthFacts DEF Chain, Enumerates
<1>5. elt \in [Elts -> EltRecord] /\ list \in [Lists -> ListRecord]
      /\ heap \subseteq Lists \cup Elts /\ CallTyped /\ x \in Elts /\ x \in heap
  BY Types DEF StoreInv, Linked
<1>6. /\ op = "none" /\ list' = list /\ heap' = heap /\ op' = op /\ on' = on
      /\ at' = at /\ from' = from /\ key' = key
      /\ elt' = [elt EXCEPT ![x].data = d]
  BY DEF DataSet, call
<1>7. elt'[x] = [elt[x] EXCEPT !.data = d] /\ \A y \in Elts \ {x} : elt'[y] = elt[y]
  BY <1>5, <1>6
<1>8. /\ elt'[x] \in EltRecord /\ elt'[x].data = d /\ elt'[x].list = elt[x].list
      /\ elt'[x].next = elt[x].next /\ elt'[x].prev = elt[x].prev
  <2>1. PICK e \in EltRecord : e = elt[x]
    BY <1>5
  <2>2. PICK f : f = elt'[x]
    OBVIOUS
  <2>3. f = [e EXCEPT !.data = d]
    BY <1>7, <2>1, <2>2
  <2>. QED
    BY <2>1, <2>2, <2>3, DataWritten
<1>9. elt' \in [Elts -> EltRecord]
  <2>1. elt' = [y \in Elts |-> elt'[y]]
    BY <1>5, <1>6
  <2>2. \A y \in Elts : elt'[y] \in EltRecord
    BY <1>5, <1>7, <1>8
  <2>. QED
    BY <2>1, <2>2
<1>10. /\ ~Wiping /\ ~Wiping' /\ CallTyped' /\ CallInv(ss)'
       /\ op # "found" /\ op' # "found"
  BY <1>5, <1>6 DEF Wiping, CallTyped, CallInv
<1>11. TypeOK'
  BY <1>5, <1>6, <1>9, <1>10, TypesKept
<1>12. \A y \in Elts : /\ elt'[y].list = elt[y].list /\ elt'[y].next = elt[y].next
                       /\ elt'[y].prev = elt[y].prev
  BY <1>7, <1>8
<1>13. Chain(l, s)'
  <2>1. \A i \in 1..Len(s) : elt'[s[i]].data \in Data
    BY <1>4, <1>7, <1>8
  <2>2. Enumerates(l, s)'
    BY <1>4, <1>6, <1>12, <2>1 DEF Chain, Enumerates
  <2>3. LinksFollow(l, s)'
    BY <1>4, <1>6, <1>10, <1>12 DEF Chain, LinksFollow, FirstLeft, WipedNow
  <2>4. InOrder(l, s)'
    BY <1>1 DEF InOrder
  <2>. QED
    BY <2>2, <2>3, <2>4 DEF Chain
<1>14. OthersKept(l)
  BY <1>1, <1>6, <1>7, <1>10, <1>12 DEF OthersKept, WipedNow
<1>15. \A y \in Elts \ heap' : elt'[y] = ErasedElt
  BY <1>5, <1>6, <1>7 DEF StoreInv
<1>16. ss = [ss EXCEPT ![l] = s]
  BY <1>2, <1>4 DEF StoreInv
<1>17. Becomes(ss, l, s, ss)
  BY <1>4, <1>6, <1>10, <1>11, <1>13, <1>14, <1>15, <1>16 DEF Becomes
<1>18. /\ StoreInv(ss)' /\ ss \in [Lists -> Seq(Elts)]
       /\ \A m \in Lists \ {l} : Entries(ss[m])' = Entries(ss[m])
  BY <1>4, <1>17, OthersFollow
<1>19. PICK e \in Seq(Entry) :
         /\ e = Entries(s) /\ Len(e) = Len(s) /\ DOMAIN e = 1..Len(s)
         /\ \A i \in 1..Len(s) : e[i] = [elt |-> s[i], data |-> elt[s[i]].data]
  BY <1>4, EntriesFacts DEF Chain
<1>20. Entries(s)' = [e EXCEPT ![k].data = d]
  <2>1. Entries(s)' = [i \in 1..Len(s) |-> [elt |-> s[i], data |-> elt'[s[i]].data]]
    BY DEF Entries
  <2>2. ASSUME NEW i \in 1..Len(s), i # k
        PROVE  [elt |-> s[i], data |-> elt'[s[i]].data] = e[i]
    <3>1. s[i] \in Elts \ {x}
      BY <1>3, <1>4, <2>2
    <3>. QED
      BY <1>7, <1>19, <3>1
  <2>3. [elt |-> s[k], data |-> elt'[s[k]].data] = [elt |-> x, data |-> d]
    BY <1>3, <1>8
  <2>4. [e[k] EXCEPT !.data = d] = [elt |-> x, data |-> d]
    BY <1>3, <1>19
  <2>5. e = [i \in 1..Len(s) |-> e[i]]
    BY <1>19
  <2>. QED
    BY <2>1, <2>2, <2>3, <2>4, <2>5
<1>. DEFINE S1 == [m \in Lists |-> Elements(m)]
<1>21. S1[l] = e /\ k \in DOMAIN e
  BY <1>2, <1>4, <1>19, SeqsOf
<1>22. S1' = [S1 EXCEPT ![l] = Entries(ss[l])']
  <2>1. PICK tt : tt = ss
    OBVIOUS
  <2>2. StoreInv(tt)' /\ \A m \in Lists \ {l} : Entries(tt[m])' = Entries(ss[m])
    BY <1>18, <2>1
  <2>3. S1' = [S1 EXCEPT ![l] = Entries(tt[l])']
    BY <1>4, <2>2, SeqsChange
  <2>. QED
    BY <2>1, <2>3
<1>. HIDE DEF S1
<1>23. S1' = [S1 EXCEPT ![l] = [S1[l] EXCEPT ![k].data = d]]
  BY <1>2, <1>20, <1>21, <1>22
<1>24. S1' = [S1 EXCEPT ![l][k].data = d]
  BY <1>23
<1>25. k \in DOMAIN S1[l] /\ Store!Assign(l, k, d)
  BY <1>1, <1>6, <1>10, <1>21, <1>24 DEF Store!Assign, S1
<1>26. Store!Next
  BY <1>4, <1>25 DEF Store!Next, S1
<1>. QED
  BY <1>18, <1>26 DEF Implements, ListInv

\* A step at which the store has the same.
LEMMA SameStore ==
  ASSUME NEW ss, StoreInv(ss), NEW l \in Lists, NEW t \in Seq(Elts), t = ss[l],
         Becomes(ss, l, t, ss), Entries(t)' = Entries(t), op # "found", op' # "found"
  PROVE  Implements
<1>1. /\ StoreInv(ss)' /\ ss \in [Lists -> Seq(Elts)]
      /\ \A m \in Lists \ {l} : Entries(ss[m])' = Entries(ss[m])
  BY OthersFollow
<1>2. \A m \in Lists : Entries(ss[m])' = Entries(ss[m])
  BY <1>1
<1>3. UNCHANGED Store!vars
  BY <1>1, <1>2, SameRefines
<1>. QED
  BY <1>1, <1>3 DEF Implements, ListInv

LEMMA UserDataSetRefines ==
  ASSUME NEW ss, StoreInv(ss), NEW l \in Created, NEW u \in Users, UserDataSet(l, u)
  PROVE  Implements
<1>1. PICK s \in Seq(Elts) : s = ss[l]
  BY NthFacts
<1>2. l \in Lists /\ l \in heap /\ Chain(l, s)
  BY <1>1, NthFacts
<1>3. elt \in [Elts -> EltRecord] /\ list \in [Lists -> ListRecord]
      /\ heap \subseteq Lists \cup Elts /\ CallTyped
  BY Types DEF StoreInv
<1>4. /\ op = "none" /\ elt' = elt /\ heap' = heap /\ op' = op /\ on' = on
      /\ at' = at /\ from' = from /\ key' = key
      /\ list' = [list EXCEPT ![l].userData = u]
  BY DEF UserDataSet, call
<1>5. /\ list'[l] = [list[l] EXCEPT !.userData = u]
      /\ \A m \in Lists \ {l} : list'[m] = list[m]
      /\ list' = [m \in Lists |-> list'[m]]
  BY <1>2, <1>3, <1>4
<1>6. /\ list'[l] \in ListRecord /\ list'[l].first = list[l].first
      /\ list'[l].last = list[l].last /\ list'[l].length = list[l].length
  <2>1. PICK e \in ListRecord : e = list[l]
    BY <1>2, <1>3
  <2>2. PICK f : f = list'[l]
    OBVIOUS
  <2>3. f = [e EXCEPT !.userData = u]
    BY <1>5, <2>1, <2>2
  <2>4. f = [userData |-> u, first |-> e.first, last |-> e.last, length |-> e.length]
    BY <2>3 DEF ListRecord
  <2>5. f \in ListRecord /\ f.first = e.first /\ f.last = e.last /\ f.length = e.length
    BY <2>4 DEF ListRecord
  <2>. QED
    BY <2>1, <2>2, <2>5
<1>7. list' \in [Lists -> ListRecord]
  BY <1>3, <1>5, <1>6
<1>8. /\ ~Wiping /\ ~Wiping' /\ CallTyped' /\ CallInv(ss)'
      /\ op # "found" /\ op' # "found"
  BY <1>3, <1>4 DEF Wiping, CallTyped, CallInv
<1>9. TypeOK'
  BY <1>3, <1>4, <1>7, <1>8, TypesKept
<1>10. Chain(l, s)'
  <2>1. Enumerates(l, s)' /\ InOrder(l, s)'
    BY <1>2, <1>4 DEF Chain, Enumerates, InOrder
  <2>2. LinksFollow(l, s)'
    BY <1>2, <1>4, <1>6, <1>8 DEF Chain, LinksFollow, FirstLeft, WipedNow
  <2>. QED
    BY <2>1, <2>2 DEF Chain
<1>11. OthersKept(l)
  BY <1>4, <1>5, <1>8 DEF OthersKept, WipedNow
<1>12. \A y \in Elts \ heap' : elt'[y] = ErasedElt
  BY <1>4 DEF StoreInv
<1>13. ss = [ss EXCEPT ![l] = s]
  BY <1>1, <1>2 DEF StoreInv
<1>14. Becomes(ss, l, s, ss)
  BY <1>2, <1>4, <1>8, <1>9, <1>10, <1>11, <1>12, <1>13 DEF Becomes
<1>15. Entries(s)' = Entries(s)
  BY <1>4 DEF Entries
<1>. QED
  BY <1>1, <1>2, <1>8, <1>14, <1>15, SameStore

LEMMA EmptyChain ==
  ASSUME NEW l \in Lists, list'[l] = ErasedList, ~WipedNow(l)',
         \A y \in Elts : y \in heap' => elt'[y].list # l
  PROVE  Chain(l, <<>>)'
<1>1. <<>> \in Seq(Elts) /\ Len(<<>>) = 0
  BY EmptySeq
<1>2. Enumerates(l, <<>>)' /\ InOrder(l, <<>>)'
  BY <1>1 DEF Enumerates, InOrder
<1>3. LinksFollow(l, <<>>)'
  BY <1>1 DEF LinksFollow, FirstLeft, ErasedList, Nth
<1>. QED
  BY <1>2, <1>3 DEF Chain

LEMMA CreateRefines ==
  ASSUME NEW ss, StoreInv(ss), NEW l \in Lists, Create(l)
  PROVE  Implements
<1>1. /\ op = "none" /\ l \notin heap /\ elt' = elt /\ heap' = heap \cup {l}
      /\ op' = op /\ on' = on /\ at' = at /\ from' = from /\ key' = key
      /\ list' = [list EXCEPT ![l] = ErasedList]
  BY DEF Create, call
<1>2. elt \in [Elts -> EltRecord] /\ list \in [Lists -> ListRecord]
      /\ heap \subseteq Lists \cup Elts /\ CallTyped
  BY Types DEF StoreInv
<1>3. PICK s \in Seq(Elts) : s = <<>> /\ s = ss[l]
  BY <1>1, EmptySeq DEF StoreInv
<1>4. list'[l] = ErasedList /\ \A m \in Lists \ {l} : list'[m] = list[m]
  BY <1>1, <1>2
<1>5. list' \in [Lists -> ListRecord]
  BY <1>1, <1>2 DEF ListRecord, ErasedList, Address
<1>6. /\ ~Wiping /\ ~Wiping' /\ CallTyped' /\ CallInv(ss)'
      /\ op # "found" /\ op' # "found"
  BY <1>1, <1>2 DEF Wiping, CallTyped, CallInv
<1>7. TypeOK'
  BY <1>1, <1>2, <1>5, <1>6, TypesKept
<1>8. \A y \in Elts : (y \in heap' <=> y \in heap) /\ (y \in heap' => elt'[y].list # l)
  BY <1>1, AddressAssumption DEF StoreInv, Linked, Created
<1>9. Chain(l, s)'
  BY <1>3, <1>4, <1>6, <1>8, EmptyChain DEF WipedNow
<1>10. OthersKept(l)
  BY <1>1, <1>4, <1>6, <1>8 DEF OthersKept, WipedNow
<1>11. \A y \in Elts \ heap' : elt'[y] = ErasedElt
  BY <1>1 DEF StoreInv
<1>12. ss = [ss EXCEPT ![l] = s]
  BY <1>3 DEF StoreInv
<1>13. Becomes(ss, l, s, ss)
  BY <1>1, <1>6, <1>7, <1>9, <1>10, <1>11, <1>12 DEF Becomes
<1>14. Entries(s)' = Entries(s)
  BY <1>1 DEF Entries
<1>. QED
  BY <1>3, <1>6, <1>13, <1>14, SameStore

\* When the wiping begins, the links are those of the list.
LEMMA WipeRefines ==
  ASSUME NEW ss, StoreInv(ss), NEW l \in Created, NEW o \in {"clear", "destroy"},
         Wipe(l, o)
  PROVE  Implements
<1>1. /\ op = "none" /\ op' = o /\ on' = l /\ at' = list[l].first /\ from' = Null
      /\ key' = Null /\ list' = list /\ elt' = elt /\ heap' = heap
  BY DEF Wipe, Running, memory
<1>2. PICK s \in Seq(Elts) : s = ss[l]
  BY NthFacts
<1>3. l \in Lists /\ l \in heap /\ Chain(l, s)
  BY <1>2, NthFacts
<1>4. ~Wiping /\ Wiping' /\ op # "found" /\ op' # "found"
  BY <1>1 DEF Wiping
<1>5. elt \in [Elts -> EltRecord] /\ list \in [Lists -> ListRecord]
      /\ heap \subseteq Lists \cup Elts /\ CallTyped
  BY Types DEF StoreInv
<1>6. CallTyped'
  <2>1. list[l].first \in Address
    BY <1>3, <1>5 DEF ListRecord
  <2>. QED
    BY <1>1, <1>3, <2>1 DEF CallTyped, Address
<1>7. TypeOK'
  BY <1>1, <1>5, <1>6, TypesKept
<1>8. CallInv(ss)'
  BY <1>1, <1>3 DEF CallInv, Created
<1>9. Chain(l, s)'
  <2>1. Enumerates(l, s)' /\ InOrder(l, s)'
    BY <1>1, <1>3 DEF Chain, Enumerates, InOrder
  <2>2. LinksFollow(l, s)'
    BY <1>1, <1>3, <1>4 DEF Chain, LinksFollow, FirstLeft, WipedNow
  <2>. QED
    BY <2>1, <2>2 DEF Chain
<1>10. OthersKept(l)
  BY <1>1, <1>4 DEF OthersKept, WipedNow
<1>11. \A y \in Elts \ heap' : elt'[y] = ErasedElt
  BY <1>1 DEF StoreInv
<1>12. ss = [ss EXCEPT ![l] = s]
  BY <1>2, <1>3 DEF StoreInv
<1>13. Becomes(ss, l, s, ss)
  BY <1>1, <1>3, <1>7, <1>8, <1>9, <1>10, <1>11, <1>12 DEF Becomes
<1>14. Entries(s)' = Entries(s)
  BY <1>1 DEF Entries
<1>. QED
  BY <1>2, <1>3, <1>4, <1>13, <1>14, SameStore

LEMMA WipeEltRefines ==
  ASSUME NEW ss, StoreInv(ss), WipeElt
  PROVE  Implements
<1>1. /\ op \in {"clear", "destroy"} /\ op' = op /\ on' = on /\ at' = elt[at].next
      /\ from' = from /\ key' = key /\ at # Null /\ heap' = heap \ {at} /\ list' = list
      /\ elt' = [elt EXCEPT ![at] = ErasedElt] /\ Wiping
  BY DEF WipeElt, Running, Wiping
<1>2. PICK l \in Created : l = on
  BY <1>1 DEF StoreInv, CallInv
<1>3. PICK s \in Seq(Elts) : s = ss[l]
  BY NthFacts
<1>4. /\ l \in Lists /\ l \in heap /\ Chain(l, s) /\ Len(s) \in Nat
      /\ \A i \in 1..Len(s) : s[i] \in Elts /\ s[i] \in heap /\ elt[s[i]].list = l
      /\ \A i, j \in 1..Len(s) : s[i] = s[j] => i = j
  BY <1>3, NthFacts DEF Chain, Enumerates
<1>5. PICK k \in 1..Len(s) : k = 1 /\ at = s[k]
  BY <1>1, <1>2, <1>4 DEF Chain, LinksFollow, FirstLeft, WipedNow, Nth
<1>6. PICK t \in Seq(Elts) : Shrunk(s, k, t)
  BY RemoveShrinks
<1>7. Chain(l, t)'
  <2>1. Shrunk(s, 1, t) /\ on = l /\ TypeOK /\ l \in Lists
    BY <1>2, <1>4, <1>5, <1>6 DEF StoreInv
  <2>. QED
    BY <1>4, <2>1, WipedChain
<1>8. PICK tt : tt = [ss EXCEPT ![l] = t]
  OBVIOUS
<1>9. elt \in [Elts -> EltRecord] /\ list \in [Lists -> ListRecord]
      /\ heap \subseteq Lists \cup Elts /\ CallTyped /\ at \in Elts
  BY <1>4, <1>5, Types DEF StoreInv
<1>10. elt'[at] = ErasedElt /\ \A y \in Elts \ {at} : elt'[y] = elt[y]
  BY <1>1, <1>9
<1>11. /\ op # "found" /\ op' # "found" /\ Wiping' /\ on' = l
  BY <1>1, <1>2 DEF Wiping
<1>12. TypeOK'
  <2>1. elt[at].next \in Address
    BY <1>9 DEF EltRecord
  <2>2. ErasedElt \in EltRecord
    BY DEF EltRecord, ErasedElt, Address
  <2>3. elt' \in [Elts -> EltRecord]
    BY <1>1, <1>9, <2>2
  <2>4. CallTyped'
    BY <1>1, <1>9, <2>1 DEF CallTyped
  <2>. QED
    BY <1>1, <1>9, <2>3, <2>4, TypesKept
<1>13. l \in heap'
  BY <1>1, <1>4, <1>9, AddressAssumption
<1>14. CallInv(tt)'
  BY <1>1, <1>4, <1>11, <1>13 DEF CallInv, Created
<1>15. OthersKept(l)
  <2>1. \A m \in Lists \ {l} : ~WipedNow(m) /\ ~WipedNow(m)' /\ (m \in heap' <=> m \in heap)
    BY <1>1, <1>2, <1>9, <1>11, AddressAssumption DEF WipedNow
  <2>2. elt[at].list = l
    BY <1>4, <1>5
  <2>. QED
    BY <1>1, <1>10, <2>1, <2>2 DEF OthersKept
<1>16. \A y \in Elts \ heap' : elt'[y] = ErasedElt
  BY <1>1, <1>10 DEF StoreInv
<1>17. Becomes(ss, l, t, tt)
  BY <1>7, <1>8, <1>12, <1>13, <1>14, <1>15, <1>16 DEF Becomes
<1>18. /\ StoreInv(tt)' /\ tt \in [Lists -> Seq(Elts)] /\ tt[l] = t
       /\ \A m \in Lists \ {l} : Entries(tt[m])' = Entries(ss[m])
  BY <1>4, <1>17, OthersFollow
<1>19. Store!Next
  <2>1. \A i \in 1..Len(s) : i # k => elt'[s[i]].data = elt[s[i]].data
    BY <1>4, <1>5, <1>10
  <2>2. /\ tt[l] \in Seq(Elts) /\ Shrunk(ss[l], k, tt[l]) /\ Chain(l, tt[l])'
        /\ k \in 1..Len(ss[l])
        /\ \A i \in 1..Len(ss[l]) : i # k => elt'[ss[l][i]].data = elt[ss[l][i]].data
    BY <1>3, <1>6, <1>7, <1>18, <2>1
  <2>3. StoreInv(tt)' /\ \A m \in Lists \ {l} : Entries(tt[m])' = Entries(ss[m])
    BY <1>18
  <2>. HIDE <1>3, <1>8
  <2>. QED
    BY <1>11, <2>2, <2>3, TakeRefines
<1>. QED
  BY <1>18, <1>19 DEF Implements, ListInv

LEMMA WipeEndRefines ==
  ASSUME NEW ss, StoreInv(ss), WipeEnd
  PROVE  Implements
<1>1. /\ op \in {"clear", "destroy"} /\ op' = "none" /\ on' = Null /\ at' = Null
      /\ from' = Null /\ key' = Null /\ at = Null /\ elt' = elt /\ Wiping
      /\ list' = [list EXCEPT ![on] = ErasedList]
      /\ heap' = IF op = "destroy" THEN heap \ {on} ELSE heap
  BY DEF WipeEnd, Return, Running, Wiping
<1>2. PICK l \in Created : l = on
  BY <1>1 DEF StoreInv, CallInv
<1>3. PICK s \in Seq(Elts) : s = ss[l]
  BY NthFacts
<1>4. /\ l \in Lists /\ l \in heap /\ Chain(l, s) /\ Len(s) \in Nat
      /\ \A i \in 1..Len(s) : s[i] # Null
      /\ \A y \in Elts : y \in heap /\ elt[y].list = l => \E i \in 1..Len(s) : s[i] = y
  BY <1>3, NthFacts DEF Chain, Enumerates
<1>5. Len(s) = 0
  BY <1>1, <1>2, <1>4 DEF Chain, LinksFollow, FirstLeft, WipedNow, Nth
<1>6. s = <<>> /\ \A y \in Elts : y \in heap => elt[y].list # l
  BY <1>4, <1>5, EmptySeq
<1>7. elt \in [Elts -> EltRecord] /\ list \in [Lists -> ListRecord]
      /\ heap \subseteq Lists \cup Elts
  BY Types DEF StoreInv
<1>8. list'[l] = ErasedList /\ \A m \in Lists \ {l} : list'[m] = list[m]
  BY <1>1, <1>2, <1>4, <1>7
<1>9. list' \in [Lists -> ListRecord]
  BY <1>1, <1>7 DEF ListRecord, ErasedList, Address
<1>10. /\ ~Wiping' /\ CallTyped' /\ CallInv(ss)' /\ op # "found" /\ op' # "found"
  BY <1>1 DEF Wiping, CallTyped, CallInv, Address
<1>11. /\ \A m \in Lists \ {l} : m \in heap' <=> m \in heap
       /\ \A y \in Elts : y \in heap' <=> y \in heap
       /\ heap' \subseteq heap
  BY <1>1, <1>2, <1>4, AddressAssumption
<1>12. TypeOK'
  BY <1>1, <1>7, <1>9, <1>10, <1>11, TypesKept
<1>13. IF l \in heap' THEN Chain(l, s)'
       ELSE s = <<>> /\ \A y \in Elts : y \in heap' => elt'[y].list # l
  <2>1. \A y \in Elts : y \in heap' => elt'[y].list # l
    BY <1>1, <1>6, <1>11
  <2>2. Chain(l, <<>>)'
    BY <1>4, <1>8, <1>10, <2>1, EmptyChain DEF WipedNow
  <2>. QED
    BY <1>6, <2>1, <2>2
<1>14. OthersKept(l)
  <2>1. \A m \in Lists \ {l} : ~WipedNow(m) /\ ~WipedNow(m)'
    BY <1>1, <1>2, <1>10 DEF WipedNow
  <2>. QED
    BY <1>1, <1>8, <1>11, <2>1 DEF OthersKept
<1>15. \A y \in Elts \ heap' : elt'[y] = ErasedElt
  BY <1>1, <1>11 DEF StoreInv
<1>16. ss = [ss EXCEPT ![l] = s]
  BY <1>3, <1>4 DEF StoreInv
<1>17. Becomes(ss, l, s, ss)
  BY <1>10, <1>12, <1>13, <1>14, <1>15, <1>16 DEF Becomes
<1>18. Entries(s)' = Entries(s)
  BY <1>1 DEF Entries
<1>. QED
  BY <1>3, <1>4, <1>10, <1>17, <1>18, SameStore

-----------------------------------------------------------------------------
(* The theorems.                                                           *)

LEMMA InitRefines == Init => ListInv /\ Store!Init
<1>. SUFFICES ASSUME Init PROVE ListInv /\ Store!Init
  OBVIOUS
<1>1. PICK ss \in [Lists -> Seq(Elts)] : ss = [l \in Lists |-> <<>>]
  BY EmptySeq
<1>2. TypeOK
  BY DEF Init, TypeOK, ErasedList, ErasedElt, Address
<1>3. StoreInv(ss)
  BY <1>1, <1>2 DEF StoreInv, Init, Linked, CallInv
<1>4. [l \in Lists |-> Elements(l)] = [l \in Lists |-> <<>>]
  BY DEF Init, Elements
<1>5. Store!Init
  BY <1>4 DEF Store!Init, Store!NoAnswer, Init
<1>. QED
  BY <1>3, <1>5 DEF ListInv

LEMMA StutterRefines ==
  ASSUME NEW ss, StoreInv(ss), UNCHANGED vars
  PROVE  Implements
<1>1. /\ list' = list /\ elt' = elt /\ heap' = heap /\ op' = op /\ on' = on
      /\ at' = at /\ from' = from /\ key' = key
  BY DEF vars, memory, call
<1>2. ASSUME NEW l \in Lists, l \in heap PROVE Chain(l, ss[l])'
  <2>1. Chain(l, ss[l])
    BY <1>2 DEF StoreInv
  <2>. QED
    BY <1>1, <2>1
       DEF Chain, Enumerates, LinksFollow, InOrder, FirstLeft, WipedNow, Wiping
<1>3. TypeOK'
  BY <1>1 DEF StoreInv, TypeOK
<1>4. CallInv(ss)'
  BY <1>1 DEF StoreInv, CallInv, Seeking, Searching, Created
<1>5. StoreInv(ss)'
  BY <1>1, <1>2, <1>3, <1>4 DEF StoreInv, Linked, Created
<1>6. \A l \in Lists : Entries(ss[l])' = Entries(ss[l])
  BY <1>1 DEF Entries
<1>7. [l \in Lists |-> Elements(l)]' = [l \in Lists |-> Elements(l)]
  BY <1>5, <1>6, SeqsOf, SeqsThen
<1>8. UNCHANGED Store!vars
  BY <1>1, <1>7 DEF Store!vars
<1>. QED
  BY <1>5, <1>8 DEF Implements, ListInv, StoreInv

\* Every step keeps the invariant, and is a step of the store or a stutter.
LEMMA NextRefines == ListInv /\ [Next]_vars => Implements
<1>. SUFFICES ASSUME NEW ss, StoreInv(ss), [Next]_vars PROVE Implements
  BY DEF ListInv
<1>1. CASE \E l \in Lists : Create(l)
  BY <1>1, CreateRefines
<1>2. CASE \E l \in Created : \/ Wipe(l, "clear") \/ Wipe(l, "destroy")
                              \/ \E u \in Users : UserDataSet(l, u)
  BY <1>2, WipeRefines, UserDataSetRefines
<1>3. CASE \E d \in Data : \E l \in Created \ Sorted : InsertFirst(l, d) \/ InsertLast(l, d)
  BY <1>3, InsertFirstRefines, InsertLastRefines
<1>4. CASE \E d \in Data : \E x \in Linked :
             /\ elt[x].list \notin Sorted
             /\ \/ InsertBefore(x, d) \/ InsertAfter(x, d) \/ DataSet(x, d)
  BY <1>4, InsertBeforeRefines, InsertAfterRefines, DataSetRefines
<1>5. CASE \E d \in Data : \E l \in Created \cap Sorted : Insert(l, d)
  BY <1>5, InsertRefines
<1>6. CASE \E d \in Data : \E x \in Linked : Search(x, d)
  BY <1>6, SearchRefines
<1>7. CASE \E x \in Linked : Delete(x)
  BY <1>7, DeleteRefines
<1>8. CASE SeekBack
  BY <1>8, SeekBackRefines
<1>9. CASE FinishInserting
  BY <1>9, FinishInsertingRefines
<1>10. CASE SearchStep
  BY <1>10, SearchStepRefines
<1>11. CASE SearchReturn
  BY <1>11, SearchReturnRefines
<1>12. CASE WipeElt
  BY <1>12, WipeEltRefines
<1>13. CASE WipeEnd
  BY <1>13, WipeEndRefines
<1>14. CASE UNCHANGED vars
  BY <1>14, StutterRefines
<1>. QED
  BY <1>1, <1>2, <1>3, <1>4, <1>5, <1>6, <1>7, <1>8, <1>9, <1>10, <1>11, <1>12,
     <1>13, <1>14 DEF Next

\* After any sequence of calls the forward links, the backward links, first,
\* last and length of every list tell of one sequence, and no element is
\* lost: sm_list_insert and its kin, sm_list_delete and wipeList write all of
\* them.
THEOREM ListsStaySound == Spec => []ListsAreSound
<1>1. Init => ListInv
  BY InitRefines
<1>2. ListInv /\ [Next]_vars => ListInv'
  BY NextRefines DEF Implements
<1>3. ListInv => ListsAreSound
  BY InvIsSound
<1>. QED
  BY <1>1, <1>2, <1>3, PTL DEF Spec

\* The linked lists of smlist.c are the sequences of ListStore: each call
\* changes one sequence by one element, an ordered insertion comes after what
\* is not greater, and a search answers with the first match.
THEOREM StoreImplemented == Spec => ListsImplementStore
<1>1. Init => ListInv /\ Store!Init
  BY InitRefines
<1>2. ListInv /\ [Next]_vars => ListInv' /\ [Store!Next]_(Store!vars)
  BY NextRefines DEF Implements
<1>. QED
  BY <1>1, <1>2, PTL DEF Spec, ListsImplementStore, Store!Spec
==============================================================================
