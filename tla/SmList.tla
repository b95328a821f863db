-------------------------------- MODULE SmList --------------------------------
(***************************************************************************)
(* Doubly linked lists in a partition: ici/library/smlist.c.  A call is    *)
(* one step, except that each turn of a loop (the search for the place in  *)
(* an ordered list, a search, the wiping of a list) is a step of its own.  *)
(* Locks are stubs, and nothing else runs during a call.                   *)
(*                                                                         *)
(* An insertion takes any free address for its element.  One that finds no *)
(* space returns 0 with nothing changed: it is a step only where it ends a *)
(* call that has begun.                                                    *)
(***************************************************************************)
EXTENDS Integers, Sequences, FiniteSets

CONSTANTS
  Lists,      \* addresses of lists
  Elts,       \* addresses of elements
  Data,       \* data of elements; the compare function is their order
  Sorted,     \* the lists that are kept in order, by sm_list_insert alone
  Users,      \* user data of lists
  Null        \* address 0

ASSUME AddressAssumption ==
  /\ Null \notin Lists /\ Null \notin Elts /\ Lists \cap Elts = {}
  /\ Sorted \subseteq Lists
ASSUME DataAssumption == Data \subseteq Nat /\ Null \notin Data

VARIABLES
  list,       \* SmList at each address of a list
  elt,        \* SmListElt at each address of an element
  heap,       \* addresses that are allocated
  op,         \* the call that is running
  on,         \* ... the list it works on
  at,         \* ... the element its loop has come to
  from,       \* ... the element a search starts from
  key         \* ... the data it is to insert or to find

memory == <<list, elt, heap>>
call == <<op, on, at, from, key>>
vars == <<memory, call>>

ErasedList == [userData |-> Null, first |-> Null, last |-> Null, length |-> 0]
ErasedElt == [list |-> Null, prev |-> Null, next |-> Null, data |-> Null]

Running(o, l, x, f, d) ==
  op' = o /\ on' = l /\ at' = x /\ from' = f /\ key' = d
Return == Running("none", Null, Null, Null, Null)

Created == Lists \cap heap
Linked == Elts \cap heap

-----------------------------------------------------------------------------
(* The changes of the links.                                               *)

\* A new element x of list l between p and n, each of which may be Null: the
\* four insertions differ in what p and n are.
Link(l, p, n, x, d) ==
  /\ heap' = heap \cup {x}
  /\ elt' = [y \in Elts |->
       IF y = x THEN [list |-> l, prev |-> p, next |-> n, data |-> d]
       ELSE [elt[y] EXCEPT !.next = IF y = p THEN x ELSE @,
                           !.prev = IF y = n THEN x ELSE @]]
  /\ list' = [list EXCEPT ![l].first = IF p = Null THEN x ELSE @,
                          ![l].last = IF n = Null THEN x ELSE @,
                          ![l].length = @ + 1]

\* Mutant: a deletion at the end of the list leaves its last element.
Unlink_KeepLast(x) ==
  LET p == elt[x].prev
      n == elt[x].next
  IN  /\ heap' = heap \ {x}
      /\ elt' = [y \in Elts |->
           IF y = x THEN ErasedElt
           ELSE [elt[y] EXCEPT !.next = IF y = p THEN n ELSE @,
                               !.prev = IF y = n THEN p ELSE @]]
      /\ list' = [list EXCEPT ![elt[x].list].first = IF p = Null THEN n ELSE @,
                              ![elt[x].list].length = @ - 1]

Unlink(x) ==
  LET p == elt[x].prev
      n == elt[x].next
  IN  /\ heap' = heap \ {x}
      /\ elt' = [y \in Elts |->
           IF y = x THEN ErasedElt
           ELSE [elt[y] EXCEPT !.next = IF y = p THEN n ELSE @,
                               !.prev = IF y = n THEN p ELSE @]]
      /\ list' = [list EXCEPT ![elt[x].list].first = IF p = Null THEN n ELSE @,
                              ![elt[x].list].last = IF n = Null THEN p ELSE @,
                              ![elt[x].list].length = @ - 1]

-----------------------------------------------------------------------------
(* Calls without a loop.                                                   *)

Create(l) ==
  /\ op = "none" /\ l \notin heap
  /\ heap' = heap \cup {l}
  /\ list' = [list EXCEPT ![l] = ErasedList]
  /\ UNCHANGED <<elt, call>>

UserDataSet(l, u) ==
  /\ op = "none"
  /\ list' = [list EXCEPT ![l].userData = u]
  /\ UNCHANGED <<elt, heap, call>>

InsertFirst(l, d) ==
  /\ op = "none"
  /\ \E x \in Elts \ heap : Link(l, Null, list[l].first, x, d)
  /\ UNCHANGED call

InsertLast(l, d) ==
  /\ op = "none"
  /\ \E x \in Elts \ heap : Link(l, list[l].last, Null, x, d)
  /\ UNCHANGED call

InsertBefore(oldElt, d) ==
  /\ op = "none"
  /\ \E x \in Elts \ heap :
       Link(elt[oldElt].list, elt[oldElt].prev, oldElt, x, d)
  /\ UNCHANGED call

InsertAfter(oldElt, d) ==
  /\ op = "none"
  /\ \E x \in Elts \ heap :
       Link(elt[oldElt].list, oldElt, elt[oldElt].next, x, d)
  /\ UNCHANGED call

Delete(x) ==
  /\ op = "none"
  /\ list[elt[x].list].length >= 1
  /\ Unlink(x)
  /\ UNCHANGED call

DataSet(x, d) ==
  /\ op = "none"
  /\ elt' = [elt EXCEPT ![x].data = d]
  /\ UNCHANGED <<list, heap, call>>

-----------------------------------------------------------------------------
(* sm_list_insert with a compare function: the place is looked for from    *)
(* the end, "to keep sort stable".                                         *)

Insert(l, d) ==
  /\ op = "none"
  /\ Running("insert", l, list[l].last, Null, d)
  /\ UNCHANGED memory

\* Mutant: the loop goes on over elements with the same key.
Placed_BeforeEqual(x) == x # Null => elt[x].data < key

Placed(x) == x # Null => elt[x].data <= key

SeekBack ==
  /\ op = "insert" /\ ~Placed(at)
  /\ Running(op, on, elt[at].prev, from, key)
  /\ UNCHANGED memory

FinishInserting ==
  /\ op = "insert" /\ Placed(at)
  /\ \/ \E x \in Elts \ heap :
          Link(on, at, IF at = Null THEN list[on].first ELSE elt[at].next, x, key)
     \/ UNCHANGED memory   \* no space
  /\ Return

-----------------------------------------------------------------------------
(* sm_list_search, with a compare function in an ordered list and without  *)
(* one in the others.                                                      *)

Search(x, d) ==
  /\ op = "none"
  /\ Running("search", elt[x].list, x, x, d)
  /\ UNCHANGED memory

\* "Past any possible match".
Past(x) == on \in Sorted /\ elt[x].data > key

SearchStep ==
  /\ op = "search"
  /\ IF Past(at) THEN Running("found", on, Null, from, key)
     ELSE IF elt[at].data = key THEN Running("found", on, at, from, key)
     ELSE Running(IF elt[at].next = Null THEN "found" ELSE "search",
                  on, elt[at].next, from, key)
  /\ UNCHANGED memory

SearchReturn == op = "found" /\ Return /\ UNCHANGED memory

-----------------------------------------------------------------------------
(* wipeList: sm_list_clear and sm_list_destroy.                            *)

Wipe(l, o) ==
  /\ op = "none"
  /\ Running(o, l, list[l].first, Null, Null)
  /\ UNCHANGED memory

Wiping == op \in {"clear", "destroy"}

\* The next element is read before this one is erased and freed.
WipeElt ==
  /\ Wiping /\ at # Null
  /\ elt' = [elt EXCEPT ![at] = ErasedElt]
  /\ heap' = heap \ {at}
  /\ Running(op, on, elt[at].next, from, key)
  /\ UNCHANGED list

WipeEnd ==
  /\ Wiping /\ at = Null
  /\ list' = [list EXCEPT ![on] = ErasedList]
  /\ heap' = IF op = "destroy" THEN heap \ {on} ELSE heap
  /\ Return
  /\ UNCHANGED elt

-----------------------------------------------------------------------------
(* The specification.                                                      *)

Init ==
  /\ list = [l \in Lists |-> ErasedList]
  /\ elt = [x \in Elts |-> ErasedElt]
  /\ heap = {}
  /\ op = "none" /\ on = Null /\ at = Null /\ from = Null /\ key = Null

Next ==
  \/ \E l \in Lists : Create(l)
  \/ \E l \in Created : \/ Wipe(l, "clear") \/ Wipe(l, "destroy")
                        \/ \E u \in Users : UserDataSet(l, u)
  \/ \E d \in Data :
       \/ \E l \in Created \ Sorted : InsertFirst(l, d) \/ InsertLast(l, d)
       \/ \E x \in Linked : /\ elt[x].list \notin Sorted
                            /\ \/ InsertBefore(x, d) \/ InsertAfter(x, d)
                               \/ DataSet(x, d)
       \/ \E l \in Created \cap Sorted : Insert(l, d)
       \/ \E x \in Linked : Search(x, d)
  \/ \E x \in Linked : Delete(x)
  \/ SeekBack \/ FinishInserting \/ SearchStep \/ SearchReturn
  \/ WipeElt \/ WipeEnd

Spec == Init /\ [][Next]_vars

-----------------------------------------------------------------------------
(* Properties.                                                             *)

Address == Elts \cup {Null}

TypeOK ==
  /\ list \in [Lists -> [userData : Users \cup {Null}, first : Address,
                     last : Address, length : Nat]]
  /\ elt \in [Elts -> [list : Lists \cup {Null}, prev : Address,
                       next : Address, data : Data \cup {Null}]]
  /\ heap \subseteq Lists \cup Elts
  /\ op \in {"none", "insert", "search", "found", "clear", "destroy"}
  /\ on \in Lists \cup {Null} /\ at \in Address /\ from \in Address
  /\ key \in Data \cup {Null}

\* The elements that say they are in list l, in any order.
Members(l) == {x \in Linked : elt[x].list = l}

Orders(l) ==
  {s \in [1..Cardinality(Members(l)) -> Members(l)] :
     \A i, j \in DOMAIN s : s[i] = s[j] => i = j}

\* What is left of a list that is being wiped begins where the loop has come to.
WipedNow(l) == Wiping /\ on = l
FirstLeft(l) == IF WipedNow(l) THEN at ELSE list[l].first

\* The links of list l run through the elements of s in this order.
Represents(l, s) ==
  LET n == Len(s)
  IN  /\ FirstLeft(l) = IF n = 0 THEN Null ELSE s[1]
      /\ n > 0 => list[l].last = s[n]
      /\ \A i \in 1..n : elt[s[i]].next = IF i = n THEN Null ELSE s[i + 1]
      /\ \A i \in 2..n : elt[s[i]].prev = s[i - 1]

\* The elements of l as its links give them.
Contents(l) ==
  LET nth[i \in 1..Cardinality(Members(l))] ==
        IF i = 1 THEN FirstLeft(l) ELSE elt[nth[i - 1]].next
  IN  nth

\* Forward links, backward links, first, last and length of every list tell
\* of one and the same sequence; every element that is allocated is in a
\* list, and one that is not is erased, so that no call can leave an element
\* that nothing leads to, or lead to one that has been freed.
ListsAreSound ==
  /\ TypeOK
  /\ \A l \in Created :
       \E s \in Orders(l) :
         /\ Represents(l, s)
         /\ ~WipedNow(l) => /\ list[l].length = Len(s)
                            /\ IF s = <<>> THEN list[l].last = Null
                               ELSE elt[s[1]].prev = Null
  /\ \A x \in Linked : elt[x].list \in Created
  /\ \A x \in Elts \ heap : elt[x] = ErasedElt

Elements(l) ==
  LET s == Contents(l)
  IN  IF l \in heap
      THEN [i \in DOMAIN s |-> [elt |-> s[i], data |-> elt[s[i]].data]]
      ELSE <<>>

Store == INSTANCE ListStore
  WITH seqs <- [l \in Lists |-> Elements(l)],
       answer <- IF op = "found" THEN <<at>> ELSE <<>>

\* Whatever the calls do to the links, the lists are sequences that change by
\* one element at a time; those kept in order stay in order, first come first
\* among equals, and a search that gives up early has missed nothing.
ListsImplementStore == Store!Spec
===============================================================================
