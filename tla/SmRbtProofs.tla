----------------------------- MODULE SmRbtProofs -----------------------------
(***************************************************************************)
(* Proofs about SmRbt, for any number of nodes and any data: whatever the  *)
(* calls, the tree stays a red-black tree of its data, searches and        *)
(* traversals answer rightly, and calls are short.                         *)
(***************************************************************************)
EXTENDS SmRbt, DataLemmas

-----------------------------------------------------------------------------
(* What is true of a tree in the middle of calls.                          *)

\* b is beyond a on side s.
Toward(a, b, s) == IF s = RIGHT THEN a < b ELSE b < a

\* The nodes of sub[x] that are on side s of x.
Part(t, sub, x, s) == {y \in sub[x] : Toward(t[x].data, t[y].data, s)}

\* sub has for each of the nodes A the nodes at and below it.
Nested(A, sub) ==
  /\ A \subseteq Nodes /\ sub \in [A -> SUBSET A]
  /\ \A x \in A : x \in sub[x]
  /\ \A x \in A : \A y \in sub[x] : sub[y] \subseteq sub[x]
  /\ \A x \in A : \A y \in sub[x] : x \in sub[y] => x = y
  /\ \A x, z \in A : \A y \in sub[x] \cap sub[z] : x \in sub[z] \/ z \in sub[x]

\* The tree t of the nodes A keeps to sub, and to the order of the data.
Linked(t, A, top, sub) ==
  /\ \A x \in A, s \in Sides :
       LET c == Child(t, x, s)
       IN  IF c = Null THEN Part(t, sub, x, s) = {}
           ELSE c \in A /\ t[c].parent = x /\ sub[c] = Part(t, sub, x, s)
  /\ \A x \in A \ {top} :
       t[x].parent \in A /\ \E s \in Sides : Child(t, t[x].parent, s) = x
  /\ IF A = {} THEN top = Null
     ELSE top \in A /\ t[top].parent = Null /\ sub[top] = A

Ordered(t, A, sub) ==
  /\ \A x \in A : t[x].data \in Data
  /\ \A x, y \in A : t[x].data = t[y].data => x = y
  /\ \A x, z \in A : \A y, w \in sub[x] :
       t[y].data < t[z].data /\ t[z].data < t[w].data => z \in sub[x]

Shape(t, A, top, sub) ==
  Nested(A, sub) /\ Linked(t, A, top, sub) /\ Ordered(t, A, sub)

Height(H, x) == IF x = Null THEN 0 ELSE H[x]
Black(t, x) == IF t[x].isRed THEN 0 ELSE 1

\* H has the number of black nodes on all paths down from each of the nodes A,
\* and no red node has a red child.
Balanced(t, A, H) ==
  /\ H \in [A -> Nat]
  /\ \A x \in A, s \in Sides :
       /\ H[x] = Height(H, Child(t, x, s)) + Black(t, x)
       /\ ~(IsRed(t, x) /\ IsRed(t, Child(t, x, s)))

\* No datum between that of x and k is elsewhere than at and below x.
Path(t, A, sub, x, k) ==
  \A z \in A :
    \/ t[x].data < t[z].data /\ t[z].data < k
    \/ k < t[z].data /\ t[z].data < t[x].data
    => z \in sub[x]
-----------------------------------------------------------------------------
(* What is true of a call that is running.                                 *)

Top == Child(tree, Dummy, RIGHT)

Quiet(x) == x # Null /\ BothBlack(tree, x)

\* grandparent, then greatgrandparent is where it should be, which after a
\* rotation they are not.
GrandRight ==
  grandparent \in heap /\ Child(tree, grandparent, prevDirection) = parent
AboveRight ==
  \/ grandparent = Null /\ parent = Top /\ greatgrandparent = Dummy
  \/ GrandRight
GreatRight ==
  \/ greatgrandparent = Dummy /\ grandparent = Top
  \/ /\ greatgrandparent \in heap
     /\ \E s \in Sides : Child(tree, greatgrandparent, s) = grandparent

\* What a red parent or a red node needs to be, for the pass to be able to
\* repair what it breaks.
Ready ==
  /\ IsRed(tree, parent) =>
       \/ Quiet(node)
       \/ /\ GrandRight /\ GreatRight
          /\ ~IsRed(tree, Child(tree, grandparent, 1 - prevDirection))
  /\ ~IsRed(tree, parent) /\ IsRed(tree, node) =>
       \/ Quiet(Child(tree, node, Turn(node)))
       \/ AboveRight /\ ~IsRed(tree, Child(tree, parent, 1 - direction))

\* The turns that were made, three for each black node still to be met and one
\* for a red node are no more than three for each black node of the path; after
\* a turn that needed a repair no other comes at once, which saves some.
Paid(H, h) ==
  IF node = Null THEN passes <= 3 * h
  ELSE \/ passes + 3 * H[node] + (1 - Black(tree, node)) <= 3 * h
       \/ /\ IsRed(tree, node) /\ Quiet(Child(tree, node, Turn(node)))
          /\ passes + 3 * H[node] - 1 <= 3 * h
       \/ /\ ~IsRed(tree, node) /\ Quiet(node)
          /\ passes + 3 * H[node] - 2 <= 3 * h

InsertInv(sub, H, h) ==
  /\ key \in Data \ Keys
  /\ \/ /\ parent = Null /\ grandparent = Null /\ greatgrandparent = Dummy
        /\ node = Top /\ ~IsRed(tree, Top)
     \/ /\ parent \in heap /\ direction = Turn(parent)
        /\ Child(tree, parent, direction) = node
        /\ Path(tree, heap, sub, parent, key)
        /\ grandparent \in heap \cup {Null}
        /\ grandparent # Null => prevDirection = Turn(grandparent)
        /\ Ready
  /\ Paid(H, h)

\* Whether p is above the node, or the node is the top.
IsAbove(p) ==
  \/ p = Dummy /\ node = Top
  \/ p \in heap /\ \E s \in Sides : Child(tree, p, s) = node

DeleteInv(sub, H, h) ==
  LET c == Child(tree, node, direction)
  IN  /\ key \in Data
      /\ \/ node = Dummy /\ direction = RIGHT /\ target = Null
         \/ /\ node \in heap /\ direction = Turn(node) /\ IsAbove(parent)
            /\ Path(tree, heap, sub, node, key)
            /\ \/ IsRed(tree, node) \/ IsRed(tree, c)
               \/ node = Top /\ BothBlack(tree, node)
            /\ IF target = Null
               THEN \A y \in heap : tree[y].data = key =>
                      y # node /\ y \in sub[node]
               ELSE /\ target \in heap /\ tree[target].data = key
                    /\ target \notin Part(tree, sub, node, direction)
                    /\ node = target \/ tree[node].data < key
      /\ passes + 2 * Height(H, c) + (IF IsRed(tree, c) THEN 1 ELSE 0) <= 2 * h

\* What is true of the nodes, of the addresses of the tree, and of the call.
Frame ==
  /\ TypeOK /\ IsFiniteSet(heap)
  /\ \A x \in Nodes \ heap : tree[x] = Erased
  /\ Child(tree, Dummy, LEFT) = Null

Running == op \in {"insert", "delete"}

RootInv ==
  /\ op = "none" \/ Running =>
       /\ root \in heap \/ (root = Null /\ heap = {})
       /\ root # Null => length = Cardinality(heap)
  /\ Running => root # Null
  /\ ~created => op = "none" /\ root = Null
  /\ ~Running =>
       parent = Null /\ grandparent = Null /\ target = Null /\ passes = 0
  /\ Wiping => node \in heap \/ (node = Null /\ heap = {} /\ root = Null)

CallInv(top, sub) ==
  /\ op = "none" /\ ~cutShort =>
       root = top /\ ~IsRed(tree, top) /\ \E H : Balanced(tree, heap, H)
  /\ Running =>
       /\ top = Top
       /\ \E H : \E h \in Nat :
            /\ Balanced(tree, heap, H)
            /\ Power[h] <= Cardinality(heap) + 1
            /\ op = "insert" => InsertInv(sub, H, h)
            /\ op = "delete" => DeleteInv(sub, H, h)

\* The inductive invariant.
RbtInv ==
  /\ Frame /\ RootInv
  /\ \E top, sub : Shape(tree, heap, top, sub) /\ CallInv(top, sub)
-----------------------------------------------------------------------------
(* Sides and orders.                                                       *)

\* There are two sides.
LEMMA SideFacts ==
  ASSUME NEW s \in Sides
  PROVE  /\ 1 - s \in Sides /\ 1 - s # s /\ 1 - (1 - s) = s
         /\ \A r \in Sides : r = s \/ r = 1 - s
  BY DEF Sides, LEFT, RIGHT

\* On the way to a side the data are in one order, to the other in its reverse.
LEMMA TowardFacts ==
  ASSUME NEW s \in Sides
  PROVE  /\ \A a, b \in Int : Toward(a, b, 1 - s) <=> Toward(b, a, s)
         /\ \A a, b \in Int : Toward(a, b, s) => ~Toward(b, a, s) /\ a # b
         /\ \A a, b \in Int : Toward(a, b, s) \/ Toward(b, a, s) \/ a = b
         /\ \A a, b, c \in Int :
              Toward(a, b, s) /\ Toward(b, c, s) => Toward(a, c, s)
         /\ \A a, b \in Int :
              (a < b <=> Toward(a, b, s)) \/ (a < b <=> Toward(b, a, s))
  BY DEF Sides, LEFT, RIGHT, Toward

-----------------------------------------------------------------------------
(* Trees.                                                                  *)

\* The data of the nodes can be compared.
LEMMA DataAreInts ==
  ASSUME NEW t, NEW A, NEW top, NEW sub, Shape(t, A, top, sub)
  PROVE  \A z \in A : t[z].data \in Data /\ t[z].data \in Nat /\ t[z].data \in Int
<1>1. \A d \in Data : d \in Nat /\ d \in Int
  BY DataAssumption
<1>. QED
  BY <1>1 DEF Shape, Ordered

\* Where the child of a node is, and what is at and below it.
LEMMA ChildFacts ==
  ASSUME NEW t, NEW A, NEW top, NEW sub, Shape(t, A, top, sub),
         NEW x \in A, NEW s \in Sides, NEW c, c = Child(t, x, s), c # Null
  PROVE  /\ c \in A /\ c # x /\ t[c].parent = x
         /\ sub[c] = Part(t, sub, x, s) /\ c \in sub[x] /\ x \notin sub[c]
         /\ Toward(t[x].data, t[c].data, s)
         /\ c # Child(t, x, 1 - s)
         /\ \A z \in A : c \in sub[z] => z = c \/ x \in sub[z]
<1>. DEFINE d == Child(t, x, 1 - s)
<1>0. \A z \in A : t[z].data \in Int
  BY DataAreInts
<1>1. c \in A /\ t[c].parent = x /\ sub[c] = Part(t, sub, x, s)
  BY DEF Shape, Linked
<1>2. c \in sub[c] /\ sub[c] \subseteq A /\ sub[x] \subseteq A
  BY <1>1 DEF Shape, Nested
<1>3. c \in sub[x] /\ Toward(t[x].data, t[c].data, s)
  BY <1>1, <1>2 DEF Part
<1>4. x \notin sub[c] /\ c # x
  BY <1>0, <1>1, <1>2, <1>3, TowardFacts DEF Part
<1>5. c # d
  <2>1. CASE d = Null
    BY <2>1
  <2>2. CASE d # Null
    <3>1. 1 - s \in Sides
      BY SideFacts
    <3>2. d \in A /\ sub[d] = Part(t, sub, x, 1 - s) /\ d \in sub[d]
      BY <2>2, <3>1 DEF Shape, Linked, Nested
    <3>3. Toward(t[x].data, t[d].data, 1 - s)
      BY <3>2 DEF Part
    <3>. QED
      BY <1>0, <1>3, <3>2, <3>3, TowardFacts
  <2>. QED
    BY <2>1, <2>2
<1>6. ASSUME NEW z \in A, c \in sub[z], z # c, x \notin sub[z]
      PROVE  FALSE
  <2>1. z \in sub[x] /\ z # x
    <3>1. x \in sub[z] \/ z \in sub[x]
      BY <1>1, <1>3, <1>6 DEF Shape, Nested
    <3>2. x \in sub[x]
      BY DEF Shape, Nested
    <3>. QED
      BY <1>6, <3>1, <3>2
  <2>2. t[z].data # t[x].data
    BY <2>1 DEF Shape, Ordered
  <2>3. CASE Toward(t[x].data, t[z].data, s)
    <3>1. z \in sub[c]
      BY <1>1, <2>1, <2>3 DEF Part
    <3>. QED
      BY <1>1, <1>6, <3>1 DEF Shape, Nested
  <2>4. CASE Toward(t[x].data, t[z].data, 1 - s)
    <3>1. z \in Part(t, sub, x, 1 - s) /\ 1 - s \in Sides
      BY <2>1, <2>4, SideFacts DEF Part
    <3>2. d \in A /\ sub[d] = Part(t, sub, x, 1 - s)
      BY <3>1 DEF Shape, Linked
    <3>3. c \in sub[d]
      BY <1>6, <3>1, <3>2 DEF Shape, Nested
    <3>4. Toward(t[x].data, t[c].data, 1 - s)
      BY <3>2, <3>3 DEF Part
    <3>. QED
      BY <1>0, <1>1, <1>3, <3>4, TowardFacts
  <2>. QED
    BY <1>0, <2>2, <2>3, <2>4, TowardFacts
<1>. QED
  BY <1>1, <1>3, <1>4, <1>5, <1>6

\* The same for all nodes that have children.
LEMMA ChildrenFacts ==
  ASSUME NEW t, NEW A, NEW top, NEW sub, Shape(t, A, top, sub)
  PROVE  \A x \in A, s \in Sides : Child(t, x, s) # Null =>
         /\ Child(t, x, s) \in A /\ Child(t, x, s) # x
         /\ t[Child(t, x, s)].parent = x
         /\ sub[Child(t, x, s)] = Part(t, sub, x, s)
         /\ Child(t, x, s) # Child(t, x, 1 - s)
  BY ChildFacts

\* Only one node has x as a child, and on one side; the top is nobody's.
LEMMA OneParent ==
  ASSUME NEW t, NEW A, NEW top, NEW sub, Shape(t, A, top, sub)
  PROVE  /\ \A y, z \in A : \A r, s \in Sides :
              Child(t, y, r) = Child(t, z, s) /\ Child(t, z, s) # Null
              => y = z /\ r = s
         /\ \A y \in A, s \in Sides : top # Null => Child(t, y, s) # top
         /\ Null \notin A
<1>1. Null \notin A
  BY AddressAssumption DEF Shape, Nested
<1>2. ASSUME NEW y \in A, NEW z \in A, NEW r \in Sides, NEW s \in Sides,
             Child(t, y, r) = Child(t, z, s), Child(t, z, s) # Null
      PROVE  y = z /\ r = s
  <2>1. y = z
    BY <1>2, ChildrenFacts
  <2>2. r = s \/ r = 1 - s
    BY SideFacts
  <2>3. Child(t, z, s) # Child(t, z, 1 - s)
    BY <1>2, ChildrenFacts
  <2>. QED
    BY <1>2, <2>1, <2>2, <2>3
<1>3. ASSUME NEW y \in A, NEW s \in Sides, top # Null, Child(t, y, s) = top
      PROVE  FALSE
  <2>1. t[top].parent = y
    BY <1>3, ChildrenFacts
  <2>2. t[top].parent = Null
    BY <1>3 DEF Shape, Linked
  <2>. QED
    BY <1>1, <2>1, <2>2
<1>. QED
  BY <1>1, <1>2, <1>3

-----------------------------------------------------------------------------
(* Rotations.                                                              *)

\* In t2 the child p of x has become its parent: x has gone down on side s.
Turned(t, t2, A, x, p, s) ==
  LET o == Child(t, p, s)
  IN  /\ \A z \in A : t2[z].data = t[z].data
      /\ \A z \in A, d \in Sides :
           Child(t2, z, d) = IF z = p /\ d = s THEN x
                             ELSE IF z = x /\ d = 1 - s THEN o
                             ELSE IF Child(t, z, d) = x THEN p
                             ELSE Child(t, z, d)
      /\ \A z \in A :
           t2[z].parent = IF z = p THEN t[x].parent
                          ELSE IF z = x THEN p
                          ELSE IF z = o THEN x
                          ELSE t[z].parent

\* ... and so have the nodes at and below them.
Swapped(t, A, sub, sub2, x, p, s) ==
  /\ sub2 \in [A -> SUBSET A]
  /\ sub2[p] = sub[x]
  /\ sub2[x] = {y \in sub[x] : Toward(t[p].data, t[y].data, s)}
  /\ \A z \in A : z # x /\ z # p => sub2[z] = sub[z]

\* There are the sets of nodes below that a rotation leaves.
LEMMA SwappedExists ==
  ASSUME NEW t, NEW A, NEW top, NEW sub, Shape(t, A, top, sub),
         NEW x \in A, NEW s \in Sides, NEW p, p = Child(t, x, 1 - s), p # Null
  PROVE  \E sub2 : Swapped(t, A, sub, sub2, x, p, s)
<1>. DEFINE below == {y \in sub[x] : Toward(t[p].data, t[y].data, s)}
            sub2 == [sub EXCEPT ![p] = sub[x], ![x] = below]
<1>1. p \in A /\ p # x
  BY SideFacts, ChildFacts
<1>2. sub \in [A -> SUBSET A] /\ below \in SUBSET A
  BY DEF Shape, Nested
<1>3. Swapped(t, A, sub, sub2, x, p, s)
  BY <1>1, <1>2 DEF Swapped
<1>. QED
  BY <1>3

\* What lies between the pivot and the node that goes down.
LEMMA RotationFacts ==
  ASSUME NEW t, NEW A, NEW top, NEW sub, Shape(t, A, top, sub),
         NEW x \in A, NEW s \in Sides, NEW p, p = Child(t, x, 1 - s), p # Null,
         NEW sub2, Swapped(t, A, sub, sub2, x, p, s)
  PROVE  /\ p \in A /\ p # x /\ p \in sub[x] /\ x \notin sub[p]
         /\ x \in sub2[x] /\ p \notin sub2[x] /\ sub2[x] \subseteq sub[x]
         /\ Toward(t[p].data, t[x].data, s)
         /\ sub[p] = {y \in sub[x] : Toward(t[y].data, t[x].data, s)}
         /\ sub2[x] = Part(t, sub2, p, s)
         /\ Part(t, sub2, p, 1 - s) = Part(t, sub, p, 1 - s)
         /\ Part(t, sub2, x, s) = Part(t, sub, x, s)
         /\ Part(t, sub2, x, 1 - s) = Part(t, sub, p, s)
<1>0. \A z \in A : t[z].data \in Int
  BY DataAreInts
<1>1. 1 - s \in Sides /\ 1 - (1 - s) = s
  BY SideFacts
<1>2. /\ p \in A /\ p # x /\ p \in sub[x] /\ x \notin sub[p]
      /\ sub[p] = Part(t, sub, x, 1 - s) /\ Toward(t[x].data, t[p].data, 1 - s)
  BY <1>1, ChildFacts
<1>3. x \in sub[x] /\ sub[x] \subseteq A
  BY DEF Shape, Nested
<1>4. Toward(t[p].data, t[x].data, s)
  BY <1>0, <1>2, TowardFacts
<1>5. sub[p] = {y \in sub[x] : Toward(t[y].data, t[x].data, s)}
  BY <1>0, <1>2, <1>3, TowardFacts DEF Part
<1>6. sub2[p] = sub[x] /\ sub2[x] = {y \in sub[x] : Toward(t[p].data, t[y].data, s)}
  BY DEF Swapped
<1>7. x \in sub2[x] /\ p \notin sub2[x] /\ sub2[x] \subseteq sub[x]
  BY <1>0, <1>2, <1>3, <1>4, <1>6, TowardFacts
<1>8. sub2[x] = Part(t, sub2, p, s)
  BY <1>6 DEF Part
<1>9. Part(t, sub2, p, 1 - s) = Part(t, sub, p, 1 - s)
  BY <1>0, <1>2, <1>3, <1>4, <1>5, <1>6, TowardFacts DEF Part
<1>10. Part(t, sub2, x, s) = Part(t, sub, x, s)
  BY <1>0, <1>2, <1>3, <1>4, <1>6, TowardFacts DEF Part
<1>11. Part(t, sub2, x, 1 - s) = Part(t, sub, p, s)
  BY <1>0, <1>2, <1>3, <1>4, <1>5, <1>6, TowardFacts DEF Part
<1>. QED
  BY <1>2, <1>4, <1>5, <1>7, <1>8, <1>9, <1>10, <1>11

\* They are nested as those before it were.
LEMMA RotationNested ==
  ASSUME NEW t, NEW A, NEW top, NEW sub, Shape(t, A, top, sub),
         NEW x \in A, NEW s \in Sides, NEW p, p = Child(t, x, 1 - s), p # Null,
         NEW sub2, Swapped(t, A, sub, sub2, x, p, s)
  PROVE  Nested(A, sub2)
<1>0. \A z \in A : t[z].data \in Int
  BY DataAreInts
<1>1. /\ p \in A /\ p # x /\ p \in sub[x] /\ x \notin sub[p]
      /\ x \in sub2[x] /\ p \notin sub2[x] /\ sub2[x] \subseteq sub[x]
      /\ Toward(t[p].data, t[x].data, s)
      /\ sub[p] = {y \in sub[x] : Toward(t[y].data, t[x].data, s)}
  BY RotationFacts
<1>2. /\ sub2 \in [A -> SUBSET A]
      /\ sub2[p] = sub[x]
      /\ sub2[x] = {y \in sub[x] : Toward(t[p].data, t[y].data, s)}
      /\ \A z \in A : z # x /\ z # p => sub2[z] = sub[z]
  BY DEF Swapped
<1>3. /\ A \subseteq Nodes
      /\ \A y \in A : y \in sub[y]
      /\ \A y \in A : \A z \in sub[y] : z \in A /\ sub[z] \subseteq sub[y]
      /\ \A y \in A : \A z \in sub[y] : y \in sub[z] => y = z
      /\ \A y, z \in A : \A w \in sub[y] \cap sub[z] : y \in sub[z] \/ z \in sub[y]
  BY DEF Shape, Nested
<1>4. \A z \in A : p \in sub[z] => z = p \/ x \in sub[z]
  BY SideFacts, ChildFacts
\* The nodes that stay below x, those that do not, and what is below each.
<1>5. ASSUME NEW y \in sub[x], y # x, y # p
      PROVE  \/ y \in sub2[x] /\ sub[y] \subseteq sub2[x]
             \/ y \in sub[p] /\ sub[y] \cap sub2[x] = {} /\ y \notin sub2[x]
  <2>1. y \in A /\ t[y].data # t[x].data /\ t[y].data # t[p].data
    BY <1>1, <1>3, <1>5 DEF Shape, Ordered
  <2>2. CASE Toward(t[x].data, t[y].data, s)
    <3>1. y \in Part(t, sub, x, s)
      BY <2>2 DEF Part
    <3>2. Child(t, x, s) \in A /\ sub[Child(t, x, s)] = Part(t, sub, x, s)
      BY <3>1 DEF Shape, Linked
    <3>3. sub[y] \subseteq Part(t, sub, x, s)
      BY <1>3, <3>1, <3>2
    <3>4. Part(t, sub, x, s) \subseteq sub2[x]
      BY <1>0, <1>1, <1>2, <1>3, TowardFacts DEF Part
    <3>. QED
      BY <3>1, <3>3, <3>4
  <2>3. CASE ~Toward(t[x].data, t[y].data, s)
    <3>1. Toward(t[y].data, t[x].data, s)
      BY <1>0, <2>1, <2>3, TowardFacts
    <3>2. y \in sub[p]
      BY <1>1, <3>1
    <3>3. CASE Toward(t[p].data, t[y].data, s)
      <4>1. y \in Part(t, sub, p, s)
        BY <3>2, <3>3 DEF Part
      <4>2. Child(t, p, s) \in A /\ sub[Child(t, p, s)] = Part(t, sub, p, s)
        BY <1>1, <4>1 DEF Shape, Linked
      <4>3. sub[y] \subseteq Part(t, sub, p, s)
        BY <1>3, <4>1, <4>2
      <4>4. Part(t, sub, p, s) \subseteq sub2[x]
        BY <1>1, <1>2 DEF Part
      <4>. QED
        BY <4>1, <4>3, <4>4
    <3>4. CASE Toward(t[p].data, t[y].data, 1 - s)
      <4>0. 1 - s \in Sides
        BY SideFacts
      <4>1. y \in Part(t, sub, p, 1 - s)
        BY <3>2, <3>4 DEF Part
      <4>2. Child(t, p, 1 - s) \in A /\ sub[Child(t, p, 1 - s)] = Part(t, sub, p, 1 - s)
        BY <1>1, <4>0, <4>1 DEF Shape, Linked
      <4>3. sub[y] \subseteq Part(t, sub, p, 1 - s)
        BY <1>3, <4>1, <4>2
      <4>4. Part(t, sub, p, 1 - s) \cap sub2[x] = {}
        <5>. SUFFICES ASSUME NEW w \in Part(t, sub, p, 1 - s), w \in sub2[x] PROVE FALSE
          OBVIOUS
        <5>1. /\ w \in A /\ Toward(t[p].data, t[w].data, 1 - s)
              /\ Toward(t[p].data, t[w].data, s)
          BY <1>1, <1>2, <1>3 DEF Part
        <5>. QED
          BY <1>0, <1>1, <5>1, TowardFacts
      <4>. QED
        BY <3>2, <4>1, <4>3, <4>4
    <3>. QED
      BY <1>0, <1>1, <2>1, <3>3, <3>4, TowardFacts
  <2>. QED
    BY <2>2, <2>3
<1>6. \A y \in A : y \in sub2[y]
  BY <1>1, <1>2, <1>3
<1>7. ASSUME NEW w \in A, NEW y \in sub2[w] PROVE sub2[y] \subseteq sub2[w]
  <2>1. CASE w = p
    BY <1>1, <1>2, <1>3, <2>1
  <2>2. CASE w = x
    <3>1. y \in sub[x] /\ y # p /\ y \in A
      BY <1>1, <1>3, <1>7, <2>2
    <3>2. CASE y = x
      BY <2>2, <3>2
    <3>3. CASE y # x
      BY <1>2, <1>5, <1>7, <2>2, <3>1, <3>3
    <3>. QED
      BY <3>2, <3>3
  <2>3. CASE w # p /\ w # x
    <3>1. sub2[w] = sub[w] /\ y \in sub[w] /\ y \in A /\ sub[y] \subseteq sub[w]
      BY <1>2, <1>3, <1>7, <2>3
    <3>2. CASE y = p
      BY <1>2, <1>3, <1>4, <2>3, <3>1, <3>2
    <3>3. CASE y = x
      BY <1>1, <3>1, <3>3
    <3>4. CASE y # p /\ y # x
      BY <1>2, <3>1, <3>4
    <3>. QED
      BY <3>2, <3>3, <3>4
  <2>. QED
    BY <2>1, <2>2, <2>3
<1>8. ASSUME NEW w \in A, NEW y \in sub2[w], w \in sub2[y] PROVE w = y
  <2>0. y \in A
    BY <1>2, <1>8
  <2>1. CASE w # x /\ w # p /\ y # x /\ y # p
    BY <1>2, <1>3, <1>8, <2>0, <2>1
  <2>2. CASE w = p /\ y # p
    <3>1. y # x
      BY <1>1, <1>8, <2>2
    <3>2. y \in sub[x] /\ p \in sub[y]
      BY <1>2, <1>8, <2>0, <2>2, <3>1
    <3>. QED
      BY <1>3, <1>4, <2>0, <2>2, <3>1, <3>2
  <2>3. CASE y = p /\ w # p
    <3>1. w # x
      BY <1>1, <1>8, <2>3
    <3>2. w \in sub[x] /\ p \in sub[w]
      BY <1>2, <1>8, <2>3, <3>1
    <3>. QED
      BY <1>3, <1>4, <2>3, <3>1, <3>2
  <2>4. CASE w = x /\ y # p /\ y # x
    BY <1>1, <1>2, <1>3, <1>8, <2>0, <2>4
  <2>5. CASE y = x /\ w # p /\ w # x
    BY <1>1, <1>2, <1>3, <1>8, <2>5
  <2>. QED
    BY <2>1, <2>2, <2>3, <2>4, <2>5
<1>9. ASSUME NEW w \in A, NEW z \in A, NEW y \in sub2[w] \cap sub2[z]
      PROVE  w \in sub2[z] \/ z \in sub2[w]
  <2>1. ASSUME NEW a \in A, a # x, a # p, y \in sub[a], y \in sub[x]
        PROVE  p \in sub[a] \/ a \in sub2[p]
    <3>1. x \in sub[a] \/ a \in sub[x]
      BY <1>3, <2>1
    <3>2. x \in sub[a] => p \in sub[a]
      BY <1>1, <1>3, <2>1
    <3>. QED
      BY <1>2, <3>1, <3>2
  <2>2. ASSUME NEW a \in A, a # x, a # p, y \in sub[a], y \in sub2[x]
        PROVE  x \in sub[a] \/ a \in sub2[x]
    <3>1. x \in sub[a] \/ a \in sub[x]
      BY <1>1, <1>3, <2>2
    <3>2. CASE a \in sub[x]
      <4>1. a \in sub2[x] \/ sub[a] \cap sub2[x] = {}
        BY <1>5, <2>2, <3>2
      <4>. QED
        BY <2>2, <4>1
    <3>. QED
      BY <3>1, <3>2
  <2>3. x \in sub2[p] /\ p \in sub2[p]
    BY <1>1, <1>2, <1>3
  <2>4. CASE w # x /\ w # p /\ z # x /\ z # p
    BY <1>2, <1>3, <1>9, <2>4
  <2>5. CASE w \in {x, p} /\ z \in {x, p}
    BY <1>1, <2>3, <2>5
  <2>6. CASE w \in {x, p} /\ z # x /\ z # p
    BY <1>2, <1>9, <2>1, <2>2, <2>6
  <2>7. CASE z \in {x, p} /\ w # x /\ w # p
    BY <1>2, <1>9, <2>1, <2>2, <2>7
  <2>. QED
    BY <2>4, <2>5, <2>6, <2>7
<1>. QED
  BY <1>2, <1>3, <1>6, <1>7, <1>8, <1>9 DEF Nested

\* The nodes are linked as these sets say.
LEMMA RotationLinked ==
  ASSUME NEW t, NEW A, NEW top, NEW sub, Shape(t, A, top, sub),
         NEW x \in A, NEW s \in Sides, NEW p, p = Child(t, x, 1 - s), p # Null,
         NEW sub2, Swapped(t, A, sub, sub2, x, p, s),
         NEW t2, Turned(t, t2, A, x, p, s)
  PROVE  Linked(t2, A, IF x = top THEN p ELSE top, sub2)
<1>. DEFINE o == Child(t, p, s)
            top2 == IF x = top THEN p ELSE top
<1>1. /\ p \in A /\ p # x /\ p \in sub[x] /\ x \notin sub[p]
      /\ sub2[x] = Part(t, sub2, p, s)
      /\ Part(t, sub2, p, 1 - s) = Part(t, sub, p, 1 - s)
      /\ Part(t, sub2, x, s) = Part(t, sub, x, s)
      /\ Part(t, sub2, x, 1 - s) = Part(t, sub, p, s)
  BY RotationFacts
<1>2. /\ \A z \in A, d \in Sides :
           Child(t2, z, d) = IF z = p /\ d = s THEN x
                             ELSE IF z = x /\ d = 1 - s THEN o
                             ELSE IF Child(t, z, d) = x THEN p
                             ELSE Child(t, z, d)
      /\ \A z \in A :
           t2[z].parent = IF z = p THEN t[x].parent
                          ELSE IF z = x THEN p
                          ELSE IF z = o THEN x
                          ELSE t[z].parent
  BY DEF Turned
<1>3. /\ sub2 \in [A -> SUBSET A] /\ sub2[p] = sub[x]
      /\ \A z \in A : z # x /\ z # p => sub2[z] = sub[z]
  BY DEF Swapped
<1>4. \A z \in A, d \in Sides : Part(t2, sub2, z, d) = Part(t, sub2, z, d)
  <2>1. \A z \in A : sub2[z] \subseteq A /\ t2[z].data = t[z].data
    BY <1>3 DEF Turned
  <2>. QED
    BY <2>1 DEF Part
<1>5. \A z \in A, d \in Sides : z # x /\ z # p =>
        Part(t, sub2, z, d) = Part(t, sub, z, d)
  BY <1>3 DEF Part
<1>6. /\ s \in Sides /\ 1 - s \in Sides /\ 1 - s # s
      /\ \A d \in Sides : d = s \/ d = 1 - s
  BY SideFacts
<1>7. /\ \A y, z \in A : \A r, d \in Sides :
           Child(t, y, r) = Child(t, z, d) /\ Child(t, z, d) # Null
           => y = z /\ r = d
      /\ \A y \in A, d \in Sides : top # Null => Child(t, y, d) # top
      /\ Null \notin A
  BY OneParent
<1>8. /\ \A z \in A, d \in Sides : Child(t, z, d) # Null =>
           /\ Child(t, z, d) \in A /\ Child(t, z, d) # z
           /\ t[Child(t, z, d)].parent = z
           /\ sub[Child(t, z, d)] = Part(t, sub, z, d)
      /\ \A z \in A, d \in Sides : Child(t, z, d) = Null => Part(t, sub, z, d) = {}
  BY ChildrenFacts DEF Shape, Linked
<1>9. \A d \in Sides : Child(t, p, d) # x
  <2>1. \A d \in Sides : Child(t, p, d) # Null => Child(t, p, d) \in sub[p]
    BY <1>1, ChildFacts
  <2>2. \A y \in A : y \in sub[y] /\ sub[p] \subseteq A
    BY <1>1 DEF Shape, Nested
  <2>3. \A d \in Sides : Child(t, p, d) = x => x \in sub[p]
    <3>. SUFFICES ASSUME NEW d \in Sides, Child(t, p, d) = x PROVE x \in sub[p]
      OBVIOUS
    <3>1. x # Null
      BY <1>7
    <3>. QED
      BY <1>1, <3>1, ChildFacts
  <2>. QED
    BY <1>1, <2>3
<1>10. ASSUME NEW z \in A, NEW d \in Sides
       PROVE  LET c == Child(t2, z, d)
              IN  IF c = Null THEN Part(t2, sub2, z, d) = {}
                  ELSE c \in A /\ t2[c].parent = z /\ sub2[c] = Part(t2, sub2, z, d)
  <2>1. CASE z = p /\ d = s
    BY <1>1, <1>2, <1>4, <1>7, <2>1
  <2>2. CASE z = x /\ d = 1 - s
    <3>1. Child(t2, z, d) = o
      BY <1>1, <1>2, <2>2
    <3>2. Part(t2, sub2, z, d) = Part(t, sub, p, s)
      BY <1>1, <1>4, <2>2
    <3>3. CASE o = Null
      BY <1>1, <1>8, <3>1, <3>2, <3>3
    <3>4. CASE o # Null
      <4>1. o \in A /\ o # p /\ o # x /\ sub[o] = Part(t, sub, p, s)
        BY <1>1, <1>8, <1>9, <3>4
      <4>. QED
        BY <1>2, <1>3, <2>2, <3>1, <3>2, <3>4, <4>1
    <3>. QED
      BY <3>3, <3>4
  <2>3. CASE Child(t, z, d) = x
    <3>1. z # x /\ z # p
      BY <1>7, <1>8, <1>9, <2>3
    <3>2. Child(t2, z, d) = p
      BY <1>2, <2>3, <3>1
    <3>3. t2[p].parent = z
      BY <1>1, <1>2, <1>7, <1>8, <2>3
    <3>4. Part(t2, sub2, z, d) = sub[x]
      BY <1>4, <1>5, <1>7, <1>8, <2>3, <3>1
    <3>. QED
      BY <1>1, <1>3, <1>7, <3>2, <3>3, <3>4
  <2>4. CASE Child(t, z, d) # x /\ ~(z = p /\ d = s) /\ ~(z = x /\ d = 1 - s)
    <3>1. Child(t2, z, d) = Child(t, z, d)
      BY <1>2, <2>4
    <3>2. Part(t2, sub2, z, d) = Part(t, sub, z, d)
      BY <1>1, <1>4, <1>5, <1>6, <2>4
    <3>3. CASE Child(t, z, d) = Null
      BY <1>8, <3>1, <3>2, <3>3
    <3>4. CASE Child(t, z, d) # Null
      <4>1. Child(t, z, d) # p /\ Child(t, z, d) # o
        BY <1>1, <1>6, <1>7, <2>4, <3>4
      <4>. QED
        BY <1>2, <1>3, <1>8, <2>4, <3>1, <3>2, <3>4, <4>1
    <3>. QED
      BY <3>3, <3>4
  <2>. QED
    BY <2>1, <2>2, <2>3, <2>4
<1>11. \A z \in A \ {top} :
         t[z].parent \in A /\ \E d \in Sides : Child(t, t[z].parent, d) = z
  BY DEF Shape, Linked
<1>12. ASSUME NEW z \in A, z # top2
       PROVE  t2[z].parent \in A /\ \E d \in Sides : Child(t2, t2[z].parent, d) = z
  <2>1. CASE z = x
    BY <1>1, <1>2, <1>6, <2>1
  <2>2. CASE z = p
    <3>1. x # top
      BY <1>12, <2>2
    <3>2. PICK d \in Sides : t[x].parent \in A /\ Child(t, t[x].parent, d) = x
      BY <1>11, <3>1
    <3>3. t[x].parent # p /\ t[x].parent # x
      BY <1>7, <1>8, <1>9, <3>2
    <3>. QED
      BY <1>1, <1>2, <2>2, <3>2, <3>3
  <2>3. CASE z = o /\ z # x /\ z # p
    BY <1>1, <1>2, <1>6, <2>3
  <2>4. CASE z # o /\ z # x /\ z # p
    <3>1. z # top
      BY <1>12, <2>4
    <3>2. PICK d \in Sides : t[z].parent \in A /\ Child(t, t[z].parent, d) = z
      BY <1>11, <3>1
    <3>3. t2[z].parent = t[z].parent
      BY <1>2, <2>4
    <3>4. ~(t[z].parent = p /\ d = s) /\ ~(t[z].parent = x /\ d = 1 - s)
      BY <2>4, <3>2
    <3>. QED
      BY <1>2, <2>4, <3>2, <3>3, <3>4
  <2>. QED
    BY <2>1, <2>2, <2>3, <2>4
<1>13. top2 \in A /\ t2[top2].parent = Null /\ sub2[top2] = A
  <2>1. top \in A /\ t[top].parent = Null /\ sub[top] = A
    BY DEF Shape, Linked
  <2>2. CASE x = top
    BY <1>1, <1>2, <1>3, <2>1, <2>2
  <2>3. CASE x # top
    <3>1. top # p /\ top # o
      BY <1>1, <1>6, <1>7, <2>1
    <3>. QED
      BY <1>2, <1>3, <2>1, <2>3, <3>1
  <2>. QED
    BY <2>2, <2>3
<1>. QED
  BY <1>10, <1>12, <1>13 DEF Linked

\* They are still in order.
LEMMA RotationOrdered ==
  ASSUME NEW t, NEW A, NEW top, NEW sub, Shape(t, A, top, sub),
         NEW x \in A, NEW s \in Sides, NEW p, p = Child(t, x, 1 - s), p # Null,
         NEW sub2, Swapped(t, A, sub, sub2, x, p, s),
         NEW t2, Turned(t, t2, A, x, p, s)
  PROVE  Ordered(t2, A, sub2)
<1>0. \A z \in A : t[z].data \in Data /\ t[z].data \in Int /\ t2[z].data = t[z].data
  BY DataAreInts DEF Turned
<1>1. p \in A /\ sub2[x] \subseteq sub[x]
  BY RotationFacts
<1>2. /\ sub2 \in [A -> SUBSET A] /\ sub2[p] = sub[x]
      /\ sub2[x] = {y \in sub[x] : Toward(t[p].data, t[y].data, s)}
      /\ \A z \in A : z # x /\ z # p => sub2[z] = sub[z]
  BY DEF Swapped
<1>3. /\ \A y, z \in A : t[y].data = t[z].data => y = z
      /\ \A y, z \in A : \A v, w \in sub[y] :
           t[v].data < t[z].data /\ t[z].data < t[w].data => z \in sub[y]
  BY DEF Shape, Ordered
<1>4. ASSUME NEW y \in A, NEW z \in A, NEW v \in sub2[y], NEW w \in sub2[y],
             t[v].data < t[z].data, t[z].data < t[w].data
      PROVE  z \in sub2[y]
  <2>1. CASE y # x /\ y # p
    BY <1>2, <1>3, <1>4, <2>1
  <2>2. CASE y = p
    BY <1>2, <1>3, <1>4, <2>2
  <2>3. CASE y = x
    <3>1. z \in sub[x]
      BY <1>1, <1>3, <1>4, <2>3
    <3>2. Toward(t[p].data, t[v].data, s) /\ Toward(t[p].data, t[w].data, s)
      BY <1>2, <1>4, <2>3
    <3>3. v \in A /\ w \in A
      BY <1>2, <1>4
    <3>4. Toward(t[p].data, t[z].data, s)
      BY <1>0, <1>1, <1>4, <3>2, <3>3 DEF Toward
    <3>. QED
      BY <1>2, <2>3, <3>1, <3>4
  <2>. QED
    BY <2>1, <2>2, <2>3
<1>5. ASSUME NEW y \in A, NEW z \in A, NEW v \in sub2[y], NEW w \in sub2[y],
             t2[v].data < t2[z].data, t2[z].data < t2[w].data
      PROVE  z \in sub2[y]
  <2>1. v \in A /\ w \in A
    BY <1>2
  <2>. QED
    BY <1>0, <1>4, <1>5, <2>1
<1>. QED
  BY <1>0, <1>3, <1>5 DEF Ordered

\* A rotation leaves a tree of the same nodes in the same order.
LEMMA RotationShape ==
  ASSUME NEW t, NEW A, NEW top, NEW sub, Shape(t, A, top, sub),
         NEW x \in A, NEW s \in Sides, NEW p, p = Child(t, x, 1 - s), p # Null,
         NEW t2, Turned(t, t2, A, x, p, s)
  PROVE  \E sub2 : /\ Swapped(t, A, sub, sub2, x, p, s)
                   /\ Shape(t2, A, IF x = top THEN p ELSE top, sub2)
<1>1. PICK sub2 : Swapped(t, A, sub, sub2, x, p, s)
  BY SwappedExists
<1>2. Nested(A, sub2)
  BY <1>1, RotationNested
<1>3. Linked(t2, A, IF x = top THEN p ELSE top, sub2)
  BY <1>1, RotationLinked
<1>4. Ordered(t2, A, sub2)
  BY <1>1, RotationOrdered
<1>. QED
  BY <1>1, <1>2, <1>3, <1>4 DEF Shape

-----------------------------------------------------------------------------
(* A node that is added, removed, or given another datum.                  *)

Added(t, t2, A, p, d, n, k) ==
  /\ \A z \in A : t2[z].data = t[z].data /\ t2[z].parent = t[z].parent
  /\ t2[n].data = k /\ t2[n].parent = p
  /\ \A e \in Sides : Child(t2, n, e) = Null
  /\ \A z \in A, e \in Sides :
       Child(t2, z, e) = IF z = p /\ e = d THEN n ELSE Child(t, z, e)

\* A leaf can be added where a search for its datum has come to nothing.
LEMMA AddedShape ==
  ASSUME NEW t, NEW A, NEW top, NEW sub, Shape(t, A, top, sub),
         NEW p \in A, NEW d \in Sides, Child(t, p, d) = Null,
         NEW n \in Nodes, n \notin A, NEW k \in Data,
         \A z \in A : t[z].data # k,
         Path(t, A, sub, p, k), Toward(t[p].data, k, d),
         NEW t2, Added(t, t2, A, p, d, n, k)
  PROVE  \E sub2 : Shape(t2, A \cup {n}, top, sub2)
<1>. DEFINE B == A \cup {n}
            sub2 == [z \in B |-> IF z = n THEN {n}
                                 ELSE IF p \in sub[z] THEN sub[z] \cup {n} ELSE sub[z]]
<1>1. /\ A \subseteq Nodes /\ sub \in [A -> SUBSET A]
      /\ \A y \in A : y \in sub[y]
      /\ \A y \in A : \A z \in sub[y] : z \in A /\ sub[z] \subseteq sub[y]
      /\ \A y \in A : \A z \in sub[y] : y \in sub[z] => y = z
      /\ \A y, z \in A : \A w \in sub[y] \cap sub[z] : y \in sub[z] \/ z \in sub[y]
  BY DEF Shape, Nested
<1>2. /\ n \in B /\ sub2[n] = {n} /\ A \subseteq B
      /\ \A z \in B : z # n => z \in A
      /\ \A z \in A : sub2[z] = IF p \in sub[z] THEN sub[z] \cup {n} ELSE sub[z]
      /\ \A z \in A : n \notin sub[z]
  BY <1>1
<1>3. sub2 \in [B -> SUBSET B]
  BY <1>1
<1>. HIDE DEF sub2
<1>a. /\ \A y : y \in B <=> y \in A \/ y = n
      /\ \A y : y \in sub2[n] <=> y = n
      /\ \A z, y : z \in A => (y \in sub2[z] <=> y \in sub[z] \/ (y = n /\ p \in sub[z]))
      /\ n \notin A
  BY <1>2
<1>. HIDE DEF B
<1>4. \A z \in B : z \in sub2[z]
  BY <1>1, <1>a
<1>5. ASSUME NEW y \in B, NEW z \in sub2[y], NEW w \in sub2[z]
      PROVE  w \in sub2[y]
  BY <1>1, <1>a
<1>6. ASSUME NEW y \in B, NEW z \in sub2[y], y \in sub2[z]
      PROVE  y = z
  BY <1>1, <1>a, <1>6
<1>7. ASSUME NEW y \in B, NEW z \in B, NEW w \in sub2[y] \cap sub2[z]
      PROVE  y \in sub2[z] \/ z \in sub2[y]
  <2>1. CASE y = n \/ z = n
    BY <1>a, <1>7, <2>1
  <2>2. CASE y # n /\ z # n /\ w = n
    BY <1>1, <1>a, <2>2
  <2>3. CASE y # n /\ z # n /\ w # n
    BY <1>1, <1>a, <2>3
  <2>. QED
    BY <2>1, <2>2, <2>3
<1>8. Nested(B, sub2)
  <2>1. B \subseteq Nodes
    BY <1>1, <1>a
  <2>. QED
    BY <1>3, <1>4, <1>5, <1>6, <1>7, <2>1 DEF Nested
<1>10. /\ \A z \in A : t[z].data \in Data /\ t[z].data \in Int
       /\ k \in Int
       /\ \A z \in A : t2[z].data = t[z].data /\ t2[z].parent = t[z].parent
       /\ t2[n].data = k /\ t2[n].parent = p
  BY DataAreInts, DataAssumption DEF Added
<1>11. Null \notin A /\ n # Null /\ Part(t, sub, p, d) = {}
  <2>1. Part(t, sub, p, d) = {}
    BY DEF Shape, Linked
  <2>2. Null \notin A
    BY OneParent
  <2>. QED
    BY <2>1, <2>2, AddressAssumption
<1>12. \A z, y \in A : t[z].data = t[y].data => z = y
  BY DEF Shape, Ordered
\* A node above p has the new datum on the side on which it has p.
<1>13. ASSUME NEW z \in A, p \in sub[z], z # p, NEW e \in Sides
       PROVE  Toward(t[z].data, k, e) <=> Toward(t[z].data, t[p].data, e)
  <2>1. z \notin sub[p]
    BY <1>1, <1>13
  <2>2. ~ \/ t[p].data < t[z].data /\ t[z].data < k
          \/ k < t[z].data /\ t[z].data < t[p].data
    BY <1>13, <2>1 DEF Path
  <2>3. t[z].data # k /\ t[z].data # t[p].data
    BY <1>12, <1>13
  <2>. QED
    BY <1>10, <2>2, <2>3 DEF Toward
<1>14. \A z \in A, e \in Sides :
         /\ Child(t, z, e) # Null =>
              /\ Child(t, z, e) \in A /\ Child(t, z, e) # z
              /\ t[Child(t, z, e)].parent = z
              /\ sub[Child(t, z, e)] = Part(t, sub, z, e)
         /\ Child(t, z, e) = Null => Part(t, sub, z, e) = {}
  BY ChildrenFacts DEF Shape, Linked
<1>15. \A z \in A, e \in Sides :
         Child(t2, z, e) = IF z = p /\ e = d THEN n ELSE Child(t, z, e)
  BY DEF Added
<1>16. ASSUME NEW z \in A, NEW e \in Sides
       PROVE  Part(t2, sub2, z, e) =
                IF p \in sub[z] /\ Toward(t[z].data, k, e)
                THEN Part(t, sub, z, e) \cup {n} ELSE Part(t, sub, z, e)
  <2>1. Part(t2, sub2, z, e) = {y \in sub2[z] : Toward(t[z].data, t2[y].data, e)}
    BY <1>10 DEF Part
  <2>2. \A y \in sub[z] : y \in A /\ t2[y].data = t[y].data
    BY <1>1, <1>10
  <2>. QED
    BY <1>2, <1>10, <2>1, <2>2 DEF Part
<1>17. ASSUME NEW z \in A, NEW e \in Sides
       PROVE  LET c == Child(t2, z, e)
              IN  IF c = Null THEN Part(t2, sub2, z, e) = {}
                  ELSE c \in B /\ t2[c].parent = z /\ sub2[c] = Part(t2, sub2, z, e)
  <2>1. CASE z = p /\ e = d
    <3>1. Child(t2, z, e) = n
      BY <1>15, <2>1
    <3>2. p \in sub[z] /\ Toward(t[z].data, k, e)
      BY <1>1, <2>1
    <3>3. Part(t2, sub2, z, e) = {n}
      BY <1>11, <1>16, <2>1, <3>2
    <3>. QED
      BY <1>2, <1>10, <1>11, <2>1, <3>1, <3>3
  <2>2. CASE ~(z = p /\ e = d)
    <3>0. Child(t2, z, e) = Child(t, z, e)
      BY <1>15, <2>2
    <3>1. p \in sub[z] =>
            (Toward(t[z].data, k, e) <=> p \in Part(t, sub, z, e))
      <4>1. CASE z = p
        <5>1. e = 1 - d
          BY <2>2, <4>1, SideFacts
        <5>2. ~Toward(t[p].data, k, e)
          BY <1>10, <5>1, TowardFacts
        <5>3. ~Toward(t[p].data, t[p].data, e)
          BY <1>10, TowardFacts
        <5>. QED
          BY <4>1, <5>2, <5>3 DEF Part
      <4>2. CASE z # p
        BY <1>13, <4>2 DEF Part
      <4>. QED
        BY <4>1, <4>2
    <3>2. CASE Child(t, z, e) = Null
      BY <1>14, <1>16, <3>0, <3>1, <3>2
    <3>3. CASE Child(t, z, e) # Null
      <4>1. /\ Child(t, z, e) \in A /\ t2[Child(t, z, e)].parent = z
            /\ sub[Child(t, z, e)] = Part(t, sub, z, e)
        BY <1>10, <1>14, <3>3
      <4>2. p \in Part(t, sub, z, e) => p \in sub[z]
        BY DEF Part
      <4>3. sub2[Child(t, z, e)] = IF p \in Part(t, sub, z, e)
                                   THEN Part(t, sub, z, e) \cup {n}
                                   ELSE Part(t, sub, z, e)
        BY <1>2, <4>1
      <4>4. sub2[Child(t, z, e)] = Part(t2, sub2, z, e)
        BY <1>16, <3>1, <4>2, <4>3
      <4>. QED
        BY <1>2, <3>0, <3>3, <4>1, <4>4
    <3>. QED
      BY <3>2, <3>3
  <2>. QED
    BY <2>1, <2>2
<1>18. ASSUME NEW e \in Sides
       PROVE  Child(t2, n, e) = Null /\ Part(t2, sub2, n, e) = {}
  <2>1. ~Toward(k, k, e)
    BY <1>10, TowardFacts
  <2>. QED
    BY <1>2, <1>10, <2>1 DEF Part, Added
<1>19. \A z \in B \ {top} :
         t2[z].parent \in B /\ \E e \in Sides : Child(t2, t2[z].parent, e) = z
  <2>1. t2[n].parent \in A /\ Child(t2, t2[n].parent, d) = n
    BY <1>10, <1>15
  <2>2. ASSUME NEW z \in A, z # top
        PROVE  t2[z].parent \in A /\ \E e \in Sides : Child(t2, t2[z].parent, e) = z
    <3>1. PICK e \in Sides : t[z].parent \in A /\ Child(t, t[z].parent, e) = z
      BY <2>2 DEF Shape, Linked
    <3>2. ~(t[z].parent = p /\ e = d)
      BY <1>11, <2>2, <3>1
    <3>. QED
      BY <1>10, <1>15, <3>1, <3>2
  <2>. QED
    BY <1>2, <2>1, <2>2
<1>20. top \in B /\ t2[top].parent = Null /\ sub2[top] = B
  <2>1. top \in A /\ t[top].parent = Null /\ sub[top] = A
    BY DEF Shape, Linked
  <2>. QED
    BY <1>2, <1>10, <2>1
<1>21. Linked(t2, B, top, sub2)
  <2>1. \A z \in B, e \in Sides :
          LET c == Child(t2, z, e)
          IN  IF c = Null THEN Part(t2, sub2, z, e) = {}
              ELSE c \in B /\ t2[c].parent = z /\ sub2[c] = Part(t2, sub2, z, e)
    BY <1>2, <1>17, <1>18
  <2>. QED
    BY <1>19, <1>20, <2>1 DEF Linked
<1>22. \A y, z \in A : \A v, w \in sub[y] :
         t[v].data < t[z].data /\ t[z].data < t[w].data => z \in sub[y]
  BY DEF Shape, Ordered
\* Nothing lies between the datum of p and the new one on its side of p.
<1>23. \A z \in A :
         \/ t[p].data < t[z].data /\ t[z].data < k
         \/ k < t[z].data /\ t[z].data < t[p].data
         => FALSE
  <2>. SUFFICES ASSUME NEW z \in A,
                       \/ t[p].data < t[z].data /\ t[z].data < k
                       \/ k < t[z].data /\ t[z].data < t[p].data
                PROVE  FALSE
    OBVIOUS
  <2>1. z \in sub[p]
    BY DEF Path
  <2>2. Toward(t[p].data, t[z].data, d)
    BY <1>10 DEF Toward
  <2>. QED
    BY <1>11, <2>1, <2>2 DEF Part
<1>24. ASSUME NEW y \in A, NEW z \in A, NEW w \in sub[y], p \in sub[y],
              \/ k < t[z].data /\ t[z].data < t[w].data
              \/ t[w].data < t[z].data /\ t[z].data < k
       PROVE  z \in sub[y]
  <2>1. CASE z = p
    BY <1>24, <2>1
  <2>2. CASE z # p
    <3>1. t[z].data # t[p].data /\ w \in A
      BY <1>1, <1>12, <2>2
    <3>2. \/ t[p].data < t[z].data /\ t[z].data < t[w].data
          \/ t[w].data < t[z].data /\ t[z].data < t[p].data
      BY <1>10, <1>23, <1>24, <3>1
    <3>. QED
      BY <1>22, <1>24, <3>2
  <2>. QED
    BY <2>1, <2>2
<1>25. ASSUME NEW y \in A, NEW v \in sub[y], NEW w \in sub[y],
              t[v].data < k, k < t[w].data
       PROVE  p \in sub[y]
  <2>1. v \in A /\ w \in A
    BY <1>1
  <2>2. ~(t[p].data < t[v].data) /\ ~(t[w].data < t[p].data)
    BY <1>10, <1>23, <1>25, <2>1
  <2>3. CASE p = v \/ p = w
    BY <2>3
  <2>4. CASE p # v /\ p # w
    <3>1. t[v].data < t[p].data /\ t[p].data < t[w].data
      BY <1>10, <1>12, <2>1, <2>2, <2>4
    <3>. QED
      BY <1>22, <3>1
  <2>. QED
    BY <2>3, <2>4
<1>26. ASSUME NEW y \in B, NEW z \in B, NEW v \in sub2[y], NEW w \in sub2[y],
              t2[v].data < t2[z].data, t2[z].data < t2[w].data
       PROVE  z \in sub2[y]
  <2>1. y \in A
    <3>. SUFFICES ASSUME y = n PROVE FALSE
      BY <1>2
    <3>1. v = n /\ w = n
      BY <1>2
    <3>2. t2[z].data \in Int
      BY <1>2, <1>10
    <3>. QED
      BY <1>10, <1>26, <3>1, <3>2
  <2>2. sub2[y] = IF p \in sub[y] THEN sub[y] \cup {n} ELSE sub[y]
    BY <1>2, <2>1
  <2>3. \A u \in sub[y] : u \in A /\ t2[u].data = t[u].data /\ t[u].data \in Int
    BY <1>1, <1>10, <2>1
  <2>4. CASE v # n /\ w # n /\ z # n
    <3>1. z \in A /\ v \in sub[y] /\ w \in sub[y]
      BY <1>2, <2>2, <2>4
    <3>2. t[v].data < t[z].data /\ t[z].data < t[w].data
      BY <1>10, <1>26, <2>3, <3>1
    <3>. QED
      BY <1>22, <2>1, <2>2, <3>1, <3>2
  <2>5. CASE v # n /\ w # n /\ z = n
    <3>1. v \in sub[y] /\ w \in sub[y]
      BY <1>2, <2>2, <2>5
    <3>2. t[v].data < k /\ k < t[w].data
      BY <1>10, <1>26, <2>3, <2>5, <3>1
    <3>. QED
      BY <1>25, <2>1, <2>2, <2>5, <3>1, <3>2
  <2>6. CASE v = n /\ w # n /\ z # n
    <3>1. p \in sub[y] /\ w \in sub[y] /\ z \in A
      BY <1>2, <2>1, <2>2, <2>6
    <3>2. k < t[z].data /\ t[z].data < t[w].data
      BY <1>10, <1>26, <2>3, <2>6, <3>1
    <3>. QED
      BY <1>24, <2>1, <2>2, <3>1, <3>2
  <2>7. CASE w = n /\ v # n /\ z # n
    <3>1. p \in sub[y] /\ v \in sub[y] /\ z \in A
      BY <1>2, <2>1, <2>2, <2>7
    <3>2. t[v].data < t[z].data /\ t[z].data < k
      BY <1>10, <1>26, <2>3, <2>7, <3>1
    <3>. QED
      BY <1>24, <2>1, <2>2, <3>1, <3>2
  <2>8. CASE z = n /\ (v = n \/ w = n)
    BY <1>10, <1>26, <2>8
  <2>9. CASE v = n /\ w = n
    <3>1. t2[z].data \in Int
      BY <1>2, <1>10
    <3>. QED
      BY <1>10, <1>26, <2>9, <3>1
  <2>. QED
    BY <2>4, <2>5, <2>6, <2>7, <2>8, <2>9
<1>27. Ordered(t2, B, sub2)
  <2>1. \A z \in B : t2[z].data \in Data
    BY <1>2, <1>10
  <2>2. \A y, z \in B : t2[y].data = t2[z].data => y = z
    BY <1>2, <1>10, <1>12
  <2>. QED
    BY <1>26, <2>1, <2>2 DEF Ordered
<1>. QED
  BY <1>8, <1>21, <1>27 DEF Shape, B

Dropped(t, t2, A, n) ==
  \A z \in A \ {n} :
    /\ t2[z].data = t[z].data /\ t2[z].parent = t[z].parent
    /\ \A e \in Sides :
         Child(t2, z, e) = IF Child(t, z, e) = n THEN Null ELSE Child(t, z, e)

\* Nothing is below a node without children.
LEMMA LeafIsAlone ==
  ASSUME NEW t, NEW A, NEW top, NEW sub, Shape(t, A, top, sub),
         NEW n \in A, \A e \in Sides : Child(t, n, e) = Null
  PROVE  sub[n] = {n}
<1>1. n \in sub[n] /\ sub[n] \subseteq A
  BY DEF Shape, Nested
<1>2. ASSUME NEW y \in sub[n], y # n PROVE FALSE
  <2>1. y \in A /\ t[y].data # t[n].data
    BY <1>1, <1>2 DEF Shape, Ordered
  <2>2. t[y].data \in Int /\ t[n].data \in Int
    BY <2>1, DataAreInts
  <2>3. Toward(t[n].data, t[y].data, LEFT) \/ Toward(t[n].data, t[y].data, RIGHT)
    BY <2>1, <2>2 DEF Toward, LEFT, RIGHT
  <2>4. \E e \in Sides : y \in Part(t, sub, n, e)
    BY <2>3 DEF Part, Sides
  <2>5. \A e \in Sides : Part(t, sub, n, e) = {}
    BY DEF Shape, Linked
  <2>. QED
    BY <2>4, <2>5
<1>. QED
  BY <1>1, <1>2

\* A node without children can be removed.
LEMMA DroppedShape ==
  ASSUME NEW t, NEW A, NEW top, NEW sub, Shape(t, A, top, sub),
         NEW n \in A, \A e \in Sides : Child(t, n, e) = Null,
         NEW t2, Dropped(t, t2, A, n)
  PROVE  \E sub2 : Shape(t2, A \ {n}, IF n = top THEN Null ELSE top, sub2)
<1>. DEFINE B == A \ {n}
            sub2 == [z \in B |-> sub[z] \ {n}]
            top2 == IF n = top THEN Null ELSE top
<1>1. /\ A \subseteq Nodes /\ sub \in [A -> SUBSET A]
      /\ \A y \in A : y \in sub[y]
      /\ \A y \in A : \A z \in sub[y] : z \in A /\ sub[z] \subseteq sub[y]
      /\ \A y \in A : \A z \in sub[y] : y \in sub[z] => y = z
      /\ \A y, z \in A : \A w \in sub[y] \cap sub[z] : y \in sub[z] \/ z \in sub[y]
  BY DEF Shape, Nested
<1>2. sub2 \in [B -> SUBSET B]
  BY <1>1
<1>3. \A z, y : z \in B => (y \in sub2[z] <=> y \in sub[z] /\ y # n)
  OBVIOUS
<1>4. \A y : y \in B <=> y \in A /\ y # n
  OBVIOUS
<1>. HIDE DEF sub2, B
<1>5. Nested(B, sub2)
  <2>1. B \subseteq Nodes /\ \A z \in B : z \in sub2[z]
    BY <1>1, <1>3, <1>4
  <2>2. \A y \in B : \A z \in sub2[y] : sub2[z] \subseteq sub2[y]
    BY <1>1, <1>3, <1>4
  <2>3. \A y \in B : \A z \in sub2[y] : y \in sub2[z] => y = z
    BY <1>1, <1>3, <1>4
  <2>4. \A y, z \in B : \A w \in sub2[y] \cap sub2[z] : y \in sub2[z] \/ z \in sub2[y]
    BY <1>1, <1>3, <1>4
  <2>. QED
    BY <1>2, <2>1, <2>2, <2>3, <2>4 DEF Nested
<1>6. /\ \A z \in B : t2[z].data = t[z].data /\ t2[z].parent = t[z].parent
      /\ \A z \in B, e \in Sides :
           Child(t2, z, e) = IF Child(t, z, e) = n THEN Null ELSE Child(t, z, e)
  BY DEF Dropped, B
<1>7. /\ \A z \in A, e \in Sides : Child(t, z, e) # Null =>
           /\ Child(t, z, e) \in A
           /\ t[Child(t, z, e)].parent = z
           /\ sub[Child(t, z, e)] = Part(t, sub, z, e)
      /\ \A z \in A, e \in Sides : Child(t, z, e) = Null => Part(t, sub, z, e) = {}
  BY ChildrenFacts DEF Shape, Linked
<1>8. \A z \in B, e \in Sides : Part(t2, sub2, z, e) = Part(t, sub, z, e) \ {n}
  <2>. SUFFICES ASSUME NEW z \in B, NEW e \in Sides
                PROVE  Part(t2, sub2, z, e) = Part(t, sub, z, e) \ {n}
    OBVIOUS
  <2>1. \A y \in sub2[z] : t2[y].data = t[y].data
    BY <1>1, <1>3, <1>4, <1>6
  <2>. QED
    BY <1>3, <1>6, <2>1 DEF Part
<1>9. sub[n] = {n}
  BY LeafIsAlone
<1>10. Null \notin A
  BY OneParent
<1>11. ASSUME NEW z \in B, NEW e \in Sides
       PROVE  LET c == Child(t2, z, e)
              IN  IF c = Null THEN Part(t2, sub2, z, e) = {}
                  ELSE c \in B /\ t2[c].parent = z /\ sub2[c] = Part(t2, sub2, z, e)
  <2>0. z \in A /\ Part(t2, sub2, z, e) = Part(t, sub, z, e) \ {n}
    BY <1>4, <1>8
  <2>1. CASE Child(t, z, e) = n
    <3>1. Child(t2, z, e) = Null /\ n # Null
      BY <1>6, <1>10, <2>1
    <3>2. Part(t, sub, z, e) = {n}
      BY <1>7, <1>9, <2>0, <2>1, <3>1
    <3>. QED
      BY <2>0, <3>1, <3>2
  <2>2. CASE Child(t, z, e) = Null
    <3>1. Child(t2, z, e) = Null
      BY <1>6, <2>2
    <3>2. Part(t, sub, z, e) = {}
      BY <1>7, <2>0, <2>2
    <3>. QED
      BY <2>0, <3>1, <3>2
  <2>3. CASE Child(t, z, e) # n /\ Child(t, z, e) # Null
    <3>1. Child(t2, z, e) = Child(t, z, e)
      BY <1>6, <2>3
    <3>2. /\ Child(t, z, e) \in B
          /\ t[Child(t, z, e)].parent = z
          /\ sub[Child(t, z, e)] = Part(t, sub, z, e)
      BY <1>4, <1>7, <2>0, <2>3
    <3>3. sub2[Child(t, z, e)] = sub[Child(t, z, e)] \ {n}
      BY <3>2 DEF sub2
    <3>. QED
      BY <1>6, <2>0, <2>3, <3>1, <3>2, <3>3
  <2>. QED
    BY <2>1, <2>2, <2>3
<1>12. ASSUME NEW z \in B, z # top2
       PROVE  t2[z].parent \in B /\ \E e \in Sides : Child(t2, t2[z].parent, e) = z
  <2>1. z # top
    BY <1>4, <1>12
  <2>2. PICK e \in Sides : t[z].parent \in A /\ Child(t, t[z].parent, e) = z
    BY <1>4, <2>1 DEF Shape, Linked
  <2>3. t[z].parent # n
    BY <1>4, <1>10, <2>2
  <2>. QED
    BY <1>4, <1>6, <2>2, <2>3
<1>13. IF B = {} THEN top2 = Null
       ELSE top2 \in B /\ t2[top2].parent = Null /\ sub2[top2] = B
  <2>1. top \in A /\ t[top].parent = Null /\ sub[top] = A
    BY DEF Shape, Linked
  <2>2. CASE n = top
    <3>1. B = {}
      BY <1>9, <2>1, <2>2 DEF B
    <3>. QED
      BY <2>2, <3>1
  <2>3. CASE n # top
    <3>1. top \in B
      BY <1>4, <2>1, <2>3
    <3>2. sub2[top] = B
      BY <2>1, <3>1 DEF sub2, B
    <3>. QED
      BY <1>6, <2>1, <2>3, <3>1, <3>2
  <2>. QED
    BY <2>2, <2>3
<1>14. Linked(t2, B, top2, sub2)
  BY <1>11, <1>12, <1>13 DEF Linked
<1>15. Ordered(t2, B, sub2)
  <2>1. \A z \in B : t2[z].data \in Data
    BY <1>4, <1>6 DEF Shape, Ordered
  <2>2. \A y, z \in B : t2[y].data = t2[z].data => y = z
    BY <1>4, <1>6 DEF Shape, Ordered
  <2>3. ASSUME NEW y \in B, NEW z \in B, NEW v \in sub2[y], NEW w \in sub2[y],
               t2[v].data < t2[z].data, t2[z].data < t2[w].data
        PROVE  z \in sub2[y]
    <3>1. v \in sub[y] /\ w \in sub[y] /\ v \in B /\ w \in B /\ y \in A /\ z \in A
      BY <1>1, <1>3, <1>4
    <3>2. z \in sub[y]
      BY <1>6, <2>3, <3>1 DEF Shape, Ordered
    <3>. QED
      BY <1>3, <1>4, <3>2
  <2>. QED
    BY <2>1, <2>2, <2>3 DEF Ordered
<1>. QED
  BY <1>5, <1>14, <1>15 DEF Shape, B

Relabelled(t, t2, A, x, d) ==
  /\ \A z \in A : t2[z].parent = t[z].parent
  /\ \A z \in A, e \in Sides : Child(t2, z, e) = Child(t, z, e)
  /\ \A z \in A : t2[z].data = IF z = x THEN d ELSE t[z].data

\* A node can be given a datum that no other datum separates from its own.
LEMMA RelabelledShape ==
  ASSUME NEW t, NEW A, NEW top, NEW sub, Shape(t, A, top, sub),
         NEW x \in A, NEW d \in Data,
         \A z \in A : z # x => t[z].data # d /\ (t[z].data < d <=> t[z].data < t[x].data),
         NEW t2, Relabelled(t, t2, A, x, d)
  PROVE  Shape(t2, A, top, sub)
<1>1. /\ sub \in [A -> SUBSET A]
      /\ \A y \in A : \A z \in sub[y] : z \in A
  BY DEF Shape, Nested
<1>2. /\ \A z \in A : t[z].data \in Int /\ t[z].data \in Data /\ t2[z].data \in Int
      /\ \A y, z \in A : t[y].data = t[z].data => y = z
      /\ \A z \in A : t2[z].data = IF z = x THEN d ELSE t[z].data
  BY DataAreInts, DataAssumption DEF Relabelled, Shape, Ordered
<1>3. \A y, z \in A : t2[y].data < t2[z].data <=> t[y].data < t[z].data
  <2>. SUFFICES ASSUME NEW y \in A, NEW z \in A
                PROVE  t2[y].data < t2[z].data <=> t[y].data < t[z].data
    OBVIOUS
  <2>1. d \in Int
    BY DataAssumption
  <2>2. CASE y = z
    BY <1>2, <2>2
  <2>3. CASE y # z /\ y # x /\ z # x
    BY <1>2, <2>3
  <2>4. CASE y # z /\ y = x
    BY <1>2, <2>1, <2>4
  <2>5. CASE y # z /\ z = x
    BY <1>2, <2>1, <2>5
  <2>. QED
    BY <2>2, <2>3, <2>4, <2>5
<1>4. \A z \in A, e \in Sides : Part(t2, sub, z, e) = Part(t, sub, z, e)
  BY <1>1, <1>3 DEF Part, Toward
<1>5. Linked(t2, A, top, sub)
  <2>1. \A z \in A, e \in Sides :
          LET c == Child(t2, z, e)
          IN  IF c = Null THEN Part(t2, sub, z, e) = {}
              ELSE c \in A /\ t2[c].parent = z /\ sub[c] = Part(t2, sub, z, e)
    <3>. SUFFICES ASSUME NEW z \in A, NEW e \in Sides
                  PROVE  LET c == Child(t, z, e)
                         IN  IF c = Null THEN Part(t, sub, z, e) = {}
                             ELSE c \in A /\ t2[c].parent = z /\ sub[c] = Part(t, sub, z, e)
      BY <1>4 DEF Relabelled
    <3>. QED
      BY DEF Shape, Linked, Relabelled
  <2>2. \A z \in A \ {top} :
          t2[z].parent \in A /\ \E e \in Sides : Child(t2, t2[z].parent, e) = z
    BY DEF Shape, Linked, Relabelled
  <2>3. IF A = {} THEN top = Null
        ELSE top \in A /\ t2[top].parent = Null /\ sub[top] = A
    BY DEF Shape, Linked, Relabelled
  <2>. QED
    BY <2>1, <2>2, <2>3 DEF Linked
<1>6. Ordered(t2, A, sub)
  <2>1. \A z \in A : t2[z].data \in Data
    BY <1>2
  <2>2. \A y, z \in A : t2[y].data = t2[z].data => y = z
    BY <1>2
  <2>3. ASSUME NEW y \in A, NEW z \in A, NEW v \in sub[y], NEW w \in sub[y],
               t2[v].data < t2[z].data, t2[z].data < t2[w].data
        PROVE  z \in sub[y]
    <3>1. v \in A /\ w \in A
      BY <1>1
    <3>2. t[v].data < t[z].data /\ t[z].data < t[w].data
      BY <1>3, <2>3, <3>1
    <3>. QED
      BY <3>2 DEF Shape, Ordered
  <2>. QED
    BY <2>1, <2>2, <2>3 DEF Ordered
<1>. QED
  BY <1>5, <1>6 DEF Shape

-----------------------------------------------------------------------------
(* Colours and heights.                                                    *)

\* H has the number of nodes outside of R on all paths down from each node.
Counted(t, A, R, H) ==
  /\ H \in [A -> Nat]
  /\ \A x \in A, s \in Sides :
       H[x] = Height(H, Child(t, x, s)) + IF x \in R THEN 0 ELSE 1

\* No node of R has a child in R.
Apart(t, A, R) == \A x \in A, s \in Sides : x \in R => Child(t, x, s) \notin R

Reds(t, A) == {x \in A : t[x].isRed}

\* A tree is balanced when its heights count the nodes that are not red, and no
\* red node has a red child.
LEMMA BalancedIs ==
  ASSUME NEW t, NEW A, NEW top, NEW sub, Shape(t, A, top, sub), NEW H
  PROVE  Balanced(t, A, H) <=>
           Counted(t, A, Reds(t, A), H) /\ Apart(t, A, Reds(t, A))
<1>1. \A x \in A : Black(t, x) = IF x \in Reds(t, A) THEN 0 ELSE 1
  BY DEF Black, Reds
<1>2. \A x \in A : IsRed(t, x) <=> x \in Reds(t, A)
  BY OneParent DEF IsRed, Reds
<1>3. \A x \in A, s \in Sides :
        IsRed(t, Child(t, x, s)) <=> Child(t, x, s) \in Reds(t, A)
  <2>1. \A x \in A, s \in Sides : Child(t, x, s) # Null => Child(t, x, s) \in A
    BY ChildrenFacts
  <2>2. Null \notin Reds(t, A)
    BY OneParent DEF Reds
  <2>3. ~IsRed(t, Null)
    BY DEF IsRed
  <2>. QED
    BY <1>2, <2>1, <2>2, <2>3
<1>4. CASE Balanced(t, A, H)
  <2>1. Counted(t, A, Reds(t, A), H)
    BY <1>1, <1>4 DEF Balanced, Counted
  <2>2. Apart(t, A, Reds(t, A))
    BY <1>2, <1>3, <1>4 DEF Balanced, Apart
  <2>. QED
    BY <1>4, <2>1, <2>2
<1>5. CASE Counted(t, A, Reds(t, A), H) /\ Apart(t, A, Reds(t, A))
  <2>. QED
    BY <1>1, <1>2, <1>3, <1>5 DEF Balanced, Counted, Apart
<1>. QED
  BY <1>4, <1>5

\* The heights of a tree depend on its children and colours only.
LEMMA CountedSame ==
  ASSUME NEW t, NEW t2, NEW A, NEW R, NEW H, Counted(t, A, R, H),
         \A x \in A, s \in Sides : Child(t2, x, s) = Child(t, x, s)
  PROVE  Counted(t2, A, R, H)
  BY DEF Counted

\* A rotation that exchanges the colours keeps all heights but those of the
\* nodes it exchanges.
LEMMA CountedTurn ==
  ASSUME NEW t, NEW A, NEW top, NEW sub, Shape(t, A, top, sub),
         NEW R, NEW H, Counted(t, A, R, H),
         NEW x \in A, NEW s \in Sides, NEW p, p = Child(t, x, 1 - s), p # Null,
         p \in R,
         NEW t2, Turned(t, t2, A, x, p, s),
         NEW R2,
         \A z \in A : z \in R2 <=> IF z = x THEN TRUE
                                   ELSE IF z = p THEN x \in R ELSE z \in R
  PROVE  \E H2 : /\ Counted(t2, A, R2, H2)
                 /\ H2[p] = H[x] /\ H2[x] = H[p]
                 /\ \A z \in A : z # x /\ z # p => H2[z] = H[z]
<1>. DEFINE H2 == [H EXCEPT ![p] = H[x], ![x] = H[p]]
            o == Child(t, p, s)
<1>1. /\ 1 - s \in Sides /\ 1 - s # s
      /\ \A d \in Sides : d = s \/ d = 1 - s
  BY SideFacts
<1>2. p \in A /\ p # x
  BY <1>1, ChildFacts
<1>3. /\ H \in [A -> Nat]
      /\ \A z \in A, d \in Sides :
           H[z] = Height(H, Child(t, z, d)) + IF z \in R THEN 0 ELSE 1
  BY DEF Counted
<1>4. /\ H2 \in [A -> Nat] /\ H2[p] = H[x] /\ H2[x] = H[p]
      /\ \A z \in A : z # x /\ z # p => H2[z] = H[z]
  BY <1>2, <1>3
<1>. HIDE DEF H2
<1>5. /\ \A y, z \in A : \A r, d \in Sides :
           Child(t, y, r) = Child(t, z, d) /\ Child(t, z, d) # Null
           => y = z /\ r = d
      /\ Null \notin A
  BY OneParent
<1>6. \A z \in A, d \in Sides : Child(t, z, d) # Null =>
         Child(t, z, d) \in A /\ Child(t, z, d) # z
  BY ChildrenFacts
<1>7. \A z \in A, d \in Sides :
           Child(t2, z, d) = IF z = p /\ d = s THEN x
                             ELSE IF z = x /\ d = 1 - s THEN o
                             ELSE IF Child(t, z, d) = x THEN p
                             ELSE Child(t, z, d)
  BY DEF Turned
<1>8. \A d \in Sides : Child(t, p, d) # x
  BY <1>1, <1>2, ChildFacts, OneParent DEF Shape, Nested
<1>9. \A z \in A : Height(H, z) = H[z] /\ Height(H2, z) = H2[z]
  BY <1>5 DEF Height
<1>10. Height(H, Null) = 0 /\ Height(H2, Null) = 0
  BY DEF Height
<1>n. \A z \in A, d \in Sides : Height(H, Child(t, z, d)) \in Nat
  BY <1>3, <1>6, <1>9, <1>10
<1>11. H[x] = H[p] + (IF x \in R THEN 0 ELSE 1)
  BY <1>1, <1>2, <1>3, <1>9
<1>12. \A d \in Sides : H[p] = Height(H, Child(t, p, d)) + 0
  BY <1>2, <1>3
<1>13. ASSUME NEW z \in A, NEW d \in Sides
       PROVE  H2[z] = Height(H2, Child(t2, z, d)) + IF z \in R2 THEN 0 ELSE 1
  <2>1. CASE z = p /\ d = s
    BY <1>2, <1>4, <1>7, <1>9, <1>11, <2>1
  <2>2. CASE z = x /\ d = 1 - s
    <3>1. Child(t2, z, d) = o
      BY <1>1, <1>2, <1>7, <2>2
    <3>2. Height(H2, o) = Height(H, o)
      BY <1>2, <1>4, <1>6, <1>8, <1>9, <1>10
    <3>. QED
      BY <1>2, <1>4, <1>12, <2>2, <3>1, <3>2
  <2>3. CASE z = x /\ d = s
    <3>1. Child(t2, z, d) = Child(t, x, s)
      BY <1>1, <1>2, <1>5, <1>6, <1>7, <2>3
    <3>2. Child(t, x, s) # x /\ Child(t, x, s) # p
      BY <1>1, <1>2, <1>5, <1>6
    <3>3. Height(H2, Child(t, x, s)) = Height(H, Child(t, x, s))
      BY <1>4, <1>6, <1>9, <1>10, <3>2
    <3>4. H[x] = Height(H, Child(t, x, s)) + IF x \in R THEN 0 ELSE 1
      BY <1>3
    <3>. QED
      BY <1>2, <1>3, <1>4, <1>6, <1>9, <1>10, <1>11, <2>3, <3>1, <3>3, <3>4
  <2>4. CASE z = p /\ d = 1 - s
    <3>1. Child(t2, z, d) = Child(t, p, 1 - s)
      BY <1>1, <1>2, <1>7, <1>8, <2>4
    <3>2. Child(t, p, 1 - s) # x /\ Child(t, p, 1 - s) # p
      BY <1>1, <1>2, <1>5, <1>6, <1>8
    <3>3. Height(H2, Child(t, p, 1 - s)) = Height(H, Child(t, p, 1 - s))
      BY <1>1, <1>2, <1>4, <1>6, <1>9, <1>10, <3>2
    <3>. QED
      BY <1>1, <1>2, <1>3, <1>4, <1>11, <1>12, <1>n, <2>4, <3>1, <3>3
  <2>5. CASE z # x /\ z # p
    <3>1. CASE Child(t, z, d) = x
      <4>1. Child(t2, z, d) = p
        BY <1>7, <2>5, <3>1
      <4>2. Height(H2, Child(t2, z, d)) = Height(H, Child(t, z, d))
        BY <1>2, <1>4, <1>9, <3>1, <4>1
      <4>. QED
        BY <1>3, <1>4, <2>5, <4>2
    <3>2. CASE Child(t, z, d) # x
      <4>1. Child(t2, z, d) = Child(t, z, d)
        BY <1>7, <2>5, <3>2
      <4>2. Child(t, z, d) # p
        BY <1>1, <1>5, <2>5
      <4>3. Height(H2, Child(t2, z, d)) = Height(H, Child(t, z, d))
        BY <1>4, <1>6, <1>9, <1>10, <3>2, <4>1, <4>2
      <4>. QED
        BY <1>3, <1>4, <2>5, <4>3
    <3>. QED
      BY <3>1, <3>2
  <2>. QED
    BY <1>1, <2>1, <2>2, <2>3, <2>4, <2>5
<1>14. Counted(t2, A, R2, H2)
  BY <1>4, <1>13 DEF Counted
<1>. QED
  BY <1>4, <1>14

\* The two children of x take its colour and x theirs, from red to black ...
LEMMA CountedFlip ==
  ASSUME NEW t, NEW A, NEW top, NEW sub, Shape(t, A, top, sub),
         NEW R, NEW H, Counted(t, A, R, H), R \subseteq A,
         NEW x \in A, x \notin R, \A s \in Sides : Child(t, x, s) \in R,
         NEW R2,
         \A z \in A : z \in R2 <=> IF z = x THEN TRUE
                         ELSE z \in R /\ \A s \in Sides : z # Child(t, x, s)
  PROVE  \E H2 : /\ Counted(t, A, R2, H2)
                 /\ \A z \in A : H2[z] =
                      IF \E s \in Sides : z = Child(t, x, s) THEN H[z] + 1 ELSE H[z]
<1>. DEFINE Below(z) == \E s \in Sides : z = Child(t, x, s)
            H2 == [z \in A |-> IF Below(z) THEN H[z] + 1 ELSE H[z]]
<1>1. /\ H \in [A -> Nat]
      /\ \A z \in A, d \in Sides :
           H[z] = Height(H, Child(t, z, d)) + IF z \in R THEN 0 ELSE 1
  BY DEF Counted
<1>2. H2 \in [A -> Nat] /\ \A z \in A : H2[z] = IF Below(z) THEN H[z] + 1 ELSE H[z]
  BY <1>1
<1>. HIDE DEF H2
<1>3. /\ \A z \in A, d \in Sides : Child(t, z, d) # Null =>
           Child(t, z, d) \in A /\ Child(t, z, d) # z
      /\ \A y, z \in A : \A r, d \in Sides :
           Child(t, y, r) = Child(t, z, d) /\ Child(t, z, d) # Null
           => y = z /\ r = d
      /\ Null \notin A
  BY ChildrenFacts, OneParent
<1>4. /\ \A z \in A : Height(H, z) = H[z] /\ Height(H2, z) = H2[z]
      /\ Height(H, Null) = 0 /\ Height(H2, Null) = 0
  BY <1>3 DEF Height
<1>n. \A z \in A, d \in Sides : Height(H, Child(t, z, d)) \in Nat
  BY <1>1, <1>3, <1>4
<1>5. ASSUME NEW z \in A, NEW d \in Sides
      PROVE  H2[z] = Height(H2, Child(t, z, d)) + IF z \in R2 THEN 0 ELSE 1
  <2>0. H[z] = Height(H, Child(t, z, d)) + IF z \in R THEN 0 ELSE 1
    BY <1>1
  <2>1. CASE z = x
    <3>1. Child(t, z, d) \in A /\ Below(Child(t, z, d)) /\ ~Below(z)
      BY <1>3, <2>1
    <3>. QED
      BY <1>1, <1>2, <1>4, <2>0, <2>1, <3>1
  <2>2. CASE z # x
    <3>1. Height(H2, Child(t, z, d)) = Height(H, Child(t, z, d))
      <4>1. CASE Child(t, z, d) = Null
        BY <1>4, <4>1
      <4>2. CASE Child(t, z, d) # Null
        <5>1. Child(t, z, d) \in A /\ ~Below(Child(t, z, d))
          BY <1>3, <2>2, <4>2
        <5>. QED
          BY <1>2, <1>4, <5>1
      <4>. QED
        BY <4>1, <4>2
    <3>2. CASE Below(z)
      <4>1. z \in R /\ z \notin R2
        BY <2>2, <3>2
      <4>. QED
        BY <1>1, <1>2, <1>n, <2>0, <3>1, <3>2, <4>1
    <3>3. CASE ~Below(z)
      BY <1>1, <1>2, <2>0, <2>2, <3>1, <3>3
    <3>. QED
      BY <3>2, <3>3
  <2>. QED
    BY <2>1, <2>2
<1>6. Counted(t, A, R2, H2)
  BY <1>2, <1>5 DEF Counted
<1>. QED
  BY <1>2, <1>6

\* ... and from black to red; a black x at the top, or above nothing, stays so.
LEMMA CountedUnflip ==
  ASSUME NEW t, NEW A, NEW top, NEW sub, Shape(t, A, top, sub),
         NEW R, NEW H, Counted(t, A, R, H), R \subseteq A,
         NEW x \in A, x \in R \/ x = top,
         \A s \in Sides : Child(t, x, s) # Null /\ Child(t, x, s) \notin R,
         NEW R2,
         \A z \in A : z \in R2 <=> IF z = x THEN FALSE
                         ELSE z \in R \/ \E s \in Sides : z = Child(t, x, s)
  PROVE  \E H2 : /\ Counted(t, A, R2, H2)
                 /\ \A z \in A : H2[z] =
                      IF (\E s \in Sides : z = Child(t, x, s)) \/ (z = x /\ x \notin R)
                      THEN H[z] - 1 ELSE H[z]
<1>. DEFINE Below(z) == (\E s \in Sides : z = Child(t, x, s)) \/ (z = x /\ x \notin R)
            H2 == [z \in A |-> IF Below(z) THEN H[z] - 1 ELSE H[z]]
<1>1. /\ H \in [A -> Nat]
      /\ \A z \in A, d \in Sides :
           H[z] = Height(H, Child(t, z, d)) + IF z \in R THEN 0 ELSE 1
  BY DEF Counted
<1>3. /\ \A z \in A, d \in Sides : Child(t, z, d) # Null =>
           Child(t, z, d) \in A /\ Child(t, z, d) # z
      /\ \A y, z \in A : \A r, d \in Sides :
           Child(t, y, r) = Child(t, z, d) /\ Child(t, z, d) # Null
           => y = z /\ r = d
      /\ \A y \in A, d \in Sides : top # Null => Child(t, y, d) # top
      /\ Null \notin A
  BY ChildrenFacts, OneParent
<1>4. /\ \A z \in A : Height(H, z) = H[z]
      /\ Height(H, Null) = 0 /\ Height(H2, Null) = 0
  BY <1>3 DEF Height
<1>a. ASSUME NEW z \in A, z \notin R PROVE H[z] >= 1
  <2>1. LEFT \in Sides
    BY DEF Sides
  <2>2. Height(H, Child(t, z, LEFT)) \in Nat
    BY <1>1, <1>3, <1>4, <2>1
  <2>. QED
    BY <1>1, <1>a, <2>1, <2>2
<1>2. H2 \in [A -> Nat] /\ \A z \in A : H2[z] = IF Below(z) THEN H[z] - 1 ELSE H[z]
  <2>. SUFFICES ASSUME NEW z \in A
                PROVE  (IF Below(z) THEN H[z] - 1 ELSE H[z]) \in Nat
    OBVIOUS
  <2>1. Below(z) => z \notin R
    OBVIOUS
  <2>. QED
    BY <1>1, <1>a, <2>1
<1>. HIDE DEF H2
<1>b. \A z \in A : Height(H2, z) = H2[z]
  BY <1>3 DEF Height
<1>n. \A z \in A, d \in Sides : Height(H, Child(t, z, d)) \in Nat
  BY <1>1, <1>3, <1>4
<1>5. ASSUME NEW z \in A, NEW d \in Sides
      PROVE  H2[z] = Height(H2, Child(t, z, d)) + IF z \in R2 THEN 0 ELSE 1
  <2>0. H[z] = Height(H, Child(t, z, d)) + IF z \in R THEN 0 ELSE 1
    BY <1>1
  <2>1. CASE z = x
    <3>1. /\ Child(t, z, d) \in A /\ Below(Child(t, z, d)) /\ z \notin R2
          /\ Below(z) <=> z \notin R
      BY <1>3, <2>1
    <3>. QED
      BY <1>1, <1>2, <1>4, <1>b, <2>0, <2>1, <3>1
  <2>2. CASE z # x
    <3>1. Height(H2, Child(t, z, d)) = Height(H, Child(t, z, d))
      <4>1. CASE Child(t, z, d) = Null
        BY <1>4, <4>1
      <4>2. CASE Child(t, z, d) # Null
        <5>1. Child(t, z, d) \in A /\ ~Below(Child(t, z, d))
          BY <1>3, <2>2, <4>2
        <5>. QED
          BY <1>2, <1>4, <1>b, <5>1
      <4>. QED
        BY <4>1, <4>2
    <3>2. CASE Below(z)
      <4>1. z \notin R /\ z \in R2
        BY <2>2, <3>2
      <4>. QED
        BY <1>1, <1>2, <1>n, <2>0, <3>1, <3>2, <4>1
    <3>3. CASE ~Below(z)
      BY <1>1, <1>2, <2>0, <2>2, <3>1, <3>3
    <3>. QED
      BY <3>2, <3>3
  <2>. QED
    BY <2>1, <2>2
<1>6. Counted(t, A, R2, H2)
  BY <1>2, <1>5 DEF Counted
<1>. QED
  BY <1>2, <1>6

-----------------------------------------------------------------------------
(* The rotations of the code.                                              *)

Trees == [Nodes \cup {Dummy} ->
            [parent : Address, child : [Sides -> Nodes \cup {Null}],
             data : Data \cup {Null}, isRed : BOOLEAN]]

\* What the fields of a node are.
LEMMA TreeFacts ==
  ASSUME NEW t \in Trees, NEW x \in Nodes \cup {Dummy}
  PROVE  /\ t[x].parent \in Address /\ t[x].data \in Data \cup {Null}
         /\ t[x].isRed \in BOOLEAN
         /\ t[x].child \in [Sides -> Nodes \cup {Null}]
         /\ \A s \in Sides : Child(t, x, s) \in Nodes \cup {Null}
  BY DEF Trees, Child

\* t2 is t after a rotation of x down on side s, under p, which left it o.
Rotated(t, t2, x, p, o, s) ==
  /\ \A z \in Nodes \cup {Dummy} :
       /\ t2[z].data = t[z].data
       /\ t2[z].parent = IF z = p THEN t[x].parent
                         ELSE IF z = x THEN p
                         ELSE IF z = o THEN x
                         ELSE t[z].parent
       /\ (z = p => ~t2[z].isRed)
       /\ (z = x /\ z # p => t2[z].isRed)
       /\ (z # p /\ z # x => (t2[z].isRed <=> t[z].isRed))
       /\ z # o /\ z # x /\ z # p => t2[z] = t[z]
  /\ \A z \in Nodes \cup {Dummy}, d \in Sides :
       Child(t2, z, d) = IF z = p /\ d = s THEN x
                         ELSE IF z = x /\ d = 1 - s THEN o
                         ELSE Child(t, z, d)

\* What a rotation changes.
LEMMA RotateOnceIs ==
  ASSUME NEW t \in Trees, NEW x \in Nodes, NEW s \in Sides,
         NEW p \in Nodes, p = Child(t, x, 1 - s), p # x,
         NEW o, o = Child(t, p, s), o # x, o # p,
         NEW t2, t2 = RotateOnce(t, x, s).tree
  PROVE  t2 \in Trees /\ RotateOnce(t, x, s).top = p /\ Rotated(t, t2, x, p, o, s)
<1>. DEFINE R == [parent : Address, child : [Sides -> Nodes \cup {Null}],
                  data : Data \cup {Null}, isRed : BOOLEAN]
            pp == [t[p] EXCEPT !.parent = t[x].parent, !.child[s] = x, !.isRed = FALSE]
            xx == [t[x] EXCEPT !.parent = p, !.child[1 - s] = o, !.isRed = TRUE]
            oo(z) == [t[z] EXCEPT !.parent = x]
<1>0. 1 - s \in Sides /\ 1 - s # s
  BY SideFacts
<1>1. /\ \A z \in Nodes \cup {Dummy} : t[z] \in R
      /\ o \in Nodes \cup {Null} /\ DOMAIN t = Nodes \cup {Dummy}
  BY DEF Trees, Child
<1>2. /\ pp \in R /\ pp.parent = t[x].parent /\ pp.data = t[p].data
      /\ pp.isRed = FALSE /\ pp.child = [t[p].child EXCEPT ![s] = x]
  <2>1. t[p] \in R /\ t[x] \in R
    BY <1>1
  <2>. QED
    BY <2>1
<1>3. /\ xx \in R /\ xx.parent = p /\ xx.data = t[x].data
      /\ xx.isRed = TRUE /\ xx.child = [t[x].child EXCEPT ![1 - s] = o]
  <2>1. t[x] \in R /\ p \in Address
    BY <1>1 DEF Address
  <2>. QED
    BY <1>0, <1>1, <2>1
<1>4. \A z \in Nodes \cup {Dummy} :
        /\ oo(z) \in R /\ oo(z).parent = x /\ oo(z).data = t[z].data
        /\ oo(z).isRed = t[z].isRed /\ oo(z).child = t[z].child
  <2>1. x \in Address
    BY DEF Address
  <2>. QED
    BY <1>1, <2>1
<1>5. /\ RotateOnce(t, x, s).top = p
      /\ t2 = Pivoted(t, x, p, o, s)
  BY DEF RotateOnce
<1>6. t2 = [z \in Nodes \cup {Dummy} |->
              IF z = p THEN pp ELSE IF z = x THEN xx
              ELSE IF z = o THEN oo(z) ELSE t[z]]
  BY <1>1, <1>5 DEF Pivoted
<1>. HIDE DEF pp, xx, oo, R
<1>7. \A z \in Nodes \cup {Dummy} :
        t2[z] = IF z = p THEN pp ELSE IF z = x THEN xx
                ELSE IF z = o THEN oo(z) ELSE t[z]
  BY <1>6
<1>8. t2 \in Trees
  <2>1. \A z \in Nodes \cup {Dummy} : t2[z] \in R
    BY <1>1, <1>2, <1>3, <1>4, <1>7
  <2>2. t2 \in [Nodes \cup {Dummy} -> R]
    BY <1>6, <2>1
  <2>. QED
    BY <2>2 DEF Trees, R
<1>9. \A z \in Nodes \cup {Dummy} :
              /\ t2[z].data = t[z].data
              /\ t2[z].parent = IF z = p THEN t[x].parent
                                ELSE IF z = x THEN p
                                ELSE IF z = o THEN x
                                ELSE t[z].parent
              /\ (z = p => ~t2[z].isRed)
              /\ (z = x /\ z # p => t2[z].isRed)
              /\ (z # p /\ z # x => (t2[z].isRed <=> t[z].isRed))
              /\ z # o /\ z # x /\ z # p => t2[z] = t[z]
  <2>. SUFFICES ASSUME NEW z \in Nodes \cup {Dummy}
                PROVE  /\ t2[z].data = t[z].data
                       /\ t2[z].parent = IF z = p THEN t[x].parent
                                         ELSE IF z = x THEN p
                                         ELSE IF z = o THEN x
                                         ELSE t[z].parent
                       /\ (z = p => ~t2[z].isRed)
                       /\ (z = x /\ z # p => t2[z].isRed)
                       /\ (z # p /\ z # x => (t2[z].isRed <=> t[z].isRed))
                       /\ z # o /\ z # x /\ z # p => t2[z] = t[z]
    BY Zenon
  <2>1. t2[z] = IF z = p THEN pp ELSE IF z = x THEN xx
                ELSE IF z = o THEN oo(z) ELSE t[z]
    BY <1>7
  <2>2. CASE z = p
    BY <1>2, <2>1, <2>2
  <2>3. CASE z = x /\ z # p
    BY <1>3, <2>1, <2>3
  <2>4. CASE z = o /\ z # x /\ z # p
    BY <1>4, <2>1, <2>4
  <2>5. CASE z # o /\ z # x /\ z # p
    BY <2>1, <2>5
  <2>. QED
    BY <2>2, <2>3, <2>4, <2>5
<1>10. ASSUME NEW z \in Nodes \cup {Dummy}, NEW d \in Sides
       PROVE  Child(t2, z, d) = IF z = p /\ d = s THEN x
                                ELSE IF z = x /\ d = 1 - s THEN o
                                ELSE Child(t, z, d)
  <2>1. t2[z].child = IF z = p THEN pp.child ELSE IF z = x THEN xx.child ELSE t[z].child
    BY <1>4, <1>7
  <2>2. /\ t[p].child \in [Sides -> Nodes \cup {Null}]
        /\ t[x].child \in [Sides -> Nodes \cup {Null}]
    BY TreeFacts
  <2>. QED
    BY <1>0, <1>2, <1>3, <2>1, <2>2 DEF Child
<1>11. Rotated(t, t2, x, p, o, s)
  BY <1>9, <1>10 DEF Rotated
<1>. QED
  BY <1>5, <1>8, <1>11

\* A rotation, and its result hung on the node above or on the dummy root.
LEMMA TurnIs ==
  ASSUME NEW t \in Trees, NEW A, NEW top, NEW sub, Shape(t, A, top, sub),
         NEW x \in A, NEW s \in Sides, NEW p, p = Child(t, x, 1 - s), p # Null,
         NEW y, NEW e \in Sides,
         (y \in A /\ Child(t, y, e) = x) \/ (y = Dummy /\ x = top),
         NEW t2, t2 = Hung(RotateOnce(t, x, s), y, e)
  PROVE  /\ t2 \in Trees
         /\ Turned(t, t2, A, x, p, s)
         /\ \A z \in A : /\ z = p => ~t2[z].isRed
                         /\ z = x => t2[z].isRed
                         /\ z # p /\ z # x => (t2[z].isRed <=> t[z].isRed)
         /\ \A z \in (Nodes \cup {Dummy}) \ A : z # y => t2[z] = t[z]
         /\ \A d \in Sides : y = Dummy =>
              Child(t2, Dummy, d) = IF d = e THEN p ELSE Child(t, Dummy, d)
         /\ RotateOnce(t, x, s).top = p
<1>. DEFINE o == Child(t, p, s)
            t1 == RotateOnce(t, x, s).tree
<1>1. /\ 1 - s \in Sides /\ 1 - s # s
      /\ p \in A /\ p # x /\ A \subseteq Nodes
  BY SideFacts, ChildFacts DEF Shape, Nested
<1>2. /\ \A z \in A, d \in Sides : Child(t, z, d) # Null =>
           Child(t, z, d) \in A /\ Child(t, z, d) # z
      /\ \A y0, z \in A : \A r, d \in Sides :
           Child(t, y0, r) = Child(t, z, d) /\ Child(t, z, d) # Null
           => y0 = z /\ r = d
      /\ \A y0 \in A, d \in Sides : top # Null => Child(t, y0, d) # top
      /\ Null \notin A
  BY ChildrenFacts, OneParent
<1>3. o # x /\ o # p
  <2>1. \A d \in Sides : Child(t, p, d) # x
    BY <1>1, ChildFacts, OneParent DEF Shape, Nested
  <2>. QED
    BY <1>1, <1>2, <2>1
<1>31. t1 \in Trees /\ RotateOnce(t, x, s).top = p /\ Rotated(t, t1, x, p, o, s)
  <2>1. p \in Nodes /\ x \in Nodes
    BY <1>1
  <2>. HIDE DEF t1, o
  <2>2. o = Child(t, p, s) /\ t1 = RotateOnce(t, x, s).tree
    BY DEF o, t1
  <2>. QED
    BY <1>1, <1>3, <2>1, <2>2, RotateOnceIs
<1>4. /\ t1 \in Trees /\ RotateOnce(t, x, s).top = p
      /\ \A z \in Nodes \cup {Dummy} :
              /\ t1[z].data = t[z].data
              /\ t1[z].parent = IF z = p THEN t[x].parent
                                ELSE IF z = x THEN p
                                ELSE IF z = o THEN x
                                ELSE t[z].parent
              /\ (z = p => ~t1[z].isRed)
              /\ (z = x /\ z # p => t1[z].isRed)
              /\ (z # p /\ z # x => (t1[z].isRed <=> t[z].isRed))
              /\ z # o /\ z # x /\ z # p => t1[z] = t[z]
      /\ \A z \in Nodes \cup {Dummy}, d \in Sides :
              Child(t1, z, d) = IF z = p /\ d = s THEN x
                                ELSE IF z = x /\ d = 1 - s THEN o
                                ELSE Child(t, z, d)
  <2>. HIDE DEF t1, o
  <2>. QED
    BY <1>31 DEF Rotated
<1>. HIDE DEF t1
<1>5. t2 = [t1 EXCEPT ![y].child[e] = p] /\ y \in Nodes \cup {Dummy} /\ Dummy \notin A
  BY <1>1, <1>4, AddressAssumption DEF Hung, t1
<1>6. /\ t2 \in Trees
      /\ \A z \in Nodes \cup {Dummy} :
           /\ t2[z].data = t1[z].data /\ t2[z].parent = t1[z].parent
           /\ t2[z].isRed = t1[z].isRed
           /\ t2[z] = IF z = y THEN [t1[z] EXCEPT !.child[e] = p] ELSE t1[z]
  <2>1. p \in Nodes /\ t1 \in Trees
    BY <1>1, <1>4
  <2>2. \A z \in Nodes \cup {Dummy} :
          t2[z] = IF z = y THEN [t1[z] EXCEPT !.child[e] = p] ELSE t1[z]
    BY <1>5, <2>1 DEF Trees
  <2>3. \A z \in Nodes \cup {Dummy} :
          t1[z] \in [parent : Address, child : [Sides -> Nodes \cup {Null}],
                    data : Data \cup {Null}, isRed : BOOLEAN]
    BY <2>1 DEF Trees
  <2>4. \A z \in Nodes \cup {Dummy} :
           /\ t2[z].data = t1[z].data /\ t2[z].parent = t1[z].parent
           /\ t2[z].isRed = t1[z].isRed
           /\ t2[z] \in [parent : Address, child : [Sides -> Nodes \cup {Null}],
                        data : Data \cup {Null}, isRed : BOOLEAN]
    <3>. SUFFICES ASSUME NEW z \in Nodes \cup {Dummy}
                  PROVE  /\ t2[z].data = t1[z].data /\ t2[z].parent = t1[z].parent
                         /\ t2[z].isRed = t1[z].isRed
                         /\ t2[z] \in [parent : Address, child : [Sides -> Nodes \cup {Null}],
                                      data : Data \cup {Null}, isRed : BOOLEAN]
      BY Zenon
    <3>1. t1[z] \in [parent : Address, child : [Sides -> Nodes \cup {Null}],
                    data : Data \cup {Null}, isRed : BOOLEAN]
      BY <2>3
    <3>2. CASE z = y
      <4>1. t2[z] = [t1[z] EXCEPT !.child[e] = p]
        BY <2>2, <3>2
      <4>. QED
        BY <2>1, <3>1, <4>1
    <3>3. CASE z # y
      BY <2>2, <3>1, <3>3
    <3>. QED
      BY <3>2, <3>3
  <2>5. t2 = [z \in Nodes \cup {Dummy} |-> t2[z]]
    BY <1>5, <2>1 DEF Trees
  <2>6. t2 \in Trees
    BY <2>4, <2>5 DEF Trees
  <2>. QED
    BY <2>2, <2>4, <2>6
<1>7. \A z \in Nodes \cup {Dummy}, d \in Sides :
        Child(t2, z, d) = IF z = y /\ d = e THEN p ELSE Child(t1, z, d)
  <2>. SUFFICES ASSUME NEW z \in Nodes \cup {Dummy}, NEW d \in Sides
                PROVE  Child(t2, z, d) = IF z = y /\ d = e THEN p ELSE Child(t1, z, d)
    OBVIOUS
  <2>1. t1[z].child \in [Sides -> Nodes \cup {Null}]
    BY <1>4, TreeFacts
  <2>2. t2[z].child = IF z = y THEN [t1[z].child EXCEPT ![e] = p] ELSE t1[z].child
    <3>1. t1[z] \in [parent : Address, child : [Sides -> Nodes \cup {Null}],
                     data : Data \cup {Null}, isRed : BOOLEAN]
      BY <1>4 DEF Trees
    <3>. QED
      BY <1>6, <3>1
  <2>. QED
    BY <2>1, <2>2 DEF Child
<1>8. \A z \in A, d \in Sides :
           Child(t2, z, d) = IF z = p /\ d = s THEN x
                             ELSE IF z = x /\ d = 1 - s THEN o
                             ELSE IF Child(t, z, d) = x THEN p
                             ELSE Child(t, z, d)
  <2>. SUFFICES ASSUME NEW z \in A, NEW d \in Sides
                PROVE  Child(t2, z, d) = IF z = p /\ d = s THEN x
                             ELSE IF z = x /\ d = 1 - s THEN o
                             ELSE IF Child(t, z, d) = x THEN p
                             ELSE Child(t, z, d)
    OBVIOUS
  <2>1. z \in Nodes \cup {Dummy}
    BY <1>1
  <2>2. CASE z = y /\ d = e
    <3>1. Child(t, z, d) = x /\ z # x
      BY <1>2, <1>5, <2>2
    <3>2. z # p
      BY <1>1, <3>1, ChildFacts, OneParent DEF Shape, Nested
    <3>. QED
      BY <1>7, <2>1, <2>2, <3>1, <3>2
  <2>3. CASE ~(z = y /\ d = e)
    <3>1. Child(t, z, d) # x
      BY <1>2, <1>5, <2>3
    <3>. QED
      BY <1>4, <1>7, <2>1, <2>3, <3>1
  <2>. QED
    BY <2>2, <2>3
<1>9. Turned(t, t2, A, x, p, s)
  <2>1. \A z \in A : t2[z].data = t[z].data
    BY <1>1, <1>4, <1>6
  <2>2. \A z \in A :
           t2[z].parent = IF z = p THEN t[x].parent
                          ELSE IF z = x THEN p
                          ELSE IF z = o THEN x
                          ELSE t[z].parent
    <3>. TAKE z \in A
    <3>1. z \in Nodes \cup {Dummy}
      BY <1>1
    <3>2. t2[z].parent = t1[z].parent
      BY <1>6, <3>1
    <3>3. t1[z].parent = IF z = p THEN t[x].parent
                         ELSE IF z = x THEN p
                         ELSE IF z = o THEN x
                         ELSE t[z].parent
      BY <1>4, <3>1
    <3>. QED
      BY <3>2, <3>3
  <2>. QED
    BY <1>8, <2>1, <2>2 DEF Turned
<1>10. \A z \in A : /\ z = p => ~t2[z].isRed
                    /\ z = x => t2[z].isRed
                    /\ z # p /\ z # x => (t2[z].isRed <=> t[z].isRed)
  BY <1>1, <1>4, <1>6
<1>11. o \in A \cup {Null}
  BY <1>1, <1>2
<1>12. \A z \in (Nodes \cup {Dummy}) \ A : t1[z] = t[z]
  <2>1. \A z \in (Nodes \cup {Dummy}) \ A : z # o /\ z # x /\ z # p
    BY <1>1, <1>11, AddressAssumption
  <2>. QED
    BY <1>4, <2>1
<1>13. \A z \in (Nodes \cup {Dummy}) \ A : z # y => t2[z] = t[z]
  BY <1>6, <1>12
<1>14. \A d \in Sides : y = Dummy =>
         Child(t2, Dummy, d) = IF d = e THEN p ELSE Child(t, Dummy, d)
  <2>1. Dummy # x /\ Dummy # p
    BY <1>1, AddressAssumption
  <2>. QED
    BY <1>4, <1>7, <2>1
<1>. QED
  BY <1>4, <1>6, <1>9, <1>10, <1>13, <1>14

\* A double rotation is two rotations.
LEMMA TwiceIs ==
  ASSUME NEW t \in Trees, NEW A, NEW top, NEW sub, Shape(t, A, top, sub),
         NEW x \in A, NEW s \in Sides, NEW c, c = Child(t, x, 1 - s), c # Null,
         NEW q, q = Child(t, c, s), q # Null,
         NEW y, NEW e \in Sides,
         (y \in A /\ Child(t, y, e) = x) \/ (y = Dummy /\ x = top),
         NEW t2, t2 = Hung(RotateTwice(t, x, s), y, e)
  PROVE  /\ t2 \in Trees
         /\ \E t1 : /\ Turned(t, t1, A, c, q, 1 - s)
                    /\ Child(t1, x, 1 - s) = q
                    /\ Turned(t1, t2, A, x, q, s)
         /\ \A z \in A : /\ z = q => ~t2[z].isRed
                         /\ z = x \/ z = c => t2[z].isRed
                         /\ z # q /\ z # x /\ z # c => (t2[z].isRed <=> t[z].isRed)
         /\ \A z \in (Nodes \cup {Dummy}) \ A : z # y => t2[z] = t[z]
         /\ \A d \in Sides : y = Dummy =>
              Child(t2, Dummy, d) = IF d = e THEN q ELSE Child(t, Dummy, d)
         /\ RotateTwice(t, x, s).top = q
<1>. DEFINE t1 == Hung(RotateOnce(t, c, 1 - s), x, 1 - s)
<1>0. /\ 1 - s \in Sides /\ 1 - s # s /\ 1 - (1 - s) = s
  BY SideFacts
<1>1. /\ c \in A /\ c # x /\ x \notin sub[c]
  BY <1>0, ChildFacts
<1>2. /\ q \in A /\ q # c /\ q \in sub[c]
  BY <1>1, ChildFacts
<1>3. q # x
  BY <1>1, <1>2
<1>4. /\ t1 \in Trees
      /\ Turned(t, t1, A, c, q, 1 - s)
      /\ \A z \in A : /\ z = q => ~t1[z].isRed
                      /\ z = c => t1[z].isRed
                      /\ z # q /\ z # c => (t1[z].isRed <=> t[z].isRed)
      /\ \A z \in (Nodes \cup {Dummy}) \ A : z # x => t1[z] = t[z]
      /\ RotateOnce(t, c, 1 - s).top = q
  <2>. DEFINE d == 1 - s
  <2>1. t1 = Hung(RotateOnce(t, c, d), x, d) /\ q = Child(t, c, 1 - d)
    BY <1>0
  <2>2. d \in Sides /\ (x \in A /\ Child(t, x, d) = c)
    BY <1>0
  <2>. HIDE DEF t1, d
  <2>3. /\ t1 \in Trees
        /\ Turned(t, t1, A, c, q, d)
        /\ \A z \in A : /\ z = q => ~t1[z].isRed
                        /\ z = c => t1[z].isRed
                        /\ z # q /\ z # c => (t1[z].isRed <=> t[z].isRed)
        /\ \A z \in (Nodes \cup {Dummy}) \ A : z # x => t1[z] = t[z]
        /\ RotateOnce(t, c, d).top = q
    BY <1>1, <1>2, <2>1, <2>2, TurnIs
  <2>. QED
    BY <2>3 DEF d
<1>5. t2 = Hung(RotateOnce(t1, x, s), y, e)
      /\ RotateTwice(t, x, s) = RotateOnce(t1, x, s)
  BY DEF RotateTwice, Hung
<1>. HIDE DEF t1
<1>6. Child(t1, x, 1 - s) = q
  BY <1>0, <1>1, <1>3, <1>4 DEF Turned
<1>7. c # top
  BY <1>0, <1>1, OneParent
<1>8. PICK sub1 : Shape(t1, A, top, sub1)
  <2>1. \E sub1 : /\ Swapped(t, A, sub, sub1, c, q, 1 - s)
                  /\ Shape(t1, A, IF c = top THEN q ELSE top, sub1)
    <3>1. q = Child(t, c, 1 - (1 - s))
      BY <1>0
    <3>. QED
      BY <1>0, <1>1, <1>2, <1>4, <3>1, RotationShape
  <2>. QED
    BY <1>7, <2>1
<1>9. (y \in A /\ Child(t1, y, e) = x) \/ (y = Dummy /\ x = top)
  <2>. SUFFICES ASSUME y \in A, Child(t, y, e) = x
                PROVE  Child(t1, y, e) = x
    OBVIOUS
  <2>0. x # Null /\ \A z \in A : z \in sub[z]
    BY OneParent DEF Shape, Nested
  <2>1. x \in sub[y]
    BY <2>0, ChildFacts
  <2>2. y # q /\ y # c
    <3>1. q \in A => sub[q] \subseteq sub[c]
      BY <1>1, <1>2 DEF Shape, Nested
    <3>. QED
      BY <1>1, <1>2, <2>1, <3>1
  <2>. QED
    BY <1>1, <1>4, <2>2 DEF Turned
<1>10. /\ t2 \in Trees
       /\ Turned(t1, t2, A, x, q, s)
       /\ \A z \in A : /\ z = q => ~t2[z].isRed
                       /\ z = x => t2[z].isRed
                       /\ z # q /\ z # x => (t2[z].isRed <=> t1[z].isRed)
       /\ \A z \in (Nodes \cup {Dummy}) \ A : z # y => t2[z] = t1[z]
       /\ \A d \in Sides : y = Dummy =>
              Child(t2, Dummy, d) = IF d = e THEN q ELSE Child(t1, Dummy, d)
       /\ RotateOnce(t1, x, s).top = q
  BY <1>2, <1>4, <1>5, <1>6, <1>8, <1>9, TurnIs, OneParent
<1>11. \A z \in A : /\ z = q => ~t2[z].isRed
                    /\ z = x \/ z = c => t2[z].isRed
                    /\ z # q /\ z # x /\ z # c => (t2[z].isRed <=> t[z].isRed)
  BY <1>1, <1>2, <1>3, <1>4, <1>10
<1>12. \A z \in (Nodes \cup {Dummy}) \ A : t1[z] = t[z]
  BY <1>4
<1>13. Dummy \notin A
  BY AddressAssumption DEF Shape, Nested
<1>14. Dummy \in (Nodes \cup {Dummy}) \ A /\ t1[Dummy] = t[Dummy]
  BY <1>12, <1>13
<1>15. \A d \in Sides : y = Dummy =>
              Child(t2, Dummy, d) = IF d = e THEN q ELSE Child(t, Dummy, d)
  BY <1>10, <1>14 DEF Child
<1>. QED
  BY <1>4, <1>5, <1>6, <1>10, <1>11, <1>12, <1>15

-----------------------------------------------------------------------------
(* The repair of an insertion: only p and a child of it are red in a row.  *)

\* A rotation of the grandparent of two red nodes on one side sets them apart.
LEMMA SingleRepair ==
  ASSUME NEW t \in Trees, NEW A, NEW top, NEW sub, Shape(t, A, top, sub),
         NEW H, Counted(t, A, Reds(t, A), H),
         NEW g \in A, NEW d \in Sides, NEW p, p = Child(t, g, d), p # Null,
         p \in Reds(t, A), g \notin Reds(t, A),
         Child(t, g, 1 - d) \notin Reds(t, A), Child(t, p, 1 - d) \notin Reds(t, A),
         \A z \in A, r \in Sides :
           z \in Reds(t, A) /\ z # p => Child(t, z, r) \notin Reds(t, A),
         NEW y, NEW e \in Sides,
         (y \in A /\ Child(t, y, e) = g) \/ (y = Dummy /\ g = top),
         NEW t2, t2 = Hung(RotateOnce(t, g, 1 - d), y, e)
  PROVE  /\ t2 \in Trees
         /\ \A z \in A : t2[z].data = t[z].data
         /\ \A z \in (Nodes \cup {Dummy}) \ A : z # y => t2[z] = t[z]
         /\ \A r \in Sides : y = Dummy =>
              Child(t2, Dummy, r) = IF r = e THEN p ELSE Child(t, Dummy, r)
         /\ \A z \in A : z \in Reds(t2, A) <=> (z \in Reds(t, A) /\ z # p) \/ z = g
         /\ \A z \in A, r \in Sides :
              z # p /\ z # g /\ Child(t, z, r) # g => Child(t2, z, r) = Child(t, z, r)
         /\ Child(t2, p, d) = Child(t, p, d) /\ Child(t2, p, 1 - d) = g
         /\ Child(t2, g, 1 - d) = Child(t, g, 1 - d)
         /\ p \in A /\ p # g
         /\ \E sub2, H2 :
              /\ Shape(t2, A, IF g = top THEN p ELSE top, sub2)
              /\ \A z \in A : z # g => sub[z] \subseteq sub2[z]
              /\ sub2[g] = {z \in sub[g] : Toward(t[p].data, t[z].data, 1 - d)}
              /\ Balanced(t2, A, H2)
              /\ H2[p] = H[g] /\ H2[g] = H[p]
              /\ \A z \in A : z # g /\ z # p => H2[z] = H[z]
<1>. DEFINE s == 1 - d
<1>0. /\ s \in Sides /\ s # d /\ 1 - s = d /\ 1 - d = s
      /\ \A r \in Sides : r = s \/ r = d
  BY SideFacts
<1>. HIDE DEF s
<1>1. p = Child(t, g, 1 - s) /\ t2 = Hung(RotateOnce(t, g, s), y, e)
  BY <1>0
<1>2. p \in A /\ p # g /\ g \notin sub[p] /\ p \in sub[g]
  BY ChildFacts
<1>3. /\ t2 \in Trees
      /\ Turned(t, t2, A, g, p, s)
      /\ \A z \in A : /\ z = p => ~t2[z].isRed
                      /\ z = g => t2[z].isRed
                      /\ z # p /\ z # g => (t2[z].isRed <=> t[z].isRed)
      /\ \A z \in (Nodes \cup {Dummy}) \ A : z # y => t2[z] = t[z]
      /\ \A r \in Sides : y = Dummy =>
              Child(t2, Dummy, r) = IF r = e THEN p ELSE Child(t, Dummy, r)
  BY <1>0, <1>1, TurnIs
<1>4. \A z \in A : z \in Reds(t2, A) <=> (z \in Reds(t, A) /\ z # p) \/ z = g
  BY <1>2, <1>3 DEF Reds
<1>5. PICK sub2 : /\ Swapped(t, A, sub, sub2, g, p, s)
                  /\ Shape(t2, A, IF g = top THEN p ELSE top, sub2)
  BY <1>0, <1>1, <1>3, RotationShape
<1>6. \A z \in A : z # g => sub[z] \subseteq sub2[z]
  <2>1. sub[p] \subseteq sub[g]
    BY <1>2 DEF Shape, Nested
  <2>. QED
    BY <1>5, <2>1 DEF Swapped
<1>a. sub2[g] = {z \in sub[g] : Toward(t[p].data, t[z].data, 1 - d)}
  BY <1>0, <1>5 DEF Swapped
<1>7. PICK H2 : /\ Counted(t2, A, Reds(t2, A), H2)
                /\ H2[p] = H[g] /\ H2[g] = H[p]
                /\ \A z \in A : z # g /\ z # p => H2[z] = H[z]
  <2>1. \A z \in A : z \in Reds(t2, A) <=>
          IF z = g THEN TRUE ELSE IF z = p THEN g \in Reds(t, A) ELSE z \in Reds(t, A)
    BY <1>2, <1>4
  <2>. QED
    <3>1. Turned(t, t2, A, g, p, s)
      BY <1>3
    <3>. QED
      BY <1>0, <1>1, <2>1, <3>1, CountedTurn
<1>8. /\ \A z \in A, r \in Sides :
           Child(t2, z, r) = IF z = p /\ r = s THEN g
                             ELSE IF z = g /\ r = d THEN Child(t, p, s)
                             ELSE IF Child(t, z, r) = g THEN p
                             ELSE Child(t, z, r)
  BY <1>0, <1>3 DEF Turned
<1>9. \A r \in Sides : Child(t, p, r) # g
  BY <1>2, ChildFacts, OneParent DEF Shape, Nested
<1>10. \A r \in Sides : Child(t, g, r) # g
  BY ChildrenFacts, OneParent
<1>11. Reds(t, A) \subseteq A /\ Reds(t2, A) \subseteq A
  BY DEF Reds
<1>12. Apart(t2, A, Reds(t2, A))
  <2>. SUFFICES ASSUME NEW z \in A, NEW r \in Sides, z \in Reds(t2, A),
                       Child(t2, z, r) \in Reds(t2, A)
                PROVE  FALSE
    BY DEF Apart
  <2>1. z # p
    BY <1>4
  <2>2. CASE z = g /\ r = d
    <3>1. Child(t2, z, r) = Child(t, p, s)
      BY <1>2, <1>8, <2>2
    <3>2. Child(t, p, s) \notin Reds(t, A) /\ Child(t, p, s) # g
      BY <1>0, <1>9
    <3>. QED
      BY <1>4, <1>11, <3>1, <3>2
  <2>3. CASE z = g /\ r = s
    <3>1. Child(t2, z, r) = Child(t, g, s)
      BY <1>0, <1>2, <1>8, <1>10, <2>3
    <3>2. Child(t, g, s) \notin Reds(t, A) /\ Child(t, g, s) # g
      BY <1>0, <1>10
    <3>. QED
      BY <1>4, <1>11, <3>1, <3>2
  <2>4. CASE z # g
    <3>1. z \in Reds(t, A) /\ Child(t, z, r) \notin Reds(t, A)
      BY <1>4, <2>1, <2>4
    <3>2. CASE Child(t, z, r) = g
      BY <1>2, <1>4, <1>8, <2>1, <2>4, <3>2
    <3>3. CASE Child(t, z, r) # g
      BY <1>4, <1>8, <1>11, <2>1, <2>4, <3>1, <3>3
    <3>. QED
      BY <3>2, <3>3
  <2>. QED
    BY <1>0, <2>2, <2>3, <2>4
<1>13. Balanced(t2, A, H2)
  BY <1>5, <1>7, <1>12, BalancedIs
<1>14. \A z \in A : t2[z].data = t[z].data
  BY <1>3 DEF Turned
<1>15. /\ \A z \in A, r \in Sides :
            z # p /\ z # g /\ Child(t, z, r) # g => Child(t2, z, r) = Child(t, z, r)
       /\ Child(t2, p, d) = Child(t, p, d)
  BY <1>0, <1>2, <1>8, <1>9
<1>16. Child(t2, p, 1 - d) = g /\ Child(t2, g, 1 - d) = Child(t, g, 1 - d)
  BY <1>0, <1>2, <1>8, <1>10
<1>. QED
  BY <1>2, <1>3, <1>4, <1>5, <1>6, <1>7, <1>a, <1>13, <1>14, <1>15, <1>16

\* A double rotation does, when they are on different sides.
LEMMA DoubleRepair ==
  ASSUME NEW t \in Trees, NEW A, NEW top, NEW sub, Shape(t, A, top, sub),
         NEW H, Counted(t, A, Reds(t, A), H),
         NEW g \in A, NEW d \in Sides, NEW p, p = Child(t, g, d), p # Null,
         NEW n, n = Child(t, p, 1 - d), n \in Reds(t, A),
         p \in Reds(t, A), g \notin Reds(t, A),
         Child(t, g, 1 - d) \notin Reds(t, A), Child(t, p, d) \notin Reds(t, A),
         \A z \in A, r \in Sides :
           z \in Reds(t, A) /\ z # p => Child(t, z, r) \notin Reds(t, A),
         NEW y, NEW e \in Sides,
         (y \in A /\ Child(t, y, e) = g) \/ (y = Dummy /\ g = top),
         NEW t2, t2 = Hung(RotateTwice(t, g, 1 - d), y, e)
  PROVE  /\ t2 \in Trees
         /\ \A z \in A : t2[z].data = t[z].data
         /\ \A z \in (Nodes \cup {Dummy}) \ A : z # y => t2[z] = t[z]
         /\ \A r \in Sides : y = Dummy =>
              Child(t2, Dummy, r) = IF r = e THEN n ELSE Child(t, Dummy, r)
         /\ \A z \in A : z \in Reds(t2, A) <=> (z \in Reds(t, A) /\ z # n) \/ z = g
         /\ \A z \in A, r \in Sides : z \notin {n, p, g} /\ Child(t, z, r) # g
              => Child(t2, z, r) = Child(t, z, r)
         /\ Child(t2, n, d) = p /\ Child(t2, n, 1 - d) = g
         /\ Child(t2, p, 1 - d) = Child(t, n, d)
         /\ Child(t2, g, d) = Child(t, n, 1 - d)
         /\ n \in A /\ p \in A /\ p # g /\ n # g /\ n # p
         /\ \E sub2, H2 :
              /\ Shape(t2, A, IF g = top THEN n ELSE top, sub2)
              /\ sub[n] \subseteq sub2[n]
              /\ Balanced(t2, A, H2)
              /\ H2[n] = H[g] /\ H2[g] = H[p] /\ H2[p] = H[p]
              /\ \A z \in A : z # g /\ z # n => H2[z] = H[z]
<1>. DEFINE s == 1 - d
<1>0. /\ s \in Sides /\ s # d /\ 1 - s = d /\ 1 - d = s
      /\ \A r \in Sides : r = s \/ r = d
  BY SideFacts
<1>. HIDE DEF s
<1>1. /\ p = Child(t, g, 1 - s) /\ t2 = Hung(RotateTwice(t, g, s), y, e)
      /\ n = Child(t, p, s) /\ n # Null
  BY <1>0, OneParent DEF Reds
<1>2. /\ p \in A /\ p # g /\ g \notin sub[p] /\ p \in sub[g]
      /\ n \in A /\ n # p /\ n \in sub[p] /\ p \notin sub[n] /\ n # g
  BY <1>0, <1>1, ChildFacts
<1>3. /\ t2 \in Trees
      /\ \E t1 : /\ Turned(t, t1, A, p, n, d)
                 /\ Child(t1, g, d) = n
                 /\ Turned(t1, t2, A, g, n, s)
      /\ \A z \in A : /\ z = n => ~t2[z].isRed
                      /\ z = g \/ z = p => t2[z].isRed
                      /\ z # n /\ z # g /\ z # p => (t2[z].isRed <=> t[z].isRed)
      /\ \A z \in (Nodes \cup {Dummy}) \ A : z # y => t2[z] = t[z]
      /\ \A r \in Sides : y = Dummy =>
              Child(t2, Dummy, r) = IF r = e THEN n ELSE Child(t, Dummy, r)
  BY <1>0, <1>1, TwiceIs
<1>4. \A z \in A : z \in Reds(t2, A) <=> (z \in Reds(t, A) /\ z # n) \/ z = g
  BY <1>2, <1>3 DEF Reds
<1>5. PICK t1 : /\ Turned(t, t1, A, p, n, d)
                /\ Child(t1, g, d) = n
                /\ Turned(t1, t2, A, g, n, s)
  BY <1>3
<1>6. PICK sub1 : /\ Swapped(t, A, sub, sub1, p, n, d)
                  /\ Shape(t1, A, IF p = top THEN n ELSE top, sub1)
  BY <1>0, <1>1, <1>2, <1>5, RotationShape
<1>7. (IF p = top THEN n ELSE top) = top
  BY <1>0, <1>1, OneParent
<1>8. PICK sub2 : /\ Swapped(t1, A, sub1, sub2, g, n, s)
                  /\ Shape(t2, A, IF g = top THEN n ELSE top, sub2)
  <2>1. n = Child(t1, g, 1 - s)
    BY <1>0, <1>5
  <2>. QED
    BY <1>0, <1>1, <1>5, <1>6, <1>7, <2>1, RotationShape
<1>9. sub[n] \subseteq sub2[n]
  <2>1. sub2[n] = sub[g]
    BY <1>2, <1>6, <1>8 DEF Swapped
  <2>. QED
    BY <1>2, <2>1 DEF Shape, Nested
<1>10. PICK H1 : /\ Counted(t1, A, Reds(t, A), H1)
                 /\ H1[n] = H[p] /\ H1[p] = H[n]
                 /\ \A z \in A : z # p /\ z # n => H1[z] = H[z]
  <2>1. \A z \in A : z \in Reds(t, A) <=>
          IF z = p THEN TRUE ELSE IF z = n THEN p \in Reds(t, A) ELSE z \in Reds(t, A)
    OBVIOUS
  <2>. QED
    BY <1>0, <1>1, <1>2, <1>5, <2>1, CountedTurn
<1>11. PICK H2 : /\ Counted(t2, A, Reds(t2, A), H2)
                 /\ H2[n] = H1[g] /\ H2[g] = H1[n]
                 /\ \A z \in A : z # g /\ z # n => H2[z] = H1[z]
  <2>1. n = Child(t1, g, 1 - s) /\ Shape(t1, A, top, sub1)
    BY <1>0, <1>5, <1>6, <1>7
  <2>2. \A z \in A : z \in Reds(t2, A) <=>
          IF z = g THEN TRUE ELSE IF z = n THEN g \in Reds(t, A) ELSE z \in Reds(t, A)
    BY <1>2, <1>4
  <2>. QED
    BY <1>0, <1>1, <1>2, <1>5, <1>10, <2>1, <2>2, CountedTurn
<1>12. H[n] = H[p]
  <2>1. H[p] = Height(H, n) + 0 /\ H[n] \in Nat
    BY <1>0, <1>1, <1>2 DEF Counted
  <2>. QED
    BY <1>1, <2>1 DEF Height
<1>13. /\ H2[n] = H[g] /\ H2[g] = H[p] /\ H2[p] = H[p]
       /\ \A z \in A : z # g /\ z # n => H2[z] = H[z]
  BY <1>2, <1>10, <1>11, <1>12
<1>14. /\ \A r \in Sides : Child(t, p, r) # g /\ Child(t, n, r) # g /\ Child(t, n, r) # p
       /\ \A z \in A, r \in Sides : Child(t, z, r) # z
       /\ \A y0, z \in A : \A r, w \in Sides :
            Child(t, y0, r) = Child(t, z, w) /\ Child(t, z, w) # Null
            => y0 = z /\ r = w
  <2>1. \A z \in A : z \in sub[z]
    BY DEF Shape, Nested
  <2>2. \A r \in Sides : Child(t, p, r) # g
    BY <1>2, ChildFacts, OneParent DEF Shape, Nested
  <2>3. sub[n] \subseteq sub[p]
    BY <1>2 DEF Shape, Nested
  <2>4. \A r \in Sides : Child(t, n, r) # Null => Child(t, n, r) \in sub[n]
    BY <1>2, ChildFacts
  <2>5. g # Null /\ p # Null
    BY <1>2, OneParent
  <2>6. \A z \in A, r \in Sides : Child(t, z, r) # z
    BY ChildrenFacts, OneParent
  <2>. QED
    BY <1>2, <2>2, <2>3, <2>4, <2>5, <2>6, OneParent
<1>15. \A z \in A, r \in Sides :
         Child(t1, z, r) = IF z = n /\ r = d THEN p
                           ELSE IF z = p /\ r = s THEN Child(t, n, d)
                           ELSE IF Child(t, z, r) = p THEN n
                           ELSE Child(t, z, r)
  BY <1>0, <1>5 DEF Turned
<1>16. \A z \in A, r \in Sides :
         Child(t2, z, r) = IF z = n /\ r = s THEN g
                           ELSE IF z = g /\ r = d THEN Child(t1, n, s)
                           ELSE IF Child(t1, z, r) = g THEN n
                           ELSE Child(t1, z, r)
  BY <1>0, <1>5 DEF Turned
<1>17. Child(t1, n, s) = Child(t, n, s)
  BY <1>0, <1>2, <1>14, <1>15
<1>18. /\ Child(t2, n, d) = p /\ Child(t2, n, s) = g
       /\ Child(t2, p, s) = Child(t, n, d) /\ Child(t2, p, d) = Child(t, p, d)
       /\ Child(t2, g, d) = Child(t, n, s) /\ Child(t2, g, s) = Child(t, g, s)
  <2>1. Child(t2, n, d) = p /\ Child(t2, n, s) = g
    BY <1>0, <1>2, <1>14, <1>15, <1>16
  <2>2. Child(t2, p, s) = Child(t, n, d)
    BY <1>0, <1>2, <1>14, <1>15, <1>16
  <2>3. Child(t2, p, d) = Child(t, p, d)
    BY <1>0, <1>2, <1>14, <1>15, <1>16
  <2>4. Child(t2, g, d) = Child(t, n, s)
    BY <1>0, <1>2, <1>16, <1>17
  <2>5. Child(t, g, s) # p
    BY <1>0, <1>1, <1>14
  <2>6. Child(t2, g, s) = Child(t, g, s)
    BY <1>0, <1>2, <1>14, <1>15, <1>16, <2>5
  <2>. QED
    BY <2>1, <2>2, <2>3, <2>4, <2>6
<1>19. ASSUME NEW z \in A, NEW r \in Sides, z \notin {n, p, g}
       PROVE  Child(t2, z, r) = IF Child(t, z, r) = g THEN n ELSE Child(t, z, r)
  <2>1. Child(t, z, r) # p
    <3>. SUFFICES ASSUME Child(t, z, r) = p PROVE FALSE
      OBVIOUS
    <3>1. Child(t, z, r) = Child(t, g, d) /\ Child(t, g, d) # Null
      OBVIOUS
    <3>2. z = g
      BY <1>14, <3>1
    <3>. QED
      BY <1>19, <3>2
  <2>. QED
    BY <1>15, <1>16, <1>19, <2>1
<1>20. Reds(t, A) \subseteq A /\ Reds(t2, A) \subseteq A
  BY DEF Reds
<1>21. Apart(t2, A, Reds(t2, A))
  <2>. SUFFICES ASSUME NEW z \in A, NEW r \in Sides, z \in Reds(t2, A),
                       Child(t2, z, r) \in Reds(t2, A)
                PROVE  FALSE
    BY DEF Apart
  <2>1. z # n
    BY <1>2, <1>4
  <2>2. \A w \in Sides : Child(t, n, w) \notin Reds(t, A)
    BY <1>2
  <2>3. CASE z = g
    <3>1. Child(t2, z, r) \notin Reds(t, A) /\ Child(t2, z, r) # g
      BY <1>0, <1>14, <1>18, <2>2, <2>3
    <3>. QED
      BY <1>4, <1>20, <3>1
  <2>4. CASE z = p
    <3>1. Child(t2, z, r) \notin Reds(t, A) /\ Child(t2, z, r) # g
      BY <1>0, <1>14, <1>18, <2>2, <2>4
    <3>. QED
      BY <1>4, <1>20, <3>1
  <2>5. CASE z \notin {n, p, g}
    <3>1. z \in Reds(t, A) /\ Child(t, z, r) \notin Reds(t, A)
      BY <1>4, <2>5
    <3>2. Child(t2, z, r) = IF Child(t, z, r) = g THEN n ELSE Child(t, z, r)
      BY <1>19, <2>5
    <3>. QED
      BY <1>2, <1>4, <1>20, <3>1, <3>2
  <2>. QED
    BY <2>1, <2>3, <2>4, <2>5
<1>22. Balanced(t2, A, H2)
  BY <1>8, <1>11, <1>21, BalancedIs
<1>23. \A z \in A : t2[z].data = t[z].data
  BY <1>5 DEF Turned
<1>24. \A z \in A, r \in Sides : z \notin {n, p, g} /\ Child(t, z, r) # g
              => Child(t2, z, r) = Child(t, z, r)
  BY <1>19
<1>25. /\ Child(t2, n, d) = p /\ Child(t2, n, 1 - d) = g
       /\ Child(t2, p, 1 - d) = Child(t, n, d)
       /\ Child(t2, g, d) = Child(t, n, 1 - d)
  BY <1>0, <1>18
<1>. QED
  BY <1>2, <1>3, <1>4, <1>8, <1>9, <1>13, <1>22, <1>23, <1>24, <1>25

-----------------------------------------------------------------------------
(* The steps of a deletion on its way down.                                *)

\* Other colours leave the shape of a tree.
LEMMA SameShape ==
  ASSUME NEW t, NEW t2, NEW A, NEW top, NEW sub, Shape(t, A, top, sub),
         \A z \in A : t2[z].data = t[z].data /\ t2[z].parent = t[z].parent,
         \A z \in A, s \in Sides : Child(t2, z, s) = Child(t, z, s)
  PROVE  Shape(t2, A, top, sub)
<1>1. sub \in [A -> SUBSET A]
  BY DEF Shape, Nested
<1>2. \A z \in A, s \in Sides : Part(t2, sub, z, s) = Part(t, sub, z, s)
  BY <1>1 DEF Part
<1>3. Linked(t2, A, top, sub)
  <2>1. \A z \in A, e \in Sides :
          LET c == Child(t2, z, e)
          IN  IF c = Null THEN Part(t2, sub, z, e) = {}
              ELSE c \in A /\ t2[c].parent = z /\ sub[c] = Part(t2, sub, z, e)
    <3>. SUFFICES ASSUME NEW z \in A, NEW e \in Sides
                  PROVE  LET c == Child(t, z, e)
                         IN  IF c = Null THEN Part(t, sub, z, e) = {}
                             ELSE c \in A /\ t2[c].parent = z /\ sub[c] = Part(t, sub, z, e)
      BY <1>2
    <3>. QED
      BY DEF Shape, Linked
  <2>2. \A z \in A \ {top} :
          t2[z].parent \in A /\ \E e \in Sides : Child(t2, t2[z].parent, e) = z
    BY DEF Shape, Linked
  <2>3. IF A = {} THEN top = Null
        ELSE top \in A /\ t2[top].parent = Null /\ sub[top] = A
    BY DEF Shape, Linked
  <2>. QED
    BY <2>1, <2>2, <2>3 DEF Linked
<1>4. Ordered(t2, A, sub)
  <2>1. \A y, z \in A : \A v, w \in sub[y] :
          t2[v].data < t2[z].data /\ t2[z].data < t2[w].data => z \in sub[y]
    BY <1>1 DEF Shape, Ordered
  <2>2. \A z \in A : t2[z].data \in Data
    BY DEF Shape, Ordered
  <2>3. \A y, z \in A : t2[y].data = t2[z].data => y = z
    BY DEF Shape, Ordered
  <2>. QED
    BY <2>1, <2>2, <2>3 DEF Ordered
<1>. QED
  BY <1>3, <1>4 DEF Shape

\* f has the colours of the nodes.
Painted(t, f) == [z \in DOMAIN t |-> [t[z] EXCEPT !.isRed = f[z]]]

RedAbove(t, x) == Coloured(t, x, TRUE, FALSE)
RedBelow(t, x) == Coloured(t, x, FALSE, TRUE)

\* What a change of colours leaves as it was.
LEMMA PaintedIs ==
  ASSUME NEW t \in Trees, NEW f \in [Nodes \cup {Dummy} -> BOOLEAN],
         NEW t2, t2 = Painted(t, f)
  PROVE  /\ t2 \in Trees
         /\ \A z \in Nodes \cup {Dummy} :
              /\ t2[z].data = t[z].data /\ t2[z].parent = t[z].parent
              /\ t2[z].child = t[z].child
              /\ t2[z].isRed = f[z]
              /\ f[z] = t[z].isRed => t2[z] = t[z]
         /\ \A z \in Nodes \cup {Dummy}, s \in Sides : Child(t2, z, s) = Child(t, z, s)
<1>. DEFINE R == [parent : Address, child : [Sides -> Nodes \cup {Null}],
                  data : Data \cup {Null}, isRed : BOOLEAN]
<1>1. \A z \in Nodes \cup {Dummy} : t[z] \in R
  BY DEF Trees
<1>0. t2 = [z \in Nodes \cup {Dummy} |-> [t[z] EXCEPT !.isRed = f[z]]]
  BY DEF Trees, Painted
<1>2. \A z \in Nodes \cup {Dummy} :
        /\ t2[z] \in R /\ t2[z].data = t[z].data /\ t2[z].parent = t[z].parent
        /\ t2[z].child = t[z].child /\ t2[z].isRed = f[z]
        /\ f[z] = t[z].isRed => t2[z] = t[z]
  BY <1>0, <1>1
<1>. HIDE DEF R
<1>3. t2 \in [Nodes \cup {Dummy} -> R]
  BY <1>0, <1>2
<1>4. t2 \in Trees
  BY <1>3 DEF Trees, R
<1>. QED
  BY <1>2, <1>4 DEF Child

\* What a flip down changes: a node becomes black, its children red.
LEMMA RedBelowIs ==
  ASSUME NEW t \in Trees, NEW x, NEW t2, t2 = RedBelow(t, x)
  PROVE  /\ t2 \in Trees
         /\ \A z \in Nodes \cup {Dummy} :
              /\ t2[z].data = t[z].data /\ t2[z].parent = t[z].parent
              /\ z = x => ~t2[z].isRed
              /\ z # x /\ (\E s \in Sides : z = Child(t, x, s)) => t2[z].isRed
              /\ z # x /\ (\A s \in Sides : z # Child(t, x, s)) => t2[z] = t[z]
         /\ \A z \in Nodes \cup {Dummy}, s \in Sides : Child(t2, z, s) = Child(t, z, s)
<1>. DEFINE f == [z \in Nodes \cup {Dummy} |->
                    IF z = x THEN FALSE
                    ELSE IF \E s \in Sides : z = Child(t, x, s) THEN TRUE ELSE t[z].isRed]
<1>1. \A z \in Nodes \cup {Dummy} : t[z].isRed \in BOOLEAN
  BY TreeFacts
<1>2. f \in [Nodes \cup {Dummy} -> BOOLEAN]
  BY <1>1
<1>3. \A z \in Nodes \cup {Dummy} :
        /\ z = x => f[z] = FALSE
        /\ z # x /\ (\E s \in Sides : z = Child(t, x, s)) => f[z] = TRUE
        /\ z # x /\ (\A s \in Sides : z # Child(t, x, s)) => f[z] = t[z].isRed
  OBVIOUS
<1>4. t2 = Painted(t, f)
  BY DEF RedBelow, Coloured, Painted, Trees
<1>. HIDE DEF f
<1>5. /\ t2 \in Trees
      /\ \A z \in Nodes \cup {Dummy} :
           /\ t2[z].data = t[z].data /\ t2[z].parent = t[z].parent
           /\ t2[z].isRed = f[z]
           /\ f[z] = t[z].isRed => t2[z] = t[z]
      /\ \A z \in Nodes \cup {Dummy}, s \in Sides : Child(t2, z, s) = Child(t, z, s)
  BY <1>2, <1>4, PaintedIs
<1>. QED
  BY <1>3, <1>5

\* What a flip up changes: a node becomes red, its children black.
LEMMA RedAboveIs ==
  ASSUME NEW t \in Trees, NEW x, NEW t2, t2 = RedAbove(t, x)
  PROVE  /\ t2 \in Trees
         /\ \A z \in Nodes \cup {Dummy} :
              /\ t2[z].data = t[z].data /\ t2[z].parent = t[z].parent
              /\ z = x => t2[z].isRed
              /\ z # x /\ (\E s \in Sides : z = Child(t, x, s)) => ~t2[z].isRed
              /\ z # x /\ (\A s \in Sides : z # Child(t, x, s)) => t2[z] = t[z]
         /\ \A z \in Nodes \cup {Dummy}, s \in Sides : Child(t2, z, s) = Child(t, z, s)
<1>. DEFINE f == [z \in Nodes \cup {Dummy} |->
                    IF z = x THEN TRUE
                    ELSE IF \E s \in Sides : z = Child(t, x, s) THEN FALSE ELSE t[z].isRed]
<1>1. \A z \in Nodes \cup {Dummy} : t[z].isRed \in BOOLEAN
  BY TreeFacts
<1>2. f \in [Nodes \cup {Dummy} -> BOOLEAN]
  BY <1>1
<1>3. \A z \in Nodes \cup {Dummy} :
        /\ z = x => f[z] = TRUE
        /\ z # x /\ (\E s \in Sides : z = Child(t, x, s)) => f[z] = FALSE
        /\ z # x /\ (\A s \in Sides : z # Child(t, x, s)) => f[z] = t[z].isRed
  OBVIOUS
<1>4. t2 = Painted(t, f)
  BY DEF RedAbove, Coloured, Painted, Trees
<1>. HIDE DEF f
<1>5. /\ t2 \in Trees
      /\ \A z \in Nodes \cup {Dummy} :
           /\ t2[z].data = t[z].data /\ t2[z].parent = t[z].parent
           /\ t2[z].isRed = f[z]
           /\ f[z] = t[z].isRed => t2[z] = t[z]
      /\ \A z \in Nodes \cup {Dummy}, s \in Sides : Child(t2, z, s) = Child(t, z, s)
  BY <1>2, <1>4, PaintedIs
<1>. QED
  BY <1>3, <1>5

\* Two black children with black children, and a red node above them or the
\* top, exchange their colours.
LEMMA RecolourIs ==
  ASSUME NEW t \in Trees, NEW A, NEW top, NEW sub, Shape(t, A, top, sub),
         NEW H, Balanced(t, A, H),
         NEW p \in A, p \in Reds(t, A) \/ p = top,
         NEW l \in Sides, NEW x, x = Child(t, p, l), x # Null, x \notin Reds(t, A),
         NEW b, b = Child(t, p, 1 - l), b # Null, b \notin Reds(t, A),
         \A r \in Sides : Child(t, x, r) \notin Reds(t, A) /\ Child(t, b, r) \notin Reds(t, A),
         NEW t2, t2 = RedBelow(t, p)
  PROVE  /\ t2 \in Trees
         /\ \A z \in A : t2[z].data = t[z].data
         /\ \A z \in (Nodes \cup {Dummy}) \ A : t2[z] = t[z]
         /\ \A z \in A, r \in Sides : Child(t2, z, r) = Child(t, z, r)
         /\ x \in A /\ x \in Reds(t2, A)
         /\ \E H2 : Shape(t2, A, top, sub) /\ Balanced(t2, A, H2) /\ H2[x] = H[x] - 1
<1>0. /\ 1 - l \in Sides /\ 1 - l # l
      /\ \A r \in Sides : r = l \/ r = 1 - l
  BY SideFacts
<1>1. /\ x \in A /\ b \in A /\ x # p /\ b # p /\ x # b /\ A \subseteq Nodes /\ Null \notin A
  BY <1>0, ChildrenFacts, OneParent DEF Shape, Nested
<1>2. /\ t2 \in Trees
      /\ \A z \in Nodes \cup {Dummy} :
           /\ t2[z].data = t[z].data /\ t2[z].parent = t[z].parent
           /\ z = p => ~t2[z].isRed
           /\ z # p /\ (\E s \in Sides : z = Child(t, p, s)) => t2[z].isRed
           /\ z # p /\ (\A s \in Sides : z # Child(t, p, s)) => t2[z] = t[z]
      /\ \A z \in Nodes \cup {Dummy}, s \in Sides : Child(t2, z, s) = Child(t, z, s)
  BY RedBelowIs
<1>3. \A z : (\E s \in Sides : z = Child(t, p, s)) <=> z = x \/ z = b
  BY <1>0
<1>4. \A z \in A : z \in Reds(t2, A) <=>
        IF z = p THEN FALSE ELSE z \in Reds(t, A) \/ \E s \in Sides : z = Child(t, p, s)
  <2>. SUFFICES ASSUME NEW z \in A
                PROVE  z \in Reds(t2, A) <=>
                         z # p /\ (z \in Reds(t, A) \/ \E s \in Sides : z = Child(t, p, s))
    BY Zenon
  <2>1. z \in Nodes \cup {Dummy}
    BY <1>1
  <2>2. CASE z = p
    BY <1>2, <2>1, <2>2 DEF Reds
  <2>3. CASE z # p /\ \E s \in Sides : z = Child(t, p, s)
    BY <1>2, <2>1, <2>3 DEF Reds
  <2>4. CASE z # p /\ ~\E s \in Sides : z = Child(t, p, s)
    <3>1. t2[z].isRed <=> t[z].isRed
      BY <1>2, <2>1, <2>4
    <3>. QED
      BY <2>4, <3>1 DEF Reds
  <2>. QED
    BY <2>2, <2>3, <2>4
<1>5. \A z \in (Nodes \cup {Dummy}) \ A : t2[z] = t[z]
  <2>. SUFFICES ASSUME NEW z \in Nodes \cup {Dummy}, z \notin A
                PROVE  t2[z] = t[z]
    OBVIOUS
  <2>1. z # p /\ \A s \in Sides : z # Child(t, p, s)
    BY <1>1, <1>3
  <2>. QED
    BY <1>2, <2>1
<1>6. Shape(t2, A, top, sub)
  <2>1. \A z \in A : t2[z].data = t[z].data /\ t2[z].parent = t[z].parent
    BY <1>1, <1>2
  <2>2. \A z \in A, s \in Sides : Child(t2, z, s) = Child(t, z, s)
    BY <1>1, <1>2
  <2>. QED
    BY <2>1, <2>2, SameShape
<1>7. Counted(t, A, Reds(t, A), H) /\ Apart(t, A, Reds(t, A))
  BY BalancedIs
<1>8. \A s \in Sides : Child(t, p, s) # Null /\ Child(t, p, s) \notin Reds(t, A)
  BY <1>0
<1>9. Reds(t, A) \subseteq A /\ Reds(t2, A) \subseteq A
  BY DEF Reds
<1>10. PICK H2 : /\ Counted(t, A, Reds(t2, A), H2)
                 /\ \A z \in A : H2[z] =
                      IF (\E s \in Sides : z = Child(t, p, s)) \/ (z = p /\ p \notin Reds(t, A))
                      THEN H[z] - 1 ELSE H[z]
  <2>. DEFINE R == Reds(t, A)
              R2 == Reds(t2, A)
  <2>1. /\ Counted(t, A, R, H) /\ R \subseteq A
        /\ p \in R \/ p = top
        /\ \A s \in Sides : Child(t, p, s) # Null /\ Child(t, p, s) \notin R
        /\ \A z \in A : z \in R2 <=>
              IF z = p THEN FALSE ELSE z \in R \/ \E s \in Sides : z = Child(t, p, s)
    BY <1>4, <1>7, <1>8, <1>9
  <2>. HIDE DEF R, R2
  <2>2. \E H2 : /\ Counted(t, A, R2, H2)
                /\ \A z \in A : H2[z] =
                     IF (\E s \in Sides : z = Child(t, p, s)) \/ (z = p /\ p \notin R)
                     THEN H[z] - 1 ELSE H[z]
    BY <2>1, CountedUnflip
  <2>. QED
    BY <2>2 DEF R, R2
<1>11. H2[x] = H[x] - 1
  BY <1>1, <1>3, <1>10
<1>12. Counted(t2, A, Reds(t2, A), H2)
  <2>1. \A z \in A, s \in Sides : Child(t2, z, s) = Child(t, z, s)
    BY <1>1, <1>2
  <2>2. Counted(t, A, Reds(t2, A), H2)
    BY <1>10
  <2>. QED
    BY <2>1, <2>2, CountedSame
<1>13. Apart(t2, A, Reds(t2, A))
  <2>. SUFFICES ASSUME NEW z \in A, NEW r \in Sides, z \in Reds(t2, A),
                       Child(t, z, r) \in Reds(t2, A)
                PROVE  FALSE
    BY <1>1, <1>2 DEF Apart
  <2>0. \A y0, w \in A : \A v, u \in Sides :
           Child(t, y0, v) = Child(t, w, u) /\ Child(t, w, u) # Null
           => y0 = w /\ v = u
    BY OneParent
  <2>1. z # p
    BY <1>4
  <2>2. Child(t, z, r) # x /\ Child(t, z, r) # b
    BY <1>0, <2>0, <2>1
  <2>3. Child(t, z, r) \in Reds(t, A)
    BY <1>3, <1>4, <1>9, <2>2
  <2>4. z \in Reds(t, A) \/ z = x \/ z = b
    BY <1>3, <1>4
  <2>. QED
    BY <1>7, <2>3, <2>4 DEF Apart
<1>14. Balanced(t2, A, H2)
  BY <1>6, <1>12, <1>13, BalancedIs
<1>. QED
  BY <1>1, <1>2, <1>3, <1>4, <1>5, <1>6, <1>11, <1>14

Red(t, x) == [t EXCEPT ![x].isRed = TRUE]

\* What changes when one node becomes red.
LEMMA RedIs ==
  ASSUME NEW t \in Trees, NEW x \in Nodes, NEW t2, t2 = Red(t, x)
  PROVE  /\ t2 \in Trees
         /\ \A z \in Nodes \cup {Dummy} :
              /\ t2[z].data = t[z].data /\ t2[z].parent = t[z].parent
              /\ t2[z].child = t[z].child
              /\ z = x => t2[z].isRed
              /\ z # x => t2[z] = t[z]
         /\ \A z \in Nodes \cup {Dummy}, s \in Sides : Child(t2, z, s) = Child(t, z, s)
<1>. DEFINE f == [z \in Nodes \cup {Dummy} |-> IF z = x THEN TRUE ELSE t[z].isRed]
<1>1. \A z \in Nodes \cup {Dummy} : t[z].isRed \in BOOLEAN
  BY TreeFacts
<1>2. f \in [Nodes \cup {Dummy} -> BOOLEAN]
  BY <1>1
<1>3. \A z \in Nodes \cup {Dummy} :
        /\ z = x => f[z] = TRUE
        /\ z # x => f[z] = t[z].isRed
  OBVIOUS
<1>4. t2 = Painted(t, f)
  <2>. DEFINE R == [parent : Address, child : [Sides -> Nodes \cup {Null}],
                    data : Data \cup {Null}, isRed : BOOLEAN]
  <2>1. t \in [Nodes \cup {Dummy} -> R]
    BY DEF Trees
  <2>2. ASSUME NEW z \in Nodes \cup {Dummy}
        PROVE  t2[z] = [t[z] EXCEPT !.isRed = f[z]]
    <3>1. CASE z = x
      <4>1. t2[z] = [t[z] EXCEPT !.isRed = TRUE]
        BY <2>1, <3>1 DEF Red
      <4>. QED
        BY <3>1, <4>1
    <3>2. CASE z # x
      <4>1. t2[z] = t[z]
        BY <2>1, <3>2 DEF Red
      <4>2. t[z] = [t[z] EXCEPT !.isRed = t[z].isRed]
        BY <2>1
      <4>3. f[z] = t[z].isRed
        BY <3>2
      <4>. QED
        BY <4>1, <4>2, <4>3
    <3>. QED
      BY <3>1, <3>2
  <2>3. t2 = [z \in Nodes \cup {Dummy} |-> t2[z]]
    BY <2>1 DEF Red
  <2>4. DOMAIN t = Nodes \cup {Dummy}
    BY <2>1
  <2>. HIDE DEF f, R
  <2>. QED
    BY <2>2, <2>3, <2>4 DEF Painted
<1>. HIDE DEF f
<1>5. /\ t2 \in Trees
      /\ \A z \in Nodes \cup {Dummy} :
           /\ t2[z].data = t[z].data /\ t2[z].parent = t[z].parent
           /\ t2[z].child = t[z].child
           /\ t2[z].isRed = f[z]
           /\ f[z] = t[z].isRed => t2[z] = t[z]
      /\ \A z \in Nodes \cup {Dummy}, s \in Sides : Child(t2, z, s) = Child(t, z, s)
  BY <1>2, <1>4, PaintedIs
<1>. QED
  BY <1>3, <1>5

\* The colours a deletion gives after it has pulled a sibling over.
LEMMA PulledColours ==
  ASSUME NEW t \in Trees, NEW b, NEW x \in Nodes,
         NEW t3, t3 = RedAbove(t, b), NEW t2, t2 = Red(t3, x)
  PROVE  /\ t2 \in Trees
         /\ \A z \in Nodes \cup {Dummy} :
              /\ t2[z].data = t[z].data /\ t2[z].parent = t[z].parent
              /\ z = x \/ z = b => t2[z].isRed
              /\ z # x /\ z # b /\ (\E s \in Sides : z = Child(t, b, s)) => ~t2[z].isRed
              /\ z # x /\ z # b /\ (\A s \in Sides : z # Child(t, b, s)) => t2[z] = t[z]
         /\ \A z \in Nodes \cup {Dummy}, s \in Sides : Child(t2, z, s) = Child(t, z, s)
<1>2. /\ t3 \in Trees
      /\ \A z \in Nodes \cup {Dummy} :
           /\ t3[z].data = t[z].data /\ t3[z].parent = t[z].parent
           /\ z = b => t3[z].isRed
           /\ z # b /\ (\E s \in Sides : z = Child(t, b, s)) => ~t3[z].isRed
           /\ z # b /\ (\A s \in Sides : z # Child(t, b, s)) => t3[z] = t[z]
      /\ \A z \in Nodes \cup {Dummy}, s \in Sides : Child(t3, z, s) = Child(t, z, s)
  BY RedAboveIs
<1>3. t3 \in Trees
  BY <1>2
<1>4. t2 \in Trees
  BY <1>3, RedIs
<1>5. \A z \in Nodes \cup {Dummy} :
        /\ t2[z].data = t3[z].data /\ t2[z].parent = t3[z].parent
        /\ t2[z].child = t3[z].child
        /\ z = x => t2[z].isRed
        /\ z # x => t2[z] = t3[z]
  BY <1>3, RedIs
<1>6. \A z \in Nodes \cup {Dummy}, s \in Sides : Child(t2, z, s) = Child(t3, z, s)
  BY <1>5 DEF Child
<1>. QED
  BY <1>2, <1>4, <1>5, <1>6

\* Before its outer child a node goes down on the other side: what a rotation
\* does to the red outer nephew of x ...
LEMMA PulledOnce ==
  ASSUME NEW t \in Trees, NEW A, NEW top, NEW sub, Shape(t, A, top, sub),
         NEW H, Balanced(t, A, H),
         NEW p \in A, p \in Reds(t, A) \/ p = top,
         NEW l \in Sides, NEW x, x = Child(t, p, l), x # Null, x \notin Reds(t, A),
         NEW b, b = Child(t, p, 1 - l), b # Null, b \notin Reds(t, A),
         \A r \in Sides : Child(t, x, r) \notin Reds(t, A),
         Child(t, b, l) \notin Reds(t, A), Child(t, b, 1 - l) \in Reds(t, A),
         NEW y, NEW e \in Sides,
         (y \in A /\ Child(t, y, e) = p) \/ (y = Dummy /\ p = top),
         NEW t1, t1 = Hung(RotateOnce(t, p, l), y, e),
         NEW t2, t2 = Red(RedAbove(t1, b), x)
  PROVE  /\ t2 \in Trees
         /\ \A z \in A : t2[z].data = t[z].data
         /\ \A z \in (Nodes \cup {Dummy}) \ A : z # y => t2[z] = t[z]
         /\ \A r \in Sides : y = Dummy =>
              Child(t2, Dummy, r) = IF r = e THEN b ELSE Child(t, Dummy, r)
         /\ \A r \in Sides : Child(t2, x, r) = Child(t, x, r)
         /\ Child(t2, p, l) = x
         /\ x \in A /\ x \in Reds(t2, A)
         /\ \E sub2, H2 :
              /\ Shape(t2, A, IF p = top THEN b ELSE top, sub2)
              /\ sub2[x] = sub[x]
              /\ Balanced(t2, A, H2) /\ H2[x] = H[x] - 1
<1>. DEFINE m == 1 - l
            o == Child(t, b, m)
            R == Reds(t, A)
            R1 == (R \ {p}) \cup {x, b}
            R2 == (R1 \cup {p}) \ {b}
            R3 == Reds(t2, A)
<1>0. /\ m \in Sides /\ m # l /\ 1 - l = m /\ 1 - m = l
      /\ \A r \in Sides : r = l \/ r = m
  BY SideFacts
<1>1. /\ A \subseteq Nodes /\ Null \notin A
      /\ x \in A /\ x # p /\ b \in A /\ b # p /\ x # b /\ p \notin sub[b]
  BY <1>0, ChildFacts, OneParent DEF Shape, Nested
<1>2. R \subseteq A /\ R3 \subseteq A
  BY DEF Reds
<1>3. o \in R /\ o \in A /\ o # Null /\ o # b /\ o # p /\ o # x
  <2>1. o \in R /\ o \in A /\ o # Null
    BY <1>0, <1>1, <1>2
  <2>2. o \in sub[b] /\ o # b
    BY <1>0, <1>1, <2>1, ChildFacts
  <2>3. o # x
    BY <1>0, <1>1, OneParent
  <2>. QED
    BY <1>1, <2>1, <2>2, <2>3
<1>. HIDE DEF m
<1>4. /\ t1 \in Trees
      /\ Turned(t, t1, A, p, b, l)
      /\ \A z \in A : /\ z = b => ~t1[z].isRed
                      /\ z = p => t1[z].isRed
                      /\ z # b /\ z # p => (t1[z].isRed <=> t[z].isRed)
      /\ \A z \in (Nodes \cup {Dummy}) \ A : z # y => t1[z] = t[z]
      /\ \A r \in Sides : y = Dummy =>
              Child(t1, Dummy, r) = IF r = e THEN b ELSE Child(t, Dummy, r)
  BY TurnIs
<1>5. \A z \in A, r \in Sides :
        Child(t1, z, r) = IF z = b /\ r = l THEN p
                          ELSE IF z = p /\ r = m THEN Child(t, b, l)
                          ELSE IF Child(t, z, r) = p THEN b
                          ELSE Child(t, z, r)
  BY <1>0, <1>4 DEF Turned
<1>6. Child(t1, b, l) = p /\ Child(t1, b, m) = o
  BY <1>0, <1>1, <1>3, <1>5
<1>7. /\ t2 \in Trees
      /\ \A z \in Nodes \cup {Dummy} :
           /\ t2[z].data = t1[z].data /\ t2[z].parent = t1[z].parent
           /\ z = x \/ z = b => t2[z].isRed
           /\ z # x /\ z # b /\ (\E s \in Sides : z = Child(t1, b, s)) => ~t2[z].isRed
           /\ z # x /\ z # b /\ (\A s \in Sides : z # Child(t1, b, s)) => t2[z] = t1[z]
      /\ \A z \in Nodes \cup {Dummy}, s \in Sides : Child(t2, z, s) = Child(t1, z, s)
  <2>1. t1 \in Trees /\ x \in Nodes
    BY <1>1, <1>4
  <2>. QED
    BY <2>1, PulledColours
<1>10. \A z : (\E s \in Sides : z = Child(t1, b, s)) <=> z = p \/ z = o
  BY <1>0, <1>6
<1>11. /\ \A z \in Nodes \cup {Dummy}, s \in Sides : Child(t2, z, s) = Child(t1, z, s)
       /\ \A z \in A : t2[z].data = t1[z].data /\ t2[z].parent = t1[z].parent
  BY <1>1, <1>7
<1>12. \A z \in (Nodes \cup {Dummy}) \ A : t2[z] = t1[z]
  BY <1>1, <1>3, <1>7, <1>10
<1>13. ASSUME NEW z \in A
       PROVE  z \in R3 <=> z = b \/ z = x \/ (z \in R /\ z # p /\ z # o)
  <2>0. z \in Nodes \cup {Dummy}
    BY <1>1
  <2>1. CASE z = x \/ z = b
    BY <1>7, <2>0, <2>1 DEF Reds
  <2>3. CASE z = p \/ z = o
    <3>1. z # x /\ z # b
      BY <1>1, <1>3, <2>3
    <3>2. ~t2[z].isRed
      BY <1>7, <1>10, <2>0, <2>3, <3>1
    <3>. QED
      BY <2>3, <3>1, <3>2 DEF Reds
  <2>4. CASE z # x /\ z # b /\ z # p /\ z # o
    <3>1. t2[z] = t1[z]
      BY <1>7, <1>10, <2>0, <2>4
    <3>. QED
      BY <1>4, <2>4, <3>1 DEF Reds
  <2>. QED
    BY <2>1, <2>3, <2>4
<1>14. Turned(t, t2, A, p, b, l)
  <2>1. \A z \in A : t2[z].data = t1[z].data /\ t2[z].parent = t1[z].parent
    BY <1>11
  <2>2. \A z \in A, s \in Sides : Child(t2, z, s) = Child(t1, z, s)
    BY <1>1, <1>11
  <2>. QED
    BY <1>4, <2>1, <2>2 DEF Turned
<1>15. PICK sub2 : /\ Swapped(t, A, sub, sub2, p, b, l)
                   /\ Shape(t2, A, IF p = top THEN b ELSE top, sub2)
  BY <1>0, <1>1, <1>14, RotationShape
<1>16. sub2[x] = sub[x]
  BY <1>1, <1>15 DEF Swapped
<1>17. Counted(t, A, R, H) /\ Apart(t, A, R)
  BY BalancedIs
<1>. HIDE DEF o, R, R1, R2, R3
<1>18. PICK H1 : Counted(t, A, R1, H1) /\ H1[x] = H[x] - 1
  <2>1. /\ Counted(t, A, R, H) /\ R \subseteq A
        /\ p \in R \/ p = top
        /\ \A s \in Sides : Child(t, p, s) # Null /\ Child(t, p, s) \notin R
    BY <1>0, <1>2, <1>17 DEF R
  <2>2. \A z \in A : z \in R1 <=>
          IF z = p THEN FALSE ELSE z \in R \/ \E s \in Sides : z = Child(t, p, s)
    BY <1>0, <1>1 DEF R1
  <2>3. \E H1 : /\ Counted(t, A, R1, H1)
                /\ \A z \in A : H1[z] =
                     IF (\E s \in Sides : z = Child(t, p, s)) \/ (z = p /\ p \notin R)
                     THEN H[z] - 1 ELSE H[z]
    BY <2>1, <2>2, CountedUnflip
  <2>. QED
    BY <1>1, <2>3
<1>19. PICK H2 : Counted(t2, A, R2, H2) /\ H2[x] = H1[x]
  <2>1. \A z \in A : z \in R2 <=> IF z = p THEN TRUE
                                  ELSE IF z = b THEN p \in R1 ELSE z \in R1
    BY <1>1 DEF R1, R2
  <2>2. b \in R1 /\ b = Child(t, p, 1 - l) /\ Counted(t, A, R1, H1)
    BY <1>18 DEF R1
  <2>3. \E H2 : /\ Counted(t2, A, R2, H2)
                /\ H2[b] = H1[p] /\ H2[p] = H1[b]
                /\ \A z \in A : z # p /\ z # b => H2[z] = H1[z]
    BY <1>14, <2>1, <2>2, CountedTurn
  <2>. QED
    BY <1>1, <2>3
<1>20. \A z : (\E s \in Sides : z = Child(t2, b, s)) <=> z = p \/ z = o
  BY <1>1, <1>10, <1>11
<1>21. PICK H3 : Counted(t2, A, R3, H3) /\ H3[x] = H2[x]
  <2>1. R2 \subseteq A /\ b \notin R2 /\ \A s \in Sides : Child(t2, b, s) \in R2
    BY <1>1, <1>2, <1>3, <1>20 DEF R1, R2
  <2>2. \A z \in A : z \in R3 <=> IF z = b THEN TRUE
                         ELSE z \in R2 /\ \A s \in Sides : z # Child(t2, b, s)
    BY <1>1, <1>3, <1>13, <1>20 DEF R1, R2
  <2>3. \E H3 : /\ Counted(t2, A, R3, H3)
                /\ \A z \in A : H3[z] =
                     IF \E s \in Sides : z = Child(t2, b, s) THEN H2[z] + 1 ELSE H2[z]
    <3>1. PICK hub : Shape(t2, A, hub, sub2)
      BY <1>15
    <3>2. b \in A /\ Counted(t2, A, R2, H2)
      BY <1>1, <1>19
    <3>. QED
      BY <2>1, <2>2, <3>1, <3>2, CountedFlip
  <2>. QED
    BY <1>1, <1>3, <1>20, <2>3
<1>22. /\ \A z, w \in A : \A r, s \in Sides :
            Child(t, z, r) = Child(t, w, s) /\ Child(t, w, s) # Null => z = w /\ r = s
       /\ \A z \in A, r \in Sides : top # Null => Child(t, z, r) # top
       /\ \A z \in A, r \in Sides : Child(t, z, r) # z
  BY <1>1, ChildrenFacts, OneParent
<1>23. /\ \A r \in Sides : Child(t2, x, r) = Child(t, x, r)
       /\ Child(t2, p, l) = x
       /\ \A z \in A, r \in Sides : z # b /\ z # p =>
            Child(t2, z, r) = IF Child(t, z, r) = p THEN b ELSE Child(t, z, r)
  <2>1. \A z \in A, r \in Sides : z # b /\ z # p =>
            Child(t2, z, r) = IF Child(t, z, r) = p THEN b ELSE Child(t, z, r)
    BY <1>1, <1>5, <1>11
  <2>2. Child(t2, p, l) = x
    BY <1>0, <1>1, <1>5, <1>11
  <2>3. \A r \in Sides : Child(t, x, r) # p
    BY <1>1, ChildFacts, OneParent DEF Shape, Nested
  <2>. QED
    BY <1>1, <2>1, <2>2, <2>3
<1>24. Apart(t2, A, R3)
  <2>. SUFFICES ASSUME NEW z \in A, NEW r \in Sides, z \in R3,
                       Child(t2, z, r) \in R3
                PROVE  FALSE
    BY DEF Apart
  <2>1. z # p /\ z # o
    BY <1>1, <1>3, <1>13
  <2>2. CASE z = b
    <3>1. Child(t2, z, r) = p \/ Child(t2, z, r) = o
      BY <1>20, <2>2
    <3>. QED
      BY <1>1, <1>3, <1>13, <3>1
  <2>3. CASE z = x
    <3>1. Child(t2, z, r) = Child(t, x, r) /\ Child(t, x, r) \notin R
      BY <1>23, <2>3 DEF R
    <3>2. Child(t, x, r) # b /\ Child(t, x, r) # x
      BY <1>0, <1>1, <1>22
    <3>. QED
      BY <1>2, <1>13, <3>1, <3>2
  <2>4. CASE z # b /\ z # x
    <3>1. z \in R /\ Child(t, z, r) \notin R
      BY <1>13, <1>17, <2>4 DEF Apart
    <3>2. Child(t, z, r) # p
      BY <1>1, <1>22, <3>1 DEF R
    <3>3. Child(t2, z, r) = Child(t, z, r)
      BY <1>23, <2>1, <2>4, <3>2
    <3>4. Child(t, z, r) # b /\ Child(t, z, r) # x
      BY <1>0, <1>22, <2>1
    <3>. QED
      BY <1>2, <1>13, <3>1, <3>3, <3>4
  <2>. QED
    BY <2>2, <2>3, <2>4
<1>25. Balanced(t2, A, H3)
  BY <1>15, <1>21, <1>24, BalancedIs DEF R3
<1>26. H3[x] = H[x] - 1
  BY <1>18, <1>19, <1>21
<1>27. \A z \in A : t2[z].data = t[z].data
  BY <1>14 DEF Turned
<1>28. /\ \A z \in (Nodes \cup {Dummy}) \ A : z # y => t2[z] = t[z]
       /\ \A r \in Sides : y = Dummy =>
              Child(t2, Dummy, r) = IF r = e THEN b ELSE Child(t, Dummy, r)
  BY <1>4, <1>11, <1>12
<1>29. x \in A /\ x \in Reds(t2, A)
  BY <1>1, <1>13 DEF R3
<1>. QED
  BY <1>7, <1>15, <1>16, <1>23, <1>25, <1>26, <1>27, <1>28, <1>29

\* ... and a double rotation to a red inner one.
LEMMA PulledTwice ==
  ASSUME NEW t \in Trees, NEW A, NEW top, NEW sub, Shape(t, A, top, sub),
         NEW H, Balanced(t, A, H),
         NEW p \in A, p \in Reds(t, A) \/ p = top,
         NEW l \in Sides, NEW x, x = Child(t, p, l), x # Null, x \notin Reds(t, A),
         NEW b, b = Child(t, p, 1 - l), b # Null, b \notin Reds(t, A),
         \A r \in Sides : Child(t, x, r) \notin Reds(t, A),
         NEW q, q = Child(t, b, l), q \in Reds(t, A),
         NEW y, NEW e \in Sides,
         (y \in A /\ Child(t, y, e) = p) \/ (y = Dummy /\ p = top),
         NEW t1, t1 = Hung(RotateTwice(t, p, l), y, e),
         NEW t2, t2 = Red(RedAbove(t1, q), x)
  PROVE  /\ t2 \in Trees
         /\ \A z \in A : t2[z].data = t[z].data
         /\ \A z \in (Nodes \cup {Dummy}) \ A : z # y => t2[z] = t[z]
         /\ \A r \in Sides : y = Dummy =>
              Child(t2, Dummy, r) = IF r = e THEN q ELSE Child(t, Dummy, r)
         /\ \A r \in Sides : Child(t2, x, r) = Child(t, x, r)
         /\ Child(t2, p, l) = x
         /\ x \in A /\ x \in Reds(t2, A)
         /\ \E sub2, H2 :
              /\ Shape(t2, A, IF p = top THEN q ELSE top, sub2)
              /\ sub2[x] = sub[x]
              /\ Balanced(t2, A, H2) /\ H2[x] = H[x] - 1
<1>. DEFINE m == 1 - l
            R == Reds(t, A)
            R1 == (R \ {p}) \cup {x, b}
            R2 == (R1 \cup {p}) \ {q}
            R3 == Reds(t2, A)
<1>0. /\ m \in Sides /\ m # l /\ 1 - l = m /\ 1 - m = l
      /\ \A r \in Sides : r = l \/ r = m
  BY SideFacts
<1>1. /\ A \subseteq Nodes /\ Null \notin A
      /\ x \in A /\ x # p /\ b \in A /\ b # p /\ x # b /\ p \notin sub[b]
  BY <1>0, ChildFacts, OneParent DEF Shape, Nested
<1>2. R \subseteq A /\ R3 \subseteq A
  BY DEF Reds
<1>3. q \in R /\ q \in A /\ q # Null /\ q # b /\ q # p /\ q # x
  <2>1. q \in R /\ q \in A /\ q # Null
    BY <1>1, <1>2
  <2>2. q \in sub[b] /\ q # b
    BY <1>1, <2>1, ChildFacts
  <2>3. q # x
    BY <1>1, OneParent
  <2>. QED
    BY <1>1, <2>1, <2>2, <2>3
<1>. HIDE DEF m
<1>4. /\ t1 \in Trees
      /\ \E tt : /\ Turned(t, tt, A, b, q, 1 - l)
                 /\ Child(tt, p, 1 - l) = q
                 /\ Turned(tt, t1, A, p, q, l)
      /\ \A z \in A : /\ z = q => ~t1[z].isRed
                      /\ z = p \/ z = b => t1[z].isRed
                      /\ z # q /\ z # p /\ z # b => (t1[z].isRed <=> t[z].isRed)
      /\ \A z \in (Nodes \cup {Dummy}) \ A : z # y => t1[z] = t[z]
      /\ \A r \in Sides : y = Dummy =>
              Child(t1, Dummy, r) = IF r = e THEN q ELSE Child(t, Dummy, r)
  BY <1>3, TwiceIs
<1>a. PICK tt : /\ Turned(t, tt, A, b, q, m)
                /\ Child(tt, p, m) = q
                /\ Turned(tt, t1, A, p, q, l)
  BY <1>0, <1>4
<1>5. /\ \A z \in A, r \in Sides :
           Child(tt, z, r) = IF z = q /\ r = m THEN b
                             ELSE IF z = b /\ r = l THEN Child(t, q, m)
                             ELSE IF Child(t, z, r) = b THEN q
                             ELSE Child(t, z, r)
      /\ \A z \in A, r \in Sides :
           Child(t1, z, r) = IF z = q /\ r = l THEN p
                             ELSE IF z = p /\ r = m THEN Child(tt, q, l)
                             ELSE IF Child(tt, z, r) = p THEN q
                             ELSE Child(tt, z, r)
  BY <1>0, <1>a DEF Turned
<1>6. Child(t1, q, l) = p /\ Child(t1, q, m) = b
  BY <1>0, <1>1, <1>3, <1>5
<1>7. /\ t2 \in Trees
      /\ \A z \in Nodes \cup {Dummy} :
           /\ t2[z].data = t1[z].data /\ t2[z].parent = t1[z].parent
           /\ z = x \/ z = q => t2[z].isRed
           /\ z # x /\ z # q /\ (\E s \in Sides : z = Child(t1, q, s)) => ~t2[z].isRed
           /\ z # x /\ z # q /\ (\A s \in Sides : z # Child(t1, q, s)) => t2[z] = t1[z]
      /\ \A z \in Nodes \cup {Dummy}, s \in Sides : Child(t2, z, s) = Child(t1, z, s)
  <2>1. t1 \in Trees /\ x \in Nodes
    BY <1>1, <1>4
  <2>. QED
    BY <2>1, PulledColours
<1>10. \A z : (\E s \in Sides : z = Child(t1, q, s)) <=> z = p \/ z = b
  BY <1>0, <1>6
<1>11. /\ \A z \in Nodes \cup {Dummy}, s \in Sides : Child(t2, z, s) = Child(t1, z, s)
       /\ \A z \in A : t2[z].data = t1[z].data /\ t2[z].parent = t1[z].parent
  BY <1>1, <1>7
<1>12. \A z \in (Nodes \cup {Dummy}) \ A : t2[z] = t1[z]
  BY <1>1, <1>3, <1>7, <1>10
<1>13. ASSUME NEW z \in A
       PROVE  z \in R3 <=> z = q \/ z = x \/ (z \in R /\ z # p /\ z # b)
  <2>0. z \in Nodes \cup {Dummy}
    BY <1>1
  <2>1. CASE z = x \/ z = q
    BY <1>7, <2>0, <2>1 DEF Reds
  <2>3. CASE z = p \/ z = b
    <3>1. z # x /\ z # q
      BY <1>1, <1>3, <2>3
    <3>2. ~t2[z].isRed
      BY <1>7, <1>10, <2>0, <2>3, <3>1
    <3>. QED
      BY <2>3, <3>1, <3>2 DEF Reds
  <2>4. CASE z # x /\ z # b /\ z # p /\ z # q
    <3>1. t2[z] = t1[z]
      BY <1>7, <1>10, <2>0, <2>4
    <3>. QED
      BY <1>4, <2>4, <3>1 DEF Reds
  <2>. QED
    BY <2>1, <2>3, <2>4
<1>14. Turned(tt, t2, A, p, q, l)
  <2>1. \A z \in A : t2[z].data = t1[z].data /\ t2[z].parent = t1[z].parent
    BY <1>11
  <2>2. \A z \in A, s \in Sides : Child(t2, z, s) = Child(t1, z, s)
    BY <1>1, <1>11
  <2>. QED
    BY <1>a, <2>1, <2>2 DEF Turned
<1>15. PICK sub1 : /\ Swapped(t, A, sub, sub1, b, q, m)
                   /\ Shape(tt, A, top, sub1)
  <2>1. b # top
    BY <1>0, <1>1, OneParent
  <2>2. q = Child(t, b, 1 - m) /\ Turned(t, tt, A, b, q, m)
    BY <1>0, <1>a
  <2>3. \E sub1 : /\ Swapped(t, A, sub, sub1, b, q, m)
                  /\ Shape(tt, A, IF b = top THEN q ELSE top, sub1)
    BY <1>0, <1>1, <1>3, <2>2, RotationShape
  <2>. QED
    BY <2>1, <2>3
<1>b. PICK sub2 : /\ Swapped(tt, A, sub1, sub2, p, q, l)
                  /\ Shape(t2, A, IF p = top THEN q ELSE top, sub2)
  <2>1. q = Child(tt, p, 1 - l)
    BY <1>0, <1>a
  <2>. QED
    BY <1>3, <1>14, <1>15, <2>1, RotationShape
<1>16. sub2[x] = sub[x]
  BY <1>1, <1>3, <1>15, <1>b DEF Swapped
<1>17. Counted(t, A, R, H) /\ Apart(t, A, R)
  BY BalancedIs
<1>. HIDE DEF R, R1, R2, R3
<1>18. PICK H1 : Counted(t, A, R1, H1) /\ H1[x] = H[x] - 1
  <2>1. /\ Counted(t, A, R, H) /\ R \subseteq A
        /\ p \in R \/ p = top
        /\ \A s \in Sides : Child(t, p, s) # Null /\ Child(t, p, s) \notin R
    BY <1>0, <1>2, <1>17 DEF R
  <2>2. \A z \in A : z \in R1 <=>
          IF z = p THEN FALSE ELSE z \in R \/ \E s \in Sides : z = Child(t, p, s)
    BY <1>0, <1>1 DEF R1
  <2>3. \E H1 : /\ Counted(t, A, R1, H1)
                /\ \A z \in A : H1[z] =
                     IF (\E s \in Sides : z = Child(t, p, s)) \/ (z = p /\ p \notin R)
                     THEN H[z] - 1 ELSE H[z]
    BY <2>1, <2>2, CountedUnflip
  <2>. QED
    BY <1>1, <2>3
<1>c. PICK Ht : Counted(tt, A, R1, Ht) /\ Ht[x] = H1[x]
  <2>1. \A z \in A : z \in R1 <=> IF z = b THEN TRUE
                                  ELSE IF z = q THEN b \in R1 ELSE z \in R1
    BY <1>3 DEF R1
  <2>2. q \in R1 /\ q = Child(t, b, 1 - m) /\ Counted(t, A, R1, H1)
    BY <1>0, <1>3, <1>18 DEF R1
  <2>3. \E H2 : /\ Counted(tt, A, R1, H2)
                /\ H2[q] = H1[b] /\ H2[b] = H1[q]
                /\ \A z \in A : z # b /\ z # q => H2[z] = H1[z]
    BY <1>0, <1>1, <1>3, <1>a, <2>1, <2>2, CountedTurn
  <2>. QED
    BY <1>1, <1>3, <2>3
<1>19. PICK H2 : Counted(t2, A, R2, H2) /\ H2[x] = Ht[x]
  <2>1. \A z \in A : z \in R2 <=> IF z = p THEN TRUE
                                  ELSE IF z = q THEN p \in R1 ELSE z \in R1
    BY <1>1, <1>3 DEF R1, R2
  <2>2. q \in R1 /\ q = Child(tt, p, 1 - l) /\ Counted(tt, A, R1, Ht)
    BY <1>0, <1>3, <1>a, <1>c DEF R1
  <2>3. \E H2 : /\ Counted(t2, A, R2, H2)
                /\ H2[q] = Ht[p] /\ H2[p] = Ht[q]
                /\ \A z \in A : z # p /\ z # q => H2[z] = Ht[z]
    BY <1>3, <1>14, <1>15, <2>1, <2>2, CountedTurn
  <2>. QED
    BY <1>1, <1>3, <2>3
<1>20. \A z : (\E s \in Sides : z = Child(t2, q, s)) <=> z = p \/ z = b
  BY <1>1, <1>3, <1>10, <1>11
<1>21. PICK H3 : Counted(t2, A, R3, H3) /\ H3[x] = H2[x]
  <2>1. R2 \subseteq A /\ q \notin R2 /\ \A s \in Sides : Child(t2, q, s) \in R2
    BY <1>1, <1>2, <1>3, <1>20 DEF R1, R2
  <2>2. \A z \in A : z \in R3 <=> IF z = q THEN TRUE
                         ELSE z \in R2 /\ \A s \in Sides : z # Child(t2, q, s)
    BY <1>1, <1>3, <1>13, <1>20 DEF R1, R2
  <2>3. \E H3 : /\ Counted(t2, A, R3, H3)
                /\ \A z \in A : H3[z] =
                     IF \E s \in Sides : z = Child(t2, q, s) THEN H2[z] + 1 ELSE H2[z]
    BY <1>3, <1>b, <1>19, <2>1, <2>2, CountedFlip
  <2>. QED
    BY <1>1, <1>3, <1>20, <2>3
<1>22. /\ \A z, w \in A : \A r, s \in Sides :
            Child(t, z, r) = Child(t, w, s) /\ Child(t, w, s) # Null => z = w /\ r = s
       /\ \A z \in A, r \in Sides : top # Null => Child(t, z, r) # top
       /\ \A z \in A, r \in Sides : Child(t, z, r) # z
  BY <1>1, ChildrenFacts, OneParent
<1>23. /\ \A r \in Sides : Child(t2, x, r) = Child(t, x, r)
       /\ Child(t2, p, l) = x
       /\ \A z \in A, r \in Sides : z \notin {b, p, q} =>
            Child(t2, z, r) = IF Child(t, z, r) = p THEN q ELSE Child(t, z, r)
  <2>1. \A z \in A, r \in Sides : z # p => Child(t, z, r) # b
    BY <1>0, <1>1, <1>22
  <2>2. \A z \in A, r \in Sides : z \notin {b, p, q} => Child(tt, z, r) = Child(t, z, r)
    BY <1>5, <2>1
  <2>3. \A z \in A, r \in Sides : z \notin {b, p, q} =>
            Child(t2, z, r) = IF Child(t, z, r) = p THEN q ELSE Child(t, z, r)
    BY <1>1, <1>5, <1>11, <2>2
  <2>4. Child(tt, p, l) = x
    BY <1>0, <1>1, <1>3, <1>5
  <2>5. Child(t2, p, l) = x
    BY <1>0, <1>1, <1>3, <1>5, <1>11, <2>4
  <2>6. \A r \in Sides : Child(t, x, r) # p
    BY <1>1, ChildFacts, OneParent DEF Shape, Nested
  <2>. QED
    BY <1>1, <1>3, <2>3, <2>5, <2>6
<1>24. Apart(t2, A, R3)
  <2>. SUFFICES ASSUME NEW z \in A, NEW r \in Sides, z \in R3,
                       Child(t2, z, r) \in R3
                PROVE  FALSE
    BY DEF Apart
  <2>1. z # p /\ z # b
    BY <1>1, <1>3, <1>13
  <2>2. CASE z = q
    <3>1. Child(t2, z, r) = p \/ Child(t2, z, r) = b
      BY <1>20, <2>2
    <3>. QED
      BY <1>1, <1>3, <1>13, <3>1
  <2>3. CASE z = x
    <3>1. Child(t2, z, r) = Child(t, x, r) /\ Child(t, x, r) \notin R
      BY <1>23, <2>3 DEF R
    <3>2. Child(t, x, r) # q /\ Child(t, x, r) # x
      BY <1>0, <1>1, <1>3, <1>22
    <3>. QED
      BY <1>2, <1>13, <3>1, <3>2
  <2>4. CASE z # q /\ z # x
    <3>1. z \in R /\ Child(t, z, r) \notin R
      BY <1>13, <1>17, <2>4 DEF Apart
    <3>2. Child(t, z, r) # p
      BY <1>1, <1>22, <3>1 DEF R
    <3>3. Child(t2, z, r) = Child(t, z, r)
      BY <1>23, <2>1, <2>4, <3>2
    <3>4. Child(t, z, r) # q /\ Child(t, z, r) # x
      BY <1>0, <1>1, <1>3, <1>22, <2>1
    <3>. QED
      BY <1>2, <1>13, <3>1, <3>3, <3>4
  <2>. QED
    BY <2>2, <2>3, <2>4
<1>25. Balanced(t2, A, H3)
  BY <1>b, <1>21, <1>24, BalancedIs DEF R3
<1>26. H3[x] = H[x] - 1
  BY <1>18, <1>19, <1>21, <1>c
<1>27. \A z \in A : t2[z].data = t[z].data
  BY <1>a, <1>14 DEF Turned
<1>28. /\ \A z \in (Nodes \cup {Dummy}) \ A : z # y => t2[z] = t[z]
       /\ \A r \in Sides : y = Dummy =>
              Child(t2, Dummy, r) = IF r = e THEN q ELSE Child(t, Dummy, r)
  BY <1>4, <1>11, <1>12
<1>29. x \in A /\ x \in Reds(t2, A)
  BY <1>1, <1>13 DEF R3
<1>. QED
  BY <1>7, <1>16, <1>23, <1>25, <1>26, <1>27, <1>28, <1>29, <1>b

-----------------------------------------------------------------------------
(* Steps of calls: the way down, and the end.                              *)

\* The way to a datum goes on to a child.
LEMMA PathDown ==
  ASSUME NEW t, NEW A, NEW top, NEW sub, Shape(t, A, top, sub),
         NEW w \in A, NEW k \in Data, Path(t, A, sub, w, k),
         NEW d \in Sides, d = IF t[w].data < k THEN RIGHT ELSE LEFT,
         NEW x, x = Child(t, w, d), x # Null
  PROVE  Path(t, A, sub, x, k)
<1>0. k \in Int /\ \A z \in A : t[z].data \in Int
  BY DataAreInts, DataAssumption
<1>1. /\ x \in A /\ x \in sub[w] /\ w \in sub[w]
      /\ sub[x] = Part(t, sub, w, d) /\ Toward(t[w].data, t[x].data, d)
  BY ChildFacts DEF Shape, Nested
<1>2. \A z \in A : \A y, v \in sub[w] :
        t[y].data < t[z].data /\ t[z].data < t[v].data => z \in sub[w]
  BY DEF Shape, Ordered
<1>3. ASSUME NEW z \in A,
             \/ t[x].data < t[z].data /\ t[z].data < k
             \/ k < t[z].data /\ t[z].data < t[x].data
      PROVE  z \in sub[x]
  <2>1. CASE t[w].data < k
    <3>1. d = RIGHT /\ t[w].data < t[x].data
      BY <1>1, <2>1 DEF Toward, LEFT, RIGHT
    <3>2. t[w].data < t[z].data
      BY <1>0, <1>1, <1>3, <2>1, <3>1
    <3>3. z \in sub[w]
      BY <1>0, <1>1, <1>2, <1>3, <3>1, <3>2 DEF Path
    <3>. QED
      BY <1>1, <3>1, <3>2, <3>3 DEF Part, Toward
  <2>2. CASE ~(t[w].data < k)
    <3>1. d = LEFT /\ t[x].data < t[w].data
      BY <1>1, <2>2 DEF Toward, LEFT, RIGHT
    <3>2. t[z].data < t[w].data
      BY <1>0, <1>1, <1>3, <2>2, <3>1
    <3>3. z \in sub[w]
      BY <1>0, <1>1, <1>2, <1>3, <3>1, <3>2 DEF Path
    <3>. QED
      BY <1>1, <3>1, <3>2, <3>3 DEF Part, Toward, LEFT, RIGHT
  <2>. QED
    BY <2>1, <2>2
<1>. QED
  BY <1>3 DEF Path

\* The sides on which a datum is sought and others are found.
LEMMA Sought ==
  ASSUME NEW a \in Int, NEW k \in Int,
         NEW d \in Sides, d = IF a < k THEN RIGHT ELSE LEFT
  PROVE  /\ a # k => Toward(a, k, d)
         /\ \A b \in Int : a < b /\ b < k => Toward(a, b, d)
         /\ \A b \in Int : k < b /\ b < a => Toward(a, b, d)
         /\ \A b, c \in Int : Toward(a, b, 1 - d) /\ Toward(a, c, d) => Toward(b, c, d)
  BY DEF Toward, Sides, LEFT, RIGHT

\* The top may always be black.
LEMMA TopBlack ==
  ASSUME NEW t, NEW A, NEW top, NEW sub, Shape(t, A, top, sub),
         NEW H, Balanced(t, A, H),
         NEW t2,
         \A z \in A : t2[z].data = t[z].data /\ t2[z].parent = t[z].parent,
         \A z \in A, s \in Sides : Child(t2, z, s) = Child(t, z, s),
         \A z \in A : t2[z].isRed <=> t[z].isRed /\ z # top
  PROVE  Shape(t2, A, top, sub) /\ \E H2 : Balanced(t2, A, H2)
<1>1. Shape(t2, A, top, sub)
  BY SameShape
<1>2. Counted(t, A, Reds(t, A), H) /\ Apart(t, A, Reds(t, A))
  BY BalancedIs
<1>3. Null \notin A /\ \A y \in A, s \in Sides : top # Null => Child(t, y, s) # top
  BY OneParent
<1>4. \A z \in A : z \in Reds(t2, A) <=> z \in Reds(t, A) /\ z # top
  BY DEF Reds
<1>5. Reds(t, A) \subseteq A /\ Reds(t2, A) \subseteq A
  BY DEF Reds
<1>6. Apart(t2, A, Reds(t2, A))
  BY <1>2, <1>4, <1>5 DEF Apart
<1>7. \E H2 : Counted(t2, A, Reds(t2, A), H2)
  <2>1. CASE top \in Reds(t, A)
    <3>. DEFINE H2 == [z \in A |-> IF z = top THEN H[z] + 1 ELSE H[z]]
    <3>1. top \in A /\ top # Null
      BY <1>3, <1>5, <2>1
    <3>2. H \in [A -> Nat]
      BY <1>2 DEF Counted
    <3>3. H2 \in [A -> Nat]
      BY <3>2
    <3>4. ASSUME NEW z \in A, NEW s \in Sides
          PROVE  H2[z] = Height(H2, Child(t2, z, s)) + IF z \in Reds(t2, A) THEN 0 ELSE 1
      <4>1. Child(t2, z, s) = Child(t, z, s) /\ Child(t, z, s) # top
        BY <1>3, <3>1
      <4>2. Child(t, z, s) # Null => Child(t, z, s) \in A
        BY ChildrenFacts
      <4>3. Height(H2, Child(t, z, s)) = Height(H, Child(t, z, s))
        BY <4>1, <4>2 DEF Height
      <4>4. Height(H, Child(t, z, s)) \in Nat
        BY <3>2, <4>2 DEF Height
      <4>5. H[z] = Height(H, Child(t, z, s)) + IF z \in Reds(t, A) THEN 0 ELSE 1
        BY <1>2 DEF Counted
      <4>. QED
        BY <1>4, <2>1, <4>1, <4>3, <4>4, <4>5
    <3>. QED
      BY <3>3, <3>4 DEF Counted
  <2>2. CASE top \notin Reds(t, A)
    <3>1. Reds(t2, A) = Reds(t, A)
      BY <1>4, <1>5, <2>2
    <3>. QED
      BY <1>2, <3>1, CountedSame
  <2>. QED
    BY <2>1, <2>2
<1>. QED
  BY <1>1, <1>6, <1>7, BalancedIs

\* What the end of a call makes of the tree t.
LEMMA FinishedIs ==
  ASSUME NEW t \in Trees, Finished(t)
  PROVE  /\ root' = Child(t, Dummy, RIGHT)
         /\ tree' \in Trees /\ tree'[Dummy] = Erased
         /\ \A x \in Nodes :
              /\ tree'[x].data = t[x].data /\ tree'[x].parent = t[x].parent
              /\ tree'[x].child = t[x].child
              /\ x = root' => ~tree'[x].isRed
              /\ x # root' => tree'[x] = t[x]
<1>. DEFINE R == [parent : Address, child : [Sides -> Nodes \cup {Null}],
                  data : Data \cup {Null}, isRed : BOOLEAN]
            top == Child(t, Dummy, RIGHT)
<1>1. t \in [Nodes \cup {Dummy} -> R]
  BY DEF Trees
<1>2. root' = top
  BY DEF Finished
<1>3. tree' = [x \in Nodes \cup {Dummy} |->
                 IF x = Dummy THEN Erased
                 ELSE IF x = top THEN [t[x] EXCEPT !.isRed = FALSE] ELSE t[x]]
  BY <1>1 DEF Finished
<1>4. Erased \in R
  BY DEF Erased, Address
<1>5. ASSUME NEW x \in Nodes
      PROVE  /\ tree'[x] \in R
             /\ tree'[x].data = t[x].data /\ tree'[x].parent = t[x].parent
             /\ tree'[x].child = t[x].child
             /\ x = top => ~tree'[x].isRed
             /\ x # top => tree'[x] = t[x]
  <2>1. t[x] \in R /\ x # Dummy
    BY <1>1, AddressAssumption
  <2>2. CASE x = top
    <3>1. tree'[x] = [t[x] EXCEPT !.isRed = FALSE]
      BY <1>3, <2>1, <2>2
    <3>. QED
      BY <2>1, <2>2, <3>1
  <2>3. CASE x # top
    <3>1. tree'[x] = t[x]
      BY <1>3, <2>1, <2>3
    <3>. QED
      BY <2>1, <2>3, <3>1
  <2>. QED
    BY <2>2, <2>3
<1>6. tree'[Dummy] = Erased
  BY <1>3
<1>. HIDE DEF R
<1>7. tree' \in [Nodes \cup {Dummy} -> R]
  BY <1>3, <1>4, <1>5, <1>6
<1>8. tree' \in Trees
  BY <1>7 DEF Trees, R
<1>. QED
  BY <1>2, <1>5, <1>6, <1>8

-----------------------------------------------------------------------------
(* Heights and sizes.                                                      *)

\* Power is what its definition says it is.
LEMMA PowerIs ==
  Power \in [Nat -> Nat] /\ \A n \in Nat : Power[n] = IF n = 0 THEN 1 ELSE 2 * Power[n - 1]
<1>. DEFINE m == [n \in Nat |-> n]
            G == [n \in Nat |-> [f \in [Nat -> Nat] |->
                    IF n = 0 THEN 1 ELSE 2 * f[n - 1]]]
            Is(f) == f = [n \in Nat |-> IF n = 0 THEN 1 ELSE 2 * f[n - 1]]
<1>1. m \in [Nat -> Nat] /\ G \in [Nat -> [[Nat -> Nat] -> Nat]]
  <2>1. ASSUME NEW n \in Nat, NEW f \in [Nat -> Nat]
        PROVE  (IF n = 0 THEN 1 ELSE 2 * f[n - 1]) \in Nat
    <3>1. n # 0 => n - 1 \in Nat
      OBVIOUS
    <3>2. n # 0 => f[n - 1] \in Nat
      BY <3>1
    <3>. QED
      BY <3>2
  <2>. QED
    BY <2>1
<1>2. \A n \in Nat : \A f, g \in [Nat -> Nat] :
        (\A k \in Nat : m[k] < m[n] => f[k] = g[k]) => G[n][f] = G[n][g]
  <2>. SUFFICES ASSUME NEW n \in Nat, NEW f \in [Nat -> Nat], NEW g \in [Nat -> Nat],
                       \A k \in Nat : m[k] < m[n] => f[k] = g[k]
                PROVE  G[n][f] = G[n][g]
    OBVIOUS
  <2>1. n # 0 => n - 1 \in Nat /\ n - 1 < n
    OBVIOUS
  <2>2. n # 0 => f[n - 1] = g[n - 1]
    BY <2>1
  <2>. QED
    BY <2>2
<1>3. \E f \in [Nat -> Nat] : \A n \in Nat : f[n] = G[n][f]
  <2>1. Recurs(Nat, Nat, m, G)
    <3>. HIDE DEF m, G
    <3>. QED
      BY <1>1, <1>2 DEF Recurs
  <2>. HIDE DEF m, G
  <2>. QED
    BY <2>1, RecursionExists
<1>4. PICK f \in [Nat -> Nat] : \A n \in Nat : f[n] = G[n][f]
  BY <1>3
<1>5. Is(f)
  BY <1>4
<1>6. Is(Power)
  <2>1. Power = CHOOSE p : Is(p)
    BY DEF Power
  <2>. HIDE DEF Is
  <2>. QED
    BY <1>5, <2>1
<1>7. \A n \in Nat : Power[n] = IF n = 0 THEN 1 ELSE 2 * Power[n - 1]
  BY <1>6
<1>8. ASSUME NEW n \in Nat
      PROVE  Power[n] \in Nat
  <2>. DEFINE P == {i \in Nat : Power[i] \in Nat}
  <2>1. P \in SUBSET Nat /\ 0 \in P
    BY <1>7
  <2>2. ASSUME NEW i \in 1..n, i - 1 \in P
        PROVE  i \in P
    <3>1. i \in Nat /\ i # 0 /\ Power[i - 1] \in Nat
      BY <2>2
    <3>2. Power[i] = 2 * Power[i - 1]
      BY <1>7, <3>1
    <3>. QED
      BY <3>1, <3>2
  <2>. HIDE DEF P
  <2>3. 0..n \subseteq P
    BY <2>1, <2>2, UpTo
  <2>4. n \in 0..n
    OBVIOUS
  <2>. QED
    BY <2>3, <2>4 DEF P
<1>9. Power = [n \in Nat |-> Power[n]]
  BY <1>6
<1>. QED
  BY <1>7, <1>8, <1>9

\* The powers of two grow, and faster than their exponents.
LEMMA PowerFacts ==
  /\ Power[0] = 1
  /\ \A n \in Nat : Power[n] \in Nat /\ Power[n] >= n + 1 /\ Power[n + 1] = 2 * Power[n]
  /\ \A m, n \in Nat : m <= n => Power[m] <= Power[n]
  /\ \A n \in Nat : Power[3 * n] = Power[n] * Power[n] * Power[n]
<1>1. Power[0] = 1
  BY PowerIs
<1>2. \A n \in Nat : Power[n] \in Nat /\ Power[n + 1] = 2 * Power[n]
  <2>. SUFFICES ASSUME NEW n \in Nat
                PROVE  Power[n] \in Nat /\ Power[n + 1] = 2 * Power[n]
    OBVIOUS
  <2>1. n + 1 \in Nat /\ n + 1 # 0 /\ (n + 1) - 1 = n
    OBVIOUS
  <2>. QED
    BY <2>1, PowerIs
<1>3. ASSUME NEW n \in Nat
      PROVE  Power[n] >= n + 1
  <2>. DEFINE P == {i \in Nat : Power[i] >= i + 1}
  <2>1. P \in SUBSET Nat /\ 0 \in P
    BY <1>1
  <2>2. ASSUME NEW i \in 1..n, i - 1 \in P
        PROVE  i \in P
    <3>1. i \in Nat /\ i - 1 \in Nat /\ (i - 1) + 1 = i /\ Power[i - 1] >= i
      BY <2>2
    <3>. QED
      BY <1>2, <3>1
  <2>. HIDE DEF P
  <2>3. 0..n \subseteq P
    BY <2>1, <2>2, UpTo
  <2>4. n \in 0..n
    OBVIOUS
  <2>. QED
    BY <2>3, <2>4 DEF P
<1>4. ASSUME NEW m \in Nat, NEW n \in Nat, m <= n
      PROVE  Power[m] <= Power[n]
  <2>. DEFINE P == {i \in Nat : Power[m] <= Power[m + i]}
  <2>1. P \in SUBSET Nat /\ 0 \in P
    BY <1>2
  <2>2. ASSUME NEW i \in 1..(n - m), i - 1 \in P
        PROVE  i \in P
    <3>1. /\ i \in Nat /\ i - 1 \in Nat /\ (m + (i - 1)) + 1 = m + i
          /\ m + (i - 1) \in Nat /\ Power[m] <= Power[m + (i - 1)]
      BY <2>2
    <3>2. /\ Power[m] \in Nat /\ Power[m + (i - 1)] \in Nat
          /\ Power[m + i] = 2 * Power[m + (i - 1)]
      BY <1>2, <3>1
    <3>. QED
      BY <3>1, <3>2
  <2>3. n - m \in Nat /\ n - m \in 0..(n - m) /\ m + (n - m) = n
    BY <1>4
  <2>. HIDE DEF P
  <2>4. 0..(n - m) \subseteq P
    BY <2>1, <2>2, <2>3, UpTo
  <2>5. n - m \in P
    BY <2>3, <2>4
  <2>. QED
    BY <2>3, <2>5 DEF P
<1>5. ASSUME NEW n \in Nat
      PROVE  Power[3 * n] = Power[n] * Power[n] * Power[n]
  <2>. DEFINE P == {i \in Nat : Power[3 * i] = Power[i] * Power[i] * Power[i]}
  <2>1. P \in SUBSET Nat /\ 0 \in P
    <3>1. 3 * 0 = 0 /\ 1 * 1 * 1 = 1
      OBVIOUS
    <3>. QED
      BY <1>1, <3>1
  <2>2. ASSUME NEW i \in 1..n, i - 1 \in P
        PROVE  i \in P
    <3>. DEFINE j == i - 1
                a == Power[j]
    <3>1. /\ i \in Nat /\ j \in Nat /\ 3 * j \in Nat /\ j + 1 = i
          /\ ((3 * j + 1) + 1) + 1 = 3 * i
          /\ 3 * j + 1 \in Nat /\ (3 * j + 1) + 1 \in Nat
      OBVIOUS
    <3>2. a \in Nat /\ Power[i] = 2 * a /\ Power[3 * j] = a * a * a
      BY <1>2, <2>2, <3>1
    <3>. HIDE DEF j, a
    <3>3. /\ Power[3 * j + 1] = 2 * Power[3 * j]
          /\ Power[(3 * j + 1) + 1] = 2 * Power[3 * j + 1]
          /\ Power[((3 * j + 1) + 1) + 1] = 2 * Power[(3 * j + 1) + 1]
          /\ Power[3 * j] \in Nat
      BY <1>2, <3>1
    <3>4. Power[3 * i] = 8 * (a * a * a)
      BY <3>1, <3>2, <3>3
    <3>5. (2 * a) * (2 * a) * (2 * a) = 8 * (a * a * a)
      BY <3>2
    <3>. QED
      BY <3>1, <3>2, <3>4, <3>5
  <2>. HIDE DEF P
  <2>3. 0..n \subseteq P
    BY <2>1, <2>2, UpTo
  <2>4. n \in 0..n
    OBVIOUS
  <2>. QED
    BY <2>3, <2>4 DEF P
<1>. QED
  BY <1>1, <1>2, <1>3, <1>4, <1>5

\* The nodes at and below x are x and those on its two sides.
LEMMA PartsCounted ==
  ASSUME NEW t, NEW A, NEW top, NEW sub, Shape(t, A, top, sub), IsFiniteSet(A),
         NEW x \in A
  PROVE  /\ IsFiniteSet(sub[x])
         /\ \A s \in Sides : IsFiniteSet(Part(t, sub, x, s))
         /\ Cardinality(sub[x]) =
              1 + Cardinality(Part(t, sub, x, LEFT)) + Cardinality(Part(t, sub, x, RIGHT))
<1>. DEFINE L == Part(t, sub, x, LEFT)
            R == Part(t, sub, x, RIGHT)
<1>0. \A z \in A : t[z].data \in Int
  BY DataAreInts
<1>1. sub[x] \subseteq A /\ x \in sub[x] /\ L \subseteq sub[x] /\ R \subseteq sub[x]
  BY DEF Shape, Nested, Part
<1>2. sub[x] = (L \cup R) \cup {x}
  <2>. SUFFICES ASSUME NEW y \in sub[x], y # x
                PROVE  y \in L \/ y \in R
    BY <1>1
  <2>1. t[y].data # t[x].data
    BY <1>1 DEF Shape, Ordered
  <2>. QED
    BY <1>0, <1>1, <2>1 DEF Part, Toward, LEFT, RIGHT
<1>3. L \cap R = {} /\ x \notin L /\ x \notin R
  BY <1>0, <1>1 DEF Part, Toward, LEFT, RIGHT
<1>4. IsFiniteSet(sub[x]) /\ IsFiniteSet(L) /\ IsFiniteSet(R)
  BY <1>1, FS_Subset
<1>5. \A s \in Sides : IsFiniteSet(Part(t, sub, x, s))
  BY <1>4 DEF Sides
<1>. HIDE DEF L, R
<1>6. IsFiniteSet(L \cup R) /\ Cardinality(L \cup R) = Cardinality(L) + Cardinality(R)
  <2>1. Cardinality(L \cap R) = 0
    <3>1. Cardinality({}) = 0
      BY FS_EmptySet
    <3>. QED
      BY <1>3, <3>1
  <2>2. Cardinality(L) \in Nat /\ Cardinality(R) \in Nat
    BY <1>4, FS_CardinalityType
  <2>3. IsFiniteSet(L \cup R) /\ Cardinality(L \cup R) =
          Cardinality(L) + Cardinality(R) - Cardinality(L \cap R)
    BY <1>4, FS_Union
  <2>. QED
    BY <2>1, <2>2, <2>3
<1>7. Cardinality((L \cup R) \cup {x}) = Cardinality(L \cup R) + 1
  BY <1>3, <1>6, FS_AddElement
<1>8. Cardinality(L) \in Nat /\ Cardinality(R) \in Nat
  BY <1>4, FS_CardinalityType
<1>9. Cardinality(sub[x]) = 1 + Cardinality(L) + Cardinality(R)
  BY <1>2, <1>6, <1>7, <1>8
<1>. QED
  BY <1>4, <1>5, <1>9 DEF L, R

\* A subtree has at least as many nodes as its height demands.
LEMMA HeightCounted ==
  ASSUME NEW t, NEW A, NEW top, NEW sub, Shape(t, A, top, sub), IsFiniteSet(A),
         NEW H, Balanced(t, A, H)
  PROVE  \A x \in A : Power[H[x]] <= Cardinality(sub[x]) + 1
<1>. DEFINE Size(x) == Cardinality(sub[x])
            Bad == {i \in Nat : \E x \in A : Size(x) = i /\ ~(Power[H[x]] <= i + 1)}
<1>0. \A x \in A : Size(x) \in Nat /\ H[x] \in Nat
  <2>. SUFFICES ASSUME NEW x \in A
                PROVE  Size(x) \in Nat /\ H[x] \in Nat
    OBVIOUS
  <2>1. Size(x) \in Nat
    BY PartsCounted, FS_CardinalityType
  <2>. QED
    BY <2>1 DEF Balanced
<1>. SUFFICES ASSUME Bad # {}
              PROVE  FALSE
  BY <1>0
<1>1. PICK i \in Bad : \A j \in Bad : i <= j
  <2>1. Bad \in SUBSET Nat
    OBVIOUS
  <2>. HIDE DEF Bad
  <2>. QED
    BY <2>1, LeastNat
<1>2. PICK x \in A : Size(x) = i /\ ~(Power[H[x]] <= i + 1)
  BY <1>1
<1>. DEFINE N(s) == Cardinality(Part(t, sub, x, s))
            C(s) == Child(t, x, s)
<1>3. /\ \A s \in Sides : N(s) \in Nat
      /\ Size(x) = 1 + N(LEFT) + N(RIGHT)
  <2>1. /\ \A s \in Sides : IsFiniteSet(Part(t, sub, x, s))
        /\ Size(x) = 1 + N(LEFT) + N(RIGHT)
    BY PartsCounted
  <2>. QED
    BY <2>1, FS_CardinalityType
<1>4. LEFT \in Sides /\ RIGHT \in Sides
  BY DEF Sides
<1>5. ASSUME NEW s \in Sides
      PROVE  Height(H, C(s)) \in Nat /\ Power[Height(H, C(s))] <= N(s) + 1
  <2>1. CASE C(s) = Null
    <3>1. Height(H, C(s)) = 0 /\ N(s) + 1 >= 1
      BY <1>3, <2>1 DEF Height
    <3>. QED
      BY <3>1, PowerFacts
  <2>2. CASE C(s) # Null
    <3>1. C(s) \in A /\ sub[C(s)] = Part(t, sub, x, s)
      BY <2>2, ChildrenFacts
    <3>2. Size(C(s)) = N(s) /\ Height(H, C(s)) = H[C(s)]
      BY <2>2, <3>1 DEF Height
    <3>3. N(s) < i /\ N(s) \in Nat /\ H[C(s)] \in Nat
      <4>1. N(s) < Size(x) /\ N(s) \in Nat
        BY <1>3 DEF Sides, LEFT, RIGHT
      <4>. QED
        BY <1>0, <1>2, <3>1, <4>1
    <3>4. N(s) \notin Bad
      BY <1>1, <3>3
    <3>. QED
      BY <3>1, <3>2, <3>3, <3>4
  <2>. QED
    BY <2>1, <2>2
<1>6. /\ H[x] \in Nat /\ i \in Nat
      /\ H[x] = Height(H, C(LEFT)) + Black(t, x)
      /\ H[x] = Height(H, C(RIGHT)) + Black(t, x)
      /\ Black(t, x) \in {0, 1}
  BY <1>0, <1>2, <1>4 DEF Balanced, Black
<1>. DEFINE k == Height(H, C(LEFT))
<1>7. k \in Nat /\ Height(H, C(RIGHT)) = k
  BY <1>4, <1>5, <1>6
<1>8. Power[k] <= N(LEFT) + 1 /\ Power[k] <= N(RIGHT) + 1
  BY <1>4, <1>5, <1>7
<1>9. N(LEFT) \in Nat /\ N(RIGHT) \in Nat /\ i = 1 + N(LEFT) + N(RIGHT)
  BY <1>2, <1>3, <1>4
<1>10. Power[k] \in Nat /\ Power[k + 1] = 2 * Power[k] /\ (H[x] = k \/ H[x] = k + 1)
  <2>1. H[x] = k \/ H[x] = k + 1
    BY <1>6, <1>7
  <2>2. \A n \in Nat : Power[n] \in Nat /\ Power[n + 1] = 2 * Power[n]
    BY PowerFacts
  <2>. HIDE DEF k
  <2>. QED
    BY <1>7, <2>1, <2>2
<1>. HIDE DEF k, N, C, Size, Bad
<1>11. Power[H[x]] <= i + 1
  BY <1>8, <1>9, <1>10
<1>. QED
  BY <1>2, <1>11

-----------------------------------------------------------------------------
(* The calls that begin, and the wiping.                                   *)

\* A tree that is the same at the nodes A.
LEMMA SameTree ==
  ASSUME NEW t, NEW A, NEW top, NEW sub, Shape(t, A, top, sub),
         NEW t2, \A z \in A : t2[z] = t[z]
  PROVE  /\ Shape(t2, A, top, sub)
         /\ \A H : Balanced(t, A, H) => Balanced(t2, A, H)
         /\ \A x, s : x \in A => Child(t2, x, s) = Child(t, x, s)
         /\ \A x : x \in A \cup {Null} => (IsRed(t2, x) <=> IsRed(t, x))
<1>1. \A x, s : x \in A => Child(t2, x, s) = Child(t, x, s)
  BY DEF Child
<1>2. Shape(t2, A, top, sub)
  BY <1>1, SameShape
<1>3. \A x : x \in A \cup {Null} => (IsRed(t2, x) <=> IsRed(t, x))
  BY DEF IsRed
<1>4. ASSUME NEW H, Balanced(t, A, H)
      PROVE  Balanced(t2, A, H)
  <2>1. \A x \in A, s \in Sides : Child(t, x, s) \in A \cup {Null}
    BY ChildrenFacts
  <2>2. \A x \in A : Black(t2, x) = Black(t, x)
    BY DEF Black
  <2>. QED
    BY <1>1, <1>3, <1>4, <2>1, <2>2 DEF Balanced
<1>. QED
  BY <1>1, <1>2, <1>3, <1>4

\* The type of the tree has a name.
LEMMA TreeType == TypeOK <=>
  /\ created \in BOOLEAN /\ length \in Nat /\ root \in Nodes \cup {Null}
  /\ tree \in Trees
  /\ heap \subseteq Nodes
  /\ op \in {"none", "insert", "delete", "clear", "destroy"}
  /\ key \in Data \cup {Null}
  /\ node \in Address /\ parent \in Address
  /\ grandparent \in Address /\ greatgrandparent \in Address
  /\ direction \in Sides /\ prevDirection \in Sides
  /\ target \in Nodes \cup {Null}
  /\ passes \in Nat /\ cutShort \in BOOLEAN
  BY DEF TypeOK, Trees

\* The dummy root of a call has the root as its child.
LEMMA WithDummyIs ==
  ASSUME tree \in Trees, root \in Nodes \cup {Null}
  PROVE  /\ WithDummy \in Trees
         /\ \A z \in Nodes : WithDummy[z] = tree[z]
         /\ Child(WithDummy, Dummy, RIGHT) = root
         /\ Child(WithDummy, Dummy, LEFT) = Child(tree, Dummy, LEFT)
<1>. DEFINE R == [parent : Address, child : [Sides -> Nodes \cup {Null}],
                  data : Data \cup {Null}, isRed : BOOLEAN]
            d == [tree[Dummy] EXCEPT !.child[RIGHT] = root]
<1>1. tree \in [Nodes \cup {Dummy} -> R] /\ tree[Dummy] \in R
  BY DEF Trees
<1>2. /\ d \in R /\ d.child[RIGHT] = root
      /\ d.child[LEFT] = tree[Dummy].child[LEFT]
  BY <1>1 DEF Sides, LEFT, RIGHT
<1>3. WithDummy = [tree EXCEPT ![Dummy] = d]
  BY DEF WithDummy
<1>. HIDE DEF R, d
<1>4. /\ WithDummy \in [Nodes \cup {Dummy} -> R]
      /\ \A z \in Nodes : WithDummy[z] = tree[z]
      /\ WithDummy[Dummy] = d
  BY <1>1, <1>2, <1>3, AddressAssumption
<1>. QED
  BY <1>2, <1>4 DEF Trees, R, Child

\* The invariant holds of a partition without a tree.
LEMMA InitInv ==
  ASSUME Init
  PROVE  RbtInv
<1>. USE DEF Init
<1>1. Erased.parent = Null /\ Erased.data = Null /\ Erased.isRed = FALSE
  BY DEF Erased
<1>2. Erased \in [parent : Address, child : [Sides -> Nodes \cup {Null}],
                  data : Data \cup {Null}, isRed : BOOLEAN]
  BY DEF Erased, Address
<1>3. TypeOK
  BY <1>2 DEF TypeOK, Address, Sides, LEFT, RIGHT
<1>4. IsFiniteSet({}) /\ Cardinality({}) = 0
  BY FS_EmptySet
<1>5. Frame
  <2>1. Child(tree, Dummy, LEFT) = Null
    BY DEF Child, Erased, Sides
  <2>. QED
    BY <1>3, <1>4, <2>1 DEF Frame
<1>6. RootInv
  BY DEF RootInv, Running, Wiping
<1>. DEFINE sub == [x \in {} |-> {}]
<1>7. Shape(tree, heap, Null, sub)
  BY DEF Shape, Nested, Linked, Ordered
<1>8. CallInv(Null, sub)
  <2>1. Balanced(tree, heap, [x \in {} |-> 0])
    BY DEF Balanced
  <2>. QED
    BY <2>1 DEF CallInv, Running, IsRed
<1>. QED
  BY <1>5, <1>6, <1>7, <1>8 DEF RbtInv

\* A new tree has no nodes, and neither had the partition without one.
LEMMA CreateInv ==
  ASSUME RbtInv, Create
  PROVE  RbtInv'
<1>. USE DEF Create, call, place
<1>0. root = Null
  BY DEF RbtInv, RootInv
<1>1. TypeOK'
  BY DEF RbtInv, Frame, TypeOK
<1>2. Frame' /\ RootInv'
  BY <1>0, <1>1 DEF RbtInv, Frame, RootInv, Running, Wiping
<1>3. PICK top, sub : Shape(tree, heap, top, sub) /\ CallInv(top, sub)
  BY DEF RbtInv
<1>4. Shape(tree', heap', top, sub) /\ CallInv(top, sub)'
  BY <1>0, <1>3 DEF CallInv, Running
<1>. QED
  BY <1>2, <1>4 DEF RbtInv

\* It is kept by the start of a wiping, ...
LEMMA BeginWipeInv ==
  ASSUME RbtInv, NEW o \in {"clear", "destroy"}, BeginWipe(o)
  PROVE  RbtInv'
<1>. USE DEF BeginWipe, rbt
<1>1. TypeOK'
  BY DEF RbtInv, Frame, TypeOK, Address
<1>2. Frame' /\ RootInv'
  BY <1>1 DEF RbtInv, Frame, RootInv, Running, Wiping
<1>3. PICK top, sub : Shape(tree, heap, top, sub) /\ CallInv(top, sub)
  BY DEF RbtInv
<1>4. Shape(tree', heap', top, sub) /\ CallInv(top, sub)'
  BY <1>3 DEF CallInv, Running
<1>. QED
  BY <1>2, <1>4 DEF RbtInv

\* ... by each of its turns down, ...
LEMMA WipeDescendInv ==
  ASSUME RbtInv, WipeDescend
  PROVE  RbtInv'
<1>. USE DEF WipeDescend, rbt
<1>3. PICK top, sub : Shape(tree, heap, top, sub) /\ CallInv(top, sub)
  BY DEF RbtInv
<1>4. node \in heap
  BY DEF RbtInv, RootInv
<1>5. node' \in heap
  <2>1. LEFT \in Sides /\ RIGHT \in Sides /\ \A s \in Sides : s = LEFT \/ s = RIGHT
    BY DEF Sides
  <2>2. \A s \in Sides : Child(tree, node, s) # Null => Child(tree, node, s) \in heap
    BY <1>3, <1>4, ChildrenFacts
  <2>. QED
    BY <2>1, <2>2 DEF Leaf
<1>6. node' \in Address /\ heap \subseteq Nodes
  BY <1>5 DEF RbtInv, Frame, TypeOK, Address
<1>1. TypeOK'
  BY <1>6 DEF RbtInv, Frame, TypeOK
<1>2. Frame' /\ RootInv'
  BY <1>1, <1>5 DEF RbtInv, Frame, RootInv, Running, Wiping
<1>7. Shape(tree', heap', top, sub) /\ CallInv(top, sub)'
  BY <1>3 DEF CallInv, Running, Wiping
<1>. QED
  BY <1>2, <1>7 DEF RbtInv

\* ... and by its end.
LEMMA WipeEndInv ==
  ASSUME RbtInv, WipeEnd
  PROVE  RbtInv'
<1>. USE DEF WipeEnd, Return
<1>0. root = Null /\ heap = {} /\ root' = Null /\ heap' = {} /\ op' = "none"
  <2>1. Null \notin heap
    BY AddressAssumption DEF RbtInv, Frame, TypeOK
  <2>. QED
    BY <2>1 DEF RbtInv, RootInv
<1>1. TypeOK'
  <2>1. TypeOK
    BY DEF RbtInv, Frame
  <2>2. created' = FALSE \/ created' = created
    OBVIOUS
  <2>3. length' = 0 \/ length' = length
    OBVIOUS
  <2>5. created \in BOOLEAN /\ length \in Nat
    BY <2>1 DEF TypeOK
  <2>6. created' \in BOOLEAN
    BY <2>2, <2>5
  <2>4. length' \in Nat
    BY <2>3, <2>5
  <2>. QED
    BY <2>1, <2>4, <2>6 DEF TypeOK, Address, Sides
<1>2. Frame' /\ RootInv'
  BY <1>0, <1>1 DEF RbtInv, Frame, RootInv, Running, Wiping
<1>3. PICK top, sub : Shape(tree, heap, top, sub)
  BY DEF RbtInv
<1>4. Balanced(tree', heap', [x \in {} |-> 0])
  BY <1>0 DEF Balanced
<1>5. top = Null
  BY <1>0, <1>3 DEF Shape, Linked
<1>6. Shape(tree', heap', top, sub) /\ CallInv(top, sub)'
  <2>1. CallInv(top, sub)'
    BY <1>0, <1>4, <1>5 DEF CallInv, Running, IsRed
  <2>. QED
    BY <1>3, <2>1
<1>. QED
  BY <1>2, <1>6 DEF RbtInv

\* The end of a call that has made of the tree the tree t of the nodes A.
LEMMA FinishedInv ==
  ASSUME NEW t \in Trees, NEW A \in SUBSET Nodes, IsFiniteSet(A),
         NEW top, NEW sub, Shape(t, A, top, sub), NEW H, Balanced(t, A, H),
         Child(t, Dummy, RIGHT) = top, \A x \in Nodes \ A : t[x] = Erased,
         Finished(t), Return, heap' = A, length' = Cardinality(A),
         created = TRUE, cutShort \in BOOLEAN, UNCHANGED <<created, cutShort>>
  PROVE  /\ RbtInv'
         /\ \A x \in Nodes : tree'[x].data = t[x].data
<1>1. /\ root' = top
      /\ tree' \in Trees /\ tree'[Dummy] = Erased
      /\ \A x \in Nodes :
           /\ tree'[x].data = t[x].data /\ tree'[x].parent = t[x].parent
           /\ tree'[x].child = t[x].child
           /\ x = top => ~tree'[x].isRed
           /\ x # top => tree'[x] = t[x]
  BY FinishedIs
<1>2. top \in A \/ (top = Null /\ A = {})
  BY DEF Shape, Linked
<1>3. TypeOK'
  <2>1. length' \in Nat
    BY FS_CardinalityType
  <2>2. root' \in Nodes \cup {Null}
    BY <1>1, <1>2
  <2>3. TRUE \in BOOLEAN
    OBVIOUS
  <2>4. /\ created' \in BOOLEAN /\ cutShort' \in BOOLEAN
    BY <2>3
  <2>. QED
    BY <1>1, <2>1, <2>2, <2>4, TreeType DEF Return, TypeOK, Trees, Address, Sides
<1>4. Frame'
  <2>1. Child(tree, Dummy, LEFT)' = Null
    BY <1>1 DEF Child, Erased, Sides
  <2>2. \A x \in Nodes \ A : tree'[x] = Erased
    BY <1>1, <1>2, AddressAssumption
  <2>. QED
    BY <1>3, <2>1, <2>2 DEF Frame
<1>5. RootInv'
  BY <1>1, <1>2 DEF RootInv, Running, Wiping, Return
<1>6. Shape(tree', A, top, sub) /\ \E H2 : Balanced(tree', A, H2)
  <2>1. \A z \in A : tree'[z].data = t[z].data /\ tree'[z].parent = t[z].parent
    BY <1>1
  <2>2. \A z \in A, s \in Sides : Child(tree', z, s) = Child(t, z, s)
    BY <1>1 DEF Child
  <2>3. \A z \in A : tree'[z].isRed <=> t[z].isRed /\ z # top
    BY <1>1
  <2>. QED
    BY <2>1, <2>2, <2>3, TopBlack
<1>7. Shape(tree', heap', top, sub) /\ CallInv(top, sub)'
  <2>1. ~IsRed(tree', top)
    BY <1>1, <1>2 DEF IsRed
  <2>. QED
    BY <1>1, <1>6, <2>1 DEF CallInv, Running, Return
<1>. QED
  BY <1>1, <1>4, <1>5, <1>7 DEF RbtInv

\* What is so while a call runs.
LEMMA RunningFacts ==
  ASSUME RbtInv, Running
  PROVE  /\ created = TRUE /\ cutShort \in BOOLEAN
         /\ tree \in Trees /\ heap \in SUBSET Nodes /\ IsFiniteSet(heap)
         /\ root \in heap /\ length = Cardinality(heap)
         /\ \A x \in Nodes \ heap : tree[x] = Erased
         /\ \E top, sub, H : \E h \in Nat :
              /\ top = Top /\ Shape(tree, heap, top, sub) /\ Balanced(tree, heap, H)
              /\ Power[h] <= Cardinality(heap) + 1
              /\ op = "insert" => InsertInv(sub, H, h)
              /\ op = "delete" => DeleteInv(sub, H, h)
<1>1. TypeOK
  BY DEF RbtInv, Frame
<1>2. created \in BOOLEAN /\ cutShort \in BOOLEAN /\ tree \in Trees /\ heap \in SUBSET Nodes
  BY <1>1, TreeType
<1>3. created = TRUE
  BY <1>2 DEF RbtInv, RootInv, Running
<1>4. root \in heap /\ length = Cardinality(heap)
  BY DEF RbtInv, RootInv
<1>5. IsFiniteSet(heap) /\ \A x \in Nodes \ heap : tree[x] = Erased
  BY DEF RbtInv, Frame
<1>. QED
  BY <1>2, <1>3, <1>4, <1>5 DEF RbtInv, CallInv

\* A deletion that has not found its datum only gives up the dummy root.
LEMMA DeleteNothingInv ==
  ASSUME RbtInv, DeleteNothing
  PROVE  RbtInv'
<1>. USE DEF DeleteNothing
<1>1. Running
  BY DEF Running
<1>2. PICK top, sub, H : top = Top /\ Shape(tree, heap, top, sub) /\ Balanced(tree, heap, H)
  BY <1>1, RunningFacts
<1>3. Child(tree, Dummy, RIGHT) = top
  BY <1>2 DEF Top
<1>4. /\ created = TRUE /\ cutShort \in BOOLEAN
      /\ tree \in Trees /\ heap \in SUBSET Nodes /\ IsFiniteSet(heap)
      /\ length = Cardinality(heap)
      /\ \A x \in Nodes \ heap : tree[x] = Erased
  BY <1>1, RunningFacts
<1>. QED
  BY <1>2, <1>3, <1>4, FinishedInv

\* So does an insertion that got no node.
LEMMA InsertFailsInv ==
  ASSUME RbtInv, InsertFails
  PROVE  RbtInv'
<1>. USE DEF InsertFails
<1>0. Running
  BY DEF Running
<1>1. PICK top, sub, H : top = Top /\ Shape(tree, heap, top, sub) /\ Balanced(tree, heap, H)
  BY <1>0, RunningFacts
<1>2. /\ created = TRUE /\ tree \in Trees /\ heap \in SUBSET Nodes /\ root \in heap
      /\ IsFiniteSet(heap) /\ length = Cardinality(heap)
      /\ \A x \in Nodes \ heap : tree[x] = Erased
  BY <1>0, RunningFacts
<1>3. Dummy \notin Nodes
  BY AddressAssumption
<1>4. /\ tree' \in Trees
      /\ \A z \in Nodes : tree'[z] = tree[z]
      /\ tree'[Dummy] = Erased
  <2>1. Erased \in [parent : Address, child : [Sides -> Nodes \cup {Null}],
                    data : Data \cup {Null}, isRed : BOOLEAN]
    BY DEF Erased, Address
  <2>. QED
    BY <1>2, <1>3, <2>1 DEF Trees
<1>5. Child(tree, Dummy, LEFT)' = Null
  BY <1>4 DEF Child, Erased, Sides
<1>6. cutShort' \in BOOLEAN
  OBVIOUS
<1>7. TypeOK'
  BY <1>2, <1>4, <1>6 DEF Return, TypeOK, Trees, Address, Sides, RbtInv, Frame
<1>8. Frame' /\ RootInv'
  BY <1>2, <1>4, <1>5, <1>7 DEF Frame, RootInv, Running, Wiping, Return
<1>9. Shape(tree', heap', top, sub) /\ Balanced(tree', heap', H)
  BY <1>1, <1>2, <1>4, SameTree
<1>10. CallInv(top, sub)'
  <2>1. op' = "none" /\ root' = root
    BY DEF Return
  <2>2. ~cutShort' => root = top /\ ~IsRed(tree, root)
    BY <1>1 DEF Top
  <2>3. ~IsRed(tree, root) => ~IsRed(tree', root)
    BY <1>2, <1>4 DEF IsRed
  <2>. QED
    BY <1>9, <2>1, <2>2, <2>3 DEF CallInv, Running
<1>. QED
  BY <1>8, <1>9, <1>10 DEF RbtInv

\* The keys are those of the nodes.
LEMMA KeysSame ==
  ASSUME heap' = heap, \A x \in heap : tree'[x].data = tree[x].data
  PROVE  Keys' = Keys
  BY DEF Keys

\* A call begins with the tree as the call before has left it.
LEMMA BeginCallIs ==
  ASSUME RbtInv, Usable, root # Null, tree' = WithDummy,
         UNCHANGED <<created, root, length, heap>>
  PROVE  /\ created = TRUE /\ tree' \in Trees /\ root \in heap
         /\ heap \in SUBSET Nodes /\ IsFiniteSet(heap) /\ length = Cardinality(heap)
         /\ \A x \in Nodes : tree'[x] = tree[x]
         /\ Top' = root /\ Child(tree, Dummy, LEFT)' = Null
         /\ ~IsRed(tree', root) /\ Keys' = Keys
         /\ \E sub, H : /\ Shape(tree', heap, root, sub) /\ Balanced(tree', heap, H)
                        /\ H[root] \in Nat /\ Power[H[root]] <= Cardinality(heap) + 1
<1>. USE DEF Usable
<1>1. TypeOK /\ IsFiniteSet(heap) /\ Child(tree, Dummy, LEFT) = Null
  BY DEF RbtInv, Frame
<1>2. tree \in Trees /\ heap \in SUBSET Nodes /\ created = TRUE /\ root \in Nodes \cup {Null}
  BY <1>1, TreeType
<1>3. root \in heap /\ length = Cardinality(heap)
  BY DEF RbtInv, RootInv
<1>4. /\ tree' \in Trees /\ \A z \in Nodes : tree'[z] = tree[z]
      /\ Child(tree', Dummy, RIGHT) = root /\ Child(tree', Dummy, LEFT) = Null
  BY <1>1, <1>2, WithDummyIs
<1>5. PICK top, sub : Shape(tree, heap, top, sub) /\ CallInv(top, sub)
  BY DEF RbtInv
<1>6. PICK H : root = top /\ ~IsRed(tree, top) /\ Balanced(tree, heap, H)
  BY <1>5 DEF CallInv
<1>7. Shape(tree', heap, root, sub) /\ Balanced(tree', heap, H) /\ ~IsRed(tree', root)
  BY <1>2, <1>3, <1>4, <1>5, <1>6, SameTree
<1>8. H[root] \in Nat /\ Power[H[root]] <= Cardinality(heap) + 1
  <2>1. sub[root] = heap
    BY <1>3, <1>7 DEF Shape, Linked
  <2>2. Power[H[root]] <= Cardinality(sub[root]) + 1
    BY <1>1, <1>3, <1>7, HeightCounted
  <2>. QED
    BY <1>3, <1>7, <2>1, <2>2 DEF Balanced
<1>9. Keys' = Keys
  BY <1>2, <1>4, KeysSame
<1>. QED
  BY <1>1, <1>2, <1>3, <1>4, <1>7, <1>8, <1>9 DEF Top

\* The start of an insertion keeps the invariant, ...
LEMMA BeginInsertInv ==
  ASSUME RbtInv, NEW k \in Data \ Keys, BeginInsert(k)
  PROVE  RbtInv' /\ Keys' = Keys
<1>. USE DEF BeginInsert
<1>1. PICK sub, H :
        /\ Shape(tree', heap, root, sub) /\ Balanced(tree', heap, H)
        /\ H[root] \in Nat /\ Power[H[root]] <= Cardinality(heap) + 1
  BY BeginCallIs
<1>2. /\ created = TRUE /\ tree' \in Trees /\ root \in heap
      /\ heap \in SUBSET Nodes /\ IsFiniteSet(heap) /\ length = Cardinality(heap)
      /\ \A x \in Nodes : tree'[x] = tree[x]
      /\ Top' = root /\ Child(tree, Dummy, LEFT)' = Null
      /\ ~IsRed(tree', root) /\ Keys' = Keys
  BY BeginCallIs
<1>3. TypeOK /\ \A x \in Nodes \ heap : tree[x] = Erased
  BY DEF RbtInv, Frame
<1>4. TypeOK'
  BY <1>2, <1>3 DEF TypeOK, Trees, Address
<1>5. Frame'
  BY <1>2, <1>3, <1>4 DEF Frame
<1>6. /\ parent = Null /\ grandparent = Null /\ target = Null /\ passes = 0
      /\ op' = "insert"
  BY DEF RbtInv, RootInv, Running, Usable
<1>7. RootInv'
  BY <1>2, <1>6 DEF RootInv, Running, Wiping
<1>8. InsertInv(sub, H, H[root])'
  <2>1. Black(tree', root) = 1
    BY <1>2, AddressAssumption DEF Black, IsRed
  <2>2. node' = root /\ root # Null /\ key' = k /\ passes' = 0
    BY <1>2, <1>6, AddressAssumption
  <2>3. passes' + 3 * H[root] + (1 - Black(tree', root)) <= 3 * H[root]
    BY <1>1, <2>1, <2>2
  <2>4. key' \in Data \ Keys'
    BY <1>2, <2>2
  <2>5. /\ parent' = Null /\ grandparent' = Null /\ greatgrandparent' = Dummy
        /\ node' = Top' /\ ~IsRed(tree', Top')
    BY <1>2, <1>6, <2>2
  <2>. QED
    BY <2>2, <2>3, <2>4, <2>5 DEF InsertInv, Paid
<1>9. CallInv(root, sub)'
  BY <1>1, <1>2, <1>6, <1>8 DEF CallInv, Running
<1>. QED
  BY <1>1, <1>2, <1>5, <1>7, <1>9 DEF RbtInv

\* ... and so does that of a deletion.
LEMMA BeginDeleteInv ==
  ASSUME RbtInv, NEW k \in Data, BeginDelete(k)
  PROVE  RbtInv' /\ Keys' = Keys
<1>. USE DEF BeginDelete
<1>1. PICK sub, H :
        /\ Shape(tree', heap, root, sub) /\ Balanced(tree', heap, H)
        /\ H[root] \in Nat /\ Power[H[root]] <= Cardinality(heap) + 1
  BY BeginCallIs
<1>2. /\ created = TRUE /\ tree' \in Trees /\ root \in heap
      /\ heap \in SUBSET Nodes /\ IsFiniteSet(heap) /\ length = Cardinality(heap)
      /\ \A x \in Nodes : tree'[x] = tree[x]
      /\ Top' = root /\ Child(tree, Dummy, LEFT)' = Null
      /\ ~IsRed(tree', root) /\ Keys' = Keys
  BY BeginCallIs
<1>3. TypeOK /\ \A x \in Nodes \ heap : tree[x] = Erased
  BY DEF RbtInv, Frame
<1>4. TypeOK'
  BY <1>2, <1>3 DEF TypeOK, Trees, Address, Sides
<1>5. Frame'
  BY <1>2, <1>3, <1>4 DEF Frame
<1>6. /\ parent = Null /\ grandparent = Null /\ target = Null /\ passes = 0
      /\ op' = "delete"
  BY DEF RbtInv, RootInv, Running, Usable
<1>7. RootInv'
  BY <1>2, <1>6 DEF RootInv, Running, Wiping
<1>8. DeleteInv(sub, H, H[root])'
  <2>1. Child(tree, node, direction)' = root /\ root # Null
    BY <1>2, AddressAssumption DEF Top
  <2>2. node' = Dummy /\ direction' = RIGHT /\ key' = k /\ passes' = 0 /\ target' = Null
    BY <1>6
  <2>3. passes' + 2 * Height(H, root) + (IF IsRed(tree', root) THEN 1 ELSE 0)
          <= 2 * H[root]
    BY <1>1, <1>2, <2>1, <2>2 DEF Height
  <2>. QED
    BY <2>1, <2>2, <2>3 DEF DeleteInv
<1>9. CallInv(root, sub)'
  BY <1>1, <1>2, <1>6, <1>8 DEF CallInv, Running
<1>. QED
  BY <1>1, <1>2, <1>5, <1>7, <1>9 DEF RbtInv

\* The first node makes a tree of its own.
LEMMA InsertRootInv ==
  ASSUME RbtInv, NEW k \in Data, InsertRoot(k)
  PROVE  RbtInv' /\ Keys = {} /\ Keys' = {k}
<1>. USE DEF InsertRoot
<1>1. TypeOK /\ IsFiniteSet(heap) /\ Child(tree, Dummy, LEFT) = Null
      /\ \A x \in Nodes \ heap : tree[x] = Erased
  BY DEF RbtInv, Frame
<1>2. tree \in Trees /\ created = TRUE /\ cutShort \in BOOLEAN /\ passes \in Nat
  BY <1>1, TreeType
<1>3. heap = {}
  BY AddressAssumption, <1>1 DEF RbtInv, RootInv, TypeOK
<1>4. PICK x \in Nodes : /\ tree' = [tree EXCEPT ![x] = NewNode(Null, k, FALSE)]
                         /\ heap' = {x} /\ root' = x
  BY <1>3
<1>. DEFINE R == [parent : Address, child : [Sides -> Nodes \cup {Null}],
                  data : Data \cup {Null}, isRed : BOOLEAN]
            n == NewNode(Null, k, FALSE)
            sub == [z \in {x} |-> {x}]
            H == [z \in {x} |-> 1]
<1>5. /\ n \in R /\ n.parent = Null /\ n.data = k /\ n.isRed = FALSE
      /\ \A s \in Sides : n.child[s] = Null
  BY DEF NewNode, Erased, Address
<1>. HIDE DEF n
<1>6. /\ tree' \in Trees /\ tree'[x] = n
      /\ \A z \in (Nodes \cup {Dummy}) \ {x} : tree'[z] = tree[z]
  <2>1. tree \in [Nodes \cup {Dummy} -> R]
    BY <1>2 DEF Trees
  <2>2. tree' = [tree EXCEPT ![x] = n]
    BY <1>4 DEF n
  <2>. HIDE DEF R
  <2>3. /\ tree' \in [Nodes \cup {Dummy} -> R] /\ tree'[x] = n
        /\ \A z \in (Nodes \cup {Dummy}) \ {x} : tree'[z] = tree[z]
    BY <1>5, <2>1, <2>2
  <2>. QED
    BY <2>3 DEF Trees, R
<1>7. Child(tree, Dummy, LEFT)' = Null
  BY <1>1, <1>6, AddressAssumption DEF Child
<1>8. TypeOK'
  BY <1>1, <1>4, <1>6 DEF TypeOK, Trees, Address, call, place
<1>9. IsFiniteSet({x}) /\ Cardinality({x}) = 1
  BY FS_Singleton
<1>10. Frame'
  BY <1>1, <1>3, <1>4, <1>6, <1>7, <1>8, <1>9 DEF Frame
<1>11. RootInv'
  BY <1>4, <1>9 DEF RbtInv, RootInv, Running, Wiping, call, place
<1>12. Shape(tree', heap', x, sub)
  <2>1. sub[x] = {x} /\ \A z \in {x} : z = x
    OBVIOUS
  <2>2. Nested({x}, sub)
    BY DEF Nested
  <2>3. \A s \in Sides : Child(tree', x, s) = Null /\ Part(tree', sub, x, s) = {}
    <3>1. ~(k < k)
      BY DataAssumption
    <3>. QED
      BY <1>5, <1>6, <2>1, <3>1 DEF Child, Part, Toward
  <2>. HIDE DEF sub
  <2>4. Linked(tree', {x}, x, sub)
    BY <1>5, <1>6, <2>1, <2>3 DEF Linked
  <2>5. Ordered(tree', {x}, sub)
    BY <1>5, <1>6, <2>1 DEF Ordered
  <2>. QED
    BY <1>4, <2>2, <2>4, <2>5 DEF Shape
<1>13. CallInv(x, sub)'
  <2>1. Balanced(tree', {x}, H)
    <3>1. \A s \in Sides : Child(tree', x, s) = Null
      BY <1>5, <1>6 DEF Child
    <3>2. Black(tree', x) = 1 /\ ~IsRed(tree', x)
      BY <1>5, <1>6 DEF Black, IsRed
    <3>3. H \in [{x} -> Nat] /\ H[x] = 1
      OBVIOUS
    <3>. HIDE DEF H
    <3>4. \A s \in Sides : H[x] = Height(H, Child(tree', x, s)) + Black(tree', x)
      <4>1. \A s \in Sides : Height(H, Child(tree', x, s)) = 0
        BY <3>1 DEF Height
      <4>2. 1 = 0 + 1
        OBVIOUS
      <4>3. Black(tree', x) = 1
        BY <3>2
      <4>. HIDE DEF InsertRoot
      <4>. QED
        BY <3>3, <4>1, <4>2, <4>3
    <3>. QED
      BY <3>2, <3>3, <3>4 DEF Balanced
  <2>2. ~IsRed(tree', x)
    BY <1>5, <1>6 DEF IsRed
  <2>. QED
    BY <1>4, <2>1, <2>2 DEF CallInv, Running, call, place
<1>14. Keys = {} /\ Keys' = {k}
  <2>1. Keys' = {tree'[z].data : z \in {x}}
    BY <1>4 DEF Keys
  <2>2. tree'[x].data = k
    BY <1>5, <1>6
  <2>3. Keys = {}
    BY <1>3 DEF Keys
  <2>4. Keys' = {k}
    BY <2>1, <2>2
  <2>. QED
    BY <2>3, <2>4
<1>. QED
  BY <1>10, <1>11, <1>12, <1>13, <1>14 DEF RbtInv

\* A leaf that is freed leaves a tree.
LEMMA WipeLeafInv ==
  ASSUME RbtInv, WipeLeaf
  PROVE  /\ RbtInv' /\ node \in heap /\ heap' = heap \ {node}
         /\ \A x \in heap' : tree'[x].data = tree[x].data
<1>. DEFINE up == tree[node].parent
            A == heap \ {node}
            R == [parent : Address, child : [Sides -> Nodes \cup {Null}],
                  data : Data \cup {Null}, isRed : BOOLEAN]
            Cut(x) == [tree[x] EXCEPT !.child = [s \in Sides |->
                         IF tree[x].child[s] = node THEN Null ELSE tree[x].child[s]]]
<1>1. /\ Wiping /\ node # Null /\ Leaf(node) /\ node' = up
      /\ root' = IF up = Null THEN Null ELSE root
      /\ heap' = A
      /\ UNCHANGED <<created, length, op, key, parent, grandparent, greatgrandparent,
                     direction, prevDirection, target, passes, cutShort>>
  BY DEF WipeLeaf
<1>2. tree' = [x \in DOMAIN tree |->
                 IF x = node THEN Erased ELSE IF x # up THEN tree[x] ELSE Cut(x)]
  BY DEF WipeLeaf
<1>3. TypeOK /\ IsFiniteSet(heap) /\ Child(tree, Dummy, LEFT) = Null
      /\ \A x \in Nodes \ heap : tree[x] = Erased
  BY DEF RbtInv, Frame
<1>4. node \in heap /\ heap \in SUBSET Nodes /\ root \in Nodes \cup {Null}
  BY <1>1, <1>3 DEF RbtInv, RootInv, TypeOK
<1>5. PICK top, sub : Shape(tree, heap, top, sub)
  BY DEF RbtInv
<1>6. \A e \in Sides : Child(tree, node, e) = Null
  BY <1>1 DEF Leaf
<1>7. up \in A \/ (up = Null /\ A = {})
  <2>1. CASE node = top
    <3>1. up = Null /\ sub[node] = heap
      BY <1>4, <1>5, <2>1 DEF Shape, Linked
    <3>2. sub[node] = {node}
      BY <1>4, <1>5, <1>6, LeafIsAlone
    <3>. QED
      BY <3>1, <3>2
  <2>2. CASE node # top
    <3>1. PICK s \in Sides : up \in heap /\ Child(tree, up, s) = node
      BY <1>4, <1>5, <2>2 DEF Shape, Linked
    <3>2. up # node
      BY <1>1, <1>5, <3>1, ChildrenFacts
    <3>. QED
      BY <3>1, <3>2
  <2>. QED
    BY <2>1, <2>2
<1>8. tree \in [Nodes \cup {Dummy} -> R]
  BY <1>3 DEF TypeOK
<1>9. Erased \in R
  BY DEF Erased, Address
<1>10. ASSUME NEW x \in Nodes \cup {Dummy}
       PROVE  /\ Cut(x) \in R
              /\ Cut(x).data = tree[x].data /\ Cut(x).parent = tree[x].parent
              /\ \A s \in Sides : Cut(x).child[s] =
                   IF tree[x].child[s] = node THEN Null ELSE tree[x].child[s]
  <2>1. tree[x] \in R
    BY <1>8
  <2>. QED
    BY <2>1
<1>. HIDE DEF R, Cut, A, up
<1>11. /\ tree' \in [Nodes \cup {Dummy} -> R]
       /\ \A x \in Nodes \cup {Dummy} :
            tree'[x] = IF x = node THEN Erased ELSE IF x # up THEN tree[x] ELSE Cut(x)
  BY <1>2, <1>8, <1>9, <1>10
<1>12. Dummy # node /\ Dummy # up /\ Null \notin A /\ up \in Address
  BY <1>4, <1>7, AddressAssumption DEF A, Address
<1>13. Child(tree, Dummy, LEFT)' = Null
  BY <1>3, <1>11, <1>12 DEF Child
<1>14. TypeOK'
  <2>1. root' \in Nodes \cup {Null} /\ A \subseteq Nodes
    BY <1>1, <1>4 DEF A
  <2>. QED
    BY <1>1, <1>3, <1>11, <1>12, <2>1 DEF TypeOK, R
<1>15. Frame'
  <2>1. IsFiniteSet(A)
    BY <1>3, FS_RemoveElement DEF A
  <2>2. \A x \in Nodes \ A : tree'[x] = Erased
    BY <1>3, <1>7, <1>11, <1>12, AddressAssumption DEF A
  <2>. QED
    BY <1>1, <1>13, <1>14, <2>1, <2>2 DEF Frame
<1>16. RootInv'
  <2>1. op' \in {"clear", "destroy"}
    BY <1>1 DEF Wiping
  <2>2. created' = TRUE
    BY <1>1, <1>3 DEF RbtInv, RootInv, Wiping, TypeOK
  <2>3. ~Running
    BY <1>1 DEF Wiping, Running
  <2>4. parent' = Null /\ grandparent' = Null /\ target' = Null /\ passes' = 0
    BY <1>1, <2>3 DEF RbtInv, RootInv
  <2>. QED
    BY <1>1, <1>7, <1>12, <2>1, <2>2, <2>4 DEF RootInv, Running, Wiping
<1>17. \A x \in A : tree'[x].data = tree[x].data /\ tree'[x].parent = tree[x].parent
  BY <1>4, <1>10, <1>11 DEF A
<1>18. Dropped(tree, tree', heap, node)
  <2>1. ASSUME NEW z \in A, NEW e \in Sides
        PROVE  Child(tree', z, e) = IF Child(tree, z, e) = node THEN Null ELSE Child(tree, z, e)
    <3>1. z \in Nodes /\ z # node /\ z \in heap
      BY <1>4 DEF A
    <3>2. CASE z = up
      BY <1>10, <1>11, <3>1, <3>2 DEF Child
    <3>3. CASE z # up
      <4>1. Child(tree, z, e) # node
        BY <1>1, <1>5, <3>1, <3>3, ChildrenFacts DEF up
      <4>. QED
        BY <1>11, <3>1, <3>3, <4>1 DEF Child
    <3>. QED
      BY <3>2, <3>3
  <2>. QED
    BY <1>17, <2>1 DEF Dropped, A
<1>19. PICK top2, sub2 : Shape(tree', A, top2, sub2)
  BY <1>4, <1>5, <1>6, <1>18, DroppedShape DEF A
<1>20. Shape(tree', heap', top2, sub2) /\ CallInv(top2, sub2)'
  <2>1. op' \in {"clear", "destroy"}
    BY <1>1 DEF Wiping
  <2>. QED
    BY <1>1, <1>19, <2>1 DEF CallInv, Running
<1>21. RbtInv'
  BY <1>15, <1>16, <1>20 DEF RbtInv
<1>. QED
  BY <1>1, <1>4, <1>17, <1>21 DEF A

-----------------------------------------------------------------------------
(* The end of a deletion.                                                  *)

\* The node y has x as a child: the code finds the side.
LEMMA SideOfIs ==
  ASSUME NEW t, NEW x, NEW y, \E s \in Sides : Child(t, y, s) = x
  PROVE  SideOf(t, x, y) \in Sides /\ Child(t, y, SideOf(t, x, y)) = x
  BY DEF SideOf, Sides, LEFT, RIGHT

\* The tree without the leaf n under p, its datum moved to x.
CutTree(t, n, p, x) ==
  LET moved == [t EXCEPT ![x].data = t[n].data]
      cut == [moved EXCEPT ![p].child[SideOf(t, n, p)] = Null]
  IN  [cut EXCEPT ![n] = Erased]

\* What a tree is after a red node has been cut out of it.
LEMMA CutTreeIs ==
  ASSUME NEW t \in Trees, NEW n \in Nodes, NEW p \in Nodes \cup {Dummy},
         NEW x \in Nodes, p # n, SideOf(t, n, p) \in Sides,
         NEW t2, t2 = CutTree(t, n, p, x)
  PROVE  /\ t2 \in Trees
         /\ t2[n] = Erased
         /\ \A z \in Nodes \cup {Dummy} : z # n =>
              /\ t2[z].data = IF z = x THEN t[n].data ELSE t[z].data
              /\ t2[z].parent = t[z].parent
              /\ t2[z].isRed = t[z].isRed
              /\ z # x /\ z # p => t2[z] = t[z]
              /\ \A s \in Sides : Child(t2, z, s) =
                   IF z = p /\ s = SideOf(t, n, p) THEN Null ELSE Child(t, z, s)
<1>. DEFINE R == [parent : Address, child : [Sides -> Nodes \cup {Null}],
                  data : Data \cup {Null}, isRed : BOOLEAN]
            side == SideOf(t, n, p)
            d == t[n].data
            moved == [t EXCEPT ![x].data = d]
            cut == [moved EXCEPT ![p].child[side] = Null]
<1>1. t2 = [cut EXCEPT ![n] = Erased]
  BY DEF CutTree
<1>2. t \in [Nodes \cup {Dummy} -> R] /\ d \in Data \cup {Null} /\ Erased \in R
  BY TreeFacts DEF Trees, Erased, Address
<1>. HIDE DEF d
<1>3. /\ moved \in [Nodes \cup {Dummy} -> R]
      /\ \A z \in Nodes \cup {Dummy} :
           /\ moved[z].data = IF z = x THEN d ELSE t[z].data
           /\ moved[z].parent = t[z].parent
           /\ moved[z].isRed = t[z].isRed
           /\ moved[z].child = t[z].child
           /\ z # x => moved[z] = t[z]
  <2>. DEFINE m == [t[x] EXCEPT !.data = d]
  <2>1. t[x] \in R
    BY <1>2
  <2>2. /\ m \in R /\ m.data = d /\ m.parent = t[x].parent /\ m.isRed = t[x].isRed
        /\ m.child = t[x].child
    BY <1>2, <2>1
  <2>3. moved = [t EXCEPT ![x] = m]
    OBVIOUS
  <2>. HIDE DEF R, m, moved
  <2>4. /\ moved \in [Nodes \cup {Dummy} -> R] /\ moved[x] = m
        /\ \A z \in Nodes \cup {Dummy} : z # x => moved[z] = t[z]
    BY <1>2, <2>2, <2>3
  <2>. QED
    BY <2>2, <2>4
<1>. HIDE DEF moved
<1>4. /\ cut \in [Nodes \cup {Dummy} -> R]
      /\ \A z \in Nodes \cup {Dummy} :
           /\ cut[z].data = moved[z].data
           /\ cut[z].parent = moved[z].parent
           /\ cut[z].isRed = moved[z].isRed
           /\ \A s \in Sides : cut[z].child[s] =
                IF z = p /\ s = side THEN Null ELSE moved[z].child[s]
           /\ z # p => cut[z] = moved[z]
  <2>. DEFINE m == [moved[p] EXCEPT !.child[side] = Null]
  <2>1. moved[p] \in R /\ side \in Sides
    BY <1>3
  <2>. HIDE DEF side
  <2>2. /\ m \in R /\ m.data = moved[p].data /\ m.parent = moved[p].parent
        /\ m.isRed = moved[p].isRed
        /\ \A s \in Sides : m.child[s] = IF s = side THEN Null ELSE moved[p].child[s]
    BY <2>1
  <2>3. cut = [moved EXCEPT ![p] = m]
    OBVIOUS
  <2>. HIDE DEF R, m, cut
  <2>4. /\ cut \in [Nodes \cup {Dummy} -> R] /\ cut[p] = m
        /\ \A z \in Nodes \cup {Dummy} : z # p => cut[z] = moved[z]
    BY <1>3, <2>2, <2>3
  <2>. QED
    BY <2>2, <2>4
<1>. HIDE DEF cut, R
<1>5. /\ t2 \in [Nodes \cup {Dummy} -> R] /\ t2[n] = Erased
      /\ \A z \in Nodes \cup {Dummy} : z # n => t2[z] = cut[z]
  BY <1>1, <1>2, <1>4
<1>6. t2 \in Trees
  BY <1>5 DEF Trees, R
<1>. QED
  BY <1>3, <1>4, <1>5, <1>6 DEF Child, d, side

\* The node at which a deletion has come to nothing is a leaf.
LEMMA LastIsLeaf ==
  ASSUME NEW t, NEW A, NEW top, NEW sub, Shape(t, A, top, sub),
         NEW H, Balanced(t, A, H),
         NEW n \in A, NEW d \in Sides, Child(t, n, d) = Null,
         IsRed(t, n) \/ BothBlack(t, n)
  PROVE  /\ \A e \in Sides : Child(t, n, e) = Null
         /\ IsRed(t, n) => H[n] = 0
<1>. DEFINE o == Child(t, n, 1 - d)
<1>1. 1 - d \in Sides /\ \A e \in Sides : e = d \/ e = 1 - d
  BY SideFacts
<1>2. H[n] = Black(t, n) /\ H[n] \in Nat
  <2>1. H[n] = Height(H, Null) + Black(t, n)
    BY DEF Balanced
  <2>2. Height(H, Null) = 0 /\ Black(t, n) \in {0, 1}
    BY DEF Height, Black
  <2>. QED
    BY <2>1, <2>2
<1>3. ASSUME o # Null
      PROVE  FALSE
  <2>1. o \in A
    BY <1>1, <1>3, ChildrenFacts
  <2>2. H[n] = H[o] + Black(t, n) /\ H[o] \in Nat
    BY <1>1, <1>3, <2>1 DEF Balanced, Height
  <2>3. Black(t, n) \in {0, 1}
    BY DEF Black
  <2>4. H[o] = 0
    BY <1>2, <2>2, <2>3
  <2>5. H[o] = Height(H, Child(t, o, d)) + Black(t, o)
    BY <2>1 DEF Balanced
  <2>6. Height(H, Child(t, o, d)) \in Nat
    BY <2>1, ChildrenFacts DEF Balanced, Height
  <2>7. IsRed(t, o)
    BY <1>3, <2>4, <2>5, <2>6 DEF Black, IsRed
  <2>8. ~IsRed(t, n)
    BY <1>1, <2>7 DEF Balanced
  <2>. QED
    BY <1>1, <2>7, <2>8 DEF BothBlack
<1>4. IsRed(t, n) => H[n] = 0
  BY <1>2 DEF IsRed, Black
<1>. QED
  BY <1>1, <1>3, <1>4

\* The leaf n of t is under p, or it is the top and under the dummy root; its
\* datum may go to x.
Cuttable(t, A, top, sub, H, n, p, x) ==
  /\ t \in Trees /\ A \in SUBSET Nodes /\ Shape(t, A, top, sub) /\ Balanced(t, A, H)
  /\ n \in A /\ \A e \in Sides : Child(t, n, e) = Null
  /\ IsRed(t, n) => H[n] = 0
  /\ IsRed(t, n) \/ n = top
  /\ \/ p = Dummy /\ n = top
     \/ p \in A /\ \E s \in Sides : Child(t, p, s) = n
  /\ x \in A
  /\ \A z \in A : z # x /\ z # n =>
       (t[z].data < t[n].data <=> t[z].data < t[x].data)
  /\ \A z \in Nodes \ A : t[z] = Erased
  /\ Child(t, Dummy, RIGHT) = top

\* t2 is a tree of the nodes of t but n, in which x has its datum.
CutOff(t, A, n, x, t2) ==
  /\ t2 \in Trees
  /\ \A z \in Nodes \ (A \ {n}) : t2[z] = Erased
  /\ \A z \in A \ {n} : z # x => t2[z].data = t[z].data
  /\ n # x => t2[x].data = t[n].data
  /\ \E sub2, H2 : /\ Shape(t2, A \ {n}, Child(t2, Dummy, RIGHT), sub2)
                   /\ Balanced(t2, A \ {n}, H2)

\* A tree without the last node of a deletion, whose datum is moved to x, is
\* a balanced tree.
LEMMA CutShape ==
  ASSUME NEW t, NEW A, NEW top, NEW sub, NEW H, NEW n, NEW p, NEW x,
         Cuttable(t, A, top, sub, H, n, p, x),
         NEW t2, t2 = CutTree(t, n, p, x)
  PROVE  CutOff(t, A, n, x, t2)
<1>0.
  /\ t \in Trees /\ A \in SUBSET Nodes /\ Shape(t, A, top, sub) /\ Balanced(t, A, H)
  /\ n \in A /\ \A e \in Sides : Child(t, n, e) = Null
  /\ IsRed(t, n) => H[n] = 0
  /\ IsRed(t, n) \/ n = top
  /\ \/ p = Dummy /\ n = top
     \/ p \in A /\ \E s \in Sides : Child(t, p, s) = n
  /\ x \in A
  /\ \A z \in A : z # x /\ z # n =>
       (t[z].data < t[n].data <=> t[z].data < t[x].data)
  /\ \A z \in Nodes \ A : t[z] = Erased
  /\ Child(t, Dummy, RIGHT) = top
  BY DEF Cuttable
<1>. USE <1>0
<1>. DEFINE B == A \ {n}
            side == SideOf(t, n, p)
            top2 == IF n = top THEN Null ELSE top
            H2 == [z \in B |-> H[z]]
<1>1. /\ Null \notin A
      /\ \A y, z \in A : \A r, s \in Sides :
              Child(t, y, r) = Child(t, z, s) /\ Child(t, z, s) # Null
              => y = z /\ r = s
      /\ \A y \in A, s \in Sides : top # Null => Child(t, y, s) # top
  BY OneParent
<1>2. n # Null /\ n \in Nodes /\ x \in Nodes /\ Dummy \notin A
  BY <1>1, AddressAssumption
<1>3. side \in Sides /\ Child(t, p, side) = n
  <2>1. \E s \in Sides : Child(t, p, s) = n
    BY DEF Sides
  <2>. QED
    BY <2>1, SideOfIs
<1>4. p \in Nodes \cup {Dummy} /\ p # n
  <2>1. p \in A => p # n
    BY <1>2, <1>3, ChildrenFacts
  <2>. QED
    BY <1>2, <2>1
<1>5. /\ t2 \in Trees
      /\ t2[n] = Erased
      /\ \A z \in Nodes \cup {Dummy} : z # n =>
              /\ t2[z].data = IF z = x THEN t[n].data ELSE t[z].data
              /\ t2[z].parent = t[z].parent
              /\ t2[z].isRed = t[z].isRed
              /\ z # x /\ z # p => t2[z] = t[z]
              /\ \A s \in Sides : Child(t2, z, s) =
                   IF z = p /\ s = side THEN Null ELSE Child(t, z, s)
  <2>1. SideOf(t, n, p) \in Sides
    BY <1>3
  <2>. HIDE DEF side
  <2>. QED
    BY <1>2, <1>4, <2>1, CutTreeIs DEF side
<1>6. Child(t2, Dummy, RIGHT) = top2
  <2>1. n = top => p = Dummy
    BY <1>1, <1>2
  <2>2. n # top => p # Dummy
    BY <1>2
  <2>3. p = Dummy => side = RIGHT
    BY <1>2 DEF SideOf
  <2>. HIDE DEF side
  <2>. QED
    BY <1>2, <1>5, <2>1, <2>2, <2>3 DEF Sides
<1>7. \A z \in B, e \in Sides :
        Child(t2, z, e) = IF Child(t, z, e) = n THEN Null ELSE Child(t, z, e)
  <2>. SUFFICES ASSUME NEW z \in B, NEW e \in Sides
                PROVE  Child(t2, z, e) = IF Child(t, z, e) = n THEN Null ELSE Child(t, z, e)
    OBVIOUS
  <2>1. z \in Nodes \cup {Dummy} /\ z # n
    OBVIOUS
  <2>2. Child(t, z, e) = n => z = p /\ e = side
    <3>1. p = Dummy => Child(t, z, e) # n
      BY <1>1, <1>2
    <3>. HIDE DEF side
    <3>. QED
      BY <1>1, <1>2, <1>3, <3>1
  <2>. HIDE DEF side
  <2>. QED
    BY <1>3, <1>5, <2>1, <2>2
<1>. HIDE DEF side
<1>8. \E sub2 : Shape(t2, B, top2, sub2)
  <2>. DEFINE t1 == [z \in A |-> [data |-> t[z].data, parent |-> t[z].parent,
                      child |-> [e \in Sides |-> IF Child(t, z, e) = n THEN Null
                                                 ELSE Child(t, z, e)]]]
  <2>1. \A z \in A : /\ t1[z].data = t[z].data /\ t1[z].parent = t[z].parent
                     /\ \A e \in Sides : Child(t1, z, e) =
                          IF Child(t, z, e) = n THEN Null ELSE Child(t, z, e)
    BY DEF Child
  <2>. HIDE DEF t1
  <2>2. Dropped(t, t1, A, n)
    BY <2>1 DEF Dropped
  <2>3. PICK sub2 : Shape(t1, B, top2, sub2)
    BY <2>2, DroppedShape
  <2>4. \A z \in B : /\ t2[z].data = IF z = x THEN t[n].data ELSE t1[z].data
                     /\ t2[z].parent = t1[z].parent
                     /\ \A e \in Sides : Child(t2, z, e) = Child(t1, z, e)
    BY <1>5, <1>7, <2>1
  <2>5. CASE x = n
    <3>1. \A z \in B : t2[z].data = t1[z].data /\ t2[z].parent = t1[z].parent
      BY <2>4, <2>5
    <3>. HIDE DEF B, top2
    <3>. QED
      BY <2>3, <2>4, <3>1, SameShape
  <2>6. CASE x # n
    <3>. DEFINE d == t[n].data
    <3>1. d \in Data /\ x \in B
      BY <2>6, DataAreInts
    <3>2. \A z \in B : z # x => t1[z].data # d /\ (t1[z].data < d <=> t1[z].data < t1[x].data)
      <4>1. \A z \in A : t[z].data = t[n].data => z = n
        BY DEF Shape, Ordered
      <4>. QED
        BY <2>1, <2>6, <4>1
    <3>3. Relabelled(t1, t2, B, x, d)
      BY <2>4 DEF Relabelled
    <3>. HIDE DEF B, top2, d
    <3>4. Shape(t2, B, top2, sub2)
      BY <2>3, <3>1, <3>2, <3>3, RelabelledShape
    <3>. QED
      BY <3>4
  <2>. QED
    BY <2>5, <2>6
<1>9. Balanced(t2, B, H2)
  <2>1. ASSUME NEW z \in B, NEW e \in Sides
        PROVE  /\ H2[z] = Height(H2, Child(t2, z, e)) + Black(t2, z)
               /\ ~(IsRed(t2, z) /\ IsRed(t2, Child(t2, z, e)))
    <3>1. z \in A /\ z # n /\ z \in Nodes /\ z # Null
      BY <1>1
    <3>2. /\ H[z] = Height(H, Child(t, z, e)) + Black(t, z)
          /\ ~(IsRed(t, z) /\ IsRed(t, Child(t, z, e)))
      BY <3>1 DEF Balanced
    <3>3. Black(t2, z) = Black(t, z) /\ (IsRed(t2, z) <=> IsRed(t, z)) /\ H2[z] = H[z]
      BY <1>5, <3>1 DEF Black, IsRed
    <3>. HIDE DEF H2
    <3>4. CASE Child(t, z, e) = n
      <4>1. n # top
        BY <1>1, <1>2, <3>1, <3>4
      <4>2. H[n] = 0
        BY <4>1
      <4>3. Child(t2, z, e) = Null
        BY <1>7, <3>4
      <4>4. Height(H, n) = 0 /\ Height(H2, Null) = 0
        BY <1>2, <4>2 DEF Height
      <4>. QED
        BY <3>2, <3>3, <3>4, <4>3, <4>4 DEF IsRed
    <3>5. CASE Child(t, z, e) # n
      <4>1. Child(t2, z, e) = Child(t, z, e)
        BY <1>7, <3>5
      <4>2. Child(t, z, e) # Null => Child(t, z, e) \in B
        BY <3>1, <3>5, ChildrenFacts
      <4>3. Height(H2, Child(t, z, e)) = Height(H, Child(t, z, e))
        BY <4>2 DEF Height, H2
      <4>4. IsRed(t2, Child(t, z, e)) <=> IsRed(t, Child(t, z, e))
        BY <1>5, <4>2 DEF IsRed
      <4>. QED
        BY <3>2, <3>3, <4>1, <4>3, <4>4
    <3>. QED
      BY <3>4, <3>5
  <2>2. H2 \in [B -> Nat]
    BY DEF Balanced
  <2>. HIDE DEF H2, B
  <2>. QED
    BY <2>1, <2>2 DEF Balanced
<1>10. \A z \in Nodes \ B : t2[z] = Erased
  <2>. SUFFICES ASSUME NEW z \in Nodes \ A, z # n
                PROVE  t2[z] = Erased
    BY <1>5
  <2>1. z # x /\ z # p
    BY AddressAssumption
  <2>. QED
    BY <1>5, <2>1
<1>11. /\ \A z \in B : z # x => t2[z].data = t[z].data
       /\ n # x => t2[x].data = t[n].data
  BY <1>2, <1>5
<1>. HIDE DEF top2, H2, B
<1>. QED
  BY <1>5, <1>6, <1>8, <1>9, <1>10, <1>11 DEF CutOff, B

\* So the end of a deletion keeps the invariant.
LEMMA DeleteTargetInv ==
  ASSUME RbtInv, DeleteTarget
  PROVE  RbtInv' /\ Keys' = Keys \ {key}
<1>1. /\ op = "delete" /\ Child(tree, node, direction) = Null /\ target # Null
      /\ Return /\ heap' = heap \ {node} /\ length' = length - 1
      /\ UNCHANGED <<created, cutShort>>
  BY DEF DeleteTarget
<1>2. Running
  BY <1>1 DEF Running
<1>3. /\ created = TRUE /\ cutShort \in BOOLEAN
      /\ tree \in Trees /\ heap \in SUBSET Nodes /\ IsFiniteSet(heap)
      /\ length = Cardinality(heap)
      /\ \A x \in Nodes \ heap : tree[x] = Erased
  BY <1>2, RunningFacts
<1>4. PICK top, sub, H : \E h \in Nat :
        /\ top = Top /\ Shape(tree, heap, top, sub) /\ Balanced(tree, heap, H)
        /\ DeleteInv(sub, H, h)
  BY <1>1, <1>2, RunningFacts
<1>5. /\ node \in heap /\ direction = Turn(node) /\ IsAbove(parent) /\ key \in Data
      /\ Path(tree, heap, sub, node, key)
      /\ IsRed(tree, node) \/ (node = top /\ BothBlack(tree, node))
      /\ target \in heap /\ tree[target].data = key
      /\ node = target \/ tree[node].data < key
  <2>1. ~IsRed(tree, Child(tree, node, direction))
    BY <1>1 DEF IsRed
  <2>. QED
    BY <1>1, <1>4, <2>1 DEF DeleteInv
<1>6. direction \in Sides
  BY <1>5 DEF Turn, Way, Sides
<1>7. /\ \A e \in Sides : Child(tree, node, e) = Null
      /\ IsRed(tree, node) => H[node] = 0
  <2>1. IsRed(tree, node) \/ BothBlack(tree, node)
    BY <1>5
  <2>. QED
    BY <1>1, <1>4, <1>5, <1>6, <2>1, LastIsLeaf
<1>8. \A z \in heap : z # target /\ z # node =>
        (tree[z].data < tree[node].data <=> tree[z].data < tree[target].data)
  <2>. SUFFICES ASSUME NEW z \in heap, z # target, z # node
                PROVE  tree[z].data < tree[node].data <=> tree[z].data < key
    BY <1>5
  <2>1. tree[z].data \in Int /\ tree[node].data \in Int /\ key \in Int
    BY <1>4, <1>5, DataAreInts
  <2>2. tree[z].data # tree[node].data /\ tree[z].data # key
    BY <1>4, <1>5 DEF Shape, Ordered
  <2>3. sub[node] = {node}
    BY <1>4, <1>5, <1>7, LeafIsAlone
  <2>4. ~(tree[node].data < tree[z].data /\ tree[z].data < key)
    BY <1>5, <2>3 DEF Path
  <2>. QED
    BY <1>5, <2>1, <2>2, <2>4
<1>9. Child(tree, Dummy, RIGHT) = top
  BY <1>4 DEF Top
<1>10. \/ parent = Dummy /\ node = top /\ Child(tree, Dummy, RIGHT) = top
       \/ parent \in heap /\ \E s \in Sides : Child(tree, parent, s) = node
  BY <1>4, <1>5, <1>9 DEF IsAbove
<1>. DEFINE A == heap \ {node}
<1>16. PICK t : t = CutTree(tree, node, parent, target)
  OBVIOUS
<1>11. /\ t \in Trees
       /\ \A z \in Nodes \ A : t[z] = Erased
       /\ \A z \in A : z # target => t[z].data = tree[z].data
       /\ node # target => t[target].data = tree[node].data
       /\ \E sub2, H2 : /\ Shape(t, A, Child(t, Dummy, RIGHT), sub2)
                        /\ Balanced(t, A, H2)
  <2>1. /\ IsRed(tree, node) \/ node = top
        /\ node \in heap /\ target \in heap
        /\ Shape(tree, heap, top, sub) /\ Balanced(tree, heap, H)
    BY <1>4, <1>5
  <2>3. Cuttable(tree, heap, top, sub, H, node, parent, target)
    BY <1>3, <1>7, <1>8, <1>9, <1>10, <2>1 DEF Cuttable
  <2>2. /\ t \in Trees
        /\ \A z \in Nodes \ (heap \ {node}) : t[z] = Erased
        /\ \A z \in heap \ {node} : z # target => t[z].data = tree[z].data
        /\ node # target => t[target].data = tree[node].data
        /\ \E sub2, H2 : /\ Shape(t, heap \ {node}, Child(t, Dummy, RIGHT), sub2)
                         /\ Balanced(t, heap \ {node}, H2)
    <3>1. CutOff(tree, heap, node, target, t)
      BY <1>16, <2>3, CutShape
    <3>. QED
      BY <3>1 DEF CutOff
  <2>. QED
    BY <2>2
<1>12. Finished(t)
  <2>. DEFINE rest == IF Child(tree, node, LEFT) = Null THEN RIGHT ELSE LEFT
              cut == [Moved EXCEPT ![parent].child[SideOf(tree, node, parent)] =
                                Child(tree, node, rest)]
  <2>1. Finished([cut EXCEPT ![node] = Erased])
    BY DEF DeleteTarget
  <2>2. Child(tree, node, rest) = Null
    BY <1>7 DEF Sides
  <2>3. [cut EXCEPT ![node] = Erased] = t
    BY <1>16, <2>2 DEF CutTree, Moved
  <2>. HIDE DEF cut, rest
  <2>. QED
    BY <2>1, <2>3
<1>13. IsFiniteSet(A) /\ A \in SUBSET Nodes /\ length' = Cardinality(A)
  BY <1>1, <1>3, <1>5, FS_RemoveElement
<1>. HIDE DEF A
<1>14. /\ RbtInv'
       /\ \A x \in Nodes : tree'[x].data = t[x].data
  <2>1. PICK top2, sub2, H2 : /\ top2 = Child(t, Dummy, RIGHT)
                              /\ Shape(t, A, top2, sub2) /\ Balanced(t, A, H2)
    BY <1>11
  <2>2. heap' = A
    BY <1>1 DEF A
  <2>. QED
    BY <1>1, <1>3, <1>11, <1>12, <1>13, <2>1, <2>2, FinishedInv
<1>15. Keys' = Keys \ {key}
  <2>1. /\ \A z \in A : /\ z \in heap /\ z # node
                        /\ z # target => tree'[z].data = tree[z].data
        /\ node # target => tree'[target].data = tree[node].data
        /\ heap' = A
    BY <1>1, <1>3, <1>5, <1>11, <1>14 DEF A
  <2>2. \A y, z \in heap : tree[y].data = tree[z].data => y = z
    BY <1>4 DEF Shape, Ordered
  <2>3. \A z \in heap : z # node => z \in A
    BY DEF A
  <2>. QED
    BY <1>5, <2>1, <2>2, <2>3 DEF Keys
<1>. QED
  BY <1>14, <1>15

-----------------------------------------------------------------------------
(* The turns of a deletion.                                                *)

\* A deletion is about to go from w down to its child x on side l; y is above w.
Descending(t, A, top, sub, H, y, w, l, x) ==
  /\ t \in Trees /\ A \in SUBSET Nodes /\ Shape(t, A, top, sub) /\ Balanced(t, A, H)
  /\ \A z \in Nodes \ A : t[z] = Erased
  /\ Child(t, Dummy, RIGHT) = top /\ Child(t, Dummy, LEFT) = Null
  /\ l \in Sides /\ x = Child(t, w, l) /\ x # Null
  /\ \/ w = Dummy /\ l = RIGHT
     \/ /\ w \in A
        /\ IsRed(t, w) \/ IsRed(t, x) \/ (w = top /\ BothBlack(t, w))
        /\ \/ y = Dummy /\ w = top
           \/ y \in A /\ \E r \in Sides : Child(t, y, r) = w

\* It has come to x, and will go on to side s: t has become t2, in which p is
\* above x; the height left to go has been paid for.
Down(t, A, sub, H, x, s, t2, p) ==
  /\ t2 \in Trees
  /\ \A z \in A : t2[z].data = t[z].data
  /\ \A z \in Nodes \ A : t2[z] = Erased
  /\ Child(t2, Dummy, LEFT) = Null
  /\ Child(t2, x, s) = Child(t, x, s)
  /\ \E top2, sub2, H2 :
       /\ Shape(t2, A, top2, sub2) /\ Balanced(t2, A, H2)
       /\ Child(t2, Dummy, RIGHT) = top2
       /\ sub2[x] \subseteq sub[x]
       /\ \A z \in sub[x] : Toward(t[x].data, t[z].data, s) => z \in sub2[x]
       /\ \/ p = Dummy /\ x = top2
          \/ p \in A /\ \E r \in Sides : Child(t2, p, r) = x
       /\ \/ IsRed(t2, x) /\ 2 * H2[x] + 1 <= 2 * H[x] + (1 - Black(t, x))
          \/ /\ ~IsRed(t2, x) /\ ~IsRed(t, x) /\ H2[x] = H[x]
             /\ IsRed(t2, Child(t2, x, s)) \/ (x = top2 /\ BothBlack(t2, x))

\* Where a deletion stands that goes down to x.
LEMMA DescendingFacts ==
  ASSUME NEW t, NEW A, NEW top, NEW sub, NEW H, NEW y, NEW w, NEW l, NEW x,
         Descending(t, A, top, sub, H, y, w, l, x)
  PROVE  /\ x \in A /\ x # Null /\ x \in Nodes
         /\ w = Dummy => x = top
         /\ w \in A => x # top /\ w # Dummy /\ w # Null
         /\ Null \notin A /\ Dummy \notin A
         /\ (w = Dummy /\ x = top) \/ (w \in A /\ Child(t, w, l) = x)
         /\ \A z \in A : z \in Reds(t, A) <=> IsRed(t, z)
         /\ \A z \in A, r \in Sides :
              Child(t, z, r) \in Reds(t, A) <=> IsRed(t, Child(t, z, r))
<1>1. /\ t \in Trees /\ A \in SUBSET Nodes /\ Shape(t, A, top, sub)
      /\ Child(t, Dummy, RIGHT) = top
      /\ l \in Sides /\ x = Child(t, w, l) /\ x # Null
      /\ (w = Dummy /\ l = RIGHT) \/ w \in A
  BY DEF Descending
<1>2. Null \notin A /\ \A z \in A, r \in Sides : top # Null => Child(t, z, r) # top
  BY <1>1, OneParent
<1>3. Dummy \notin A
  BY <1>1, AddressAssumption
<1>4. w = Dummy => x = top
  BY <1>1, <1>3
<1>5. top \in A \/ top = Null
  BY <1>1 DEF Shape, Linked
<1>6. w \in A => x \in A /\ x # top
  BY <1>1, <1>2, ChildrenFacts
<1>7. x \in A
  BY <1>1, <1>4, <1>5, <1>6
<1>8. \A z \in A : z \in Reds(t, A) <=> IsRed(t, z)
  BY <1>2 DEF Reds, IsRed
<1>9. \A z \in A, r \in Sides :
        Child(t, z, r) \in Reds(t, A) <=> IsRed(t, Child(t, z, r))
  <2>1. \A z \in A, r \in Sides : Child(t, z, r) # Null => Child(t, z, r) \in A
    BY <1>1, ChildrenFacts
  <2>. QED
    BY <1>2, <2>1 DEF Reds, IsRed
<1>. QED
  BY <1>1, <1>2, <1>3, <1>4, <1>6, <1>7, <1>8, <1>9

\* x is red, or the child that comes next.
LEMMA DownRed ==
  ASSUME NEW t, NEW A, NEW top, NEW sub, NEW H, NEW y, NEW w, NEW l, NEW x,
         Descending(t, A, top, sub, H, y, w, l, x), NEW s \in Sides,
         IsRed(t, x) \/ IsRed(t, Child(t, x, s))
  PROVE  Down(t, A, sub, H, x, s, t, w)
<1>1. /\ t \in Trees /\ A \in SUBSET Nodes /\ Shape(t, A, top, sub) /\ Balanced(t, A, H)
      /\ \A z \in Nodes \ A : t[z] = Erased
      /\ Child(t, Dummy, RIGHT) = top /\ Child(t, Dummy, LEFT) = Null /\ l \in Sides
  BY DEF Descending
<1>2. /\ x \in A /\ x # Null
      /\ (w = Dummy /\ x = top) \/ (w \in A /\ \E r \in Sides : Child(t, w, r) = x)
  BY <1>1, DescendingFacts
<1>3. H[x] \in Nat
  BY <1>1, <1>2 DEF Balanced
<1>4. \/ IsRed(t, x) /\ 2 * H[x] + 1 <= 2 * H[x] + (1 - Black(t, x))
      \/ ~IsRed(t, x) /\ IsRed(t, Child(t, x, s))
  BY <1>2, <1>3 DEF Black, IsRed
<1>. QED
  BY <1>1, <1>2, <1>4 DEF Down

\* w is the dummy root, and has no other child.
LEMMA DownTop ==
  ASSUME NEW t, NEW A, NEW top, NEW sub, NEW H, NEW y, NEW w, NEW l, NEW x,
         Descending(t, A, top, sub, H, y, w, l, x), NEW s \in Sides,
         ~IsRed(t, x), BothBlack(t, x), Child(t, w, 1 - l) = Null
  PROVE  Down(t, A, sub, H, x, s, t, w)
<1>1. /\ t \in Trees /\ A \in SUBSET Nodes /\ Shape(t, A, top, sub) /\ Balanced(t, A, H)
      /\ \A z \in Nodes \ A : t[z] = Erased
      /\ Child(t, Dummy, RIGHT) = top /\ Child(t, Dummy, LEFT) = Null /\ l \in Sides
      /\ x = Child(t, w, l)
  BY DEF Descending
<1>2. /\ x \in A /\ x # Null /\ 1 - l \in Sides
      /\ (w = Dummy /\ x = top) \/ (w \in A /\ Child(t, w, l) = x)
  BY <1>1, DescendingFacts, SideFacts
<1>3. ASSUME w \in A
      PROVE  FALSE
  <2>1. H[w] = Height(H, x) + Black(t, w) /\ H[w] = Height(H, Null) + Black(t, w)
    BY <1>1, <1>2, <1>3 DEF Balanced
  <2>2. Height(H, x) = H[x] /\ Height(H, Null) = 0 /\ H[x] \in Nat /\ Black(t, w) \in {0, 1}
    BY <1>1, <1>2 DEF Height, Balanced, Black
  <2>3. H[x] = 0
    BY <2>1, <2>2
  <2>4. H[x] = Height(H, Child(t, x, s)) + Black(t, x) /\ Black(t, x) = 1
    BY <1>1, <1>2 DEF Balanced, Black, IsRed
  <2>5. Height(H, Child(t, x, s)) \in Nat
    BY <1>1, <1>2, ChildrenFacts DEF Height, Balanced
  <2>. QED
    BY <2>3, <2>4, <2>5
<1>4. w = Dummy /\ x = top
  BY <1>2, <1>3
<1>. QED
  BY <1>1, <1>2, <1>4 DEF Down

\* The other child of x is red: it comes up, and x goes down below it.
LEMMA DownRaised ==
  ASSUME NEW t, NEW A, NEW top, NEW sub, NEW H, NEW y, NEW w, NEW l, NEW x,
         Descending(t, A, top, sub, H, y, w, l, x), NEW s \in Sides,
         ~IsRed(t, x), ~IsRed(t, Child(t, x, s)), IsRed(t, Child(t, x, 1 - s)),
         NEW t2, t2 = Hung(RotateOnce(t, x, s), w, l)
  PROVE  Down(t, A, sub, H, x, s, t2, Child(t, x, 1 - s))
<1>. DEFINE d == 1 - s
            p == Child(t, x, d)
<1>1. /\ t \in Trees /\ A \in SUBSET Nodes /\ Shape(t, A, top, sub) /\ Balanced(t, A, H)
      /\ \A z \in Nodes \ A : t[z] = Erased
      /\ Child(t, Dummy, RIGHT) = top /\ Child(t, Dummy, LEFT) = Null /\ l \in Sides
      /\ x = Child(t, w, l) /\ x # Null
      /\ w = Dummy => l = RIGHT
  BY AddressAssumption DEF Descending
<1>2. /\ x \in A /\ x # Null
      /\ (w \in A /\ Child(t, w, l) = x) \/ (w = Dummy /\ x = top)
      /\ w \in A => x # top /\ w # Dummy
      /\ Null \notin A /\ Dummy \notin A
      /\ \A z \in A : z \in Reds(t, A) <=> IsRed(t, z)
      /\ \A z \in A, r \in Sides :
              Child(t, z, r) \in Reds(t, A) <=> IsRed(t, Child(t, z, r))
  BY DescendingFacts
<1>3. d \in Sides /\ 1 - d = s
  BY SideFacts
<1>4. p # Null /\ p \in A /\ p \in Reds(t, A) /\ x \notin Reds(t, A)
      /\ Child(t, x, 1 - d) \notin Reds(t, A)
  <2>1. p # Null
    BY DEF IsRed
  <2>2. p \in A
    BY <1>1, <1>2, <1>3, <2>1, ChildrenFacts
  <2>. QED
    BY <1>2, <1>3, <2>1, <2>2
<1>5. Counted(t, A, Reds(t, A), H)
  BY <1>1, BalancedIs
<1>6. Apart(t, A, Reds(t, A))
  BY <1>1, BalancedIs
<1>7. /\ Child(t, p, 1 - d) \notin Reds(t, A)
      /\ \A z \in A, r \in Sides :
           z \in Reds(t, A) /\ z # p => Child(t, z, r) \notin Reds(t, A)
  BY <1>3, <1>4, <1>6 DEF Apart
<1>8. t2 = Hung(RotateOnce(t, x, 1 - d), w, l)
  BY <1>3
<1>9. p = Child(t, x, d)
  OBVIOUS
<1>. HIDE DEF d, p
<1>10. /\ t2 \in Trees
       /\ \A z \in A : t2[z].data = t[z].data
       /\ \A z \in (Nodes \cup {Dummy}) \ A : z # w => t2[z] = t[z]
       /\ \A r \in Sides : w = Dummy =>
              Child(t2, Dummy, r) = IF r = l THEN p ELSE Child(t, Dummy, r)
       /\ \A z \in A : z \in Reds(t2, A) <=> (z \in Reds(t, A) /\ z # p) \/ z = x
       /\ Child(t2, p, 1 - d) = x
       /\ Child(t2, x, 1 - d) = Child(t, x, 1 - d)
       /\ \E sub2, H2 :
              /\ Shape(t2, A, IF x = top THEN p ELSE top, sub2)
              /\ sub2[x] = {z \in sub[x] : Toward(t[p].data, t[z].data, 1 - d)}
              /\ Balanced(t2, A, H2)
              /\ H2[x] = H[p]
  BY <1>1, <1>2, <1>3, <1>4, <1>5, <1>7, <1>8, <1>9, SingleRepair
<1>11. PICK top2, sub2, H2 :
              /\ top2 = IF x = top THEN p ELSE top
              /\ Shape(t2, A, top2, sub2)
              /\ sub2[x] = {z \in sub[x] : Toward(t[p].data, t[z].data, s)}
              /\ Balanced(t2, A, H2)
              /\ H2[x] = H[p]
  BY <1>3, <1>10
<1>12. Child(t2, Dummy, RIGHT) = top2 /\ Child(t2, Dummy, LEFT) = Null
  <2>1. CASE w = Dummy
    <3>1. LEFT \in Sides /\ RIGHT \in Sides /\ LEFT # RIGHT /\ l = RIGHT /\ x = top
      BY <1>1, <1>2, <2>1 DEF Sides, LEFT, RIGHT
    <3>. QED
      BY <1>1, <1>10, <1>11, <2>1, <3>1
  <2>2. CASE w # Dummy
    <3>1. t2[Dummy] = t[Dummy] /\ x # top
      BY <1>2, <1>10, <2>2
    <3>. QED
      BY <1>1, <1>11, <3>1 DEF Child
  <2>. QED
    BY <2>1, <2>2
<1>13. \A z \in Nodes \ A : t2[z] = Erased
  BY <1>1, <1>2, <1>10, AddressAssumption
<1>14. \A z \in sub[x] : Toward(t[x].data, t[z].data, s) => z \in sub2[x]
  <2>1. Toward(t[x].data, t[p].data, d) /\ sub[x] \subseteq A
    BY <1>1, <1>2, <1>3, <1>4, <1>9, ChildFacts DEF Shape, Nested
  <2>2. \A z \in A : t[z].data \in Int
    BY <1>1, DataAreInts
  <2>3. Toward(t[p].data, t[x].data, s)
    BY <1>2, <1>3, <1>4, <2>1, <2>2, TowardFacts
  <2>. QED
    BY <1>2, <1>4, <1>11, <2>1, <2>2, <2>3, TowardFacts
<1>15. IsRed(t2, x) /\ 2 * H2[x] + 1 <= 2 * H[x] + (1 - Black(t, x))
  <2>1. IsRed(t2, x)
    BY <1>2, <1>10 DEF Reds, IsRed
  <2>2. H[x] = H[p] + 1 /\ H[p] \in Nat
    <3>1. H[x] = Height(H, p) + Black(t, x)
      BY <1>1, <1>2, <1>3, <1>9 DEF Balanced
    <3>2. Height(H, p) = H[p] /\ H[p] \in Nat /\ Black(t, x) = 1
      BY <1>1, <1>2, <1>4 DEF Height, Balanced, Black, IsRed
    <3>. QED
      BY <3>1, <3>2
  <2>3. Black(t, x) \in {0, 1}
    BY DEF Black
  <2>. QED
    BY <1>11, <2>1, <2>2, <2>3
<1>16. p \in A /\ \E r \in Sides : Child(t2, p, r) = x
  BY <1>3, <1>4, <1>10
<1>17. Child(t2, x, s) = Child(t, x, s)
  BY <1>3, <1>10
<1>18. sub2[x] \subseteq sub[x]
  BY <1>11
<1>19. p = Child(t, x, 1 - s)
  BY <1>9 DEF d
<1>20. Down(t, A, sub, H, x, s, t2, p)
  BY <1>10, <1>11, <1>12, <1>13, <1>14, <1>15, <1>16, <1>17, <1>18 DEF Down
<1>. QED
  BY <1>19, <1>20

\* What is so when neither x nor a child of it is red, and w has another child.
LEMMA PullFacts ==
  ASSUME NEW t, NEW A, NEW top, NEW sub, NEW H, NEW y, NEW w, NEW l, NEW x,
         Descending(t, A, top, sub, H, y, w, l, x),
         ~IsRed(t, x), BothBlack(t, x), Child(t, w, 1 - l) # Null
  PROVE  /\ w \in A /\ (w \in Reds(t, A) \/ w = top)
         /\ w # Dummy /\ w # Null /\ x \in A /\ x # top
         /\ x \notin Reds(t, A)
         /\ \A r \in Sides : Child(t, x, r) \notin Reds(t, A)
         /\ Child(t, w, 1 - l) \in A /\ Child(t, w, 1 - l) \notin Reds(t, A)
         /\ (y \in A /\ w # top) \/ (y = Dummy /\ w = top)
         /\ \E r \in Sides : Child(t, y, r) = w
<1>1. /\ Shape(t, A, top, sub) /\ Balanced(t, A, H)
      /\ Child(t, Dummy, RIGHT) = top /\ Child(t, Dummy, LEFT) = Null /\ l \in Sides
      /\ \/ w = Dummy /\ l = RIGHT
         \/ /\ w \in A
            /\ IsRed(t, w) \/ IsRed(t, x) \/ (w = top /\ BothBlack(t, w))
            /\ \/ y = Dummy /\ w = top
               \/ y \in A /\ \E r \in Sides : Child(t, y, r) = w
  BY DEF Descending
<1>2. /\ x \in A /\ (w \in A => x # top /\ w # Dummy /\ w # Null)
      /\ \A z \in A : z \in Reds(t, A) <=> IsRed(t, z)
      /\ \A z \in A, r \in Sides :
              Child(t, z, r) \in Reds(t, A) <=> IsRed(t, Child(t, z, r))
  BY DescendingFacts
<1>3. 1 - l \in Sides /\ (l = RIGHT => 1 - l = LEFT)
  BY <1>1 DEF Sides, LEFT, RIGHT
<1>4. /\ w \in A
      /\ IsRed(t, w) \/ (w = top /\ BothBlack(t, w))
      /\ \/ y = Dummy /\ w = top
         \/ y \in A /\ \E r \in Sides : Child(t, y, r) = w
  BY <1>1, <1>3
<1>5. ~IsRed(t, Child(t, w, 1 - l))
  <2>1. IsRed(t, w) => ~IsRed(t, Child(t, w, 1 - l))
    BY <1>1, <1>3, <1>4 DEF Balanced
  <2>. QED
    BY <1>3, <1>4, <2>1 DEF BothBlack
<1>6. Child(t, w, 1 - l) \in A
  BY <1>1, <1>3, <1>4, ChildrenFacts
<1>7. y \in A => w # top
  <2>1. \A z \in A, r \in Sides : top # Null => Child(t, z, r) # top
    BY <1>1, OneParent
  <2>. QED
    BY <1>2, <1>4, <2>1, AddressAssumption DEF Descending
<1>8. \E r \in Sides : Child(t, y, r) = w
  BY <1>1, <1>4 DEF Sides
<1>. QED
  BY <1>2, <1>3, <1>4, <1>5, <1>6, <1>7, <1>8 DEF BothBlack

\* The children of the sibling are black: x and the sibling become red.
LEMMA DownRecoloured ==
  ASSUME NEW t, NEW A, NEW top, NEW sub, NEW H, NEW y, NEW w, NEW l, NEW x,
         Descending(t, A, top, sub, H, y, w, l, x), NEW s \in Sides,
         ~IsRed(t, x), BothBlack(t, x), NEW b, b = Child(t, w, 1 - l), b # Null,
         BothBlack(t, b), NEW t2, t2 = RedBelow(t, w)
  PROVE  Down(t, A, sub, H, x, s, t2, w)
<1>1. /\ t \in Trees /\ A \in SUBSET Nodes /\ Shape(t, A, top, sub) /\ Balanced(t, A, H)
      /\ \A z \in Nodes \ A : t[z] = Erased
      /\ Child(t, Dummy, RIGHT) = top /\ Child(t, Dummy, LEFT) = Null /\ l \in Sides
      /\ x = Child(t, w, l) /\ x # Null
  BY DEF Descending
<1>2. /\ w \in A /\ (w \in Reds(t, A) \/ w = top)
      /\ w # Dummy /\ x \in A /\ x \notin Reds(t, A)
      /\ \A r \in Sides : Child(t, x, r) \notin Reds(t, A)
      /\ b \in A /\ b \notin Reds(t, A)
  BY PullFacts
<1>3. \A r \in Sides : Child(t, x, r) \notin Reds(t, A) /\ Child(t, b, r) \notin Reds(t, A)
  <2>1. \A z \in A, r \in Sides :
              Child(t, z, r) \in Reds(t, A) <=> IsRed(t, Child(t, z, r))
    BY DescendingFacts
  <2>. QED
    BY <1>2, <2>1 DEF BothBlack
<1>4. /\ t2 \in Trees
      /\ \A z \in A : t2[z].data = t[z].data
      /\ \A z \in (Nodes \cup {Dummy}) \ A : t2[z] = t[z]
      /\ \A z \in A, r \in Sides : Child(t2, z, r) = Child(t, z, r)
      /\ x \in Reds(t2, A)
      /\ \E H2 : Shape(t2, A, top, sub) /\ Balanced(t2, A, H2) /\ H2[x] = H[x] - 1
  BY <1>1, <1>2, <1>3, RecolourIs
<1>5. PICK H2 : Shape(t2, A, top, sub) /\ Balanced(t2, A, H2) /\ H2[x] = H[x] - 1
  BY <1>4
<1>6. IsRed(t2, x) /\ 2 * H2[x] + 1 <= 2 * H[x] + (1 - Black(t, x))
  BY <1>1, <1>2, <1>4, <1>5 DEF IsRed, Reds, Black, Balanced
<1>7. Child(t2, Dummy, RIGHT) = top /\ Child(t2, Dummy, LEFT) = Null
  <2>1. t2[Dummy] = t[Dummy]
    BY <1>1, <1>4, AddressAssumption
  <2>. QED
    BY <1>1, <2>1 DEF Child
<1>8. Child(t2, x, s) = Child(t, x, s) /\ \E r \in Sides : Child(t2, w, r) = x
  BY <1>1, <1>2, <1>4
<1>9. \A z \in Nodes \ A : t2[z] = Erased
  BY <1>1, <1>4
<1>. QED
  BY <1>2, <1>4, <1>5, <1>6, <1>7, <1>8, <1>9 DEF Down

\* w has been pulled down, and b is in its place below side e of y.
Pulled(t, A, top, sub, H, y, e, w, l, x, b, t2) ==
  /\ t2 \in Trees
  /\ \A z \in A : t2[z].data = t[z].data
  /\ \A z \in (Nodes \cup {Dummy}) \ A : z # y => t2[z] = t[z]
  /\ \A r \in Sides : y = Dummy =>
       Child(t2, Dummy, r) = IF r = e THEN b ELSE Child(t, Dummy, r)
  /\ \A r \in Sides : Child(t2, x, r) = Child(t, x, r)
  /\ Child(t2, w, l) = x
  /\ x \in Reds(t2, A)
  /\ \E sub2, H2 :
       /\ Shape(t2, A, IF w = top THEN b ELSE top, sub2)
       /\ sub2[x] = sub[x]
       /\ Balanced(t2, A, H2) /\ H2[x] = H[x] - 1

\* A deletion has what it needs below x after it has pulled a sibling over: ...
LEMMA PulledDown ==
  ASSUME NEW t, NEW A, NEW top, NEW sub, NEW H, NEW y, NEW w, NEW l, NEW x,
         Descending(t, A, top, sub, H, y, w, l, x), NEW s \in Sides,
         ~IsRed(t, x), BothBlack(t, x), Child(t, w, 1 - l) # Null,
         NEW e, e = SideOf(t, w, y), NEW b, NEW t2,
         Pulled(t, A, top, sub, H, y, e, w, l, x, b, t2)
  PROVE  Down(t, A, sub, H, x, s, t2, w)
<1>0.
  /\ t2 \in Trees
  /\ \A z \in A : t2[z].data = t[z].data
  /\ \A z \in (Nodes \cup {Dummy}) \ A : z # y => t2[z] = t[z]
  /\ \A r \in Sides : y = Dummy =>
       Child(t2, Dummy, r) = IF r = e THEN b ELSE Child(t, Dummy, r)
  /\ \A r \in Sides : Child(t2, x, r) = Child(t, x, r)
  /\ Child(t2, w, l) = x
  /\ x \in Reds(t2, A)
  /\ \E sub2, H2 :
       /\ Shape(t2, A, IF w = top THEN b ELSE top, sub2)
       /\ sub2[x] = sub[x]
       /\ Balanced(t2, A, H2) /\ H2[x] = H[x] - 1
  BY DEF Pulled
<1>. USE <1>0
<1>1. /\ t \in Trees /\ A \in SUBSET Nodes /\ Balanced(t, A, H)
      /\ \A z \in Nodes \ A : t[z] = Erased
      /\ Child(t, Dummy, RIGHT) = top /\ Child(t, Dummy, LEFT) = Null /\ l \in Sides
      /\ x # Null
  BY DEF Descending
<1>2. /\ w \in A /\ x \in A /\ x \notin Reds(t, A)
      /\ (y \in A /\ w # top) \/ (y = Dummy /\ w = top)
  BY PullFacts
<1>3. PICK top2, sub2, H2 :
              /\ top2 = IF w = top THEN b ELSE top
              /\ Shape(t2, A, top2, sub2)
              /\ sub2[x] = sub[x]
              /\ Balanced(t2, A, H2) /\ H2[x] = H[x] - 1
  OBVIOUS
<1>4. IsRed(t2, x) /\ 2 * H2[x] + 1 <= 2 * H[x] + (1 - Black(t, x))
  BY <1>1, <1>2, <1>3 DEF IsRed, Reds, Black, Balanced
<1>5. Dummy \notin A
  BY <1>1, AddressAssumption
<1>6. Child(t2, Dummy, RIGHT) = top2 /\ Child(t2, Dummy, LEFT) = Null
  <2>1. CASE y = Dummy
    <3>1. e = RIGHT /\ w = top
      BY <1>1, <1>2, <1>5, <2>1 DEF SideOf
    <3>2. LEFT \in Sides /\ RIGHT \in Sides /\ LEFT # RIGHT
      BY DEF Sides, LEFT, RIGHT
    <3>. QED
      BY <1>1, <1>3, <2>1, <3>1, <3>2
  <2>2. CASE y # Dummy
    <3>1. t2[Dummy] = t[Dummy] /\ w # top
      BY <1>2, <1>5, <2>2
    <3>. QED
      BY <1>1, <1>3, <3>1 DEF Child
  <2>. QED
    BY <2>1, <2>2
<1>7. \A z \in Nodes \ A : t2[z] = Erased
  BY <1>1, <1>2, AddressAssumption
<1>8. w \in A /\ \E r \in Sides : Child(t2, w, r) = x
  BY <1>1, <1>2
<1>. QED
  BY <1>3, <1>4, <1>6, <1>7, <1>8 DEF Down

\* ... by one rotation, ...
LEMMA DownPulledOnce ==
  ASSUME NEW t, NEW A, NEW top, NEW sub, NEW H, NEW y, NEW w, NEW l, NEW x,
         Descending(t, A, top, sub, H, y, w, l, x), NEW s \in Sides,
         ~IsRed(t, x), BothBlack(t, x), NEW b, b = Child(t, w, 1 - l), b # Null,
         ~IsRed(t, Child(t, b, l)), IsRed(t, Child(t, b, 1 - l)),
         NEW t1, t1 = Hung(RotateOnce(t, w, l), y, SideOf(t, w, y)),
         NEW t2, t2 = Red(RedAbove(t1, b), x)
  PROVE  Down(t, A, sub, H, x, s, t2, w)
<1>1. /\ t \in Trees /\ A \in SUBSET Nodes /\ Shape(t, A, top, sub) /\ Balanced(t, A, H)
      /\ l \in Sides /\ x = Child(t, w, l) /\ x # Null
  BY DEF Descending
<1>2. /\ w \in A /\ (w \in Reds(t, A) \/ w = top)
      /\ x \in A /\ x \notin Reds(t, A)
      /\ \A r \in Sides : Child(t, x, r) \notin Reds(t, A)
      /\ b \in A /\ b \notin Reds(t, A)
      /\ (y \in A /\ w # top) \/ (y = Dummy /\ w = top)
      /\ \E r \in Sides : Child(t, y, r) = w
  BY PullFacts
<1>3. Child(t, b, l) \notin Reds(t, A) /\ Child(t, b, 1 - l) \in Reds(t, A)
  <2>1. \A z \in A, r \in Sides :
              Child(t, z, r) \in Reds(t, A) <=> IsRed(t, Child(t, z, r))
    BY DescendingFacts
  <2>2. 1 - l \in Sides
    BY <1>1, SideFacts
  <2>. QED
    BY <1>1, <1>2, <2>1, <2>2
<1>4. PICK e \in Sides : e = SideOf(t, w, y) /\ Child(t, y, e) = w
  BY <1>2, SideOfIs
<1>5. (y \in A /\ Child(t, y, e) = w) \/ (y = Dummy /\ w = top)
  BY <1>2, <1>4
<1>6. t1 = Hung(RotateOnce(t, w, l), y, e)
  BY <1>4
<1>7. /\ t2 \in Trees
      /\ \A z \in A : t2[z].data = t[z].data
      /\ \A z \in (Nodes \cup {Dummy}) \ A : z # y => t2[z] = t[z]
      /\ \A r \in Sides : y = Dummy =>
           Child(t2, Dummy, r) = IF r = e THEN b ELSE Child(t, Dummy, r)
      /\ \A r \in Sides : Child(t2, x, r) = Child(t, x, r)
      /\ Child(t2, w, l) = x
      /\ x \in Reds(t2, A)
      /\ \E sub2, H2 :
              /\ Shape(t2, A, IF w = top THEN b ELSE top, sub2)
              /\ sub2[x] = sub[x]
              /\ Balanced(t2, A, H2) /\ H2[x] = H[x] - 1
  BY <1>1, <1>2, <1>3, <1>5, <1>6, PulledOnce
<1>8. Pulled(t, A, top, sub, H, y, e, w, l, x, b, t2)
  BY <1>7 DEF Pulled
<1>. QED
  BY <1>4, <1>8, PulledDown

\* ... or by two.
LEMMA DownPulledTwice ==
  ASSUME NEW t, NEW A, NEW top, NEW sub, NEW H, NEW y, NEW w, NEW l, NEW x,
         Descending(t, A, top, sub, H, y, w, l, x), NEW s \in Sides,
         ~IsRed(t, x), BothBlack(t, x), NEW b, b = Child(t, w, 1 - l), b # Null,
         NEW q, q = Child(t, b, l), IsRed(t, q),
         NEW t1, t1 = Hung(RotateTwice(t, w, l), y, SideOf(t, w, y)),
         NEW t2, t2 = Red(RedAbove(t1, q), x)
  PROVE  Down(t, A, sub, H, x, s, t2, w)
<1>1. /\ t \in Trees /\ A \in SUBSET Nodes /\ Shape(t, A, top, sub) /\ Balanced(t, A, H)
      /\ l \in Sides /\ x = Child(t, w, l) /\ x # Null
  BY DEF Descending
<1>2. /\ w \in A /\ (w \in Reds(t, A) \/ w = top)
      /\ x \in A /\ x \notin Reds(t, A)
      /\ \A r \in Sides : Child(t, x, r) \notin Reds(t, A)
      /\ b \in A /\ b \notin Reds(t, A)
      /\ (y \in A /\ w # top) \/ (y = Dummy /\ w = top)
      /\ \E r \in Sides : Child(t, y, r) = w
  BY PullFacts
<1>3. q \in Reds(t, A)
  <2>1. \A z \in A, r \in Sides :
              Child(t, z, r) \in Reds(t, A) <=> IsRed(t, Child(t, z, r))
    BY DescendingFacts
  <2>. QED
    BY <1>1, <1>2, <2>1
<1>4. PICK e \in Sides : e = SideOf(t, w, y) /\ Child(t, y, e) = w
  BY <1>2, SideOfIs
<1>5. (y \in A /\ Child(t, y, e) = w) \/ (y = Dummy /\ w = top)
  BY <1>2, <1>4
<1>6. t1 = Hung(RotateTwice(t, w, l), y, e)
  BY <1>4
<1>7. /\ t2 \in Trees
      /\ \A z \in A : t2[z].data = t[z].data
      /\ \A z \in (Nodes \cup {Dummy}) \ A : z # y => t2[z] = t[z]
      /\ \A r \in Sides : y = Dummy =>
           Child(t2, Dummy, r) = IF r = e THEN q ELSE Child(t, Dummy, r)
      /\ \A r \in Sides : Child(t2, x, r) = Child(t, x, r)
      /\ Child(t2, w, l) = x
      /\ x \in Reds(t2, A)
      /\ \E sub2, H2 :
              /\ Shape(t2, A, IF w = top THEN q ELSE top, sub2)
              /\ sub2[x] = sub[x]
              /\ Balanced(t2, A, H2) /\ H2[x] = H[x] - 1
  BY <1>1, <1>2, <1>3, <1>5, <1>6, PulledTwice
<1>8. Pulled(t, A, top, sub, H, y, e, w, l, x, q, t2)
  BY <1>7 DEF Pulled
<1>. QED
  BY <1>4, <1>8, PulledDown

\* The turn of the code is one of these.
LEMMA DescendedIs ==
  ASSUME NEW A, NEW top, NEW sub, NEW H, NEW x,
         Descending(tree, A, top, sub, H, parent, node, direction, x),
         NEW s \in Sides, NEW next, next = Descended(x, node, s)
  PROVE  Down(tree, A, sub, H, x, s, next.tree, next.parent)
<1>. DEFINE l == direction
            b == Child(tree, node, 1 - l)
            q == Child(tree, b, l)
            raised == RotateOnce(tree, x, s)
            pulled == IF IsRed(tree, q) THEN RotateTwice(tree, node, l)
                      ELSE RotateOnce(tree, node, l)
            e == SideOf(tree, node, parent)
            hung == Hung(pulled, parent, e)
<1>1. /\ tree \in Trees /\ Shape(tree, A, top, sub) /\ l \in Sides /\ 1 - l \in Sides
      /\ \A r \in Sides : r = s \/ r = 1 - s
      /\ \A r \in Sides : r = l \/ r = 1 - l
      /\ x = Child(tree, node, l)
  BY SideFacts DEF Descending
<1>2. CASE IsRed(tree, x) \/ IsRed(tree, Child(tree, x, s))
  <2>1. next.tree = tree /\ next.parent = node
    BY <1>2 DEF Descended
  <2>2. Down(tree, A, sub, H, x, s, tree, node)
    BY <1>2, DownRed
  <2>. QED
    BY <2>1, <2>2
<1>3. CASE /\ ~IsRed(tree, x) /\ ~IsRed(tree, Child(tree, x, s))
           /\ IsRed(tree, Child(tree, x, 1 - s))
  <2>1. next = [tree |-> Hung(raised, node, l), parent |-> raised.top]
    BY <1>3 DEF Descended
  <2>2. raised.top = Child(tree, x, 1 - s)
    BY DEF RotateOnce
  <2>3. next.tree = Hung(RotateOnce(tree, x, s), node, l) /\ next.parent = Child(tree, x, 1 - s)
    BY <2>1, <2>2
  <2>. QED
    BY <1>3, <2>3, DownRaised
<1>4. CASE ~IsRed(tree, x) /\ BothBlack(tree, x)
  <2>0. ~IsRed(tree, Child(tree, x, s)) /\ ~IsRed(tree, Child(tree, x, 1 - s))
    BY <1>4, SideFacts DEF BothBlack
  <2>1. CASE b = Null
    <3>1. next.tree = tree /\ next.parent = node
      BY <1>4, <2>0, <2>1 DEF Descended
    <3>2. Down(tree, A, sub, H, x, s, tree, node)
      BY <1>4, <2>1, DownTop
    <3>. QED
      BY <3>1, <3>2
  <2>2. CASE b # Null /\ BothBlack(tree, b)
    <3>1. next = [tree |-> RedBelow(tree, node), parent |-> node]
      BY <1>4, <2>0, <2>2 DEF Descended, RedBelow
    <3>2. next.tree = RedBelow(tree, node) /\ next.parent = node
      BY <3>1
    <3>3. Down(tree, A, sub, H, x, s, next.tree, node)
      BY <1>4, <2>2, <3>2, DownRecoloured
    <3>. QED
      BY <3>2, <3>3
  <2>3. CASE b # Null /\ ~BothBlack(tree, b)
    <3>1. next = [tree |-> Red(RedAbove(hung, pulled.top), x), parent |-> node]
      BY <1>4, <2>0, <2>3 DEF Descended, RedAbove, Red
    <3>2. next.tree = Red(RedAbove(hung, pulled.top), x) /\ next.parent = node
      BY <3>1
    <3>3. CASE IsRed(tree, q)
      <4>1. /\ node \in A /\ b \in A
            /\ (parent \in A /\ node # top) \/ (parent = Dummy /\ node = top)
            /\ \E r \in Sides : Child(tree, parent, r) = node
        BY <1>4, <2>3, PullFacts
      <4>2. e \in Sides /\ Child(tree, parent, e) = node
        BY <4>1, SideOfIs
      <4>3. q # Null
        BY <3>3 DEF IsRed
      <4>4. /\ (parent \in A /\ Child(tree, parent, e) = node)
               \/ (parent = Dummy /\ node = top)
        BY <4>1, <4>2
      <4>5. RotateTwice(tree, node, l).top = q
        <5>. HIDE DEF e, q, b, l
        <5>1. b = Child(tree, node, 1 - l) /\ q = Child(tree, b, l)
          BY DEF b, q
        <5>. QED
          BY <1>1, <2>3, <4>1, <4>2, <4>3, <4>4, <5>1, TwiceIs
      <4>6. pulled.top = q /\ hung = Hung(RotateTwice(tree, node, l), parent, SideOf(tree, node, parent))
        BY <3>3, <4>5
      <4>7. next.tree = Red(RedAbove(Hung(RotateTwice(tree, node, l), parent,
                                          SideOf(tree, node, parent)), q), x)
        BY <3>2, <4>6
      <4>8. Down(tree, A, sub, H, x, s, next.tree, node)
        <5>. HIDE DEF e, q, b, l, pulled, hung
        <5>1. b = Child(tree, node, 1 - direction) /\ q = Child(tree, b, direction)
          BY DEF b, q, l
        <5>. QED
          BY <1>4, <2>3, <3>3, <4>7, <5>1, DownPulledTwice DEF l
      <4>. QED
        BY <3>2, <4>8
    <3>4. CASE ~IsRed(tree, q)
      <4>1. IsRed(tree, Child(tree, b, 1 - l))
        BY <1>1, <2>3, <3>4 DEF BothBlack
      <4>2. pulled = RotateOnce(tree, node, l) /\ pulled.top = b
        BY <3>4 DEF RotateOnce
      <4>3. next.tree = Red(RedAbove(Hung(RotateOnce(tree, node, l), parent,
                                          SideOf(tree, node, parent)), b), x)
        BY <3>2, <4>2
      <4>4. Down(tree, A, sub, H, x, s, next.tree, node)
        <5>. HIDE DEF e, q, b, l, pulled, hung
        <5>1. b = Child(tree, node, 1 - direction) /\ q = Child(tree, b, direction)
          BY DEF b, q, l
        <5>. QED
          BY <1>4, <2>3, <3>4, <4>1, <4>3, <5>1, DownPulledOnce DEF l
      <4>. QED
        BY <3>2, <4>4
    <3>. QED
      BY <3>3, <3>4
  <2>. QED
    BY <2>1, <2>2, <2>3
<1>. QED
  BY <1>1, <1>2, <1>3, <1>4 DEF BothBlack

\* The target k of a deletion is at the node tg, or not yet met.
Wanted(t, A, sub, k, x, s, tg) ==
  IF tg = Null
  THEN \A y \in A : t[y].data = k => y # x /\ y \in sub[x]
  ELSE /\ tg \in A /\ t[tg].data = k
       /\ tg \notin Part(t, sub, x, s)
       /\ x = tg \/ t[x].data < k

\* The way of k has come to x and goes on to side s.
Sent(t, A, sub, k, x, s, tg) ==
  /\ x \in A /\ s = (IF t[x].data < k THEN RIGHT ELSE LEFT)
  /\ Path(t, A, sub, x, k)
  /\ Wanted(t, A, sub, k, x, s, tg)

\* It goes on to the child on that side ...
LEMMA SentDown ==
  ASSUME NEW t, NEW A, NEW top, NEW sub, Shape(t, A, top, sub), NEW k \in Data,
         NEW w, NEW d \in Sides, NEW tg, Sent(t, A, sub, k, w, d, tg),
         NEW x, x = Child(t, w, d), x # Null,
         NEW s, s = (IF t[x].data < k THEN RIGHT ELSE LEFT),
         NEW tg2, tg2 = IF t[x].data = k THEN x ELSE tg
  PROVE  Sent(t, A, sub, k, x, s, tg2)
<1>1. w \in A /\ d = (IF t[w].data < k THEN RIGHT ELSE LEFT) /\ Path(t, A, sub, w, k)
      /\ Wanted(t, A, sub, k, w, d, tg)
  BY DEF Sent
<1>2. /\ x \in A /\ x # w /\ sub[x] = Part(t, sub, w, d) /\ x \in sub[x]
      /\ x \in Part(t, sub, w, d)
  <2>1. x \in A /\ x # w /\ sub[x] = Part(t, sub, w, d)
    BY <1>1, ChildFacts
  <2>2. x \in sub[x]
    BY <2>1 DEF Shape, Nested
  <2>. QED  BY <2>1, <2>2
<1>3. Path(t, A, sub, x, k)
  BY <1>1, PathDown
<1>4. \A z \in A : t[z].data \in Data /\ t[z].data \in Nat /\ t[z].data \in Int
  BY DataAreInts
<1>5. k \in Int /\ k \in Nat
  BY DataAssumption
<1>6. /\ t[w].data # k => Toward(t[w].data, k, d)
      /\ s \in Sides
      /\ ~Toward(t[x].data, t[x].data, s)
  <2>1. t[w].data \in Int
    BY <1>1, <1>4
  <2>2. t[w].data # k => Toward(t[w].data, k, d)
    BY <1>1, <1>5, <2>1, Sought
  <2>3. t[x].data \in Int /\ s \in Sides
    BY <1>2, <1>4 DEF Sides
  <2>. QED  BY <2>2, <2>3, TowardFacts
<1>7. Part(t, sub, x, s) \subseteq sub[x] /\ x \notin Part(t, sub, x, s)
  BY <1>6 DEF Part
<1>8. CASE t[x].data = k
  <2>1. tg2 = x /\ x # Null
    BY <1>8
  <2>. QED  BY <1>2, <1>3, <1>7, <1>8, <2>1 DEF Sent, Wanted
<1>9. CASE t[x].data # k /\ tg = Null
  <2>1. \A y \in A : t[y].data = k => y # w /\ y \in sub[w]
    BY <1>1, <1>9 DEF Wanted
  <2>2. \A y \in A : t[y].data = k => y # x /\ y \in sub[x]
    <3>1. TAKE y \in A
    <3>2. HAVE t[y].data = k
    <3>3. t[w].data # k
      BY <1>1, <2>1
    <3>. QED  BY <1>2, <1>6, <1>9, <2>1, <3>2, <3>3 DEF Part
  <2>. QED  BY <1>2, <1>3, <1>9, <2>2 DEF Sent, Wanted
<1>10. CASE t[x].data # k /\ tg # Null
  <2>1. /\ tg \in A /\ t[tg].data = k /\ tg \notin Part(t, sub, w, d)
        /\ w = tg \/ t[w].data < k
    BY <1>1, <1>10 DEF Wanted
  <2>2. tg \notin Part(t, sub, x, s)
    BY <1>2, <1>7, <2>1
  <2>3. Toward(t[w].data, t[x].data, d) /\ x \in sub[w] /\ w \in sub[w]
    BY <1>1, <1>2 DEF Part, Shape, Nested
  <2>4. t[x].data < k
    <3>1. CASE w = tg
      <4>1. d = LEFT
        BY <1>1, <1>5, <2>1, <3>1
      <4>. QED  BY <2>1, <2>3, <3>1, <4>1 DEF Toward, LEFT, RIGHT
    <3>2. CASE t[w].data < k
      <4>1. d = RIGHT /\ t[w].data < t[x].data
        BY <1>1, <2>3, <3>2 DEF Toward
      <4>2. SUFFICES ASSUME k < t[x].data  PROVE FALSE
        BY <1>2, <1>4, <1>5, <1>10
      <4>3. tg \in sub[w]
        BY <1>1, <2>1, <2>3, <3>2, <4>2 DEF Shape, Ordered
      <4>. QED  BY <2>1, <3>2, <4>1, <4>3 DEF Part, Toward
    <3>. QED  BY <2>1, <3>1, <3>2
  <2>. QED  BY <1>2, <1>3, <1>10, <2>1, <2>2, <2>4 DEF Sent, Wanted
<1>. QED  BY <1>8, <1>9, <1>10

\* ... which the rearrangements above it do not change.
LEMMA SentSame ==
  ASSUME NEW t, NEW A, NEW top, NEW sub, Shape(t, A, top, sub), NEW k \in Data,
         NEW x, NEW s, NEW tg, Sent(t, A, sub, k, x, s, tg),
         NEW t2, \A z \in A : t2[z].data = t[z].data,
         NEW sub2, sub2[x] \subseteq sub[x],
         \A z \in sub[x] : Toward(t[x].data, t[z].data, s) => z \in sub2[x]
  PROVE  Sent(t2, A, sub2, k, x, s, tg)
<1>1. x \in A /\ s = (IF t[x].data < k THEN RIGHT ELSE LEFT) /\ Path(t, A, sub, x, k)
      /\ Wanted(t, A, sub, k, x, s, tg) /\ s \in Sides
  BY DEF Sent, Sides
<1>2. \A z \in A : t[z].data \in Int
  BY DataAreInts
<1>3. k \in Int /\ t[x].data \in Int
  BY <1>1, <1>2, DataAssumption
<1>4. /\ t[x].data # k => Toward(t[x].data, k, s)
      /\ \A b \in Int : t[x].data < b /\ b < k => Toward(t[x].data, b, s)
      /\ \A b \in Int : k < b /\ b < t[x].data => Toward(t[x].data, b, s)
  BY <1>1, <1>3, Sought
<1>5. Path(t2, A, sub2, x, k)
  BY <1>1, <1>2, <1>4 DEF Path
<1>6. sub[x] \subseteq A
  BY <1>1 DEF Shape, Nested
<1>7. Part(t2, sub2, x, s) \subseteq Part(t, sub, x, s)
  BY <1>1, <1>6 DEF Part
<1>8. Wanted(t2, A, sub2, k, x, s, tg)
  BY <1>1, <1>4, <1>7 DEF Wanted
<1>9. t2[x].data = t[x].data
  BY <1>1
<1>. QED  BY <1>1, <1>5, <1>8, <1>9 DEF Sent

\* From the dummy root it goes to the top.
LEMMA SentTop ==
  ASSUME NEW t, NEW A, NEW top, NEW sub, Shape(t, A, top, sub), NEW k \in Data,
         top \in A, NEW s, s = (IF t[top].data < k THEN RIGHT ELSE LEFT),
         NEW tg, tg = IF t[top].data = k THEN top ELSE Null
  PROVE  Sent(t, A, sub, k, top, s, tg)
<1>1. sub[top] = A /\ Null \notin A /\ t[top].data \in Int
  BY DataAreInts, OneParent DEF Shape, Linked
<1>2. Path(t, A, sub, top, k)
  BY <1>1 DEF Path
<1>3. CASE t[top].data = k
  <2>1. ~Toward(t[top].data, t[top].data, s) /\ s \in Sides
    BY <1>1, TowardFacts DEF Sides
  <2>2. top \notin Part(t, sub, top, s)
    BY <2>1 DEF Part
  <2>. QED  BY <1>1, <1>2, <1>3, <2>2 DEF Sent, Wanted
<1>4. CASE t[top].data # k
  <2>1. tg = Null
    BY <1>4
  <2>. QED  BY <1>1, <1>2, <1>4, <2>1 DEF Sent, Wanted
<1>. QED  BY <1>3, <1>4

\* The invariant of a deletion, in terms of where it was sent.
LEMMA DeleteInvIs ==
  ASSUME NEW sub, NEW H, NEW h
  PROVE  DeleteInv(sub, H, h) <=>
           /\ key \in Data
           /\ \/ node = Dummy /\ direction = RIGHT /\ target = Null
              \/ /\ Sent(tree, heap, sub, key, node, direction, target)
                 /\ IsAbove(parent)
                 /\ \/ IsRed(tree, node) \/ IsRed(tree, Child(tree, node, direction))
                    \/ node = Top /\ BothBlack(tree, node)
           /\ passes + 2 * Height(H, Child(tree, node, direction))
              + (IF IsRed(tree, Child(tree, node, direction)) THEN 1 ELSE 0) <= 2 * h
  BY DEF DeleteInv, Sent, Wanted, Turn, Way

\* A turn of the loop of a deletion keeps the invariant and the keys.
LEMMA DeletePassInv ==
  ASSUME RbtInv, DeletePass
  PROVE  RbtInv' /\ Keys' = Keys
<1>1. Running /\ op = "delete"
  BY DEF DeletePass, Running
<1>2. /\ created = TRUE /\ cutShort \in BOOLEAN
      /\ tree \in Trees /\ heap \in SUBSET Nodes /\ IsFiniteSet(heap)
      /\ root \in heap /\ length = Cardinality(heap)
      /\ \A x \in Nodes \ heap : tree[x] = Erased
  BY <1>1, RunningFacts
<1>3. PICK top, sub, H : \E h \in Nat :
        /\ top = Top /\ Shape(tree, heap, top, sub) /\ Balanced(tree, heap, H)
        /\ Power[h] <= Cardinality(heap) + 1
        /\ DeleteInv(sub, H, h)
  BY <1>1, RunningFacts
<1>4. PICK h \in Nat :
        /\ top = Top /\ Shape(tree, heap, top, sub) /\ Balanced(tree, heap, H)
        /\ Power[h] <= Cardinality(heap) + 1
        /\ DeleteInv(sub, H, h)
  BY <1>3
<1>5. Frame /\ RootInv /\ Child(tree, Dummy, LEFT) = Null
  BY DEF RbtInv, Frame
<1>6. PICK x : x = Child(tree, node, direction)
  OBVIOUS
<1>7. PICK s : s = Turn(x)
  OBVIOUS
<1>8. PICK next : next = Descended(x, node, s)
  OBVIOUS
<1>9. /\ x # Null /\ tree' = next.tree /\ node' = x /\ parent' = next.parent
      /\ direction' = s /\ target' = (IF tree[x].data = key THEN x ELSE target)
      /\ grandparent' = parent /\ prevDirection' = direction /\ passes' = passes + 1
      /\ UNCHANGED <<created, root, length, heap, op, key, greatgrandparent, cutShort>>
  BY <1>6, <1>7, <1>8 DEF DeletePass
<1>10. s \in Sides /\ s = (IF tree[x].data < key THEN RIGHT ELSE LEFT)
  BY <1>7 DEF Turn, Way, Sides
<1>11. /\ key \in Data /\ direction \in Sides
       /\ passes \in Nat
       /\ passes + 2 * Height(H, x) + (IF IsRed(tree, x) THEN 1 ELSE 0) <= 2 * h
  <2>1. key \in Data /\ passes + 2 * Height(H, x) + (IF IsRed(tree, x) THEN 1 ELSE 0) <= 2 * h
    BY <1>4, <1>6, DeleteInvIs
  <2>2. direction \in Sides /\ passes \in Nat
    BY <1>5 DEF Frame, TypeOK
  <2>. QED  BY <2>1, <2>2
<1>12. \/ node = Dummy /\ direction = RIGHT /\ target = Null
       \/ /\ Sent(tree, heap, sub, key, node, direction, target)
          /\ IsAbove(parent)
          /\ \/ IsRed(tree, node) \/ IsRed(tree, x)
             \/ node = Top /\ BothBlack(tree, node)
  BY <1>4, <1>6, DeleteInvIs
<1>13. Descending(tree, heap, top, sub, H, parent, node, direction, x)
  <2>1. \/ node = Dummy /\ direction = RIGHT
        \/ /\ node \in heap
           /\ IsRed(tree, node) \/ IsRed(tree, x) \/ (node = top /\ BothBlack(tree, node))
           /\ \/ parent = Dummy /\ node = top
              \/ parent \in heap /\ \E r \in Sides : Child(tree, parent, r) = node
    BY <1>4, <1>12 DEF Sent, IsAbove
  <2>2. Child(tree, Dummy, RIGHT) = top
    BY <1>4 DEF Top
  <2>. QED  BY <1>2, <1>4, <1>5, <1>6, <1>9, <1>11, <2>1, <2>2 DEF Descending
<1>14. Down(tree, heap, sub, H, x, s, tree', parent')
  <2>1. Down(tree, heap, sub, H, x, s, next.tree, next.parent)
    BY <1>8, <1>10, <1>13, DescendedIs
  <2>. QED  BY <1>9, <2>1
<1>15. Sent(tree, heap, sub, key, x, s, target')
  <2>1. CASE node = Dummy
    <3>1. x = top /\ top \in heap
      BY <1>13, <2>1, DescendingFacts
    <3>2. target = Null
      <4>1. Dummy \notin heap
        BY <1>2, AddressAssumption
      <4>. QED  BY <1>12, <2>1, <4>1 DEF Sent
    <3>. QED  BY <1>4, <1>9, <1>10, <1>11, <3>1, <3>2, SentTop
  <2>2. CASE node # Dummy
    <3>1. Sent(tree, heap, sub, key, node, direction, target)
      BY <1>12, <2>2
    <3>. QED  BY <1>4, <1>6, <1>9, <1>10, <1>11, <3>1, SentDown
  <2>. QED  BY <2>1, <2>2
<1>16. /\ tree' \in Trees
       /\ \A z \in heap : tree'[z].data = tree[z].data
       /\ \A z \in Nodes \ heap : tree'[z] = Erased
       /\ Child(tree', Dummy, LEFT) = Null
       /\ Child(tree', x, s) = Child(tree, x, s)
  BY <1>14 DEF Down
<1>17. PICK top2, sub2, H2 :
       /\ Shape(tree', heap, top2, sub2) /\ Balanced(tree', heap, H2)
       /\ Child(tree', Dummy, RIGHT) = top2
       /\ sub2[x] \subseteq sub[x]
       /\ \A z \in sub[x] : Toward(tree[x].data, tree[z].data, s) => z \in sub2[x]
       /\ \/ parent' = Dummy /\ x = top2
          \/ parent' \in heap /\ \E r \in Sides : Child(tree', parent', r) = x
       /\ \/ IsRed(tree', x) /\ 2 * H2[x] + 1 <= 2 * H[x] + (1 - Black(tree, x))
          \/ /\ ~IsRed(tree', x) /\ ~IsRed(tree, x) /\ H2[x] = H[x]
             /\ IsRed(tree', Child(tree', x, s)) \/ (x = top2 /\ BothBlack(tree', x))
  BY <1>14 DEF Down
<1>18. x \in heap /\ x \in Nodes /\ x # Dummy
  <2>1. x \in heap
    BY <1>13, DescendingFacts
  <2>. QED  BY <1>2, <2>1, AddressAssumption
<1>19. Sent(tree', heap, sub2, key, x, s, target')
  BY <1>4, <1>11, <1>15, <1>16, <1>17, SentSame
<1>20. PICK c : c = Child(tree', x, s)
  OBVIOUS
<1>21. /\ H[x] \in Nat /\ H2[x] \in Nat /\ Height(H2, c) \in Nat
       /\ H2[x] = Height(H2, c) + Black(tree', x)
       /\ ~(IsRed(tree', x) /\ IsRed(tree', c))
  <2>1. H[x] \in Nat /\ H2[x] \in Nat
    BY <1>4, <1>17, <1>18 DEF Balanced
  <2>2. H2[x] = Height(H2, c) + Black(tree', x) /\ ~(IsRed(tree', x) /\ IsRed(tree', c))
    BY <1>10, <1>17, <1>18, <1>20 DEF Balanced
  <2>3. Height(H2, c) \in Nat
    <3>1. c = Null \/ c \in heap
      BY <1>10, <1>17, <1>18, <1>20, ChildFacts
    <3>. QED  BY <1>17, <3>1 DEF Height, Balanced
  <2>. QED  BY <2>1, <2>2, <2>3
<1>22. Height(H, x) = H[x]
  BY <1>9 DEF Height
<1>23. passes + 1 + 2 * Height(H2, c) + (IF IsRed(tree', c) THEN 1 ELSE 0) <= 2 * h
  <2>1. /\ IsRed(tree, x) => Black(tree, x) = 0
        /\ ~IsRed(tree, x) => Black(tree, x) = 1
        /\ IsRed(tree', x) => Black(tree', x) = 0
        /\ ~IsRed(tree', x) => Black(tree', x) = 1
    BY <1>9 DEF IsRed, Black
  <2>2. PICK a, b : a = Height(H2, c) /\ b = passes /\ a \in Nat /\ b \in Nat
    BY <1>11, <1>21
  <2>3. CASE IsRed(tree', x) /\ 2 * H2[x] + 1 <= 2 * H[x] + (1 - Black(tree, x))
    <3>1. ~IsRed(tree', c) /\ H2[x] = a
      BY <1>21, <2>1, <2>2, <2>3
    <3>2. CASE IsRed(tree, x)
      <4>1. 2 * H2[x] + 1 <= 2 * H[x] + 1 /\ b + 2 * H[x] + 1 <= 2 * h
        BY <1>11, <1>22, <2>1, <2>2, <2>3, <3>2
      <4>2. b + 1 + 2 * a + 0 <= 2 * h
        BY <1>21, <2>2, <3>1, <4>1
      <4>. QED  BY <2>2, <3>1, <4>2
    <3>3. CASE ~IsRed(tree, x)
      <4>1. 2 * H2[x] + 1 <= 2 * H[x] + 0 /\ b + 2 * H[x] + 0 <= 2 * h
        BY <1>11, <1>22, <2>1, <2>2, <2>3, <3>3
      <4>2. b + 1 + 2 * a + 0 <= 2 * h
        BY <1>21, <2>2, <3>1, <4>1
      <4>. QED  BY <2>2, <3>1, <4>2
    <3>. QED  BY <3>2, <3>3
  <2>4. CASE ~IsRed(tree', x) /\ ~IsRed(tree, x) /\ H2[x] = H[x]
    <3>1. H[x] = a + 1 /\ b + 2 * H[x] + 0 <= 2 * h
      BY <1>11, <1>21, <1>22, <2>1, <2>2, <2>4
    <3>2. b + 1 + 2 * a + 1 <= 2 * h /\ b + 1 + 2 * a + 0 <= 2 * h
      BY <1>21, <2>2, <3>1
    <3>. QED  BY <2>2, <3>2
  <2>. QED  BY <1>17, <2>3, <2>4
<1>24. DeleteInv(sub2, H2, h)'
  <2>1. (Sent(tree, heap, sub2, key, node, direction, target))'
    BY <1>9, <1>19
  <2>2. IsAbove(parent)'
    BY <1>9, <1>17 DEF IsAbove, Top
  <2>3. (\/ IsRed(tree, node) \/ IsRed(tree, Child(tree, node, direction))
         \/ node = Top /\ BothBlack(tree, node))'
    BY <1>9, <1>17 DEF Top
  <2>4. (passes + 2 * Height(H2, Child(tree, node, direction))
          + (IF IsRed(tree, Child(tree, node, direction)) THEN 1 ELSE 0) <= 2 * h)'
    <3>1. Child(tree, node, direction)' = c
      BY <1>9, <1>20
    <3>2. passes + 1 + 2 * Height(H2, c) + (IF IsRed(tree, c)' THEN 1 ELSE 0) <= 2 * h
      BY <1>23
    <3>3. IsRed(tree, Child(tree, node, direction))' = IsRed(tree, c)'
      BY <3>1
    <3>. QED  BY <1>9, <3>1, <3>2, <3>3
  <2>5. key' \in Data
    BY <1>9, <1>11
  <2>6. DeleteInv(sub2, H2, h)' <=>
           (/\ key \in Data
            /\ \/ node = Dummy /\ direction = RIGHT /\ target = Null
               \/ /\ Sent(tree, heap, sub2, key, node, direction, target)
                  /\ IsAbove(parent)
                  /\ \/ IsRed(tree, node) \/ IsRed(tree, Child(tree, node, direction))
                     \/ node = Top /\ BothBlack(tree, node)
            /\ passes + 2 * Height(H2, Child(tree, node, direction))
               + (IF IsRed(tree, Child(tree, node, direction)) THEN 1 ELSE 0) <= 2 * h)'
    BY DEF DeleteInv, Sent, Wanted, Turn, Way
  <2>. QED  BY <2>1, <2>2, <2>3, <2>4, <2>5, <2>6
<1>25. CallInv(top2, sub2)'
  <2>1. op' = "delete" /\ Power[h] <= Cardinality(heap') + 1 /\ top2 = Top'
        /\ Balanced(tree', heap', H2)
    BY <1>1, <1>4, <1>9, <1>17 DEF Top
  <2>. QED  BY <1>24, <2>1 DEF CallInv
<1>26. Frame'
  <2>1. TypeOK'
    <3>1. node' \in Address /\ parent' \in Address /\ grandparent' \in Address
          /\ direction' \in Sides /\ prevDirection' \in Sides /\ passes' \in Nat
          /\ target' \in Nodes \cup {Null}
      <4>1. parent' \in Address
        BY <1>2, <1>17 DEF Address
      <4>2. parent \in Address /\ target \in Nodes \cup {Null}
        BY <1>5 DEF Frame, TypeOK
      <4>. QED  BY <1>9, <1>10, <1>11, <1>18, <4>1, <4>2 DEF Address
    <3>2. TypeOK
      BY <1>5 DEF Frame
    <3>. QED  BY <1>9, <1>16, <3>1, <3>2 DEF TypeOK, Trees
  <2>. QED  BY <1>2, <1>9, <1>16, <2>1 DEF Frame
<1>27. RootInv'
  <2>1. Running'
    BY <1>1, <1>9 DEF Running
  <2>2. ~Wiping'
    BY <1>1, <1>9 DEF Wiping
  <2>3. root' # Null
    BY <1>2, <1>9, AddressAssumption
  <2>. QED  BY <1>2, <1>9, <2>1, <2>2, <2>3 DEF RootInv
<1>28. Keys' = Keys
  BY <1>9, <1>16, KeysSame
<1>29. Shape(tree, heap, top2, sub2)'
  BY <1>9, <1>17
<1>. QED  BY <1>25, <1>26, <1>27, <1>28, <1>29 DEF RbtInv

-----------------------------------------------------------------------------
(* The turns of an insertion.                                              *)

\* The node n of t has given its colour to its two red children, which in t1
\* have one black node more on the paths down from them.
Flip(t, A, top, sub, H, n, t1, H1) ==
  /\ t1 \in Trees
  /\ \A z \in A : t1[z].data = t[z].data
  /\ \A z \in (Nodes \cup {Dummy}) \ A : t1[z] = t[z]
  /\ \A z \in Nodes \cup {Dummy}, r \in Sides : Child(t1, z, r) = Child(t, z, r)
  /\ Shape(t1, A, top, sub) /\ Counted(t1, A, Reds(t1, A), H1)
  /\ \A z \in A : H1[z] =
       IF \E r \in Sides : z = Child(t, n, r) THEN H[z] + 1 ELSE H[z]
  /\ n \notin Reds(t, A) /\ n \in Reds(t1, A)
  /\ \A r \in Sides : Child(t, n, r) \in A /\ Child(t, n, r) \notin Reds(t1, A)
  /\ \A z \in A : z # n /\ (\A r \in Sides : z # Child(t, n, r)) =>
       (z \in Reds(t1, A) <=> z \in Reds(t, A))

\* A node with two red children can take their colour: the heights change, for
\* it alone.
LEMMA FlipIs ==
  ASSUME NEW t \in Trees, NEW A \in SUBSET Nodes, NEW top, NEW sub,
         Shape(t, A, top, sub), NEW H, Balanced(t, A, H),
         NEW n \in A, BothRed(t, n), NEW t1, t1 = RedAbove(t, n)
  PROVE  \E H1 : Flip(t, A, top, sub, H, n, t1, H1)
<1>1. \A r \in Sides : Child(t, n, r) # Null /\ Child(t, n, r) \in A
                       /\ Child(t, n, r) # n /\ IsRed(t, Child(t, n, r))
  <2>1. \A r \in Sides : Child(t, n, r) # Null /\ IsRed(t, Child(t, n, r))
    BY DEF BothRed, IsRed
  <2>. QED  BY <2>1, ChildrenFacts
<1>2. \A r \in Sides : Child(t, n, r) \in Reds(t, A)
  BY <1>1 DEF Reds, IsRed
<1>3. n \notin Reds(t, A)
  <2>1. ~(IsRed(t, n) /\ IsRed(t, Child(t, n, LEFT)))
    BY DEF Balanced, Sides
  <2>2. Null \notin A
    BY OneParent
  <2>. QED  BY <1>1, <2>1, <2>2 DEF Reds, IsRed, Sides
<1>4. Counted(t, A, Reds(t, A), H)
  BY BalancedIs
<1>5. Dummy \notin A /\ A \subseteq Nodes
  BY AddressAssumption
<1>6. /\ t1 \in Trees
      /\ \A z \in Nodes \cup {Dummy} :
           /\ t1[z].data = t[z].data /\ t1[z].parent = t[z].parent
           /\ z = n => t1[z].isRed
           /\ z # n /\ (\E s \in Sides : z = Child(t, n, s)) => ~t1[z].isRed
           /\ z # n /\ (\A s \in Sides : z # Child(t, n, s)) => t1[z] = t[z]
      /\ \A z \in Nodes \cup {Dummy}, s \in Sides : Child(t1, z, s) = Child(t, z, s)
  BY RedAboveIs
<1>7. Shape(t1, A, top, sub)
  BY <1>5, <1>6, SameShape
<1>8. \A z \in A : z \in Reds(t1, A) <=> IF z = n THEN TRUE
                         ELSE z \in Reds(t, A) /\ \A s \in Sides : z # Child(t, n, s)
  BY <1>5, <1>6 DEF Reds
<1>9. Reds(t, A) \subseteq A
  BY DEF Reds
<1>10. PICK H1 : /\ Counted(t, A, Reds(t1, A), H1)
                 /\ \A z \in A : H1[z] =
                      IF \E s \in Sides : z = Child(t, n, s) THEN H[z] + 1 ELSE H[z]
  <2>. HIDE DEF Reds
  <2>. QED  BY <1>2, <1>3, <1>4, <1>8, <1>9, CountedFlip
<1>11. Counted(t1, A, Reds(t1, A), H1)
  BY <1>5, <1>6, <1>10, CountedSame
<1>12. /\ n \in Reds(t1, A)
       /\ \A r \in Sides : Child(t, n, r) \in A /\ Child(t, n, r) \notin Reds(t1, A)
       /\ \A z \in A : z # n /\ (\A r \in Sides : z # Child(t, n, r)) =>
            (z \in Reds(t1, A) <=> z \in Reds(t, A))
  BY <1>1, <1>8
<1>13. \A z \in (Nodes \cup {Dummy}) \ A : t1[z] = t[z]
  BY <1>1, <1>6
<1>. QED  BY <1>3, <1>5, <1>6, <1>7, <1>10, <1>11, <1>12, <1>13 DEF Flip

\* The side of x on which k is.
Aim(t, x, k) == IF t[x].data < k THEN RIGHT ELSE LEFT

\* The node n has two red children and a red parent p, under g, under y; its
\* uncle is black.
RedPair(t, A, top, sub, H, n, p, d, g, l, y, k) ==
  /\ t \in Trees /\ A \in SUBSET Nodes /\ Shape(t, A, top, sub) /\ Balanced(t, A, H)
  /\ n \in A /\ BothRed(t, n)
  /\ p \in A /\ d \in Sides /\ n = Child(t, p, d) /\ IsRed(t, p)
  /\ g \in A /\ l \in Sides /\ p = Child(t, g, l) /\ ~IsRed(t, Child(t, g, 1 - l))
  /\ \/ y = Dummy /\ g = top
     \/ y \in A /\ \E r \in Sides : Child(t, y, r) = g
  /\ d = Aim(t, p, k) /\ l = Aim(t, g, k)
  /\ Child(t, Dummy, RIGHT) = top /\ Child(t, Dummy, LEFT) = Null

\* t1 is t after the flip: n and p are the only red ones in a row.
LEMMA RedPairFacts ==
  ASSUME NEW t, NEW A, NEW top, NEW sub, NEW H, NEW n, NEW p, NEW d, NEW g, NEW l,
         NEW y, NEW k, RedPair(t, A, top, sub, H, n, p, d, g, l, y, k),
         NEW t1, NEW H1, Flip(t, A, top, sub, H, n, t1, H1),
         NEW s \in Sides, NEW c, c = Child(t, n, s)
  PROVE  /\ p # Null /\ p # n /\ g # p /\ g # n /\ n \in Reds(t1, A)
         /\ p \in Reds(t1, A) /\ g \notin Reds(t1, A)
         /\ Child(t1, g, l) = p /\ Child(t1, p, d) = n /\ Child(t1, n, s) = c
         /\ Child(t1, g, 1 - l) \notin Reds(t1, A)
         /\ Child(t1, p, 1 - d) \notin Reds(t1, A)
         /\ \A z \in A, r \in Sides :
              z \in Reds(t1, A) /\ z # p => Child(t1, z, r) \notin Reds(t1, A)
         /\ c \in A /\ c # Null /\ c \notin {n, p, g} /\ c \notin Reds(t1, A)
         /\ \A r \in Sides : Child(t1, c, r) \notin Reds(t1, A) /\ Child(t1, c, r) # g
         /\ \A r \in Sides : Child(t1, n, r) # g
         /\ H1[c] = H[n] /\ H1[p] = H[n]
         /\ (y \in A /\ Child(t1, y, SideOf(t1, g, y)) = g) \/ (y = Dummy /\ g = top)
<1>1. /\ t \in Trees /\ A \in SUBSET Nodes /\ Shape(t, A, top, sub) /\ Balanced(t, A, H)
      /\ n \in A /\ BothRed(t, n)
      /\ p \in A /\ d \in Sides /\ n = Child(t, p, d) /\ IsRed(t, p)
      /\ g \in A /\ l \in Sides /\ p = Child(t, g, l) /\ ~IsRed(t, Child(t, g, 1 - l))
      /\ \/ y = Dummy /\ g = top
         \/ y \in A /\ \E r \in Sides : Child(t, y, r) = g
  BY DEF RedPair
<1>2. /\ t1 \in Trees
      /\ \A z \in Nodes \cup {Dummy}, r \in Sides : Child(t1, z, r) = Child(t, z, r)
      /\ \A z \in A : H1[z] =
           IF \E r \in Sides : z = Child(t, n, r) THEN H[z] + 1 ELSE H[z]
      /\ n \notin Reds(t, A) /\ n \in Reds(t1, A)
      /\ \A r \in Sides : Child(t, n, r) \in A /\ Child(t, n, r) \notin Reds(t1, A)
      /\ \A z \in A : z # n /\ (\A r \in Sides : z # Child(t, n, r)) =>
           (z \in Reds(t1, A) <=> z \in Reds(t, A))
  BY DEF Flip
<1>3. Null \notin A /\ Dummy \notin A /\ A \subseteq Nodes
  BY <1>1, OneParent, AddressAssumption
<1>4. /\ \A z \in A : z \in Reds(t, A) <=> IsRed(t, z)
      /\ \A z : z \in Reds(t, A) => z \in A
      /\ \A z : z \in Reds(t1, A) => z \in A
  BY <1>3 DEF Reds, IsRed
<1>5. 1 - d \in Sides /\ 1 - l \in Sides /\ 1 - d # d /\ 1 - l # l
  BY <1>1, SideFacts
<1>6. /\ n # p /\ p \notin sub[n] /\ n \in sub[p]
      /\ p # g /\ g \notin sub[p] /\ p \in sub[g]
  <2>1. n # p /\ p \notin sub[n] /\ n \in sub[p]
    BY <1>1, <1>3, ChildFacts
  <2>2. p # g /\ g \notin sub[p] /\ p \in sub[g]
    BY <1>1, <1>3, ChildFacts
  <2>. QED  BY <2>1, <2>2
<1>7. g \notin sub[n] /\ n \in sub[n] /\ sub[n] \subseteq A
  BY <1>1, <1>6 DEF Shape, Nested
<1>8. /\ c \in A /\ c # Null /\ c # n /\ c \in sub[n]
      /\ IsRed(t, c)
      /\ \A r \in Sides : Child(t, n, r) \in sub[n]
  <2>1. \A r \in Sides : Child(t, n, r) # Null /\ IsRed(t, Child(t, n, r))
    BY <1>1 DEF BothRed, IsRed
  <2>2. \A r \in Sides : Child(t, n, r) \in sub[n] /\ Child(t, n, r) # n /\ Child(t, n, r) \in A
    BY <1>1, <2>1, ChildFacts
  <2>. QED  BY <2>1, <2>2
<1>9. \A r \in Sides : Child(t, c, r) # Null => Child(t, c, r) \in sub[n] /\ Child(t, c, r) # n
  <2>1. TAKE r \in Sides
  <2>2. HAVE Child(t, c, r) # Null
  <2>3. Child(t, c, r) \in sub[c] /\ Child(t, c, r) # c
    BY <1>1, <1>8, <2>2, ChildFacts
  <2>4. sub[c] \subseteq sub[n]
    BY <1>1, <1>8 DEF Shape, Nested
  <2>5. n \notin sub[c]
    BY <1>1, <1>8, ChildFacts
  <2>. QED  BY <2>3, <2>4, <2>5
<1>10. \A z \in A, r \in Sides : IsRed(t, z) => ~IsRed(t, Child(t, z, r))
  BY <1>1 DEF Balanced
<1>11. p \in Reds(t1, A)
  BY <1>1, <1>2, <1>4, <1>6, <1>8
<1>12. ~IsRed(t, g) /\ g \notin Reds(t1, A)
  <2>1. ~IsRed(t, g)
    BY <1>1, <1>10
  <2>. QED  BY <1>1, <1>2, <1>4, <1>6, <1>7, <1>8, <2>1
<1>13. \A z \in A, r \in Sides : Child(t, z, r) = n => z = p /\ r = d
  <2>1. n # Null
    BY <1>1, <1>3
  <2>. QED  BY <1>1, <2>1, OneParent
<1>14. \A z \in A : z \in Reds(t1, A) /\ z # n => z \in Reds(t, A)
  BY <1>2
<1>15. Child(t1, g, 1 - l) \notin Reds(t1, A)
  <2>1. Child(t, g, 1 - l) # n
    BY <1>1, <1>5, <1>6, <1>13
  <2>2. Child(t, g, 1 - l) = Child(t1, g, 1 - l)
    BY <1>1, <1>2, <1>3, <1>5
  <2>. QED  BY <1>1, <1>4, <1>14, <2>1, <2>2
<1>16. Child(t1, p, 1 - d) \notin Reds(t1, A)
  <2>1. Child(t, p, 1 - d) # n
    BY <1>1, <1>5, <1>13
  <2>2. Child(t, p, 1 - d) = Child(t1, p, 1 - d)
    BY <1>1, <1>2, <1>3, <1>5
  <2>3. ~IsRed(t, Child(t, p, 1 - d))
    BY <1>1, <1>5, <1>10
  <2>. QED  BY <1>1, <1>4, <1>14, <2>1, <2>2, <2>3
<1>17. \A z \in A, r \in Sides :
         z \in Reds(t1, A) /\ z # p => Child(t1, z, r) \notin Reds(t1, A)
  <2>1. TAKE z \in A, r \in Sides
  <2>2. HAVE z \in Reds(t1, A) /\ z # p
  <2>3. Child(t1, z, r) = Child(t, z, r)
    BY <1>2, <1>3
  <2>4. CASE z = n
    BY <1>2, <2>3, <2>4
  <2>5. CASE z # n
    <3>1. IsRed(t, z)
      BY <1>4, <1>14, <2>2, <2>5
    <3>2. ~IsRed(t, Child(t, z, r)) /\ Child(t, z, r) # n
      BY <1>10, <1>13, <2>2, <3>1
    <3>. QED  BY <1>4, <1>14, <2>3, <3>2
  <2>. QED  BY <2>4, <2>5
<1>18. c \notin {n, p, g} /\ c \notin Reds(t1, A)
  BY <1>2, <1>6, <1>7, <1>8
<1>19. \A r \in Sides : Child(t1, c, r) \notin Reds(t1, A) /\ Child(t1, c, r) # g
  <2>1. TAKE r \in Sides
  <2>2. Child(t1, c, r) = Child(t, c, r)
    BY <1>2, <1>3, <1>8
  <2>3. ~IsRed(t, Child(t, c, r))
    BY <1>8, <1>10
  <2>4. Child(t, c, r) # n /\ Child(t, c, r) # g
    BY <1>1, <1>3, <1>7, <1>9
  <2>. QED  BY <1>4, <1>14, <2>2, <2>3, <2>4
<1>20. \A r \in Sides : Child(t1, n, r) # g
  BY <1>1, <1>2, <1>3, <1>7, <1>8
<1>21. H1[c] = H[n] /\ H1[p] = H[n]
  <2>1. H1[c] = H[c] + 1
    BY <1>2, <1>8
  <2>2. H[n] = Height(H, c) + Black(t, n)
    BY <1>1 DEF Balanced
  <2>3. Black(t, n) = 1
    BY <1>1, <1>2 DEF Black, Reds
  <2>4. H[p] = Height(H, n) + Black(t, p)
    BY <1>1 DEF Balanced
  <2>5. Black(t, p) = 0
    BY <1>1 DEF Black, IsRed
  <2>6. H1[p] = H[p]
    BY <1>1, <1>2, <1>6, <1>8
  <2>7. H[n] \in Nat /\ H[c] \in Nat
    BY <1>1, <1>8 DEF Balanced
  <2>8. Height(H, n) = H[n] /\ Height(H, c) = H[c]
    BY <1>1, <1>3, <1>8 DEF Height
  <2>. QED  BY <2>1, <2>2, <2>3, <2>4, <2>5, <2>6, <2>7, <2>8
<1>22. (y \in A /\ Child(t1, y, SideOf(t1, g, y)) = g) \/ (y = Dummy /\ g = top)
  <2>1. y \in A /\ (\E r \in Sides : Child(t, y, r) = g) => \E r \in Sides : Child(t1, y, r) = g
    BY <1>2, <1>3
  <2>. QED  BY <1>1, <2>1, SideOfIs
<1>23. Child(t1, g, l) = p /\ Child(t1, p, d) = n /\ Child(t1, n, s) = c /\ p # Null
  BY <1>1, <1>2, <1>3
<1>. QED  BY <1>2, <1>6, <1>7, <1>1, <1>8, <1>11, <1>12, <1>15, <1>16, <1>17, <1>18, <1>19, <1>20, <1>21, <1>22, <1>23

\* The turn at the node n with two red children, for k: t has become t2, in
\* which what comes after n needs no repair on the next turn.
FlipPassed(t, A, sub, H, n, k, t2) ==
  /\ t2 \in Trees
  /\ \A z \in A : t2[z].data = t[z].data
  /\ \A z \in Nodes \ A : t2[z] = t[z]
  /\ Child(t2, Dummy, LEFT) = Null
  /\ \E top2, sub2, H2, c :
       /\ Shape(t2, A, top2, sub2) /\ Balanced(t2, A, H2)
       /\ Child(t2, Dummy, RIGHT) = top2
       /\ sub[n] \subseteq sub2[n]
       /\ c = Child(t2, n, Aim(t, n, k)) /\ c \in A /\ H2[c] = H[n]
       /\ \/ IsRed(t2, n) /\ ~IsRed(t2, c) /\ BothBlack(t2, c)
          \/ /\ ~IsRed(t2, n) /\ IsRed(t2, c)
             /\ Child(t2, c, Aim(t, c, k)) # Null
             /\ BothBlack(t2, Child(t2, c, Aim(t, c, k)))

\* That is all an insertion does if the parent is not red.
LEMMA FlipAlone ==
  ASSUME NEW t, NEW A, NEW top, NEW sub, NEW H, NEW n, NEW k,
         t \in Trees, A \in SUBSET Nodes, Shape(t, A, top, sub), Balanced(t, A, H),
         Child(t, Dummy, RIGHT) = top, Child(t, Dummy, LEFT) = Null,
         n \in A, BothRed(t, n),
         n # top => ~IsRed(t, t[n].parent),
         NEW t2, t2 = RedAbove(t, n)
  PROVE  FlipPassed(t, A, sub, H, n, k, t2)
<1>1. PICK H1 : Flip(t, A, top, sub, H, n, t2, H1)
  BY FlipIs
<1>2. /\ t2 \in Trees
      /\ \A z \in A : t2[z].data = t[z].data
      /\ \A z \in (Nodes \cup {Dummy}) \ A : t2[z] = t[z]
      /\ \A z \in Nodes \cup {Dummy}, r \in Sides : Child(t2, z, r) = Child(t, z, r)
      /\ Shape(t2, A, top, sub) /\ Counted(t2, A, Reds(t2, A), H1)
      /\ \A z \in A : H1[z] =
           IF \E r \in Sides : z = Child(t, n, r) THEN H[z] + 1 ELSE H[z]
      /\ n \notin Reds(t, A) /\ n \in Reds(t2, A)
      /\ \A r \in Sides : Child(t, n, r) \in A /\ Child(t, n, r) \notin Reds(t2, A)
      /\ \A z \in A : z # n /\ (\A r \in Sides : z # Child(t, n, r)) =>
           (z \in Reds(t2, A) <=> z \in Reds(t, A))
  BY <1>1 DEF Flip
<1>3. Null \notin A /\ Dummy \notin A /\ A \subseteq Nodes
  BY OneParent, AddressAssumption
<1>4. /\ \A z \in A : z \in Reds(t, A) <=> IsRed(t, z)
      /\ \A z \in A : z \in Reds(t2, A) <=> IsRed(t2, z)
      /\ \A z : z \in Reds(t, A) => z \in A
      /\ \A z : z \in Reds(t2, A) => z \in A
      /\ \A z \in A : z \in Reds(t2, A) /\ z # n => z \in Reds(t, A)
  BY <1>2, <1>3 DEF Reds, IsRed
<1>5. \A z \in A, r \in Sides : IsRed(t, z) => ~IsRed(t, Child(t, z, r))
  BY DEF Balanced
<1>6. \A z \in A, r \in Sides : Child(t, z, r) = n => z = t[n].parent /\ n # top
  <2>1. \A z \in A, r \in Sides : Child(t, z, r) = n => z = t[n].parent
    BY <1>3, ChildrenFacts
  <2>2. \A z \in A, r \in Sides : Child(t, z, r) = n => n # top
    BY <1>3, OneParent
  <2>. QED  BY <2>1, <2>2
<1>7. Apart(t2, A, Reds(t2, A))
  <2>1. SUFFICES ASSUME NEW z \in A, NEW r \in Sides, z \in Reds(t2, A)
                 PROVE  Child(t2, z, r) \notin Reds(t2, A)
    BY DEF Apart
  <2>2. Child(t2, z, r) = Child(t, z, r)
    BY <1>2, <1>3
  <2>3. CASE z = n
    BY <1>2, <2>2, <2>3
  <2>4. CASE z # n
    <3>1. IsRed(t, z)
      BY <1>4, <2>1, <2>4
    <3>2. ~IsRed(t, Child(t, z, r)) /\ Child(t, z, r) # n
      BY <1>5, <1>6, <3>1
    <3>. QED  BY <1>4, <2>2, <3>2
  <2>. QED  BY <2>3, <2>4
<1>8. Balanced(t2, A, H1)
  BY <1>2, <1>7, BalancedIs
<1>9. PICK c : c = Child(t, n, Aim(t, n, k))
  OBVIOUS
<1>10. Aim(t, n, k) \in Sides
  BY DEF Aim, Sides
<1>11. c \in A /\ c = Child(t2, n, Aim(t, n, k)) /\ ~IsRed(t2, c) /\ c # n /\ IsRed(t, c)
  <2>1. c \in A /\ c = Child(t2, n, Aim(t, n, k)) /\ ~IsRed(t2, c)
    BY <1>2, <1>3, <1>4, <1>9, <1>10
  <2>2. c # n
    BY <1>2, <1>9, <1>10
  <2>. QED  BY <1>9, <1>10, <2>1, <2>2 DEF BothRed
<1>12. BothBlack(t2, c)
  <2>1. SUFFICES ASSUME NEW r \in Sides  PROVE ~IsRed(t2, Child(t2, c, r))
    BY DEF BothBlack
  <2>2. Child(t2, c, r) = Child(t, c, r) /\ ~IsRed(t, Child(t, c, r))
    BY <1>2, <1>3, <1>5, <1>11
  <2>3. Child(t, c, r) # n
    <3>1. SUFFICES ASSUME Child(t, c, r) = n  PROVE FALSE
      OBVIOUS
    <3>2. c \in sub[n] /\ n \notin sub[c]
      <4>1. c # Null
        BY <1>3, <1>11
      <4>. QED  BY <1>9, <1>10, <4>1, ChildFacts
    <3>3. n \in sub[c]
      BY <1>3, <1>11, <3>1, ChildFacts
    <3>. QED  BY <3>2, <3>3
  <2>4. Child(t, c, r) = Null \/ Child(t, c, r) \in A
    BY <1>11, ChildFacts
  <2>. QED  BY <1>4, <2>2, <2>3, <2>4 DEF IsRed
<1>13. H1[c] = H[n]
  <2>1. H1[c] = H[c] + 1
    BY <1>2, <1>9, <1>10, <1>11
  <2>2. H[n] = Height(H, c) + Black(t, n)
    BY <1>9, <1>10 DEF Balanced
  <2>3. Black(t, n) = 1
    BY <1>2 DEF Black, Reds
  <2>4. Height(H, c) = H[c] /\ H[c] \in Nat
    BY <1>3, <1>11 DEF Height, Balanced
  <2>. QED  BY <2>1, <2>2, <2>3, <2>4
<1>14. Child(t2, Dummy, LEFT) = Null /\ Child(t2, Dummy, RIGHT) = top
  BY <1>2 DEF Sides
<1>15. IsRed(t2, n)
  BY <1>2, <1>4
<1>16. \A z \in Nodes \ A : t2[z] = t[z]
  BY <1>2
<1>. QED  BY <1>2, <1>8, <1>11, <1>12, <1>13, <1>14, <1>15, <1>16 DEF FlipPassed

\* If the parent is red, a rotation sets the two apart, ...
LEMMA FlipTurned ==
  ASSUME NEW t, NEW A, NEW top, NEW sub, NEW H, NEW n, NEW p, NEW d, NEW g, NEW l,
         NEW y, NEW k, RedPair(t, A, top, sub, H, n, p, d, g, l, y, k), d = l,
         NEW t1, t1 = RedAbove(t, n),
         NEW t2, t2 = Hung(RotateOnce(t1, g, 1 - l), y, SideOf(t1, g, y))
  PROVE  FlipPassed(t, A, sub, H, n, k, t2)
<1>1. /\ t \in Trees /\ A \in SUBSET Nodes /\ Shape(t, A, top, sub) /\ Balanced(t, A, H)
      /\ n \in A /\ BothRed(t, n) /\ p \in A /\ d \in Sides /\ g \in A /\ l \in Sides
      /\ Child(t, Dummy, RIGHT) = top /\ Child(t, Dummy, LEFT) = Null
  BY DEF RedPair
<1>2. PICK H1 : Flip(t, A, top, sub, H, n, t1, H1)
  BY <1>1, FlipIs
<1>3. /\ t1 \in Trees
      /\ \A z \in A : t1[z].data = t[z].data
      /\ \A z \in (Nodes \cup {Dummy}) \ A : t1[z] = t[z]
      /\ Shape(t1, A, top, sub) /\ Counted(t1, A, Reds(t1, A), H1)
  BY <1>2 DEF Flip
<1>4. PICK s, c, e : s = Aim(t, n, k) /\ c = Child(t, n, s) /\ e = SideOf(t1, g, y)
  OBVIOUS
<1>5. s \in Sides /\ e \in Sides /\ 1 - l \in Sides /\ 1 - (1 - l) = l
  BY <1>1, <1>4, SideFacts DEF Aim, SideOf, Sides
<1>6. /\ p # Null /\ p # n /\ g # p /\ g # n /\ n \in Reds(t1, A)
      /\ p \in Reds(t1, A) /\ g \notin Reds(t1, A)
      /\ Child(t1, g, l) = p /\ Child(t1, n, s) = c
      /\ Child(t1, g, 1 - l) \notin Reds(t1, A)
      /\ Child(t1, p, 1 - l) \notin Reds(t1, A)
      /\ \A z \in A, r \in Sides :
           z \in Reds(t1, A) /\ z # p => Child(t1, z, r) \notin Reds(t1, A)
      /\ c \in A /\ c # Null /\ c \notin {n, p, g} /\ c \notin Reds(t1, A)
      /\ \A r \in Sides : Child(t1, c, r) \notin Reds(t1, A) /\ Child(t1, c, r) # g
      /\ \A r \in Sides : Child(t1, n, r) # g
      /\ H1[c] = H[n]
      /\ (y \in A /\ Child(t1, y, e) = g) \/ (y = Dummy /\ g = top)
  BY <1>2, <1>4, <1>5, RedPairFacts
<1>7. t2 = Hung(RotateOnce(t1, g, 1 - l), y, e)
  BY <1>4
<1>8. /\ t2 \in Trees
      /\ \A z \in A : t2[z].data = t1[z].data
      /\ \A z \in (Nodes \cup {Dummy}) \ A : z # y => t2[z] = t1[z]
      /\ \A r \in Sides : y = Dummy =>
           Child(t2, Dummy, r) = IF r = e THEN p ELSE Child(t1, Dummy, r)
      /\ \A z \in A : z \in Reds(t2, A) <=> (z \in Reds(t1, A) /\ z # p) \/ z = g
      /\ \A z \in A, r \in Sides :
           z # p /\ z # g /\ Child(t1, z, r) # g => Child(t2, z, r) = Child(t1, z, r)
      /\ \E sub2, H2 :
           /\ Shape(t2, A, IF g = top THEN p ELSE top, sub2)
           /\ \A z \in A : z # g => sub[z] \subseteq sub2[z]
           /\ Balanced(t2, A, H2)
           /\ \A z \in A : z # g /\ z # p => H2[z] = H1[z]
  <2>. HIDE DEF Reds, Counted, Shape, Trees, Hung, RotateOnce, Balanced
  <2>. QED  BY <1>1, <1>3, <1>5, <1>6, <1>7, SingleRepair
<1>9. PICK sub2, H2 :
           /\ Shape(t2, A, IF g = top THEN p ELSE top, sub2)
           /\ \A z \in A : z # g => sub[z] \subseteq sub2[z]
           /\ Balanced(t2, A, H2)
           /\ \A z \in A : z # g /\ z # p => H2[z] = H1[z]
  BY <1>8
<1>10. PICK top2 : top2 = IF g = top THEN p ELSE top
  OBVIOUS
<1>11. Shape(t2, A, top2, sub2)
  BY <1>9, <1>10
<1>12. Null \notin A /\ Dummy \notin A /\ A \subseteq Nodes
  BY <1>1, OneParent, AddressAssumption
<1>13. /\ \A z \in A : z \in Reds(t2, A) <=> IsRed(t2, z)
       /\ \A z : z \in A \cup {Null} /\ z \notin Reds(t2, A) => ~IsRed(t2, z)
  BY <1>12 DEF Reds, IsRed
<1>14. Child(t2, n, s) = c /\ IsRed(t2, n) /\ ~IsRed(t2, c)
  BY <1>1, <1>5, <1>6, <1>8, <1>13
<1>15. BothBlack(t2, c)
  <2>1. SUFFICES ASSUME NEW r \in Sides  PROVE ~IsRed(t2, Child(t2, c, r))
    BY DEF BothBlack
  <2>2. Child(t2, c, r) = Child(t1, c, r)
    BY <1>6, <1>8
  <2>3. Child(t1, c, r) \in A \cup {Null}
    BY <1>3, <1>6, ChildFacts
  <2>4. Child(t2, c, r) \notin Reds(t2, A)
    <3>1. Child(t1, c, r) \in Reds(t2, A) => Child(t1, c, r) \in A
      BY DEF Reds
    <3>. QED  BY <1>6, <1>8, <2>2, <3>1
  <2>. QED  BY <1>13, <2>2, <2>3, <2>4
<1>16. H2[c] = H[n] /\ sub[n] \subseteq sub2[n]
  BY <1>1, <1>6, <1>9
<1>17. Child(t2, Dummy, RIGHT) = top2 /\ Child(t2, Dummy, LEFT) = Null
  <2>1. Child(t1, Dummy, RIGHT) = top /\ Child(t1, Dummy, LEFT) = Null
    BY <1>1, <1>3, <1>12 DEF Child
  <2>2. CASE y = Dummy
    <3>1. g = top /\ e = RIGHT
      BY <1>4, <1>6, <1>12, <2>1, <2>2 DEF SideOf
    <3>. QED  BY <1>8, <1>10, <2>1, <2>2, <3>1 DEF Sides, LEFT, RIGHT
  <2>3. CASE y # Dummy
    <3>1. y \in A /\ Child(t1, y, e) = g
      BY <1>6, <2>3
    <3>2. g # top
      <4>1. top # Null /\ (\A z \in A, r \in Sides : top # Null => Child(t1, z, r) # top)
        BY <1>1, <1>3, <1>12, OneParent DEF Shape, Linked
      <4>. QED  BY <1>5, <3>1, <4>1
    <3>3. t2[Dummy] = t1[Dummy]
      BY <1>8, <1>12, <2>3
    <3>. QED  BY <1>10, <2>1, <3>2, <3>3 DEF Child
  <2>. QED  BY <2>2, <2>3
<1>18. /\ \A z \in A : t2[z].data = t[z].data
       /\ \A z \in Nodes \ A : t2[z] = t[z]
  BY <1>3, <1>6, <1>8, <1>12, AddressAssumption
<1>. QED  BY <1>4, <1>6, <1>8, <1>9, <1>11, <1>14, <1>15, <1>16, <1>17, <1>18 DEF FlipPassed

\* ... or a double rotation.
LEMMA FlipTurnedTwice ==
  ASSUME NEW t, NEW A, NEW top, NEW sub, NEW H, NEW n, NEW p, NEW d, NEW g, NEW l,
         NEW y, NEW k, RedPair(t, A, top, sub, H, n, p, d, g, l, y, k), d = 1 - l,
         NEW t1, t1 = RedAbove(t, n),
         NEW t2, t2 = Hung(RotateTwice(t1, g, 1 - l), y, SideOf(t1, g, y))
  PROVE  FlipPassed(t, A, sub, H, n, k, t2)
<1>1. /\ t \in Trees /\ A \in SUBSET Nodes /\ Shape(t, A, top, sub) /\ Balanced(t, A, H)
      /\ n \in A /\ BothRed(t, n) /\ p \in A /\ d \in Sides /\ g \in A /\ l \in Sides
      /\ Child(t, Dummy, RIGHT) = top /\ Child(t, Dummy, LEFT) = Null
  BY DEF RedPair
<1>2. PICK H1 : Flip(t, A, top, sub, H, n, t1, H1)
  BY <1>1, FlipIs
<1>3. /\ t1 \in Trees
      /\ \A z \in A : t1[z].data = t[z].data
      /\ \A z \in (Nodes \cup {Dummy}) \ A : t1[z] = t[z]
      /\ Shape(t1, A, top, sub) /\ Counted(t1, A, Reds(t1, A), H1)
  BY <1>2 DEF Flip
<1>4. PICK s, c, e : s = Aim(t, n, k) /\ c = Child(t, n, s) /\ e = SideOf(t1, g, y)
  OBVIOUS
<1>5. s \in Sides /\ e \in Sides /\ 1 - l \in Sides /\ 1 - (1 - l) = l
  BY <1>1, <1>4, SideFacts DEF Aim, SideOf, Sides
<1>6. /\ p # Null /\ p # n /\ g # p /\ g # n /\ n \in Reds(t1, A)
      /\ p \in Reds(t1, A) /\ g \notin Reds(t1, A)
      /\ Child(t1, g, l) = p /\ Child(t1, n, s) = c /\ Child(t1, p, 1 - l) = n
      /\ Child(t1, g, 1 - l) \notin Reds(t1, A)
      /\ Child(t1, p, l) \notin Reds(t1, A)
      /\ \A z \in A, r \in Sides :
           z \in Reds(t1, A) /\ z # p => Child(t1, z, r) \notin Reds(t1, A)
      /\ c \in A /\ c # Null /\ c \notin {n, p, g} /\ c \notin Reds(t1, A)
      /\ \A r \in Sides : Child(t1, c, r) \notin Reds(t1, A) /\ Child(t1, c, r) # g
      /\ \A r \in Sides : Child(t1, n, r) # g
      /\ H1[p] = H[n]
      /\ (y \in A /\ Child(t1, y, e) = g) \/ (y = Dummy /\ g = top)
  BY <1>2, <1>4, <1>5, RedPairFacts
<1>7. t2 = Hung(RotateTwice(t1, g, 1 - l), y, e)
  BY <1>4
<1>8. /\ t2 \in Trees
      /\ \A z \in A : t2[z].data = t1[z].data
      /\ \A z \in (Nodes \cup {Dummy}) \ A : z # y => t2[z] = t1[z]
      /\ \A r \in Sides : y = Dummy =>
           Child(t2, Dummy, r) = IF r = e THEN n ELSE Child(t1, Dummy, r)
      /\ \A z \in A : z \in Reds(t2, A) <=> (z \in Reds(t1, A) /\ z # n) \/ z = g
      /\ \A z \in A, r \in Sides : z \notin {n, p, g} /\ Child(t1, z, r) # g
           => Child(t2, z, r) = Child(t1, z, r)
      /\ Child(t2, n, l) = p /\ Child(t2, n, 1 - l) = g
      /\ Child(t2, p, 1 - l) = Child(t1, n, l)
      /\ Child(t2, g, l) = Child(t1, n, 1 - l)
      /\ \E sub2, H2 :
           /\ Shape(t2, A, IF g = top THEN n ELSE top, sub2)
           /\ sub[n] \subseteq sub2[n]
           /\ Balanced(t2, A, H2)
           /\ H2[g] = H1[p] /\ H2[p] = H1[p]
  <2>. HIDE DEF Reds, Counted, Shape, Trees, Hung, RotateTwice, Balanced
  <2>. QED  BY <1>1, <1>3, <1>5, <1>6, <1>7, DoubleRepair
<1>9. PICK sub2, H2 :
           /\ Shape(t2, A, IF g = top THEN n ELSE top, sub2)
           /\ sub[n] \subseteq sub2[n]
           /\ Balanced(t2, A, H2)
           /\ H2[g] = H1[p] /\ H2[p] = H1[p]
  BY <1>8
<1>10. PICK top2 : top2 = IF g = top THEN n ELSE top
  OBVIOUS
<1>11. Shape(t2, A, top2, sub2)
  BY <1>9, <1>10
<1>12. Null \notin A /\ Dummy \notin A /\ A \subseteq Nodes
  BY <1>1, OneParent, AddressAssumption
<1>13. /\ \A z \in A : z \in Reds(t2, A) <=> IsRed(t2, z)
       /\ \A z : z \in A \cup {Null} /\ z \notin Reds(t2, A) => ~IsRed(t2, z)
  BY <1>12 DEF Reds, IsRed
<1>14. PICK c2 : c2 = Child(t2, n, s)
  OBVIOUS
<1>15. /\ c2 \in A /\ ~IsRed(t2, n) /\ IsRed(t2, c2) /\ H2[c2] = H[n]
       /\ Child(t2, c2, Aim(t, c2, k)) = c
  <2>1. l = Aim(t, g, k) /\ 1 - l = Aim(t, p, k)
    BY DEF RedPair
  <2>2. ~IsRed(t2, n) /\ IsRed(t2, p) /\ IsRed(t2, g)
    BY <1>1, <1>6, <1>8, <1>13
  <2>3. s = l \/ s = 1 - l
    BY <1>1, <1>5, SideFacts
  <2>4. CASE s = l
    BY <1>1, <1>6, <1>8, <1>9, <1>14, <2>1, <2>2, <2>4
  <2>5. CASE s = 1 - l
    BY <1>1, <1>6, <1>8, <1>9, <1>14, <2>1, <2>2, <2>5
  <2>. QED  BY <2>3, <2>4, <2>5
<1>16. BothBlack(t2, c)
  <2>1. SUFFICES ASSUME NEW r \in Sides  PROVE ~IsRed(t2, Child(t2, c, r))
    BY DEF BothBlack
  <2>2. Child(t2, c, r) = Child(t1, c, r)
    BY <1>6, <1>8
  <2>3. Child(t1, c, r) \in A \cup {Null}
    BY <1>3, <1>6, ChildFacts
  <2>4. Child(t2, c, r) \notin Reds(t2, A)
    <3>1. Child(t1, c, r) \in Reds(t2, A) => Child(t1, c, r) \in A
      BY DEF Reds
    <3>. QED  BY <1>6, <1>8, <2>2, <3>1
  <2>. QED  BY <1>13, <2>2, <2>3, <2>4
<1>17. Child(t2, Dummy, RIGHT) = top2 /\ Child(t2, Dummy, LEFT) = Null
  <2>1. Child(t1, Dummy, RIGHT) = top /\ Child(t1, Dummy, LEFT) = Null
    BY <1>1, <1>3, <1>12 DEF Child
  <2>2. CASE y = Dummy
    <3>1. g = top /\ e = RIGHT
      BY <1>4, <1>6, <1>12, <2>1, <2>2 DEF SideOf
    <3>. QED  BY <1>8, <1>10, <2>1, <2>2, <3>1 DEF Sides, LEFT, RIGHT
  <2>3. CASE y # Dummy
    <3>1. y \in A /\ Child(t1, y, e) = g
      BY <1>6, <2>3
    <3>2. g # top
      <4>1. top # Null /\ (\A z \in A, r \in Sides : top # Null => Child(t1, z, r) # top)
        BY <1>1, <1>3, <1>12, OneParent DEF Shape, Linked
      <4>. QED  BY <1>5, <3>1, <4>1
    <3>3. t2[Dummy] = t1[Dummy]
      BY <1>8, <1>12, <2>3
    <3>. QED  BY <1>10, <2>1, <3>2, <3>3 DEF Child
  <2>. QED  BY <2>2, <2>3
<1>18. /\ \A z \in A : t2[z].data = t[z].data
       /\ \A z \in Nodes \ A : t2[z] = t[z]
  BY <1>3, <1>6, <1>8, <1>12, AddressAssumption
<1>. QED  BY <1>4, <1>6, <1>8, <1>9, <1>11, <1>14, <1>15, <1>16, <1>17, <1>18 DEF FlipPassed

\* What a turn of the loop of an insertion assigns.
LEMMA InsertPassIs ==
  ASSUME RbtInv, InsertPass
  PROVE  /\ Running /\ op = "insert" /\ node # Null
         /\ tree' = Repaired(Flipped(tree, node), node)
         /\ prevDirection' = direction /\ direction' = Turn(node)
         /\ greatgrandparent' = (IF grandparent = Null THEN greatgrandparent ELSE grandparent)
         /\ grandparent' = parent /\ parent' = node
         /\ node' = Child(tree', node, direction')
         /\ passes' = passes + 1 /\ passes \in Nat
         /\ UNCHANGED <<created, root, length, heap, op, key, target, cutShort>>
         /\ direction \in Sides /\ direction' \in Sides /\ prevDirection \in Sides
         /\ Child(tree, Dummy, LEFT) = Null
  BY DEF InsertPass, Running, RbtInv, Frame, TypeOK, Turn, Way, Sides

\* Where a turn of an insertion is, before the repair.
LEMMA InsertWay ==
  ASSUME RbtInv, InsertPass, NEW top, NEW sub, NEW H, NEW h \in Nat,
         top = Top, Shape(tree, heap, top, sub), InsertInv(sub, H, h)
  PROVE  /\ node \in heap /\ Path(tree, heap, sub, node, key) /\ key \in Data \ Keys
         /\ Null \notin heap /\ Dummy \notin heap
         /\ \/ /\ parent = Null /\ grandparent = Null /\ greatgrandparent = Dummy
               /\ node = top /\ ~IsRed(tree, node)
            \/ /\ parent \in heap /\ direction = Turn(parent) /\ node # top
               /\ Child(tree, parent, direction) = node /\ tree[node].parent = parent
               /\ grandparent \in heap \cup {Null}
               /\ grandparent # Null => prevDirection = Turn(grandparent)
               /\ Ready
         /\ Paid(H, h)
<1>1. node # Null /\ direction \in Sides
  BY InsertPassIs
<1>2. Null \notin heap /\ Dummy \notin heap /\ heap \subseteq Nodes
  <2>1. heap \subseteq Nodes
    BY DEF RbtInv, Frame, TypeOK
  <2>. QED  BY <2>1, AddressAssumption
<1>3. key \in Data \ Keys /\ Paid(H, h)
  BY DEF InsertInv
<1>4. CASE parent = Null /\ grandparent = Null /\ greatgrandparent = Dummy
           /\ node = Top /\ ~IsRed(tree, Top)
  <2>1. top \in heap /\ sub[top] = heap
    BY <1>1, <1>4 DEF Shape, Linked
  <2>2. Path(tree, heap, sub, node, key)
    BY <1>4, <2>1 DEF Path
  <2>. QED  BY <1>2, <1>3, <1>4, <2>1, <2>2
<1>5. CASE /\ parent \in heap /\ direction = Turn(parent)
           /\ Child(tree, parent, direction) = node
           /\ Path(tree, heap, sub, parent, key)
           /\ grandparent \in heap \cup {Null}
           /\ grandparent # Null => prevDirection = Turn(grandparent)
           /\ Ready
  <2>1. node \in heap /\ tree[node].parent = parent
    BY <1>1, <1>5, ChildFacts
  <2>2. direction = (IF tree[parent].data < key THEN RIGHT ELSE LEFT)
    BY <1>5 DEF Turn, Way
  <2>3. key \in Data
    BY <1>3
  <2>4. Path(tree, heap, sub, node, key)
    BY <1>1, <1>5, <2>2, <2>3, PathDown
  <2>5. node # top
    <3>1. top # Null
      BY <1>2, <2>1 DEF Shape, Linked
    <3>. QED  BY <1>1, <1>5, <3>1, OneParent
  <2>. QED  BY <1>2, <1>3, <1>5, <2>1, <2>4, <2>5
<1>. QED  BY <1>4, <1>5 DEF InsertInv

\* What a turn leaves is what the next one needs.
LEMMA InsertPassEnds ==
  ASSUME RbtInv, InsertPass, NEW top, NEW sub, NEW H, NEW h \in Nat,
         top = Top, Shape(tree, heap, top, sub), InsertInv(sub, H, h),
         Power[h] <= Cardinality(heap) + 1,
         tree' \in Trees, \A z \in heap : tree'[z].data = tree[z].data,
         \A z \in Nodes \ heap : tree'[z] = Erased, Child(tree', Dummy, LEFT) = Null,
         NEW top2, NEW sub2, NEW H2, Shape(tree', heap, top2, sub2),
         Balanced(tree', heap, H2), Child(tree', Dummy, RIGHT) = top2,
         sub[node] \subseteq sub2[node], Ready', Paid(H2, h)'
  PROVE  RbtInv' /\ Keys' = Keys
<1>1. /\ Running /\ op = "insert" /\ node # Null
      /\ prevDirection' = direction /\ direction' = Turn(node)
      /\ greatgrandparent' = (IF grandparent = Null THEN greatgrandparent ELSE grandparent)
      /\ grandparent' = parent /\ parent' = node
      /\ node' = Child(tree', node, direction')
      /\ passes' = passes + 1 /\ passes \in Nat
      /\ UNCHANGED <<created, root, length, heap, op, key, target, cutShort>>
      /\ direction \in Sides /\ direction' \in Sides /\ prevDirection \in Sides
  BY InsertPassIs
<1>2. /\ created = TRUE /\ cutShort \in BOOLEAN
      /\ tree \in Trees /\ heap \in SUBSET Nodes /\ IsFiniteSet(heap)
      /\ root \in heap /\ length = Cardinality(heap)
  BY <1>1, RunningFacts
<1>3. /\ node \in heap /\ Path(tree, heap, sub, node, key) /\ key \in Data \ Keys
      /\ Null \notin heap
      /\ parent \in heap \cup {Null}
      /\ parent # Null => direction = Turn(parent)
  BY InsertWay
<1>4. Keys' = Keys
  BY <1>1, KeysSame
<1>5. \A z \in heap : Turn(z)' = Turn(z)
  BY <1>1 DEF Turn, Way
<1>6. Path(tree', heap, sub2, node, key)
  BY <1>3 DEF Path
<1>7. InsertInv(sub2, H2, h)'
  <2>1. (/\ parent \in heap /\ direction = Turn(parent)
         /\ Child(tree, parent, direction) = node
         /\ Path(tree, heap, sub2, parent, key)
         /\ grandparent \in heap \cup {Null}
         /\ grandparent # Null => prevDirection = Turn(grandparent))'
    <3>1. parent' \in heap' /\ grandparent' \in heap' \cup {Null}
      BY <1>1, <1>3
    <3>2. direction' = Turn(parent)'
      <4>1. Turn(parent)' = Turn(node)
        BY <1>1, <1>3 DEF Turn, Way
      <4>. QED  BY <1>1, <4>1
    <3>3. grandparent' # Null => prevDirection' = Turn(grandparent)'
      <4>1. SUFFICES ASSUME parent # Null  PROVE prevDirection' = Turn(grandparent)'
        BY <1>1
      <4>2. Turn(grandparent)' = Turn(parent)
        BY <1>1, <1>3, <4>1 DEF Turn, Way
      <4>. QED  BY <1>1, <1>3, <4>1, <4>2
    <3>4. Child(tree', parent', direction') = node'
      BY <1>1
    <3>5. Path(tree', heap', sub2, parent', key')
      BY <1>1, <1>6
    <3>. QED  BY <3>1, <3>2, <3>3, <3>4, <3>5
  <2>2. (key \in Data \ Keys)'
    BY <1>1, <1>3, <1>4
  <2>. QED  BY <2>1, <2>2 DEF InsertInv
<1>8. CallInv(top2, sub2)'
  <2>1. /\ op' = "insert" /\ Power[h] <= Cardinality(heap') + 1 /\ top2 = Top'
        /\ Balanced(tree', heap', H2)
    BY <1>1 DEF Top
  <2>. QED  BY <1>7, <2>1 DEF CallInv
<1>9. TypeOK'
  <2>1. TypeOK
    BY DEF RbtInv, Frame
  <2>2. /\ node' \in Address /\ parent' \in Address /\ grandparent' \in Address
        /\ greatgrandparent' \in Address /\ passes' \in Nat
    <3>1. node' \in Address
      <4>1. node' \in Nodes \cup {Null}
        BY <1>1, <1>2, <1>3, TreeFacts
      <4>. QED  BY <4>1 DEF Address
    <3>2. node \in Address /\ parent \in Address /\ grandparent \in Address
          /\ greatgrandparent \in Address
      BY <2>1 DEF TypeOK
    <3>. QED  BY <1>1, <3>1, <3>2
  <2>. QED  BY <1>1, <2>1, <2>2 DEF TypeOK, Trees
<1>10. Frame'
  BY <1>1, <1>2, <1>9 DEF Frame
<1>11. RootInv'
  <2>1. Running' /\ ~Wiping'
    BY <1>1 DEF Running, Wiping
  <2>2. root' # Null
    BY <1>1, <1>2, <1>3
  <2>. QED  BY <1>1, <1>2, <2>1, <2>2 DEF RootInv
<1>12. Shape(tree, heap, top2, sub2)'
  BY <1>1
<1>. QED  BY <1>4, <1>8, <1>10, <1>11, <1>12 DEF RbtInv

\* A turn that flips colours keeps the invariant, ...
LEMMA FlipPassedInv ==
  ASSUME RbtInv, InsertPass, NEW top, NEW sub, NEW H, NEW h \in Nat,
         top = Top, Shape(tree, heap, top, sub), Balanced(tree, heap, H),
         InsertInv(sub, H, h), Power[h] <= Cardinality(heap) + 1,
         BothRed(tree, node), FlipPassed(tree, heap, sub, H, node, key, tree')
  PROVE  RbtInv' /\ Keys' = Keys
<1>1. /\ Running /\ op = "insert" /\ node # Null
      /\ prevDirection' = direction /\ direction' = Turn(node)
      /\ grandparent' = parent /\ parent' = node
      /\ node' = Child(tree', node, direction')
      /\ passes' = passes + 1 /\ passes \in Nat
      /\ UNCHANGED <<heap, key>>
      /\ direction' \in Sides
  BY InsertPassIs
<1>2. /\ tree' \in Trees
      /\ \A z \in heap : tree'[z].data = tree[z].data
      /\ \A z \in Nodes \ heap : tree'[z] = tree[z]
      /\ Child(tree', Dummy, LEFT) = Null
  BY DEF FlipPassed
<1>3. \A z \in Nodes \ heap : tree'[z] = Erased
  BY <1>2 DEF RbtInv, Frame
<1>4. PICK top2, sub2, H2, c :
       /\ Shape(tree', heap, top2, sub2) /\ Balanced(tree', heap, H2)
       /\ Child(tree', Dummy, RIGHT) = top2
       /\ sub[node] \subseteq sub2[node]
       /\ c = Child(tree', node, Aim(tree, node, key)) /\ c \in heap /\ H2[c] = H[node]
       /\ \/ IsRed(tree', node) /\ ~IsRed(tree', c) /\ BothBlack(tree', c)
          \/ /\ ~IsRed(tree', node) /\ IsRed(tree', c)
             /\ Child(tree', c, Aim(tree, c, key)) # Null
             /\ BothBlack(tree', Child(tree', c, Aim(tree, c, key)))
  BY DEF FlipPassed
<1>5. node \in heap /\ Null \notin heap /\ Paid(H, h)
  BY InsertWay
<1>6. c = node' /\ c # Null
  BY <1>1, <1>4, <1>5 DEF Turn, Way, Aim
<1>7. Turn(node)' = Aim(tree, c, key)
  BY <1>1, <1>2, <1>4, <1>6 DEF Turn, Way, Aim
<1>8. \/ IsRed(tree', parent') /\ ~IsRed(tree', node') /\ Quiet(node)'
      \/ ~IsRed(tree', parent') /\ IsRed(tree', node') /\ Quiet(Child(tree, node, Turn(node)))'
  <2>1. CASE IsRed(tree', node) /\ ~IsRed(tree', c) /\ BothBlack(tree', c)
    BY <1>1, <1>6, <2>1 DEF Quiet
  <2>2. CASE /\ ~IsRed(tree', node) /\ IsRed(tree', c)
             /\ Child(tree', c, Aim(tree, c, key)) # Null
             /\ BothBlack(tree', Child(tree', c, Aim(tree, c, key)))
    <3>1. Child(tree, node, Turn(node))' = Child(tree', c, Aim(tree, c, key))
      BY <1>6, <1>7
    <3>. QED  BY <1>1, <1>6, <2>2, <3>1 DEF Quiet
  <2>. QED  BY <1>4, <2>1, <2>2
<1>9. Ready'
  BY <1>8 DEF Ready
<1>10. passes + 3 * H[node] <= 3 * h
  <2>1. ~IsRed(tree, node) /\ Black(tree, node) = 1
    <3>1. ~(IsRed(tree, node) /\ IsRed(tree, Child(tree, node, LEFT)))
      BY <1>5 DEF Balanced, Sides
    <3>2. IsRed(tree, Child(tree, node, LEFT))
      BY DEF BothRed, Sides
    <3>3. ~IsRed(tree, node)
      BY <3>1, <3>2
    <3>. QED  BY <1>1, <3>3 DEF IsRed, Black
  <2>2. ~Quiet(node)
    BY DEF Quiet, BothRed, BothBlack, Sides
  <2>3. H[node] \in Nat
    BY <1>5 DEF Balanced
  <2>4. passes + 3 * H[node] + (1 - 1) <= 3 * h
    BY <1>1, <1>5, <2>1, <2>2 DEF Paid
  <2>. QED  BY <1>1, <2>3, <2>4
<1>11. Paid(H2, h)'
  <2>1. /\ H[node] \in Nat /\ H2[c] = H[node]
        /\ passes + 1 + 3 * H2[c] - 1 <= 3 * h /\ passes + 1 + 3 * H2[c] - 2 <= 3 * h
    <3>1. H[node] \in Nat
      BY <1>5 DEF Balanced
    <3>. QED  BY <1>1, <1>4, <1>10, <3>1
  <2>2. /\ passes' + 3 * H2[node'] - 1 <= 3 * h
        /\ passes' + 3 * H2[node'] - 2 <= 3 * h
    BY <1>1, <1>6, <2>1
  <2>. QED  BY <1>6, <1>8, <2>2 DEF Paid
<1>. QED  BY <1>2, <1>3, <1>4, <1>9, <1>11, InsertPassEnds

\* ... and so does one that changes nothing.
LEMMA PlainPassInv ==
  ASSUME RbtInv, InsertPass, NEW top, NEW sub, NEW H, NEW h \in Nat,
         top = Top, Shape(tree, heap, top, sub), Balanced(tree, heap, H),
         InsertInv(sub, H, h), Power[h] <= Cardinality(heap) + 1,
         ~BothRed(tree, node), tree' = tree
  PROVE  RbtInv' /\ Keys' = Keys
<1>1. /\ Running /\ op = "insert" /\ node # Null
      /\ prevDirection' = direction /\ direction' = Turn(node)
      /\ greatgrandparent' = (IF grandparent = Null THEN greatgrandparent ELSE grandparent)
      /\ grandparent' = parent /\ parent' = node
      /\ node' = Child(tree', node, direction')
      /\ passes' = passes + 1 /\ passes \in Nat
      /\ UNCHANGED <<heap, key, tree>>
      /\ direction \in Sides /\ direction' \in Sides /\ prevDirection \in Sides
      /\ Child(tree, Dummy, LEFT) = Null
  BY InsertPassIs
<1>2. /\ node \in heap
      /\ Null \notin heap /\ Dummy \notin heap
      /\ \/ /\ parent = Null /\ grandparent = Null /\ greatgrandparent = Dummy
            /\ node = top /\ ~IsRed(tree, node)
         \/ /\ parent \in heap /\ direction = Turn(parent) /\ node # top
            /\ Child(tree, parent, direction) = node /\ tree[node].parent = parent
            /\ grandparent \in heap \cup {Null}
            /\ grandparent # Null => prevDirection = Turn(grandparent)
            /\ Ready
      /\ Paid(H, h)
  BY InsertWay
<1>3. PICK c, s : s = Turn(node) /\ c = Child(tree, node, s)
  OBVIOUS
<1>4. /\ s \in Sides /\ 1 - s \in Sides /\ node' = c /\ direction' = s
      /\ \A r \in Sides : r = s \/ r = 1 - s
  BY <1>1, <1>3, SideFacts
<1>5. /\ H[node] = Height(H, c) + Black(tree, node)
      /\ ~(IsRed(tree, node) /\ IsRed(tree, c))
      /\ H[node] \in Nat
  BY <1>2, <1>3, <1>4 DEF Balanced
<1>6. c = Null \/ (c \in heap /\ Height(H, c) = H[c] /\ H[c] \in Nat)
  <2>1. c = Null \/ c \in heap
    BY <1>2, <1>3, <1>4, ChildFacts
  <2>. QED  BY <2>1 DEF Height, Balanced
<1>7. \A z \in heap : /\ IsRed(tree, z) => Black(tree, z) = 0
                      /\ ~IsRed(tree, z) => Black(tree, z) = 1
  BY <1>2 DEF IsRed, Black
<1>8. IsRed(tree, node) =>
        /\ parent \in heap /\ ~IsRed(tree, parent)
        /\ Child(tree, parent, direction) = node
        /\ Quiet(c) \/ (AboveRight /\ ~IsRed(tree, Child(tree, parent, 1 - direction)))
  <2>1. SUFFICES ASSUME IsRed(tree, node)
                 PROVE  /\ parent \in heap /\ ~IsRed(tree, parent)
                        /\ Child(tree, parent, direction) = node
                        /\ Quiet(c) \/ (AboveRight /\ ~IsRed(tree, Child(tree, parent, 1 - direction)))
    OBVIOUS
  <2>2. parent \in heap /\ Child(tree, parent, direction) = node /\ Ready
    BY <1>2, <2>1
  <2>3. ~IsRed(tree, parent)
    BY <1>1, <2>1, <2>2 DEF Balanced
  <2>. QED  BY <1>3, <2>1, <2>2, <2>3 DEF Ready
<1>9. Ready'
  <2>1. SUFFICES
          /\ IsRed(tree, node) =>
               \/ Quiet(c)
               \/ /\ GrandRight' /\ GreatRight'
                  /\ ~IsRed(tree, Child(tree, parent, 1 - direction))
          /\ ~IsRed(tree, node) /\ IsRed(tree, c) =>
               AboveRight' /\ ~IsRed(tree, Child(tree, node, 1 - s))
    <3>1. Quiet(node)' <=> Quiet(c)
      BY <1>1, <1>4 DEF Quiet
    <3>. QED  BY <1>1, <1>4, <3>1 DEF Ready
  <2>2. ASSUME IsRed(tree, node), ~Quiet(c)
        PROVE  /\ GrandRight' /\ GreatRight'
               /\ ~IsRed(tree, Child(tree, parent, 1 - direction))
    <3>1. GrandRight'
      BY <1>1, <1>8, <2>2 DEF GrandRight
    <3>2. AboveRight /\ ~IsRed(tree, Child(tree, parent, 1 - direction))
      BY <1>8, <2>2
    <3>3. GreatRight'
      <4>1. CASE grandparent = Null /\ parent = Top /\ greatgrandparent = Dummy
        BY <1>1, <4>1 DEF GreatRight, Top
      <4>2. CASE GrandRight
        BY <1>1, <1>2, <4>2 DEF GreatRight, GrandRight
      <4>. QED  BY <3>2, <4>1, <4>2 DEF AboveRight
    <3>. QED  BY <3>1, <3>2, <3>3
  <2>3. ASSUME ~IsRed(tree, node), IsRed(tree, c)
        PROVE  AboveRight' /\ ~IsRed(tree, Child(tree, node, 1 - s))
    <3>1. ~IsRed(tree, Child(tree, node, 1 - s))
      BY <1>3, <1>4, <2>3 DEF BothRed
    <3>2. AboveRight'
      <4>1. CASE parent = Null /\ grandparent = Null /\ greatgrandparent = Dummy /\ node = top
        BY <1>1, <4>1 DEF AboveRight, Top
      <4>2. CASE parent \in heap /\ Child(tree, parent, direction) = node
        BY <1>1, <4>2 DEF AboveRight, GrandRight
      <4>. QED  BY <1>2, <4>1, <4>2
    <3>. QED  BY <3>1, <3>2
  <2>. QED  BY <2>2, <2>3
<1>10. Paid(H, h)'
  <2>1. PICK q, m : q = passes /\ m = H[node] /\ q \in Nat /\ m \in Nat
    BY <1>1, <1>5
  <2>2. CASE c = Null
    <3>1. SUFFICES q + 1 <= 3 * h
      BY <1>1, <1>4, <2>1, <2>2 DEF Paid
    <3>2. Height(H, c) = 0 /\ ~Quiet(c)
      BY <2>2 DEF Height, Quiet
    <3>3. CASE IsRed(tree, node)
      <4>1. m = 0 /\ Black(tree, node) = 0
        BY <1>2, <1>5, <1>7, <2>1, <3>2, <3>3
      <4>2. q + 3 * m + (1 - 0) <= 3 * h
        BY <1>1, <1>2, <1>3, <2>1, <3>2, <3>3, <4>1 DEF Paid
      <4>. QED  BY <2>1, <4>1, <4>2
    <3>4. CASE ~IsRed(tree, node)
      <4>1. m = 1 /\ Black(tree, node) = 1
        BY <1>2, <1>5, <1>7, <2>1, <3>2, <3>4
      <4>2. q + 3 * m + (1 - 1) <= 3 * h \/ q + 3 * m - 2 <= 3 * h
        BY <1>1, <1>2, <2>1, <3>4, <4>1 DEF Paid
      <4>. QED  BY <2>1, <4>1, <4>2
    <3>. QED  BY <3>3, <3>4
  <2>3. CASE c # Null
    <3>1. PICK j : j = H[c] /\ j \in Nat /\ c \in heap /\ Height(H, c) = j
      BY <1>6, <2>3
    <3>2. SUFFICES
            \/ q + 1 + 3 * j + (1 - Black(tree, c)) <= 3 * h
            \/ ~IsRed(tree, c) /\ Quiet(c) /\ q + 1 + 3 * j - 2 <= 3 * h
      <4>1. Quiet(node)' <=> Quiet(c)
        BY <1>1, <1>4 DEF Quiet
      <4>. QED  BY <1>1, <1>4, <2>1, <2>3, <3>1, <4>1 DEF Paid
    <3>3. CASE IsRed(tree, node)
      <4>1. m = j /\ Black(tree, node) = 0 /\ ~IsRed(tree, c) /\ Black(tree, c) = 1
        BY <1>2, <1>5, <1>7, <2>1, <3>1, <3>3
      <4>2. q + 3 * m + (1 - 0) <= 3 * h \/ (Quiet(c) /\ q + 3 * m - 1 <= 3 * h)
        BY <1>1, <1>2, <1>3, <2>1, <3>3, <4>1 DEF Paid
      <4>3. q + 1 + 3 * j + (1 - 1) <= 3 * h \/ (Quiet(c) /\ q + 1 + 3 * j - 2 <= 3 * h)
        BY <2>1, <3>1, <4>1, <4>2
      <4>. QED  BY <4>1, <4>3
    <3>4. CASE ~IsRed(tree, node)
      <4>1. m = j + 1 /\ Black(tree, node) = 1
        BY <1>2, <1>5, <1>7, <2>1, <3>1, <3>4
      <4>2. q + 3 * m + (1 - 1) <= 3 * h \/ (Quiet(node) /\ q + 3 * m - 2 <= 3 * h)
        BY <1>1, <1>2, <2>1, <3>4, <4>1 DEF Paid
      <4>3. CASE q + 3 * m + (1 - 1) <= 3 * h
        <5>1. q + 1 + 3 * j + 1 <= 3 * h /\ q + 1 + 3 * j + 0 <= 3 * h
          BY <2>1, <3>1, <4>1, <4>3
        <5>2. Black(tree, c) = 0 \/ Black(tree, c) = 1
          BY DEF Black
        <5>3. q + 1 + 3 * j + (1 - Black(tree, c)) <= 3 * h
          <6>1. CASE Black(tree, c) = 0
            BY <2>1, <3>1, <5>1, <6>1
          <6>2. CASE Black(tree, c) = 1
            BY <2>1, <3>1, <5>1, <6>2
          <6>. QED  BY <5>2, <6>1, <6>2
        <5>. QED  BY <5>3
      <4>4. CASE Quiet(node) /\ q + 3 * m - 2 <= 3 * h
        <5>1. ~IsRed(tree, c)
          BY <1>3, <1>4, <4>4 DEF Quiet, BothBlack
        <5>2. Black(tree, c) = 1
          BY <1>7, <3>1, <5>1
        <5>3. q + 1 + 3 * j + (1 - 1) <= 3 * h
          BY <2>1, <3>1, <4>1, <4>4
        <5>. QED  BY <5>2, <5>3
      <4>. QED  BY <4>2, <4>3, <4>4
    <3>. QED  BY <3>3, <3>4
  <2>. QED  BY <2>2, <2>3
<1>11. /\ tree' \in Trees /\ \A z \in heap : tree'[z].data = tree[z].data
       /\ \A z \in Nodes \ heap : tree'[z] = Erased
       /\ Child(tree', Dummy, LEFT) = Null /\ Child(tree', Dummy, RIGHT) = top
       /\ Shape(tree', heap, top, sub) /\ Balanced(tree', heap, H)
       /\ sub[node] \subseteq sub[node]
  BY <1>1, TreeType DEF RbtInv, Frame, Top
<1>. QED  BY <1>9, <1>10, <1>11, InsertPassEnds

\* The three cases of a repair.
LEMMA RepairedIs ==
  ASSUME NEW t, NEW n
  PROVE  /\ ~(IsRed(t, parent) /\ IsRed(t, n)) => Repaired(t, n) = t
         /\ IsRed(t, parent) /\ IsRed(t, n) /\ n = Child(t, parent, prevDirection) =>
              Repaired(t, n) = Hung(RotateOnce(t, grandparent, 1 - prevDirection),
                                    greatgrandparent, SideOf(t, grandparent, greatgrandparent))
         /\ IsRed(t, parent) /\ IsRed(t, n) /\ n # Child(t, parent, prevDirection) =>
              Repaired(t, n) = Hung(RotateTwice(t, grandparent, 1 - prevDirection),
                                    greatgrandparent, SideOf(t, grandparent, greatgrandparent))
  BY DEF Repaired

\* A turn of the loop of an insertion keeps the invariant and the keys.
LEMMA InsertPassInv ==
  ASSUME RbtInv, InsertPass
  PROVE  RbtInv' /\ Keys' = Keys
<1>1. /\ Running /\ op = "insert" /\ node # Null
      /\ tree' = Repaired(Flipped(tree, node), node)
      /\ direction \in Sides /\ prevDirection \in Sides
      /\ Child(tree, Dummy, LEFT) = Null
  BY InsertPassIs
<1>2. PICK top, sub, H : \E h \in Nat :
        /\ top = Top /\ Shape(tree, heap, top, sub) /\ Balanced(tree, heap, H)
        /\ Power[h] <= Cardinality(heap) + 1
        /\ InsertInv(sub, H, h)
  BY <1>1, RunningFacts
<1>3. PICK h \in Nat :
        /\ top = Top /\ Shape(tree, heap, top, sub) /\ Balanced(tree, heap, H)
        /\ Power[h] <= Cardinality(heap) + 1
        /\ InsertInv(sub, H, h)
  BY <1>2
<1>4. tree \in Trees /\ heap \in SUBSET Nodes
  BY <1>1, RunningFacts
<1>5. /\ node \in heap /\ key \in Data \ Keys
      /\ Null \notin heap /\ Dummy \notin heap
      /\ \/ /\ parent = Null /\ grandparent = Null /\ greatgrandparent = Dummy
            /\ node = top /\ ~IsRed(tree, node)
         \/ /\ parent \in heap /\ direction = Turn(parent) /\ node # top
            /\ Child(tree, parent, direction) = node /\ tree[node].parent = parent
            /\ grandparent \in heap \cup {Null}
            /\ grandparent # Null => prevDirection = Turn(grandparent)
            /\ Ready
  BY <1>3, InsertWay
<1>6. Child(tree, Dummy, RIGHT) = top
  BY <1>3 DEF Top
<1>7. CASE ~BothRed(tree, node)
  <2>1. Flipped(tree, node) = tree
    BY <1>7 DEF Flipped
  <2>2. ~(IsRed(tree, parent) /\ IsRed(tree, node))
    <3>1. CASE parent = Null
      BY <3>1 DEF IsRed
    <3>2. CASE parent \in heap /\ Child(tree, parent, direction) = node
      BY <1>1, <1>3, <3>2 DEF Balanced
    <3>. QED  BY <1>5, <3>1, <3>2
  <2>3. tree' = tree
    BY <1>1, <2>1, <2>2, RepairedIs
  <2>. QED  BY <1>3, <1>7, <2>3, PlainPassInv
<1>8. CASE BothRed(tree, node)
  <2>1. PICK t1 : t1 = RedAbove(tree, node)
    OBVIOUS
  <2>2. Flipped(tree, node) = t1 /\ tree' = Repaired(t1, node)
    BY <1>1, <1>8, <2>1 DEF Flipped, RedAbove
  <2>3. SUFFICES FlipPassed(tree, heap, sub, H, node, key, tree')
    BY <1>3, <1>8, FlipPassedInv
  <2>4. PICK H1 : Flip(tree, heap, top, sub, H, node, t1, H1)
    BY <1>3, <1>4, <1>5, <1>8, <2>1, FlipIs
  <2>5. /\ \A z \in Nodes \cup {Dummy}, r \in Sides : Child(t1, z, r) = Child(tree, z, r)
        /\ node \in Reds(t1, heap)
        /\ \A z \in heap : z # node /\ (\A r \in Sides : z # Child(tree, node, r)) =>
             (z \in Reds(t1, heap) <=> z \in Reds(tree, heap))
    BY <2>4 DEF Flip
  <2>6. IsRed(t1, node)
    BY <1>1, <2>5 DEF Reds, IsRed
  <2>7. ASSUME node # top => ~IsRed(tree, tree[node].parent), tree' = t1
        PROVE  FlipPassed(tree, heap, sub, H, node, key, tree')
    BY <1>1, <1>3, <1>4, <1>5, <1>6, <1>8, <2>1, <2>7, FlipAlone
  <2>8. CASE parent = Null
    <3>1. ~IsRed(t1, parent) /\ node = top
      BY <1>5, <2>8 DEF IsRed
    <3>2. tree' = t1
      BY <2>2, <3>1, RepairedIs
    <3>. QED  BY <2>7, <3>1, <3>2
  <2>9. CASE parent # Null
    <3>1. /\ parent \in heap /\ direction = Turn(parent) /\ node # top
          /\ Child(tree, parent, direction) = node /\ tree[node].parent = parent
          /\ grandparent \in heap \cup {Null}
          /\ grandparent # Null => prevDirection = Turn(grandparent)
          /\ Ready
      BY <1>5, <2>9
    <3>2. IsRed(t1, parent) <=> IsRed(tree, parent)
      <4>1. parent \notin sub[node] /\ parent # node
        BY <1>1, <1>3, <3>1, ChildFacts
      <4>2. \A r \in Sides : parent # Child(tree, node, r)
        BY <1>3, <1>5, <2>9, <4>1, ChildFacts
      <4>. QED  BY <2>5, <2>9, <3>1, <4>1, <4>2 DEF Reds, IsRed
    <3>3. CASE ~IsRed(tree, parent)
      <4>1. tree' = t1
        BY <2>2, <3>2, <3>3, RepairedIs
      <4>. QED  BY <2>7, <3>1, <3>3, <4>1
    <3>4. CASE IsRed(tree, parent)
      <4>1. ~Quiet(node)
        BY <1>8 DEF Quiet, BothRed, BothBlack, Sides
      <4>2. /\ GrandRight /\ GreatRight
            /\ ~IsRed(tree, Child(tree, grandparent, 1 - prevDirection))
        BY <3>1, <3>4, <4>1 DEF Ready
      <4>3. /\ grandparent \in heap /\ Child(tree, grandparent, prevDirection) = parent
            /\ prevDirection = Turn(grandparent)
        BY <1>5, <3>1, <4>2 DEF GrandRight
      <4>4. direction = Aim(tree, parent, key) /\ prevDirection = Aim(tree, grandparent, key)
        BY <3>1, <4>3 DEF Turn, Way, Aim
      <4>5. \/ greatgrandparent = Dummy /\ grandparent = top
            \/ /\ greatgrandparent \in heap
               /\ \E r \in Sides : Child(tree, greatgrandparent, r) = grandparent
        BY <1>3, <4>2 DEF GreatRight
      <4>6. RedPair(tree, heap, top, sub, H, node, parent, direction, grandparent,
                    prevDirection, greatgrandparent, key)
        BY <1>1, <1>3, <1>4, <1>5, <1>6, <1>8, <3>1, <3>4, <4>2, <4>3, <4>4, <4>5 DEF RedPair
      <4>7. direction = prevDirection \/ direction = 1 - prevDirection
        BY <1>1, SideFacts
      <4>8. CASE direction = prevDirection
        <5>1. node = Child(t1, parent, prevDirection)
          BY <1>1, <1>4, <2>5, <3>1, <4>8
        <5>2. tree' = Hung(RotateOnce(t1, grandparent, 1 - prevDirection),
                           greatgrandparent, SideOf(t1, grandparent, greatgrandparent))
          BY <2>2, <2>6, <3>2, <3>4, <5>1, RepairedIs
        <5>. QED  BY <2>1, <4>6, <4>8, <5>2, FlipTurned
      <4>9. CASE direction = 1 - prevDirection
        <5>1. node # Child(t1, parent, prevDirection)
          <6>1. Child(t1, parent, prevDirection) = Child(tree, parent, prevDirection)
            BY <1>1, <1>4, <2>5, <3>1
          <6>2. direction # prevDirection
            BY <1>1, <4>9, SideFacts
          <6>3. \A r \in Sides : Child(tree, parent, r) = node => r = direction
            BY <1>1, <1>3, <3>1, OneParent
          <6>. QED  BY <1>1, <6>1, <6>2, <6>3
        <5>2. tree' = Hung(RotateTwice(t1, grandparent, 1 - prevDirection),
                           greatgrandparent, SideOf(t1, grandparent, greatgrandparent))
          BY <2>2, <2>6, <3>2, <3>4, <5>1, RepairedIs
        <5>. QED  BY <2>1, <4>6, <4>9, <5>2, FlipTurnedTwice
      <4>. QED  BY <4>7, <4>8, <4>9
    <3>. QED  BY <3>3, <3>4
  <2>. QED  BY <2>8, <2>9
<1>. QED  BY <1>7, <1>8

-----------------------------------------------------------------------------
(* The end of an insertion.                                                *)

AddTree(t, p, d, n, k) ==
  [t EXCEPT ![n] = NewNode(p, k, TRUE), ![p].child[d] = n]

\* The red leaf n with k has been added under p to the tree t, which is t1.
Leafed(t, A, top, H, p, d, n, k, t1, sub1, H1) ==
  /\ t1 \in Trees
  /\ \A z \in A : t1[z].data = t[z].data
  /\ t1[n].data = k
  /\ \A z \in Nodes \ (A \cup {n}) : t1[z] = Erased
  /\ Child(t1, Dummy, RIGHT) = top
  /\ \A z \in A \cup {n}, e \in Sides :
       Child(t1, z, e) = IF z = n THEN Null
                         ELSE IF z = p /\ e = d THEN n ELSE Child(t, z, e)
  /\ Shape(t1, A \cup {n}, top, sub1)
  /\ Counted(t1, A \cup {n}, Reds(t1, A \cup {n}), H1)
  /\ \A z : z \in Reds(t1, A \cup {n}) <=> z = n \/ z \in Reds(t, A)

\* What a tree is with a red leaf more.
LEMMA AddTreeIs ==
  ASSUME NEW t \in Trees, NEW p \in Nodes, NEW n \in Nodes, p # n,
         NEW d \in Sides, NEW k \in Data, NEW t1, t1 = AddTree(t, p, d, n, k)
  PROVE  /\ t1 \in Trees
         /\ t1[n].data = k /\ t1[n].parent = p /\ t1[n].isRed
         /\ \A e \in Sides : Child(t1, n, e) = Null
         /\ \A z \in Nodes \cup {Dummy} : z # n =>
              /\ t1[z].data = t[z].data /\ t1[z].parent = t[z].parent
              /\ t1[z].isRed = t[z].isRed
              /\ z # p => t1[z] = t[z]
              /\ \A e \in Sides :
                   Child(t1, z, e) = IF z = p /\ e = d THEN n ELSE Child(t, z, e)
<1>1. PICK new : new = NewNode(p, k, TRUE)
  OBVIOUS
<1>2. /\ new \in [parent : Address, child : [Sides -> Nodes \cup {Null}],
                  data : Data \cup {Null}, isRed : BOOLEAN]
      /\ new.data = k /\ new.parent = p /\ new.isRed
      /\ \A e \in Sides : new.child[e] = Null
  BY <1>1 DEF NewNode, Erased, Address
<1>3. t1 = [t EXCEPT ![n] = new, ![p].child[d] = n]
  BY <1>1 DEF AddTree
<1>4. t[p] \in [parent : Address, child : [Sides -> Nodes \cup {Null}],
                data : Data \cup {Null}, isRed : BOOLEAN]
  BY DEF Trees
<1>5. PICK q : q = [t[p] EXCEPT !.child[d] = n]
  OBVIOUS
<1>6. /\ q \in [parent : Address, child : [Sides -> Nodes \cup {Null}],
                data : Data \cup {Null}, isRed : BOOLEAN]
      /\ q.data = t[p].data /\ q.parent = t[p].parent /\ q.isRed = t[p].isRed
      /\ \A e \in Sides : q.child[e] = IF e = d THEN n ELSE t[p].child[e]
  BY <1>4, <1>5
<1>7. PICK t0 : t0 = [t EXCEPT ![n] = new]
  OBVIOUS
<1>8. /\ t0 \in Trees /\ t0[n] = new
      /\ \A z \in Nodes \cup {Dummy} : z # n => t0[z] = t[z]
  BY <1>2, <1>7 DEF Trees
<1>9. t1 = [t0 EXCEPT ![p] = q]
  <2>1. t1 = [t0 EXCEPT ![p].child[d] = n]
    BY <1>3, <1>7
  <2>2. t0[p] = t[p]
    BY <1>8
  <2>. QED  BY <1>5, <2>1, <2>2
<1>10. /\ t1 \in Trees /\ t1[n] = new /\ t1[p] = q
       /\ \A z \in Nodes \cup {Dummy} : z # n /\ z # p => t1[z] = t[z]
  BY <1>6, <1>8, <1>9 DEF Trees
<1>. QED  BY <1>2, <1>6, <1>10 DEF Child

\* It is a tree in order, and has the heights it had.
LEMMA LeafedIs ==
  ASSUME NEW t \in Trees, NEW A \in SUBSET Nodes, NEW top, NEW sub,
         Shape(t, A, top, sub), NEW H, Balanced(t, A, H),
         NEW p \in A, NEW d \in Sides, Child(t, p, d) = Null,
         NEW n \in Nodes, n \notin A, NEW k \in Data,
         \A z \in A : t[z].data # k,
         Path(t, A, sub, p, k), d = Aim(t, p, k),
         \A z \in Nodes \ A : t[z] = Erased, Child(t, Dummy, RIGHT) = top,
         NEW t1, t1 = AddTree(t, p, d, n, k)
  PROVE  \E sub1, H1 : Leafed(t, A, top, H, p, d, n, k, t1, sub1, H1)
<1>1. p \in Nodes /\ p # n /\ Dummy # p /\ Dummy # n /\ Dummy \notin A
  BY AddressAssumption
<1>2. /\ t1 \in Trees
      /\ t1[n].data = k /\ t1[n].parent = p /\ t1[n].isRed
      /\ \A e \in Sides : Child(t1, n, e) = Null
      /\ \A z \in Nodes \cup {Dummy} : z # n =>
           /\ t1[z].data = t[z].data /\ t1[z].parent = t[z].parent
           /\ t1[z].isRed = t[z].isRed
           /\ z # p => t1[z] = t[z]
           /\ \A e \in Sides :
                Child(t1, z, e) = IF z = p /\ e = d THEN n ELSE Child(t, z, e)
  BY <1>1, AddTreeIs
<1>3. Added(t, t1, A, p, d, n, k)
  BY <1>1, <1>2 DEF Added
<1>4. Toward(t[p].data, k, d)
  <2>1. t[p].data \in Int /\ k \in Int
    BY DataAreInts, DataAssumption
  <2>2. d = IF t[p].data < k THEN RIGHT ELSE LEFT
    BY DEF Aim
  <2>. QED  BY <2>1, <2>2, Sought
<1>5. PICK sub1 : Shape(t1, A \cup {n}, top, sub1)
  BY <1>3, <1>4, AddedShape
<1>6. Null \notin A /\ n # Null
  BY OneParent, AddressAssumption
<1>7. \A z : z \in Reds(t1, A \cup {n}) <=> z = n \/ z \in Reds(t, A)
  BY <1>2 DEF Reds
<1>8. \A z \in A \cup {n}, e \in Sides :
       Child(t1, z, e) = IF z = n THEN Null
                         ELSE IF z = p /\ e = d THEN n ELSE Child(t, z, e)
  BY <1>2
<1>9. H \in [A -> Nat] /\ \A z \in A, e \in Sides :
        H[z] = Height(H, Child(t, z, e)) + IF z \in Reds(t, A) THEN 0 ELSE 1
  BY BalancedIs DEF Counted
<1>10. PICK H1 : H1 = [z \in A \cup {n} |-> IF z = n THEN 0 ELSE H[z]]
  OBVIOUS
<1>11. /\ H1 \in [A \cup {n} -> Nat] /\ H1[n] = 0
       /\ \A z \in A : H1[z] = H[z] /\ H[z] \in Nat
  BY <1>9, <1>10
<1>12. Counted(t1, A \cup {n}, Reds(t1, A \cup {n}), H1)
  <2>1. SUFFICES ASSUME NEW z \in A \cup {n}, NEW e \in Sides
                 PROVE  H1[z] = Height(H1, Child(t1, z, e))
                                + IF z \in Reds(t1, A \cup {n}) THEN 0 ELSE 1
    BY <1>11 DEF Counted
  <2>2. CASE z = n
    <3>1. Height(H1, Child(t1, z, e)) = 0
      BY <1>8, <2>2 DEF Height
    <3>. QED  BY <1>7, <1>11, <2>2, <3>1
  <2>3. CASE z # n
    <3>1. Height(H1, Child(t1, z, e)) = Height(H, Child(t, z, e))
      <4>1. CASE z = p /\ e = d
        BY <1>6, <1>8, <1>11, <2>3, <4>1 DEF Height
      <4>2. CASE ~(z = p /\ e = d)
        <5>1. Child(t1, z, e) = Child(t, z, e)
          BY <1>8, <2>3, <4>2
        <5>2. Child(t, z, e) = Null \/ Child(t, z, e) \in A
          BY <2>3, ChildFacts
        <5>. QED  BY <1>11, <5>1, <5>2 DEF Height
      <4>. QED  BY <4>1, <4>2
    <3>2. z \in Reds(t1, A \cup {n}) <=> z \in Reds(t, A)
      BY <1>7, <2>3
    <3>3. H1[z] = H[z] /\ z \in A
      BY <1>11, <2>3
    <3>. QED  BY <1>9, <3>1, <3>2, <3>3
  <2>. QED  BY <2>2, <2>3
<1>13. \A z \in Nodes \ (A \cup {n}) : t1[z] = Erased
  BY <1>1, <1>2
<1>14. Child(t1, Dummy, RIGHT) = top
  BY <1>1, <1>2 DEF Child
<1>15. \A z \in A : t1[z].data = t[z].data
  BY <1>2
<1>. QED  BY <1>2, <1>5, <1>7, <1>8, <1>12, <1>13, <1>14, <1>15 DEF Leafed

\* The new leaf n has a red parent p, under g, under y; its uncle is black.
NewPair(t, A, top, sub, H, n, p, d, g, l, y) ==
  /\ t \in Trees /\ A \in SUBSET Nodes /\ Shape(t, A, top, sub) /\ Balanced(t, A, H)
  /\ \A z \in Nodes \ A : t[z] = Erased
  /\ n \in Nodes /\ n \notin A
  /\ p \in A /\ d \in Sides /\ Child(t, p, d) = Null /\ IsRed(t, p)
  /\ g \in A /\ l \in Sides /\ p = Child(t, g, l) /\ ~IsRed(t, Child(t, g, 1 - l))
  /\ \/ y = Dummy /\ g = top
     \/ y \in A /\ \E r \in Sides : Child(t, y, r) = g

\* Where the new leaf stands if its parent is red.
LEMMA NewPairFacts ==
  ASSUME NEW t, NEW A, NEW top, NEW sub, NEW H, NEW n, NEW p, NEW d, NEW g, NEW l,
         NEW y, NewPair(t, A, top, sub, H, n, p, d, g, l, y), NEW k,
         NEW t1, NEW sub1, NEW H1, Leafed(t, A, top, H, p, d, n, k, t1, sub1, H1),
         NEW B, B = A \cup {n}
  PROVE  /\ p # Null /\ n \in Reds(t1, B)
         /\ p \in Reds(t1, B) /\ g \notin Reds(t1, B)
         /\ Child(t1, g, l) = p /\ Child(t1, p, d) = n
         /\ Child(t1, g, 1 - l) \notin Reds(t1, B)
         /\ Child(t1, p, 1 - d) \notin Reds(t1, B)
         /\ \A z \in B, r \in Sides :
              z \in Reds(t1, B) /\ z # p => Child(t1, z, r) \notin Reds(t1, B)
         /\ (y \in B /\ Child(t1, y, SideOf(t1, g, y)) = g) \/ (y = Dummy /\ g = top)
<1>1. /\ t \in Trees /\ A \in SUBSET Nodes /\ Shape(t, A, top, sub) /\ Balanced(t, A, H)
      /\ n \in Nodes /\ n \notin A
      /\ p \in A /\ d \in Sides /\ Child(t, p, d) = Null /\ IsRed(t, p)
      /\ g \in A /\ l \in Sides /\ p = Child(t, g, l) /\ ~IsRed(t, Child(t, g, 1 - l))
      /\ \/ y = Dummy /\ g = top
         \/ y \in A /\ \E r \in Sides : Child(t, y, r) = g
  BY DEF NewPair
<1>2. /\ \A z \in B, e \in Sides :
           Child(t1, z, e) = IF z = n THEN Null
                             ELSE IF z = p /\ e = d THEN n ELSE Child(t, z, e)
      /\ \A z : z \in Reds(t1, B) <=> z = n \/ z \in Reds(t, A)
  BY DEF Leafed
<1>3. Null \notin A /\ n # Null /\ n # p /\ n # g
  BY <1>1, OneParent, AddressAssumption
<1>4. /\ \A z \in A : z \in Reds(t, A) <=> IsRed(t, z)
      /\ \A z : z \in Reds(t, A) => z \in A
  BY <1>3 DEF Reds, IsRed
<1>5. 1 - d \in Sides /\ 1 - l \in Sides /\ 1 - d # d /\ 1 - l # l
  BY <1>1, SideFacts
<1>6. \A z \in A, r \in Sides : IsRed(t, z) => ~IsRed(t, Child(t, z, r))
  BY <1>1 DEF Balanced
<1>7. p # g
  BY <1>1, <1>3, ChildFacts
<1>8. \A z \in A, r \in Sides : Child(t, z, r) # n
  BY <1>1, <1>3, ChildrenFacts
<1>9. ~IsRed(t, g)
  BY <1>1, <1>6
<1>10. Child(t1, g, l) = p /\ Child(t1, p, d) = n
  BY <1>1, <1>2, <1>3, <1>7
<1>11. Child(t1, g, 1 - l) \notin Reds(t1, B)
  <2>1. Child(t1, g, 1 - l) = Child(t, g, 1 - l)
    BY <1>1, <1>2, <1>3, <1>5, <1>7
  <2>. QED  BY <1>1, <1>2, <1>4, <1>5, <1>8, <2>1
<1>12. Child(t1, p, 1 - d) \notin Reds(t1, B)
  <2>1. Child(t1, p, 1 - d) = Child(t, p, 1 - d)
    BY <1>1, <1>2, <1>3, <1>5
  <2>. QED  BY <1>1, <1>2, <1>4, <1>5, <1>6, <1>8, <2>1
<1>13. \A z \in B, r \in Sides :
         z \in Reds(t1, B) /\ z # p => Child(t1, z, r) \notin Reds(t1, B)
  <2>1. TAKE z \in B, r \in Sides
  <2>2. HAVE z \in Reds(t1, B) /\ z # p
  <2>3. CASE z = n
    <3>1. Child(t1, z, r) = Null
      BY <1>2, <2>3
    <3>. QED  BY <1>2, <1>3, <1>4, <3>1
  <2>4. CASE z # n
    <3>1. Child(t1, z, r) = Child(t, z, r) /\ z \in A /\ IsRed(t, z)
      BY <1>2, <1>4, <2>2, <2>4
    <3>. QED  BY <1>2, <1>4, <1>6, <1>8, <3>1
  <2>. QED  BY <2>3, <2>4
<1>14. (y \in B /\ Child(t1, y, SideOf(t1, g, y)) = g) \/ (y = Dummy /\ g = top)
  <2>1. ASSUME y \in A, NEW r \in Sides, Child(t, y, r) = g
        PROVE  Child(t1, y, r) = g
    BY <1>1, <1>2, <1>3, <2>1
  <2>. QED  BY <1>1, <2>1, SideOfIs
<1>. QED  BY <1>1, <1>2, <1>3, <1>4, <1>9, <1>10, <1>11, <1>12, <1>13, <1>14

\* t2 is a tree of the nodes of t and of n, which has k.
Joined(t, A, n, k, t2) ==
  /\ t2 \in Trees
  /\ \A z \in A : t2[z].data = t[z].data
  /\ t2[n].data = k
  /\ \A z \in Nodes \ (A \cup {n}) : t2[z] = Erased
  /\ \E top2, sub2, H2 : /\ Shape(t2, A \cup {n}, top2, sub2)
                         /\ Balanced(t2, A \cup {n}, H2)
                         /\ Child(t2, Dummy, RIGHT) = top2

\* A rotation or two set them apart.
LEMMA JoinedTurned ==
  ASSUME NEW t, NEW A, NEW top, NEW sub, NEW H, NEW n, NEW p, NEW d, NEW g, NEW l,
         NEW y, NewPair(t, A, top, sub, H, n, p, d, g, l, y), NEW k,
         NEW t1, NEW sub1, NEW H1, Leafed(t, A, top, H, p, d, n, k, t1, sub1, H1),
         NEW t2,
         \/ d = l /\ t2 = Hung(RotateOnce(t1, g, 1 - l), y, SideOf(t1, g, y))
         \/ d = 1 - l /\ t2 = Hung(RotateTwice(t1, g, 1 - l), y, SideOf(t1, g, y))
  PROVE  Joined(t, A, n, k, t2)
<1>1. /\ n \in Nodes /\ n \notin A /\ A \in SUBSET Nodes
      /\ p \in A /\ d \in Sides /\ g \in A /\ l \in Sides
  BY DEF NewPair
<1>2. PICK B : B = A \cup {n}
  OBVIOUS
<1>3. /\ t1 \in Trees /\ Shape(t1, B, top, sub1) /\ Counted(t1, B, Reds(t1, B), H1)
      /\ \A z \in A : t1[z].data = t[z].data
      /\ t1[n].data = k
      /\ \A z \in Nodes \ B : t1[z] = Erased
      /\ Child(t1, Dummy, RIGHT) = top
  BY <1>2 DEF Leafed
<1>4. PICK e : e = SideOf(t1, g, y)
  OBVIOUS
<1>5. e \in Sides /\ 1 - l \in Sides /\ 1 - (1 - l) = l
  BY <1>1, <1>4, SideFacts DEF SideOf, Sides
<1>6. /\ p # Null /\ n \in Reds(t1, B)
      /\ p \in Reds(t1, B) /\ g \notin Reds(t1, B)
      /\ Child(t1, g, l) = p /\ Child(t1, p, d) = n
      /\ Child(t1, g, 1 - l) \notin Reds(t1, B)
      /\ Child(t1, p, 1 - d) \notin Reds(t1, B)
      /\ \A z \in B, r \in Sides :
           z \in Reds(t1, B) /\ z # p => Child(t1, z, r) \notin Reds(t1, B)
      /\ (y \in B /\ Child(t1, y, e) = g) \/ (y = Dummy /\ g = top)
  BY <1>2, <1>4, NewPairFacts
<1>7. \E top2 :
        /\ t2 \in Trees
        /\ \A z \in B : t2[z].data = t1[z].data
        /\ \A z \in (Nodes \cup {Dummy}) \ B : z # y => t2[z] = t1[z]
        /\ \A r \in Sides : y = Dummy =>
             Child(t2, Dummy, r) = IF r = e THEN top2 ELSE Child(t1, Dummy, r)
        /\ \E sub2, H2 : /\ Shape(t2, B, IF g = top THEN top2 ELSE top, sub2)
                         /\ Balanced(t2, B, H2)
  <2>. HIDE DEF Reds, Counted, Shape, Trees, Hung, RotateOnce, RotateTwice, Balanced
  <2>1. g \in B /\ p \in B
    BY <1>1, <1>2
  <2>2. CASE d = l /\ t2 = Hung(RotateOnce(t1, g, 1 - l), y, e)
    <3>1. Child(t1, p, 1 - l) \notin Reds(t1, B)
      BY <1>6, <2>2
    <3>2. /\ t2 \in Trees
          /\ \A z \in B : t2[z].data = t1[z].data
          /\ \A z \in (Nodes \cup {Dummy}) \ B : z # y => t2[z] = t1[z]
          /\ \A r \in Sides : y = Dummy =>
               Child(t2, Dummy, r) = IF r = e THEN p ELSE Child(t1, Dummy, r)
          /\ \E sub2, H2 : /\ Shape(t2, B, IF g = top THEN p ELSE top, sub2)
                           /\ Balanced(t2, B, H2)
      <4>1. t2 = Hung(RotateOnce(t1, g, 1 - l), y, e)
        BY <2>2
      <4>2. p = Child(t1, g, l) /\ l \in Sides
        BY <1>1, <1>6
      <4>3. \E sub2, H2 :
              /\ Shape(t2, B, IF g = top THEN p ELSE top, sub2)
              /\ \A z \in B : z # g => sub1[z] \subseteq sub2[z]
              /\ sub2[g] = {z \in sub1[g] : Toward(t1[p].data, t1[z].data, 1 - l)}
              /\ Balanced(t2, B, H2)
              /\ H2[p] = H1[g] /\ H2[g] = H1[p]
              /\ \A z \in B : z # g /\ z # p => H2[z] = H1[z]
        BY <1>3, <1>5, <1>6, <2>1, <3>1, <4>1, <4>2, SingleRepair
      <4>4. /\ t2 \in Trees
            /\ \A z \in B : t2[z].data = t1[z].data
            /\ \A z \in (Nodes \cup {Dummy}) \ B : z # y => t2[z] = t1[z]
            /\ \A r \in Sides : y = Dummy =>
                 Child(t2, Dummy, r) = IF r = e THEN p ELSE Child(t1, Dummy, r)
        BY <1>3, <1>5, <1>6, <2>1, <3>1, <4>1, <4>2, SingleRepair
      <4>. QED  BY <4>3, <4>4
    <3>. QED  BY <3>2
  <2>3. CASE d = 1 - l /\ t2 = Hung(RotateTwice(t1, g, 1 - l), y, e)
    <3>1. Child(t1, p, l) \notin Reds(t1, B) /\ Child(t1, p, 1 - l) = n
      BY <1>5, <1>6, <2>3
    <3>2. /\ t2 \in Trees
          /\ \A z \in B : t2[z].data = t1[z].data
          /\ \A z \in (Nodes \cup {Dummy}) \ B : z # y => t2[z] = t1[z]
          /\ \A r \in Sides : y = Dummy =>
               Child(t2, Dummy, r) = IF r = e THEN n ELSE Child(t1, Dummy, r)
          /\ \E sub2, H2 : /\ Shape(t2, B, IF g = top THEN n ELSE top, sub2)
                           /\ Balanced(t2, B, H2)
      <4>1. t2 = Hung(RotateTwice(t1, g, 1 - l), y, e)
        BY <2>3
      <4>2. p = Child(t1, g, l) /\ n = Child(t1, p, 1 - l) /\ l \in Sides
        BY <1>1, <1>6, <3>1
      <4>3. \E sub2, H2 :
              /\ Shape(t2, B, IF g = top THEN n ELSE top, sub2)
              /\ sub1[n] \subseteq sub2[n]
              /\ Balanced(t2, B, H2)
              /\ H2[n] = H1[g] /\ H2[g] = H1[p] /\ H2[p] = H1[p]
              /\ \A z \in B : z # g /\ z # n => H2[z] = H1[z]
        BY <1>3, <1>5, <1>6, <2>1, <3>1, <4>1, <4>2, DoubleRepair
      <4>4. /\ t2 \in Trees
            /\ \A z \in B : t2[z].data = t1[z].data
            /\ \A z \in (Nodes \cup {Dummy}) \ B : z # y => t2[z] = t1[z]
            /\ \A r \in Sides : y = Dummy =>
                 Child(t2, Dummy, r) = IF r = e THEN n ELSE Child(t1, Dummy, r)
        BY <1>3, <1>5, <1>6, <2>1, <3>1, <4>1, <4>2, DoubleRepair
      <4>. QED  BY <4>3, <4>4
    <3>. QED  BY <3>2
  <2>. QED  BY <1>4, <2>2, <2>3
<1>8. PICK new, sub2, H2 :
        /\ t2 \in Trees
        /\ \A z \in B : t2[z].data = t1[z].data
        /\ \A z \in (Nodes \cup {Dummy}) \ B : z # y => t2[z] = t1[z]
        /\ \A r \in Sides : y = Dummy =>
             Child(t2, Dummy, r) = IF r = e THEN new ELSE Child(t1, Dummy, r)
        /\ Shape(t2, B, IF g = top THEN new ELSE top, sub2)
        /\ Balanced(t2, B, H2)
  BY <1>7
<1>9. PICK top2 : top2 = IF g = top THEN new ELSE top
  OBVIOUS
<1>10. Shape(t2, B, top2, sub2)
  BY <1>8, <1>9
<1>11. Null \notin B /\ Dummy \notin B /\ B \subseteq Nodes /\ g \in B
  BY <1>1, <1>2, AddressAssumption
<1>12. Child(t2, Dummy, RIGHT) = top2
  <2>1. CASE y = Dummy
    <3>1. g = top /\ e = RIGHT
      BY <1>3, <1>4, <1>6, <1>11, <2>1 DEF SideOf
    <3>. QED  BY <1>8, <1>9, <2>1, <3>1 DEF Sides
  <2>2. CASE y # Dummy
    <3>1. y \in B /\ Child(t1, y, e) = g
      BY <1>6, <2>2
    <3>2. g # top
      <4>1. top # Null /\ (\A z \in B, r \in Sides : top # Null => Child(t1, z, r) # top)
        BY <1>3, <1>11, OneParent DEF Shape, Linked
      <4>. QED  BY <1>5, <3>1, <4>1
    <3>3. t2[Dummy] = t1[Dummy]
      BY <1>8, <1>11, <2>2
    <3>. QED  BY <1>3, <1>9, <3>2, <3>3 DEF Child
  <2>. QED  BY <2>1, <2>2
<1>13. /\ \A z \in A : t2[z].data = t[z].data
       /\ t2[n].data = k
       /\ \A z \in Nodes \ (A \cup {n}) : t2[z] = Erased
  BY <1>2, <1>3, <1>6, <1>8, <1>11, AddressAssumption
<1>. QED  BY <1>2, <1>8, <1>10, <1>12, <1>13 DEF Joined

\* The end of an insertion keeps the invariant.
LEMMA InsertNodeInv ==
  ASSUME RbtInv, InsertNode
  PROVE  RbtInv' /\ Keys' = Keys \cup {key} /\ key \in Data \ Keys
<1>1. Running /\ op = "insert" /\ node = Null
  BY DEF InsertNode, Running
<1>2. /\ created = TRUE /\ cutShort \in BOOLEAN
      /\ tree \in Trees /\ heap \in SUBSET Nodes /\ IsFiniteSet(heap)
      /\ root \in heap /\ length = Cardinality(heap)
      /\ \A z \in Nodes \ heap : tree[z] = Erased
  BY <1>1, RunningFacts
<1>3. PICK top, sub, H : \E h \in Nat :
        /\ top = Top /\ Shape(tree, heap, top, sub) /\ Balanced(tree, heap, H)
        /\ InsertInv(sub, H, h)
  BY <1>1, RunningFacts
<1>4. PICK h \in Nat :
        /\ top = Top /\ Shape(tree, heap, top, sub) /\ Balanced(tree, heap, H)
        /\ InsertInv(sub, H, h)
  BY <1>3
<1>5. Null \notin heap /\ Dummy \notin heap
  BY <1>2, AddressAssumption
<1>6. direction \in Sides /\ prevDirection \in Sides
  BY DEF RbtInv, Frame, TypeOK
<1>7. Child(tree, Dummy, RIGHT) = top /\ top \in heap
  BY <1>2, <1>4 DEF Top, Shape, Linked
<1>8. /\ key \in Data \ Keys
      /\ parent \in heap /\ direction = Turn(parent)
      /\ Child(tree, parent, direction) = Null
      /\ Path(tree, heap, sub, parent, key)
      /\ grandparent \in heap \cup {Null}
      /\ grandparent # Null => prevDirection = Turn(grandparent)
      /\ Ready
  BY <1>1, <1>4, <1>5, <1>7 DEF InsertInv
<1>9. PICK x \in Nodes \ heap :
        /\ Finished(Repaired([tree EXCEPT ![x] = NewNode(parent, key, TRUE),
                                          ![parent].child[direction] = x], x))
        /\ heap' = heap \cup {x}
  BY DEF InsertNode
<1>10. length' = length + 1 /\ Return /\ UNCHANGED <<created, cutShort>>
  BY DEF InsertNode
<1>11. PICK t1, t2 : t1 = AddTree(tree, parent, direction, x, key) /\ t2 = Repaired(t1, x)
  OBVIOUS
<1>12. Finished(t2)
  BY <1>9, <1>11 DEF AddTree
<1>13. \A z \in heap : tree[z].data # key
  BY <1>8 DEF Keys
<1>14. direction = Aim(tree, parent, key)
  BY <1>8 DEF Turn, Way, Aim
<1>15. PICK sub1, H1 : Leafed(tree, heap, top, H, parent, direction, x, key, t1, sub1, H1)
  BY <1>2, <1>4, <1>6, <1>7, <1>8, <1>9, <1>11, <1>13, <1>14, LeafedIs
<1>16. PICK B : B = heap \cup {x}
  OBVIOUS
<1>17. /\ t1 \in Trees
       /\ \A z \in heap : t1[z].data = tree[z].data
       /\ t1[x].data = key
       /\ \A z \in Nodes \ B : t1[z] = Erased
       /\ Child(t1, Dummy, RIGHT) = top
       /\ \A z \in B, e \in Sides :
            Child(t1, z, e) = IF z = x THEN Null
                              ELSE IF z = parent /\ e = direction THEN x ELSE Child(tree, z, e)
       /\ Shape(t1, B, top, sub1)
       /\ Counted(t1, B, Reds(t1, B), H1)
       /\ \A z : z \in Reds(t1, B) <=> z = x \/ z \in Reds(tree, heap)
  BY <1>15, <1>16 DEF Leafed
<1>18. /\ IsRed(t1, x) /\ x # Null /\ x # parent
       /\ IsRed(t1, parent) <=> IsRed(tree, parent)
  <2>1. x # Null /\ parent # Null /\ x # parent
    BY <1>5, <1>8, <1>9, AddressAssumption
  <2>. QED  BY <1>8, <1>16, <1>17, <2>1 DEF Reds, IsRed
<1>19. x = Child(t1, parent, direction)
  BY <1>6, <1>8, <1>16, <1>17, <1>18
<1>20. Joined(tree, heap, x, key, t2)
  <2>1. CASE ~IsRed(tree, parent)
    <3>1. t2 = t1
      BY <1>11, <1>18, <2>1, RepairedIs
    <3>2. Apart(t1, B, Reds(t1, B))
      <4>1. SUFFICES ASSUME NEW z \in B, NEW r \in Sides, z \in Reds(t1, B)
                     PROVE  Child(t1, z, r) \notin Reds(t1, B)
        BY DEF Apart
      <4>2. \A w : w \in Reds(tree, heap) => w \in heap /\ IsRed(tree, w)
        BY <1>5 DEF Reds, IsRed
      <4>3. CASE z = x
        <5>1. Child(t1, z, r) = Null
          BY <1>17, <4>3
        <5>. QED  BY <1>5, <1>17, <1>18, <4>2, <5>1
      <4>4. CASE z # x
        <5>1. z \in heap /\ IsRed(tree, z) /\ z # parent
          BY <1>17, <2>1, <4>1, <4>2, <4>4
        <5>2. Child(t1, z, r) = Child(tree, z, r)
          BY <1>17, <4>4, <5>1
        <5>3. ~IsRed(tree, Child(tree, z, r))
          BY <1>4, <5>1 DEF Balanced
        <5>4. Child(tree, z, r) # x
          BY <1>4, <1>9, <1>18, <5>1, ChildrenFacts
        <5>. QED  BY <1>17, <4>2, <5>2, <5>3, <5>4
      <4>. QED  BY <4>3, <4>4
    <3>3. Balanced(t1, B, H1)
      BY <1>17, <3>2, BalancedIs
    <3>. QED  BY <1>16, <1>17, <3>1, <3>3 DEF Joined
  <2>2. CASE IsRed(tree, parent)
    <3>1. ~Quiet(node)
      BY <1>1 DEF Quiet
    <3>2. /\ GrandRight /\ GreatRight
          /\ ~IsRed(tree, Child(tree, grandparent, 1 - prevDirection))
      BY <1>8, <2>2, <3>1 DEF Ready
    <3>3. grandparent \in heap /\ Child(tree, grandparent, prevDirection) = parent
      BY <3>2 DEF GrandRight
    <3>4. \/ greatgrandparent = Dummy /\ grandparent = top
          \/ /\ greatgrandparent \in heap
             /\ \E r \in Sides : Child(tree, greatgrandparent, r) = grandparent
      BY <1>4, <3>2 DEF GreatRight
    <3>5. NewPair(tree, heap, top, sub, H, x, parent, direction, grandparent,
                  prevDirection, greatgrandparent)
      BY <1>2, <1>4, <1>6, <1>8, <1>9, <2>2, <3>2, <3>3, <3>4 DEF NewPair
    <3>6. \/ /\ direction = prevDirection
             /\ t2 = Hung(RotateOnce(t1, grandparent, 1 - prevDirection), greatgrandparent,
                          SideOf(t1, grandparent, greatgrandparent))
          \/ /\ direction = 1 - prevDirection
             /\ t2 = Hung(RotateTwice(t1, grandparent, 1 - prevDirection), greatgrandparent,
                          SideOf(t1, grandparent, greatgrandparent))
      <4>1. direction = prevDirection \/ direction = 1 - prevDirection
        BY <1>6, SideFacts
      <4>2. CASE direction = prevDirection
        BY <1>11, <1>18, <1>19, <2>2, <4>2, RepairedIs
      <4>3. CASE direction = 1 - prevDirection
        <5>1. direction # prevDirection
          BY <1>6, <4>3, SideFacts
        <5>2. \A r \in Sides : Child(t1, parent, r) = x => r = direction
          BY <1>8, <1>16, <1>17, <1>18, <1>19, <1>6, OneParent
        <5>3. x # Child(t1, parent, prevDirection)
          BY <1>6, <5>1, <5>2
        <5>. QED  BY <1>11, <1>18, <2>2, <4>3, <5>3, RepairedIs
      <4>. QED  BY <4>1, <4>2, <4>3
    <3>. QED  BY <1>15, <3>5, <3>6, JoinedTurned
  <2>. QED  BY <2>1, <2>2
<1>21. /\ t2 \in Trees
       /\ \A z \in heap : t2[z].data = tree[z].data
       /\ t2[x].data = key
       /\ \A z \in Nodes \ B : t2[z] = Erased
  BY <1>16, <1>20 DEF Joined
<1>22. PICK top2, sub2, H2 :
         /\ Shape(t2, B, top2, sub2) /\ Balanced(t2, B, H2)
         /\ Child(t2, Dummy, RIGHT) = top2
  BY <1>16, <1>20 DEF Joined
<1>23. /\ B \in SUBSET Nodes /\ IsFiniteSet(B) /\ heap' = B
       /\ Cardinality(B) = Cardinality(heap) + 1
  BY <1>2, <1>9, <1>16, FS_AddElement
<1>24. RbtInv' /\ \A z \in Nodes : tree'[z].data = t2[z].data
  BY <1>2, <1>10, <1>12, <1>21, <1>22, <1>23, FinishedInv
<1>25. Keys' = Keys \cup {key}
  <2>1. Keys' = {t2[z].data : z \in B}
    BY <1>23, <1>24 DEF Keys
  <2>2. \A z \in heap : t2[z].data = tree[z].data
    BY <1>21
  <2>. QED  BY <1>16, <1>21, <2>1, <2>2 DEF Keys
<1>. QED  BY <1>8, <1>24, <1>25

-----------------------------------------------------------------------------
(* The theorems.                                                           *)

\* A deletion that has come to nothing has met all nodes that could have its
\* datum.
LEMMA DeleteNothingKeys ==
  ASSUME RbtInv, DeleteNothing
  PROVE  Keys' = Keys \ {key}
<1>1. Running /\ op = "delete" /\ Child(tree, node, direction) = Null /\ target = Null
      /\ heap' = heap /\ Finished(tree)
  BY DEF DeleteNothing, Running
<1>2. tree \in Trees /\ heap \in SUBSET Nodes /\ root \in heap
  BY <1>1, RunningFacts
<1>3. PICK top, sub, H : \E h \in Nat :
        top = Top /\ Shape(tree, heap, top, sub) /\ DeleteInv(sub, H, h)
  BY <1>1, RunningFacts
<1>4. PICK h \in Nat : top = Top /\ Shape(tree, heap, top, sub) /\ DeleteInv(sub, H, h)
  BY <1>3
<1>5. Null \notin heap /\ Dummy \notin heap
  BY <1>2, AddressAssumption
<1>6. key \in Data /\ key \in Int
  <2>1. key \in Data
    BY <1>4, DeleteInvIs
  <2>. QED  BY <2>1, DataAssumption
<1>7. Sent(tree, heap, sub, key, node, direction, target)
  <2>1. top \in heap
    BY <1>2, <1>4 DEF Shape, Linked
  <2>2. ~(node = Dummy /\ direction = RIGHT)
    BY <1>1, <1>4, <1>5, <2>1 DEF Top
  <2>. QED  BY <1>4, <2>2, DeleteInvIs
<1>8. /\ node \in heap /\ direction = (IF tree[node].data < key THEN RIGHT ELSE LEFT)
      /\ direction \in Sides
      /\ \A y \in heap : tree[y].data = key => y # node /\ y \in sub[node]
  BY <1>1, <1>7 DEF Sent, Wanted, Sides
<1>9. \A y \in heap : tree[y].data # key
  <2>1. SUFFICES ASSUME NEW y \in heap, tree[y].data = key  PROVE FALSE
    OBVIOUS
  <2>2. tree[node].data \in Int /\ tree[node].data # key
    BY <1>4, <1>8, <2>1, DataAreInts
  <2>3. Toward(tree[node].data, key, direction)
    BY <1>6, <1>8, <2>2, Sought
  <2>4. y \in Part(tree, sub, node, direction)
    BY <1>8, <2>1, <2>3 DEF Part
  <2>. QED  BY <1>1, <1>4, <1>8, <2>4 DEF Shape, Linked
<1>10. key \notin Keys
  BY <1>9 DEF Keys
<1>11. \A x \in heap : tree'[x].data = tree[x].data
  BY <1>1, <1>2, FinishedIs
<1>. QED  BY <1>1, <1>10, <1>11, KeysSame

\* An insertion that fails leaves the keys.
LEMMA InsertFailsKeys ==
  ASSUME RbtInv, InsertFails
  PROVE  Keys' = Keys /\ key \in Data
<1>1. Running /\ op = "insert" /\ heap' = heap /\ tree' = [tree EXCEPT ![Dummy] = Erased]
  BY DEF InsertFails, Running
<1>2. tree \in Trees /\ heap \in SUBSET Nodes
  BY <1>1, RunningFacts
<1>3. \E sub, H : \E h \in Nat : InsertInv(sub, H, h)
  BY <1>1, RunningFacts
<1>4. key \in Data
  BY <1>3 DEF InsertInv
<1>5. \A x \in heap : tree'[x] = tree[x]
  BY <1>1, <1>2, AddressAssumption DEF Trees
<1>. QED  BY <1>1, <1>4, <1>5, KeysSame

\* A wiping takes one key at a time.
LEMMA WipeLeafKeys ==
  ASSUME RbtInv, WipeLeaf
  PROVE  \E k \in Keys : Keys' = Keys \ {k}
<1>1. /\ node \in heap /\ heap' = heap \ {node}
      /\ \A x \in heap' : tree'[x].data = tree[x].data
  BY WipeLeafInv
<1>2. \A x, y \in heap : tree[x].data = tree[y].data => x = y
  BY DEF RbtInv, Shape, Ordered
<1>3. Keys' = Keys \ {tree[node].data}
  BY <1>1, <1>2 DEF Keys
<1>4. tree[node].data \in Keys
  BY <1>1 DEF Keys
<1>. QED  BY <1>3, <1>4

\* A step of the data: one of the set's, or none.
KeyStep == [Set!Next]_(Set!vars)

\* Nothing happens to the invariant when nothing happens.
LEMMA StutterInv ==
  ASSUME RbtInv, UNCHANGED vars
  PROVE  RbtInv'
<1>. USE DEF vars, rbt, call, place
<1>1. /\ Frame' /\ RootInv'
  BY DEF RbtInv, Frame, TypeOK, RootInv, Running, Wiping
<1>2. PICK top, sub : Shape(tree, heap, top, sub) /\ CallInv(top, sub)
  BY DEF RbtInv
<1>3. Shape(tree, heap, top, sub)'
  BY <1>2
<1>4. \A H, h : /\ InsertInv(sub, H, h) => InsertInv(sub, H, h)'
                /\ DeleteInv(sub, H, h) => DeleteInv(sub, H, h)'
  <2>1. Ready => Ready'
    BY DEF Ready, Quiet, Turn, Way, AboveRight, GrandRight, GreatRight, Top
  <2>2. \A H, h : Paid(H, h) => Paid(H, h)'
    BY DEF Paid, Quiet, Turn, Way
  <2>3. \A H, h : InsertInv(sub, H, h) => InsertInv(sub, H, h)'
    BY <2>1, <2>2 DEF InsertInv, Turn, Way, Top, Keys
  <2>4. \A H, h : DeleteInv(sub, H, h) => DeleteInv(sub, H, h)'
    BY DEF DeleteInv, Turn, Way, Top, IsAbove
  <2>. QED  BY <2>3, <2>4
<1>5. CallInv(top, sub)'
  BY <1>2, <1>4 DEF CallInv, Running, Top
<1>. QED  BY <1>1, <1>3, <1>5 DEF RbtInv

\* Each action keeps the invariant, and does to the data what the set does.
LEMMA NextKeeps ==
  ASSUME RbtInv, [Next]_vars
  PROVE  RbtInv' /\ KeyStep
<1>. USE DEF KeyStep
<1>1. CASE Create
  <2>1. Keys' = Keys /\ op' = op /\ key' = key
    BY <1>1 DEF Create, call, place, Keys
  <2>. QED  BY <1>1, <2>1, CreateInv DEF Set!vars
<1>2. ASSUME NEW k \in Data \ Keys, InsertRoot(k)
      PROVE  RbtInv' /\ KeyStep
  <2>1. RbtInv' /\ Keys = {} /\ Keys' = {k}
    BY <1>2, InsertRootInv
  <2>2. op = "none" /\ op' = op
    BY <1>2 DEF InsertRoot, call, place
  <2>3. Set!Insert(k)
    BY <2>1, <2>2 DEF Set!Insert, Set!Idle
  <2>. QED  BY <2>1, <2>3 DEF Set!Next
<1>3. ASSUME NEW k \in Data \ Keys, BeginInsert(k)
      PROVE  RbtInv' /\ KeyStep
  <2>1. RbtInv' /\ Keys' = Keys
    BY <1>3, BeginInsertInv
  <2>2. op = "none" /\ op' = "insert" /\ key' = k
    BY <1>3 DEF BeginInsert, Usable
  <2>3. Set!Begin(<<"insert", k>>)
    BY <2>1, <2>2 DEF Set!Begin, Set!Idle
  <2>. QED  BY <2>1, <2>3 DEF Set!Next
<1>4. CASE InsertPass
  <2>1. Keys' = Keys /\ op' = op /\ key' = key
    BY <1>4, InsertPassInv, InsertPassIs
  <2>. QED  BY <1>4, <2>1, InsertPassInv DEF Set!vars
<1>5. CASE InsertNode
  <2>1. RbtInv' /\ Keys' = Keys \cup {key} /\ key \in Data \ Keys
    BY <1>5, InsertNodeInv
  <2>2. op = "insert" /\ op' = "none"
    BY <1>5 DEF InsertNode, Return
  <2>3. Set!Insert(key)
    BY <2>1, <2>2 DEF Set!Insert, Set!Idle
  <2>. QED  BY <2>1, <2>3 DEF Set!Next
<1>6. CASE InsertFails
  <2>1. RbtInv' /\ Keys' = Keys /\ key \in Data
    BY <1>6, InsertFailsInv, InsertFailsKeys
  <2>2. op = "insert" /\ op' = "none"
    BY <1>6 DEF InsertFails, Return
  <2>3. Set!NoSpace
    BY <2>1, <2>2 DEF Set!NoSpace, Set!Idle
  <2>. QED  BY <2>1, <2>3 DEF Set!Next
<1>7. ASSUME NEW k \in Data, BeginDelete(k)
      PROVE  RbtInv' /\ KeyStep
  <2>1. RbtInv' /\ Keys' = Keys
    BY <1>7, BeginDeleteInv
  <2>2. op = "none" /\ op' = "delete" /\ key' = k
    BY <1>7 DEF BeginDelete, Usable
  <2>3. Set!Begin(<<"delete", k>>)
    BY <2>1, <2>2 DEF Set!Begin, Set!Idle
  <2>. QED  BY <2>1, <2>3 DEF Set!Next
<1>8. CASE DeletePass
  <2>1. Keys' = Keys /\ op' = op /\ key' = key
    BY <1>8, DeletePassInv DEF DeletePass
  <2>. QED  BY <1>8, <2>1, DeletePassInv DEF Set!vars
<1>9. ASSUME op = "delete", op' = "none", RbtInv', Keys' = Keys \ {key}
      PROVE  RbtInv' /\ KeyStep
  <2>1. key \in Data
    <3>1. \E sub, H : \E h \in Nat : DeleteInv(sub, H, h)
      BY <1>9, RunningFacts DEF Running
    <3>. QED  BY <3>1 DEF DeleteInv
  <2>2. Set!Delete(key)
    BY <1>9 DEF Set!Delete, Set!Idle
  <2>. QED  BY <1>9, <2>1, <2>2 DEF Set!Next
<1>10. CASE DeleteTarget
  <2>1. RbtInv' /\ Keys' = Keys \ {key}
    BY <1>10, DeleteTargetInv
  <2>2. op = "delete" /\ op' = "none"
    BY <1>10 DEF DeleteTarget, Return
  <2>. QED  BY <1>9, <2>1, <2>2
<1>11. CASE DeleteNothing
  <2>1. RbtInv' /\ Keys' = Keys \ {key}
    BY <1>11, DeleteNothingInv, DeleteNothingKeys
  <2>2. op = "delete" /\ op' = "none"
    BY <1>11 DEF DeleteNothing, Return
  <2>. QED  BY <1>9, <2>1, <2>2
<1>12. ASSUME NEW o \in {"clear", "destroy"}, BeginWipe(o)
       PROVE  RbtInv' /\ KeyStep
  <2>1. op = "none" /\ op' = o /\ Keys' = Keys
    BY <1>12 DEF BeginWipe, rbt, Keys
  <2>2. Set!Begin(<<"wipe">>)
    BY <2>1 DEF Set!Begin, Set!Idle
  <2>. QED  BY <1>12, <2>2, BeginWipeInv DEF Set!Next
<1>13. CASE WipeDescend
  <2>1. Keys' = Keys /\ op' = op /\ key' = key
    BY <1>13 DEF WipeDescend, rbt, Keys
  <2>. QED  BY <1>13, <2>1, WipeDescendInv DEF Set!vars
<1>14. CASE WipeLeaf
  <2>1. RbtInv' /\ \E k \in Keys : Keys' = Keys \ {k}
    BY <1>14, WipeLeafInv, WipeLeafKeys
  <2>2. op \in {"clear", "destroy"} /\ op' = op
    BY <1>14 DEF WipeLeaf, Wiping
  <2>3. Set!WipeOne
    BY <2>1, <2>2 DEF Set!WipeOne
  <2>. QED  BY <2>1, <2>3 DEF Set!Next
<1>15. CASE WipeEnd
  <2>1. op \in {"clear", "destroy"} /\ op' = "none" /\ node = Null
        /\ heap' = heap
    BY <1>15 DEF WipeEnd, Wiping, Return
  <2>2. heap = {}
    <3>1. Null \notin heap
      BY AddressAssumption DEF RbtInv, Frame, TypeOK
    <3>. QED  BY <2>1, <3>1 DEF RbtInv, RootInv, Wiping
  <2>3. Keys' = {}
    BY <2>1, <2>2 DEF Keys
  <2>4. Set!WipeEnd
    BY <2>1, <2>3 DEF Set!WipeEnd, Set!Idle
  <2>. QED  BY <1>15, <2>4, WipeEndInv DEF Set!Next
<1>16. CASE UNCHANGED vars
  <2>1. Keys' = Keys /\ op' = op /\ key' = key
    BY <1>16 DEF vars, rbt, call, place, Keys
  <2>. QED  BY <1>16, <2>1, StutterInv DEF Set!vars
<1>. QED
  BY <1>1, <1>2, <1>3, <1>4, <1>5, <1>6, <1>7, <1>8, <1>10, <1>11, <1>12, <1>13,
     <1>14, <1>15, <1>16 DEF Next

\* At first there are no keys.
LEMMA InitKeeps ==
  ASSUME Init
  PROVE  RbtInv /\ Set!Init
<1>1. Keys = {} /\ op = "none"
  BY DEF Init, Keys
<1>. QED  BY <1>1, InitInv DEF Set!Init, Set!Idle

\* In every state there are sets of nodes below the nodes, and heights, as the
\* tree and the running call need them.
THEOREM RbtInvariant == Spec => []RbtInv
<1>1. RbtInv /\ [Next]_vars => RbtInv'
  BY NextKeeps
<1>. QED  BY <1>1, InitKeeps, PTL DEF Spec

\* Whatever the calls do to the nodes, the tree is a set of data for them.
THEOREM TreeIsSet == Spec => TreeImplementsSet
<1>1. RbtInv /\ [Next]_vars => RbtInv' /\ [Set!Next]_(Set!vars)
  BY NextKeeps DEF KeyStep
<1>2. Init => RbtInv /\ Set!Init
  BY InitKeeps
<1>. QED  BY <1>1, <1>2, PTL DEF Spec, TreeImplementsSet, Set!Spec

\* What a call has paid for its turns bounds their number.
LEMMA ShortCalls ==
  ASSUME RbtInv
  PROVE  CallsAreShort
<1>1. PICK n : n = Cardinality(heap)
  OBVIOUS
<1>2. n \in Nat /\ passes \in Nat
  BY <1>1, FS_CardinalityType DEF RbtInv, Frame, TypeOK
<1>3. \A j \in Nat : Power[j] \in Nat
  BY PowerFacts
<1>4. CASE ~Running
  <2>1. passes = 0
    BY <1>4 DEF RbtInv, RootInv
  <2>2. 1 <= (n + 1) * (n + 1) * (n + 1)
    <3>1. (n + 1) * (n + 1) \in Nat /\ (n + 1) * (n + 1) >= 1
      BY <1>2
    <3>. QED  BY <1>2, <3>1
  <2>. QED  BY <1>1, <2>1, <2>2, PowerFacts DEF CallsAreShort
<1>5. CASE Running
  <2>1. PICK sub, H : \E h \in Nat :
          /\ Shape(tree, heap, Top, sub) /\ Balanced(tree, heap, H)
          /\ Power[h] <= n + 1
          /\ op = "insert" => InsertInv(sub, H, h)
          /\ op = "delete" => DeleteInv(sub, H, h)
    BY <1>1, <1>5, RunningFacts
  <2>2. PICK h \in Nat :
          /\ Shape(tree, heap, Top, sub) /\ Balanced(tree, heap, H)
          /\ Power[h] <= n + 1
          /\ op = "insert" => InsertInv(sub, H, h)
          /\ op = "delete" => DeleteInv(sub, H, h)
    BY <2>1
  <2>3. passes <= 3 * h
    <3>1. CASE op = "insert"
      <4>1. InsertInv(sub, H, h)
        BY <2>2, <3>1
      <4>2. node = Null \/ node \in heap
        <5>1. tree \in Trees /\ root \in heap /\ heap \in SUBSET Nodes
          BY <1>5, RunningFacts
        <5>2. Top \in heap
          BY <2>2, <5>1 DEF Shape, Linked
        <5>3. CASE node = Top
          BY <5>2, <5>3
        <5>4. CASE parent \in heap /\ Child(tree, parent, direction) = node
          <6>1. direction \in Sides
            BY DEF RbtInv, Frame, TypeOK
          <6>. QED  BY <2>2, <5>4, <6>1, ChildFacts
        <5>. QED  BY <4>1, <5>3, <5>4 DEF InsertInv
      <4>3. Paid(H, h)
        BY <4>1 DEF InsertInv
      <4>4. CASE node = Null
        BY <4>3, <4>4 DEF Paid
      <4>5. CASE node # Null
        <5>1. PICK m \in Nat : m = H[node]
          BY <2>2, <4>2, <4>5 DEF Balanced
        <5>2. \/ passes + 3 * m + (1 - Black(tree, node)) <= 3 * h
              \/ IsRed(tree, node) /\ Quiet(Child(tree, node, Turn(node))) /\ passes + 3 * m - 1 <= 3 * h
              \/ ~IsRed(tree, node) /\ passes + 3 * m - 2 <= 3 * h
          BY <4>3, <4>5, <5>1 DEF Paid
        <5>3. Black(tree, node) = 0 \/ Black(tree, node) = 1
          BY DEF Black
        <5>4. ~IsRed(tree, node) => m >= 1
          <6>1. m = Height(H, Child(tree, node, LEFT)) + Black(tree, node)
            BY <2>2, <4>2, <4>5, <5>1 DEF Balanced, Sides
          <6>2. Child(tree, node, LEFT) = Null \/ Child(tree, node, LEFT) \in heap
            BY <2>2, <4>2, <4>5, ChildFacts DEF Sides
          <6>3. Height(H, Child(tree, node, LEFT)) \in Nat
            BY <2>2, <6>2 DEF Height, Balanced
          <6>4. ~IsRed(tree, node) => Black(tree, node) = 1
            BY <4>5 DEF IsRed, Black
          <6>. QED  BY <6>1, <6>3, <6>4
        <5>5. IsRed(tree, node) /\ Quiet(Child(tree, node, Turn(node))) => m >= 1
          <6>1. SUFFICES ASSUME IsRed(tree, node), Quiet(Child(tree, node, Turn(node)))
                         PROVE  m >= 1
            OBVIOUS
          <6>2. PICK c : c = Child(tree, node, Turn(node))
            OBVIOUS
          <6>3. Turn(node) \in Sides
            BY DEF Turn, Way, Sides
          <6>4. c # Null /\ c \in heap /\ ~IsRed(tree, c)
            <7>1. c # Null
              BY <6>1, <6>2 DEF Quiet
            <7>2. c \in heap
              BY <2>2, <4>2, <4>5, <6>2, <6>3, <7>1, ChildFacts
            <7>. QED  BY <2>2, <4>2, <4>5, <6>1, <6>2, <6>3, <7>1, <7>2 DEF Balanced
          <6>5. m = H[c] + 0
            BY <2>2, <4>2, <4>5, <5>1, <6>1, <6>2, <6>3, <6>4 DEF Balanced, Height, Black, IsRed
          <6>6. H[c] = Height(H, Child(tree, c, LEFT)) + 1
            BY <2>2, <6>4 DEF Balanced, Sides, Black, IsRed
          <6>7. Child(tree, c, LEFT) = Null \/ Child(tree, c, LEFT) \in heap
            BY <2>2, <6>4, ChildFacts DEF Sides
          <6>8. Height(H, Child(tree, c, LEFT)) \in Nat
            BY <2>2, <6>7 DEF Height, Balanced
          <6>. QED  BY <6>5, <6>6, <6>8
        <5>6. CASE passes + 3 * m + (1 - Black(tree, node)) <= 3 * h
          <6>1. PICK b : b = Black(tree, node)
            OBVIOUS
          <6>. QED  BY <1>2, <5>1, <5>3, <5>6, <6>1
        <5>7. CASE m >= 1 /\ (passes + 3 * m - 1 <= 3 * h \/ passes + 3 * m - 2 <= 3 * h)
          BY <1>2, <5>1, <5>7
        <5>. QED  BY <5>2, <5>4, <5>5, <5>6, <5>7
      <4>. QED  BY <4>4, <4>5
    <3>2. CASE op = "delete"
      <4>1. PICK c, a : c = Child(tree, node, direction) /\ a = Height(H, c)
        OBVIOUS
      <4>2. passes + 2 * a + (IF IsRed(tree, c) THEN 1 ELSE 0) <= 2 * h
        BY <2>2, <3>2, <4>1 DEF DeleteInv
      <4>3. a \in Nat
        <5>1. c = Null \/ c \in heap
          <6>1. root \in heap /\ direction \in Sides
            BY <1>5, RunningFacts DEF RbtInv, Frame, TypeOK
          <6>2. Top \in heap
            BY <2>2, <6>1 DEF Shape, Linked
          <6>3. CASE node = Dummy /\ direction = RIGHT
            BY <4>1, <6>2, <6>3 DEF Top
          <6>4. CASE node \in heap
            BY <2>2, <4>1, <6>1, <6>4, ChildFacts
          <6>. QED  BY <2>2, <3>2, <6>3, <6>4 DEF DeleteInv
        <5>. QED  BY <2>2, <4>1, <5>1 DEF Height, Balanced
      <4>. QED
        <5>1. passes + 2 * a + 1 <= 2 * h \/ passes + 2 * a + 0 <= 2 * h
          BY <4>2
        <5>. QED  BY <1>2, <2>2, <4>3, <5>1
    <3>. QED  BY <1>5, <3>1, <3>2 DEF Running
  <2>4. Power[passes] <= Power[3 * h] /\ Power[3 * h] = Power[h] * Power[h] * Power[h]
    <3>1. 3 * h \in Nat
      BY <2>2
    <3>. QED  BY <1>2, <2>2, <2>3, <3>1, PowerFacts
  <2>5. Power[h] * Power[h] * Power[h] <= (n + 1) * (n + 1) * (n + 1)
    <3>1. PICK b : b = Power[h] /\ b \in Nat /\ b <= n + 1
      BY <1>3, <2>2
    <3>2. b * b \in Nat /\ (n + 1) * (n + 1) \in Nat /\ b * b <= (n + 1) * (n + 1)
      BY <1>2, <3>1
    <3>3. b * b * b <= (n + 1) * (n + 1) * b
      BY <1>2, <3>1, <3>2
    <3>4. (n + 1) * (n + 1) * b <= (n + 1) * (n + 1) * (n + 1)
      BY <1>2, <3>1, <3>2
    <3>5. b * b * b \in Nat /\ (n + 1) * (n + 1) * b \in Nat /\ (n + 1) * (n + 1) * (n + 1) \in Nat
      <4>1. \A x, y \in Nat : x * y \in Nat
        OBVIOUS
      <4>2. PICK c, d, e : c = (n + 1) * (n + 1) /\ d = b * b /\ e = n + 1
        OBVIOUS
      <4>3. c \in Nat /\ d \in Nat /\ e \in Nat
        BY <1>2, <3>2, <4>2
      <4>4. d * b \in Nat /\ c * b \in Nat /\ c * e \in Nat
        BY <3>1, <4>1, <4>3
      <4>. QED  BY <4>2, <4>4
    <3>. QED  BY <3>1, <3>3, <3>4, <3>5
  <2>6. /\ Power[passes] \in Nat /\ Power[h] * Power[h] * Power[h] \in Nat
        /\ (n + 1) * (n + 1) * (n + 1) \in Nat
    <3>1. Power[passes] \in Nat /\ Power[3 * h] \in Nat
      BY <1>2, <1>3, <2>2
    <3>2. (n + 1) * (n + 1) \in Nat
      BY <1>2
    <3>. QED  BY <1>2, <2>4, <3>1, <3>2
  <2>. QED  BY <1>1, <2>4, <2>5, <2>6 DEF CallsAreShort
<1>. QED  BY <1>4, <1>5

\* A call makes no more than 3 log (n + 1) turns of its loop.
THEOREM CallsStayShort == Spec => []CallsAreShort
<1>1. RbtInv => CallsAreShort
  BY ShortCalls
<1>. QED  BY <1>1, RbtInvariant, PTL

\* The types are a part of it.
THEOREM TypesHold == Spec => []TypeOK
<1>1. RbtInv => TypeOK
  BY DEF RbtInv, Frame
<1>. QED  BY <1>1, RbtInvariant, PTL

-----------------------------------------------------------------------------
(* Between calls the tree is sound.                                        *)

\* There is a bound above all data.
LEMMA HighestIs ==
  Highest \in Nat /\ \A d \in Data : d < Highest
<1>. DEFINE Bound(n, T) == n \in {0} \cup {d + 1 : d \in T} /\ \A d \in T : d < n
            P == {T \in SUBSET Data : \E n : Bound(n, T)}
<1>1. {} \in P
  <2>1. Bound(0, {})
    OBVIOUS
  <2>. QED  BY <2>1
<1>2. ASSUME NEW T \in SUBSET Data, T # {}, \A d \in T : T \ {d} \in P
      PROVE  T \in P
  <2>1. PICK d \in T : TRUE
    BY <1>2
  <2>2. PICK n : Bound(n, T \ {d})
    BY <1>2, <2>1
  <2>3. d \in Nat /\ n \in Nat /\ T \subseteq Nat
    BY <2>1, <2>2, DataAssumption
  <2>4. CASE d < n
    <3>1. Bound(n, T)
      BY <2>2, <2>4
    <3>. QED  BY <3>1
  <2>5. CASE ~(d < n)
    <3>1. \A e \in T : e < d + 1
      <4>1. TAKE e \in T
      <4>2. e \in Nat /\ (e = d \/ e < n)
        BY <2>2, <2>3
      <4>. QED  BY <2>3, <2>5, <4>2
    <3>2. Bound(d + 1, T)
      BY <2>1, <3>1
    <3>. QED  BY <3>2
  <2>. QED  BY <2>4, <2>5
<1>3. P \in SUBSET SUBSET Data
  OBVIOUS
<1>4. Data \in P
  <2>. HIDE DEF P
  <2>1. \A T \in SUBSET Data : T \in P
    BY <1>1, <1>2, <1>3, DataAssumption, AllSubsets
  <2>. QED  BY <2>1
<1>5. \E n \in {0} \cup {d + 1 : d \in Data} : \A d \in Data : d < n
  BY <1>4
<1>6. Highest \in {0} \cup {d + 1 : d \in Data} /\ \A d \in Data : d < Highest
  BY <1>5 DEF Highest
<1>. QED  BY <1>6, DataAssumption

\* What holds of a node whenever it holds of its children, holds of all nodes.
LEMMA TreeInduction ==
  ASSUME NEW t, NEW A, NEW top, NEW sub, Shape(t, A, top, sub), IsFiniteSet(A),
         NEW P,
         \A x \in A : (\A s \in Sides : Child(t, x, s) # Null => Child(t, x, s) \in P)
                      => x \in P
  PROVE  \A x \in A : x \in P
<1>. DEFINE Size(x) == Cardinality(sub[x])
            Bad == {i \in Nat : \E x \in A : Size(x) = i /\ x \notin P}
<1>0. \A x \in A : Size(x) \in Nat
  BY PartsCounted, FS_CardinalityType
<1>. SUFFICES ASSUME Bad # {}
              PROVE  FALSE
  BY <1>0
<1>1. PICK i \in Bad : \A j \in Bad : i <= j
  <2>1. Bad \in SUBSET Nat
    OBVIOUS
  <2>. HIDE DEF Bad
  <2>. QED  BY <2>1, LeastNat
<1>2. PICK x \in A : Size(x) = i /\ x \notin P
  BY <1>1
<1>3. ASSUME NEW s \in Sides, Child(t, x, s) # Null
      PROVE  Child(t, x, s) \in P
  <2>1. Child(t, x, s) \in A /\ sub[Child(t, x, s)] = Part(t, sub, x, s)
    BY <1>3, ChildrenFacts
  <2>2. /\ \A r \in Sides : Cardinality(Part(t, sub, x, r)) \in Nat
        /\ Size(x) = 1 + Cardinality(Part(t, sub, x, LEFT)) + Cardinality(Part(t, sub, x, RIGHT))
    BY PartsCounted, FS_CardinalityType
  <2>3. Size(Child(t, x, s)) < i /\ i \in Nat /\ Size(Child(t, x, s)) \in Nat
    BY <1>2, <2>1, <2>2 DEF Sides
  <2>4. Size(Child(t, x, s)) \notin Bad
    BY <1>1, <2>3
  <2>. QED  BY <2>1, <2>3, <2>4
<1>. QED  BY <1>2, <1>3

\* What the definition of IsSubtree says of r itself, and where it goes on.
Fits(r) ==
  /\ r.node \in Within(r.lo, r.hi) /\ r.height - Black(tree, r.node) >= 0
  /\ \A s \in Sides :
       /\ Child(tree, r.node, s) # Null => tree[Child(tree, r.node, s)].parent = r.node
       /\ ~(IsRed(tree, r.node) /\ IsRed(tree, Child(tree, r.node, s)))

SubRegion(r, s) ==
  [node |-> Child(tree, r.node, s), height |-> r.height - Black(tree, r.node),
   lo |-> IF s = LEFT THEN r.lo ELSE tree[r.node].data,
   hi |-> IF s = LEFT THEN tree[r.node].data ELSE r.hi]

\* The body of that definition, for any function f in place of IsSubtree.
Holds(r, f) ==
  IF r.node = Null THEN r.height = 0 /\ Within(r.lo, r.hi) = {}
  ELSE LET x == r.node
           below == r.height - IF tree[x].isRed THEN 0 ELSE 1
       IN  /\ x \in Within(r.lo, r.hi) /\ below >= 0
           /\ \A s \in Sides :
                LET c == Child(tree, x, s)
                IN  /\ c # Null => tree[c].parent = x
                    /\ ~(IsRed(tree, x) /\ IsRed(tree, c))
                    /\ f[[node |-> c, height |-> below,
                          lo |-> IF s = LEFT THEN r.lo ELSE tree[x].data,
                          hi |-> IF s = LEFT THEN tree[x].data ELSE r.hi]]

Width(r) == IF r.lo < r.hi THEN r.hi - r.lo ELSE 0

\* What that body says, case by case.
LEMMA HoldsIs ==
  ASSUME NEW r, NEW f
  PROVE  /\ Holds(r, f) \in BOOLEAN
         /\ r.node = Null => (Holds(r, f) <=> r.height = 0 /\ Within(r.lo, r.hi) = {})
         /\ r.node # Null =>
              (Holds(r, f) <=> Fits(r) /\ \A s \in Sides : f[SubRegion(r, s)])
<1>1. Holds(r, f) \in BOOLEAN
  BY DEF Holds
<1>2. r.node = Null => (Holds(r, f) <=> r.height = 0 /\ Within(r.lo, r.hi) = {})
  BY DEF Holds
<1>3. r.node # Null =>
        (Holds(r, f) <=> Fits(r) /\ \A s \in Sides : f[SubRegion(r, s)])
  BY DEF Holds, Fits, SubRegion, Black
<1>. QED  BY <1>1, <1>2, <1>3

\* It goes on with smaller regions.
LEMMA RegionFacts ==
  ASSUME tree \in Trees, heap \subseteq Nodes, \A x \in heap : tree[x].data \in Data,
         NEW r \in Region, r.node # Null, Fits(r), NEW s \in Sides
  PROVE  SubRegion(r, s) \in Region /\ Width(SubRegion(r, s)) < Width(r)
<1>1. PICK x, k : x = r.node /\ k = tree[x].data
  OBVIOUS
<1>2. /\ r.lo \in Lowest..Highest /\ r.hi \in Lowest..Highest /\ r.height \in Nat
      /\ r.lo \in Int /\ r.hi \in Int /\ Highest \in Nat
  BY HighestIs DEF Region, Lowest
<1>3. x \in heap /\ r.lo < k /\ k < r.hi
  BY <1>1 DEF Fits, Within
<1>4. k \in Nat /\ k < Highest /\ k \in Lowest..Highest
  <2>1. k \in Data
    BY <1>1, <1>3
  <2>2. k \in Nat /\ k < Highest
    BY <2>1, HighestIs, DataAssumption
  <2>. QED  BY <1>2, <2>2 DEF Lowest
<1>5. Child(tree, x, s) \in Nodes \cup {Null}
  BY <1>3, TreeFacts
<1>6. r.height - Black(tree, x) \in Nat
  <2>1. Black(tree, x) \in {0, 1} /\ r.height - Black(tree, x) >= 0
    BY <1>1 DEF Fits, Black
  <2>. QED  BY <1>2, <2>1
<1>7. SubRegion(r, s) \in Region
  BY <1>1, <1>2, <1>4, <1>5, <1>6 DEF SubRegion, Region
<1>8. Width(SubRegion(r, s)) < Width(r)
  BY <1>1, <1>2, <1>3, <1>4 DEF SubRegion, Width, Sides
<1>. QED  BY <1>7, <1>8

\* So IsSubtree is what its definition says it is.
LEMMA IsSubtreeIs ==
  ASSUME tree \in Trees, heap \subseteq Nodes, \A x \in heap : tree[x].data \in Data
  PROVE  \A r \in Region : IsSubtree[r] <=> Holds(r, IsSubtree)
<1>. DEFINE V == BOOLEAN
            m == [r \in Region |-> Width(r)]
            G == [r \in Region |-> [f \in [Region -> V] |-> Holds(r, f)]]
            Is(f) == f = [r \in Region |-> Holds(r, f)]
<1>1. \A r \in Region : Width(r) \in Nat
  BY HighestIs DEF Region, Lowest, Width
<1>2. \A r, f : Holds(r, f) \in BOOLEAN
  BY HoldsIs
<1>3. m \in [Region -> Nat] /\ G \in [Region -> [[Region -> V] -> V]]
  BY <1>1, <1>2
<1>4. ASSUME NEW r \in Region, NEW f \in [Region -> V], NEW g \in [Region -> V],
             \A q \in Region : m[q] < m[r] => f[q] = g[q]
      PROVE  G[r][f] = G[r][g]
  <2>1. r.node # Null /\ Fits(r) => \A s \in Sides : f[SubRegion(r, s)] = g[SubRegion(r, s)]
    BY <1>4, RegionFacts
  <2>2. Holds(r, f) <=> Holds(r, g)
    BY <2>1, HoldsIs
  <2>3. Holds(r, f) = Holds(r, g)
    BY <1>2, <2>2
  <2>. QED  BY <2>3
<1>5. Recurs(Region, V, m, G)
  <2>1. V # {}
    OBVIOUS
  <2>. HIDE DEF m, G, V
  <2>. QED  BY <1>3, <1>4, <2>1 DEF Recurs
<1>6. PICK f \in [Region -> V] : \A r \in Region : f[r] = G[r][f]
  <2>. HIDE DEF m, G, V
  <2>. QED  BY <1>5, RecursionExists
<1>7. Is(f)
  <2>1. \A r \in Region : f[r] = Holds(r, f)
    BY <1>6
  <2>. QED  BY <2>1
<1>8. IsSubtree = CHOOSE g : Is(g)
  BY DEF IsSubtree, Holds
<1>9. Is(IsSubtree)
  <2>. HIDE DEF Is
  <2>. QED  BY <1>7, <1>8
<1>10. \A r \in Region : IsSubtree[r] = Holds(r, IsSubtree)
  <2>1. PICK g : g = IsSubtree
    OBVIOUS
  <2>2. g = [r \in Region |-> Holds(r, g)]
    BY <1>9, <2>1
  <2>3. \A r \in Region : g[r] = Holds(r, g)
    BY <2>2
  <2>. QED  BY <2>1, <2>3
<1>. QED  BY <1>2, <1>10

\* The subtrees of a balanced tree are what IsSubtree asks for.
LEMMA SubtreesHold ==
  ASSUME tree \in Trees, heap \subseteq Nodes, IsFiniteSet(heap),
         NEW top, NEW sub, Shape(tree, heap, top, sub), NEW H, Balanced(tree, heap, H)
  PROVE  \A x \in heap : \A lo, hi \in Lowest..Highest : sub[x] = Within(lo, hi) =>
           IsSubtree[[node |-> x, height |-> H[x], lo |-> lo, hi |-> hi]]
<1>1. \A x \in heap : tree[x].data \in Data /\ tree[x].data \in Nat
  BY DataAreInts
<1>2. \A r \in Region : IsSubtree[r] <=> Holds(r, IsSubtree)
  BY <1>1, IsSubtreeIs
<1>3. Null \notin heap /\ Highest \in Nat /\ Lowest = -1 /\ (\A d \in Data : d < Highest)
  BY OneParent, HighestIs DEF Lowest
<1>6. \A z \in heap, s \in Sides : Child(tree, z, s) = Null => Part(tree, sub, z, s) = {}
  BY DEF Shape, Linked
<1>. DEFINE Good(x) == \A lo, hi \in Lowest..Highest : sub[x] = Within(lo, hi) =>
                         IsSubtree[[node |-> x, height |-> H[x], lo |-> lo, hi |-> hi]]
            P == {x \in heap : Good(x)}
<1>4. ASSUME NEW x \in heap,
             \A s \in Sides : Child(tree, x, s) # Null => Child(tree, x, s) \in P
      PROVE  x \in P
  <2>1. SUFFICES ASSUME NEW lo \in Lowest..Highest, NEW hi \in Lowest..Highest,
                        sub[x] = Within(lo, hi)
                 PROVE  IsSubtree[[node |-> x, height |-> H[x], lo |-> lo, hi |-> hi]]
    OBVIOUS
  <2>2. PICK r : r = [node |-> x, height |-> H[x], lo |-> lo, hi |-> hi]
    OBVIOUS
  <2>3. /\ r.node = x /\ r.height = H[x] /\ r.lo = lo /\ r.hi = hi
        /\ H[x] \in Nat /\ x # Null /\ lo \in Int /\ hi \in Int
    BY <1>3, <2>2 DEF Balanced
  <2>4. r \in Region
    BY <2>2, <2>3 DEF Region
  <2>5. x \in Within(lo, hi) /\ lo < tree[x].data /\ tree[x].data < hi
    BY <2>1 DEF Shape, Nested, Within
  <2>6. ASSUME NEW s \in Sides
        PROVE  /\ Child(tree, x, s) # Null => tree[Child(tree, x, s)].parent = x
               /\ ~(IsRed(tree, x) /\ IsRed(tree, Child(tree, x, s)))
               /\ H[x] - Black(tree, x) = Height(H, Child(tree, x, s))
               /\ Height(H, Child(tree, x, s)) \in Nat
    <3>1. Child(tree, x, s) # Null =>
            Child(tree, x, s) \in heap /\ tree[Child(tree, x, s)].parent = x
      BY ChildrenFacts
    <3>2. Height(H, Child(tree, x, s)) \in Nat
      BY <3>1 DEF Height, Balanced
    <3>3. Black(tree, x) \in Nat /\ H[x] = Height(H, Child(tree, x, s)) + Black(tree, x)
      BY DEF Balanced, Black
    <3>4. ~(IsRed(tree, x) /\ IsRed(tree, Child(tree, x, s)))
      BY DEF Balanced
    <3>. QED  BY <3>1, <3>2, <3>3, <3>4
  <2>7. Fits(r)
    <3>1. LEFT \in Sides
      BY DEF Sides
    <3>2. H[x] - Black(tree, x) >= 0
      BY <2>6, <3>1
    <3>. QED  BY <2>3, <2>5, <2>6, <3>2 DEF Fits
  <2>8. ASSUME NEW s \in Sides
        PROVE  IsSubtree[SubRegion(r, s)]
    <3>1. PICK c, a, b : /\ c = Child(tree, x, s)
                         /\ a = (IF s = LEFT THEN lo ELSE tree[x].data)
                         /\ b = (IF s = LEFT THEN tree[x].data ELSE hi)
      OBVIOUS
    <3>2. SubRegion(r, s) = [node |-> c, height |-> Height(H, c), lo |-> a, hi |-> b]
      BY <2>3, <2>6, <3>1 DEF SubRegion
    <3>3. a \in Lowest..Highest /\ b \in Lowest..Highest
      <4>1. tree[x].data \in Lowest..Highest
        BY <1>1, <1>3
      <4>. QED  BY <3>1, <4>1
    <3>4. Within(a, b) = Part(tree, sub, x, s)
      <4>1. sub[x] = {y \in heap : lo < tree[y].data /\ tree[y].data < hi}
        BY <2>1 DEF Within
      <4>2. \A y \in heap : tree[y].data \in Nat
        BY <1>1
      <4>3. \A y \in heap :
              a < tree[y].data /\ tree[y].data < b <=>
              (lo < tree[y].data /\ tree[y].data < hi) /\ Toward(tree[x].data, tree[y].data, s)
        BY <2>3, <2>5, <3>1, <4>2 DEF Toward, Sides, LEFT, RIGHT
      <4>4. Within(a, b) = {y \in heap : a < tree[y].data /\ tree[y].data < b}
        BY DEF Within
      <4>. QED  BY <4>1, <4>3, <4>4 DEF Part
    <3>5. CASE c = Null
      <4>1. Part(tree, sub, x, s) = {}
        BY <1>6, <3>1, <3>5
      <4>2. PICK q : q = SubRegion(r, s)
        OBVIOUS
      <4>3. q.node = Null /\ q.height = 0 /\ q.lo = a /\ q.hi = b /\ q \in Region
        BY <3>2, <3>3, <3>5, <4>2 DEF Height, Region
      <4>4. Holds(q, IsSubtree)
        BY <3>4, <4>1, <4>3, HoldsIs
      <4>. QED  BY <1>2, <4>2, <4>3, <4>4
    <3>6. CASE c # Null
      <4>1. c \in P /\ sub[c] = Part(tree, sub, x, s)
        BY <1>4, <3>1, <3>6, ChildrenFacts
      <4>2. Height(H, c) = H[c]
        BY <3>6 DEF Height
      <4>3. Good(c)
        BY <4>1
      <4>4. IsSubtree[[node |-> c, height |-> H[c], lo |-> a, hi |-> b]]
        BY <3>3, <3>4, <4>1, <4>3
      <4>. QED  BY <3>2, <4>2, <4>4
    <3>. QED  BY <3>5, <3>6
  <2>9. Holds(r, IsSubtree)
    BY <2>3, <2>7, <2>8, HoldsIs
  <2>. QED  BY <1>2, <2>2, <2>4, <2>9
<1>5. \A x \in heap : x \in P
  <2>. HIDE DEF P
  <2>. QED  BY <1>4, TreeInduction
<1>. QED  BY <1>5

\* The invariant says that the tree is sound.
LEMMA SoundTree ==
  ASSUME RbtInv
  PROVE  TreeIsSound
<1>1. /\ TypeOK /\ IsFiniteSet(heap) /\ \A x \in Nodes \ heap : tree[x] = Erased
  BY DEF RbtInv, Frame
<1>2. tree \in Trees /\ heap \subseteq Nodes
  BY <1>1, TreeType
<1>3. SUFFICES ASSUME op = "none", ~cutShort
      PROVE  /\ root # Null => tree[root].parent = Null /\ ~tree[root].isRed
             /\ \E h \in 0..Cardinality(heap) :
                  IsSubtree[[node |-> root, height |-> h, lo |-> Lowest, hi |-> Highest]]
             /\ root # Null => length = Cardinality(heap)
  BY <1>1 DEF TreeIsSound
<1>4. PICK top, sub : Shape(tree, heap, top, sub) /\ CallInv(top, sub)
  BY DEF RbtInv
<1>5. PICK H : root = top /\ ~IsRed(tree, top) /\ Balanced(tree, heap, H)
  BY <1>3, <1>4 DEF CallInv
<1>6. /\ root \in heap \/ (root = Null /\ heap = {})
      /\ root # Null => length = Cardinality(heap)
  BY <1>3 DEF RbtInv, RootInv
<1>7. root # Null => tree[root].parent = Null /\ ~tree[root].isRed /\ sub[root] = heap
  BY <1>4, <1>5, <1>6 DEF IsRed, Shape, Linked
<1>8. /\ \A x \in heap : tree[x].data \in Data /\ tree[x].data \in Nat
      /\ Highest \in Nat /\ Lowest = -1 /\ (\A d \in Data : d < Highest)
      /\ Lowest \in Lowest..Highest /\ Highest \in Lowest..Highest
  BY <1>4, DataAreInts, HighestIs DEF Lowest
<1>9. heap = Within(Lowest, Highest)
  BY <1>8 DEF Within
<1>10. Cardinality(heap) \in Nat
  BY <1>1, FS_CardinalityType
<1>11. CASE root = Null
  <2>1. PICK r : r = [node |-> Null, height |-> 0, lo |-> Lowest, hi |-> Highest]
    OBVIOUS
  <2>2. r \in Region /\ r.node = Null /\ r.height = 0 /\ r.lo = Lowest /\ r.hi = Highest
    BY <1>8, <2>1 DEF Region
  <2>3. heap = {}
    BY <1>2, <1>6, <1>11, AddressAssumption
  <2>4. Holds(r, IsSubtree)
    BY <1>9, <2>2, <2>3, HoldsIs
  <2>5. IsSubtree[r]
    BY <1>2, <1>8, <2>2, <2>4, IsSubtreeIs
  <2>6. 0 \in 0..Cardinality(heap)
    BY <1>10
  <2>. QED  BY <1>7, <1>11, <2>1, <2>5, <2>6
<1>12. CASE root # Null
  <2>1. root \in heap
    BY <1>6, <1>12
  <2>2. IsSubtree[[node |-> root, height |-> H[root], lo |-> Lowest, hi |-> Highest]]
    BY <1>1, <1>2, <1>4, <1>5, <1>7, <1>8, <1>9, <1>12, <2>1, SubtreesHold
  <2>3. H[root] \in 0..Cardinality(heap)
    <3>1. H[root] \in Nat
      BY <1>5, <2>1 DEF Balanced
    <3>2. Power[H[root]] <= Cardinality(heap) + 1
      BY <1>1, <1>4, <1>5, <1>7, <1>12, <2>1, HeightCounted
    <3>3. Power[H[root]] \in Nat /\ Power[H[root]] >= H[root] + 1
      BY <3>1, PowerFacts
    <3>. QED  BY <1>10, <3>1, <3>2, <3>3
  <2>. QED  BY <1>6, <1>7, <1>12, <2>2, <2>3
<1>. QED  BY <1>11, <1>12

\* Between calls the tree is a red-black tree of all nodes that are allocated.
THEOREM TreeStaysSound == Spec => []TreeIsSound
<1>1. RbtInv => TreeIsSound
  BY SoundTree
<1>. QED  BY <1>1, RbtInvariant, PTL

-----------------------------------------------------------------------------
(* Searches and traversals.                                                *)

\* x comes before all the others of S on the way to side s.
Leads(x, S, s) ==
  x \in S /\ \A z \in S : z = x \/ Toward(tree[x].data, tree[z].data, s)

\* A tree that no call is changing.
Still(top, sub) ==
  /\ tree \in Trees /\ heap \subseteq Nodes /\ IsFiniteSet(heap)
  /\ \A x \in Nodes \ heap : tree[x] = Erased
  /\ Shape(tree, heap, top, sub)

\* The nodes of a subtree are those between two of them.
LEMMA Convex ==
  ASSUME NEW t, NEW A, NEW top, NEW sub, Shape(t, A, top, sub), NEW s \in Sides,
         NEW x \in A, NEW z \in A, NEW y \in sub[x], NEW w \in sub[x],
         Toward(t[y].data, t[z].data, s), Toward(t[z].data, t[w].data, s)
  PROVE  z \in sub[x]
<1>1. \/ t[y].data < t[z].data /\ t[z].data < t[w].data
      \/ t[w].data < t[z].data /\ t[z].data < t[y].data
  BY DEF Toward
<1>. QED
  BY <1>1 DEF Shape, Ordered

\* A child has fewer nodes below it.
LEMMA FewerBelow ==
  ASSUME NEW t, NEW A, NEW top, NEW sub, Shape(t, A, top, sub), IsFiniteSet(A)
  PROVE  /\ Cardinality(A) \in Nat
         /\ \A x \in A : Cardinality(sub[x]) \in Nat /\ Cardinality(sub[x]) <= Cardinality(A)
         /\ \A x \in A, s \in Sides : Child(t, x, s) # Null =>
              Cardinality(sub[Child(t, x, s)]) < Cardinality(sub[x])
<1>1. Cardinality(A) \in Nat
  BY FS_CardinalityType
<1>2. ASSUME NEW x \in A
      PROVE  Cardinality(sub[x]) \in Nat /\ Cardinality(sub[x]) <= Cardinality(A)
  <2>1. sub[x] \subseteq A
    BY DEF Shape, Nested
  <2>. QED
    BY <2>1, FS_Subset, FS_CardinalityType
<1>3. ASSUME NEW x \in A, NEW s \in Sides, Child(t, x, s) # Null
      PROVE  Cardinality(sub[Child(t, x, s)]) < Cardinality(sub[x])
  <2>1. sub[Child(t, x, s)] = Part(t, sub, x, s)
    BY <1>3, ChildrenFacts
  <2>2. /\ \A r \in Sides : Cardinality(Part(t, sub, x, r)) \in Nat
        /\ Cardinality(sub[x]) =
             1 + Cardinality(Part(t, sub, x, LEFT)) + Cardinality(Part(t, sub, x, RIGHT))
    BY PartsCounted, FS_CardinalityType
  <2>. QED
    BY <2>1, <2>2 DEF Sides
<1>. QED
  BY <1>1, <1>2, <1>3

\* What holds of the top, and of a node whenever it holds of its parent, holds
\* of all nodes.
Inherited(t, A, top, P) ==
  /\ top \in A => top \in P
  /\ \A x \in A : x # top /\ t[x].parent \in P => x \in P

LEMMA DownInduction ==
  ASSUME NEW t, NEW A, NEW top, NEW sub, Shape(t, A, top, sub), IsFiniteSet(A),
         NEW P, Inherited(t, A, top, P)
  PROVE  \A x \in A : x \in P
<1>. DEFINE Size(x) == Cardinality(A) - Cardinality(sub[x])
            Bad == {i \in Nat : \E x \in A : Size(x) = i /\ x \notin P}
<1>0. \A x \in A : Size(x) \in Nat
  BY FewerBelow
<1>. SUFFICES ASSUME Bad # {}
              PROVE  FALSE
  BY <1>0
<1>1. PICK i \in Bad : \A j \in Bad : i <= j
  <2>1. Bad \in SUBSET Nat
    OBVIOUS
  <2>. HIDE DEF Bad
  <2>. QED
    BY <2>1, LeastNat
<1>2. PICK x \in A : Size(x) = i /\ x \notin P
  BY <1>1
<1>3. x # top
  BY <1>2 DEF Inherited
<1>4. PICK p : p = t[x].parent
  OBVIOUS
<1>5. p \in A /\ \E s \in Sides : Child(t, p, s) = x
  BY <1>3, <1>4 DEF Shape, Linked
<1>6. Cardinality(sub[x]) < Cardinality(sub[p])
  <2>1. x # Null
    BY OneParent
  <2>. QED
    BY <1>5, <2>1, FewerBelow
<1>7. Size(p) < Size(x) /\ Size(p) \in Nat /\ Size(x) \in Nat
  BY <1>5, <1>6, FewerBelow
<1>8. p \in P
  BY <1>1, <1>2, <1>5, <1>7
<1>. QED
  BY <1>2, <1>3, <1>4, <1>8 DEF Inherited

\* A walk from node to node that comes ever closer to its end has one.
Walk(V, m, E, last, next) ==
  /\ m \in [Nodes -> Nat] /\ last \in [Nodes -> V] /\ next \in [Nodes -> Nodes]
  /\ \A x \in Nodes \ E : m[next[x]] < m[x]

Ends(f, E, last, next) ==
  \A x \in Nodes : f[x] = IF x \in E THEN last[x] ELSE f[next[x]]

LEMMA WalkEnds ==
  ASSUME NEW V, NEW m, NEW E, NEW last, NEW next, Walk(V, m, E, last, next)
  PROVE  \E f \in [Nodes -> V] : Ends(f, E, last, next)
<1>. DEFINE G == [x \in Nodes |-> [f \in [Nodes -> V] |->
                    IF x \in E THEN last[x] ELSE f[next[x]]]]
<1>1. CASE Nodes = {}
  <2>1. last \in [Nodes -> V] /\ Ends(last, E, last, next)
    BY <1>1 DEF Walk, Ends
  <2>. QED
    BY <2>1
<1>2. CASE Nodes # {}
  <2>1. V # {} /\ m \in [Nodes -> Nat]
    BY <1>2 DEF Walk
  <2>2. G \in [Nodes -> [[Nodes -> V] -> V]]
    BY DEF Walk
  <2>3. ASSUME NEW x \in Nodes, NEW f \in [Nodes -> V], NEW g \in [Nodes -> V],
               \A y \in Nodes : m[y] < m[x] => f[y] = g[y]
        PROVE  G[x][f] = G[x][g]
    <3>1. x \notin E => f[next[x]] = g[next[x]]
      BY <2>3 DEF Walk
    <3>. QED
      BY <3>1
  <2>4. Recurs(Nodes, V, m, G)
    <3>. HIDE DEF G
    <3>. QED
      BY <2>1, <2>2, <2>3 DEF Recurs
  <2>5. PICK f \in [Nodes -> V] : \A x \in Nodes : f[x] = G[x][f]
    <3>. HIDE DEF G
    <3>. QED
      BY <2>4, RecursionExists
  <2>6. Ends(f, E, last, next)
    BY <2>5 DEF Ends
  <2>. QED
    BY <2>6
<1>. QED
  BY <1>1, <1>2

\* The steps of a walk from node to node lead to nodes, and down closer to its
\* end.
LEMMA StillFacts ==
  ASSUME NEW top, NEW sub, Still(top, sub)
  PROVE  /\ Null \notin Nodes /\ LEFT \in Sides /\ RIGHT \in Sides
         /\ \A x \in Nodes, s \in Sides :
              /\ Child(tree, x, s) \in Nodes \cup {Null}
              /\ Child(tree, x, s) # Null => x \in heap /\ Child(tree, x, s) \in heap
         /\ \A x \in Nodes : tree[x].parent # Null =>
              x \in heap \ {top} /\ tree[x].parent \in heap
              /\ \E s \in Sides : Child(tree, tree[x].parent, s) = x
<1>1. Null \notin Nodes /\ LEFT \in Sides /\ RIGHT \in Sides
  BY AddressAssumption DEF Sides
<1>2. ASSUME NEW x \in Nodes, NEW s \in Sides
      PROVE  /\ Child(tree, x, s) \in Nodes \cup {Null}
             /\ Child(tree, x, s) # Null => x \in heap /\ Child(tree, x, s) \in heap
  <2>1. Child(tree, x, s) \in Nodes \cup {Null}
    BY TreeFacts DEF Still
  <2>2. x \notin heap => Child(tree, x, s) = Null
    BY DEF Still, Erased, Child
  <2>3. x \in heap /\ Child(tree, x, s) # Null => Child(tree, x, s) \in heap
    BY ChildrenFacts DEF Still
  <2>. QED
    BY <2>1, <2>2, <2>3
<1>3. ASSUME NEW x \in Nodes, tree[x].parent # Null
      PROVE  /\ x \in heap \ {top} /\ tree[x].parent \in heap
             /\ \E s \in Sides : Child(tree, tree[x].parent, s) = x
  <2>1. x \in heap
    BY <1>3 DEF Still, Erased
  <2>2. x # top
    BY <1>3, <2>1 DEF Still, Shape, Linked
  <2>. QED
    BY <2>1, <2>2 DEF Still, Shape, Linked
<1>. QED
  BY <1>1, <1>2, <1>3

\* How many nodes are at and below a node, for a measure of walks down.
Below(sub) == [x \in Nodes |-> IF x \in heap THEN Cardinality(sub[x]) ELSE 0]

\* It is smaller for a child.
LEMMA BelowFacts ==
  ASSUME NEW top, NEW sub, Still(top, sub)
  PROVE  /\ Below(sub) \in [Nodes -> Nat]
         /\ \A x \in Nodes, s \in Sides : Child(tree, x, s) # Null =>
              Below(sub)[Child(tree, x, s)] < Below(sub)[x]
<1>1. \A x \in heap : Cardinality(sub[x]) \in Nat
  BY FewerBelow DEF Still
<1>2. Below(sub) \in [Nodes -> Nat]
  BY <1>1 DEF Below
<1>3. ASSUME NEW x \in Nodes, NEW s \in Sides, Child(tree, x, s) # Null
      PROVE  Below(sub)[Child(tree, x, s)] < Below(sub)[x]
  <2>1. x \in heap /\ Child(tree, x, s) \in heap
    BY <1>3, StillFacts
  <2>2. Cardinality(sub[Child(tree, x, s)]) < Cardinality(sub[x])
    BY <1>3, <2>1, FewerBelow DEF Still
  <2>3. heap \subseteq Nodes
    BY DEF Still
  <2>. QED
    BY <2>1, <2>2, <2>3 DEF Below
<1>. QED
  BY <1>2, <1>3

\* Descent, Trail and Ascent are what their definitions say they are.
LEMMA DescentIs ==
  ASSUME NEW top, NEW sub, Still(top, sub), NEW s \in Sides
  PROVE  \A x \in Nodes :
           Descent(s)[x] = IF Child(tree, x, s) = Null THEN x
                           ELSE Descent(s)[Child(tree, x, s)]
<1>. DEFINE E == {x \in Nodes : Child(tree, x, s) = Null}
            last == [x \in Nodes |-> x]
            next == [x \in Nodes |-> IF x \in E THEN x ELSE Child(tree, x, s)]
            Is(f) == f = [x \in Nodes |-> IF Child(tree, x, s) = Null THEN x
                                          ELSE f[Child(tree, x, s)]]
<1>1. last \in [Nodes -> Nodes] /\ next \in [Nodes -> Nodes]
  BY StillFacts
<1>2. \A x \in Nodes \ E : Below(sub)[next[x]] < Below(sub)[x]
  BY BelowFacts
<1>3. Walk(Nodes, Below(sub), E, last, next)
  <2>1. Below(sub) \in [Nodes -> Nat]
    BY BelowFacts
  <2>. HIDE DEF E, last, next
  <2>. QED
    BY <1>1, <1>2, <2>1 DEF Walk
<1>4. PICK f \in [Nodes -> Nodes] : Ends(f, E, last, next)
  <2>. HIDE DEF E, last, next
  <2>. QED
    BY <1>3, WalkEnds
<1>5. Is(f)
  BY <1>4 DEF Ends
<1>6. Descent(s) = CHOOSE g : Is(g)
  BY DEF Descent
<1>7. Is(Descent(s))
  <2>. HIDE DEF Is
  <2>. QED
    BY <1>5, <1>6
<1>8. PICK g : g = Descent(s)
  OBVIOUS
<1>9. \A x \in Nodes : g[x] = IF Child(tree, x, s) = Null THEN x ELSE g[Child(tree, x, s)]
  <2>1. g = [x \in Nodes |-> IF Child(tree, x, s) = Null THEN x ELSE g[Child(tree, x, s)]]
    BY <1>7, <1>8
  <2>. QED
    BY <2>1
<1>. QED
  BY <1>8, <1>9

LEMMA TrailIs ==
  ASSUME NEW top, NEW sub, Still(top, sub), NEW k
  PROVE  \A x \in Nodes :
           Trail(k)[x] = IF tree[x].data = k \/ Child(tree, x, Way(x, k)) = Null THEN x
                         ELSE Trail(k)[Child(tree, x, Way(x, k))]
<1>. DEFINE E == {x \in Nodes : tree[x].data = k \/ Child(tree, x, Way(x, k)) = Null}
            last == [x \in Nodes |-> x]
            next == [x \in Nodes |-> IF x \in E THEN x ELSE Child(tree, x, Way(x, k))]
            Is(f) == f = [x \in Nodes |->
                           IF tree[x].data = k \/ Child(tree, x, Way(x, k)) = Null THEN x
                           ELSE f[Child(tree, x, Way(x, k))]]
<1>0. \A x : Way(x, k) \in Sides
  BY StillFacts DEF Way
<1>1. last \in [Nodes -> Nodes] /\ next \in [Nodes -> Nodes]
  BY <1>0, StillFacts
<1>2. \A x \in Nodes \ E : Below(sub)[next[x]] < Below(sub)[x]
  BY <1>0, BelowFacts
<1>3. Walk(Nodes, Below(sub), E, last, next)
  <2>1. Below(sub) \in [Nodes -> Nat]
    BY BelowFacts
  <2>. HIDE DEF E, last, next
  <2>. QED
    BY <1>1, <1>2, <2>1 DEF Walk
<1>4. PICK f \in [Nodes -> Nodes] : Ends(f, E, last, next)
  <2>. HIDE DEF E, last, next
  <2>. QED
    BY <1>3, WalkEnds
<1>5. Is(f)
  BY <1>4 DEF Ends
<1>6. Trail(k) = CHOOSE g : Is(g)
  BY DEF Trail
<1>7. Is(Trail(k))
  <2>. HIDE DEF Is
  <2>. QED
    BY <1>5, <1>6
<1>8. PICK g : g = Trail(k)
  OBVIOUS
<1>9. \A x \in Nodes :
        g[x] = IF tree[x].data = k \/ Child(tree, x, Way(x, k)) = Null THEN x
               ELSE g[Child(tree, x, Way(x, k))]
  <2>1. g = [x \in Nodes |->
              IF tree[x].data = k \/ Child(tree, x, Way(x, k)) = Null THEN x
              ELSE g[Child(tree, x, Way(x, k))]]
    BY <1>7, <1>8
  <2>. QED
    BY <2>1
<1>. QED
  BY <1>8, <1>9

LEMMA AscentIs ==
  ASSUME NEW top, NEW sub, Still(top, sub), NEW s \in Sides
  PROVE  \A x \in Nodes :
           Ascent(s)[x] = IF tree[x].parent = Null THEN Null
                          ELSE IF x = Child(tree, tree[x].parent, 1 - s) THEN tree[x].parent
                          ELSE Ascent(s)[tree[x].parent]
<1>. DEFINE E == {x \in Nodes : tree[x].parent = Null
                                \/ x = Child(tree, tree[x].parent, 1 - s)}
            last == [x \in Nodes |-> tree[x].parent]
            next == [x \in Nodes |-> IF x \in E THEN x ELSE tree[x].parent]
            m == [x \in Nodes |->
                   IF x \in heap THEN Cardinality(heap) - Cardinality(sub[x]) ELSE 0]
            Is(f) == f = [x \in Nodes |->
                           LET p == tree[x].parent
                           IN  IF p = Null THEN Null
                               ELSE IF x = Child(tree, p, 1 - s) THEN p ELSE f[p]]
<1>0. heap \subseteq Nodes /\ tree \in Trees /\ Shape(tree, heap, top, sub) /\ IsFiniteSet(heap)
  BY DEF Still
<1>1. last \in [Nodes -> Nodes \cup {Null}] /\ next \in [Nodes -> Nodes]
  BY <1>0, StillFacts
<1>2. m \in [Nodes -> Nat]
  <2>1. \A x \in heap : Cardinality(heap) - Cardinality(sub[x]) \in Nat
    BY <1>0, FewerBelow
  <2>. QED
    BY <2>1
<1>3. ASSUME NEW x \in Nodes \ E
      PROVE  m[next[x]] < m[x]
  <2>1. PICK p : p = tree[x].parent /\ next[x] = p
    OBVIOUS
  <2>2. p \in heap /\ x \in heap /\ \E r \in Sides : Child(tree, p, r) = x
    BY <2>1, StillFacts
  <2>3. Cardinality(sub[x]) < Cardinality(sub[p])
    BY <1>0, <2>2, StillFacts, FewerBelow
  <2>4. /\ Cardinality(sub[x]) \in Nat /\ Cardinality(sub[p]) \in Nat
        /\ Cardinality(heap) \in Nat
    BY <1>0, <2>2, FewerBelow
  <2>5. m[p] = Cardinality(heap) - Cardinality(sub[p]) /\ m[x] = Cardinality(heap) - Cardinality(sub[x])
    BY <1>0, <2>2
  <2>. QED
    BY <2>1, <2>3, <2>4, <2>5
<1>4. PICK f \in [Nodes -> Nodes \cup {Null}] : Ends(f, E, last, next)
  <2>1. Walk(Nodes \cup {Null}, m, E, last, next)
    <3>. HIDE DEF E, last, next, m
    <3>. QED
      BY <1>1, <1>2, <1>3 DEF Walk
  <2>. HIDE DEF E, last, next, m
  <2>. QED
    BY <2>1, WalkEnds
<1>5. Is(f)
  BY <1>4 DEF Ends
<1>6. Ascent(s) = CHOOSE g : Is(g)
  BY DEF Ascent
<1>7. Is(Ascent(s))
  <2>. HIDE DEF Is
  <2>. QED
    BY <1>5, <1>6
<1>8. PICK g : g = Ascent(s)
  OBVIOUS
<1>9. \A x \in Nodes :
        g[x] = IF tree[x].parent = Null THEN Null
               ELSE IF x = Child(tree, tree[x].parent, 1 - s) THEN tree[x].parent
               ELSE g[tree[x].parent]
  <2>1. g = [x \in Nodes |->
              IF tree[x].parent = Null THEN Null
              ELSE IF x = Child(tree, tree[x].parent, 1 - s) THEN tree[x].parent
              ELSE g[tree[x].parent]]
    BY <1>7, <1>8
  <2>. QED
    BY <2>1
<1>. QED
  BY <1>8, <1>9

\* The datum of one node is between those of others, or not.
LEMMA StillData ==
  ASSUME NEW top, NEW sub, Still(top, sub)
  PROVE  /\ \A x \in heap : tree[x].data \in Data /\ tree[x].data \in Int
         /\ \A x, y \in heap : tree[x].data = tree[y].data => x = y
         /\ \A x \in heap : x \in sub[x] /\ sub[x] \subseteq heap
         /\ \A x, z \in heap, s \in Sides : \A y, w \in sub[x] :
              Toward(tree[y].data, tree[z].data, s) /\ Toward(tree[z].data, tree[w].data, s)
              => z \in sub[x]
         /\ \A x \in heap, s \in Sides :
              IF Child(tree, x, s) = Null THEN Part(tree, sub, x, s) = {}
              ELSE /\ Child(tree, x, s) \in heap
                   /\ sub[Child(tree, x, s)] = Part(tree, sub, x, s)
<1>1. \A x \in heap : tree[x].data \in Data /\ tree[x].data \in Int
  BY DataAreInts DEF Still
<1>2. \A x, y \in heap : tree[x].data = tree[y].data => x = y
  BY DEF Still, Shape, Ordered
<1>3. \A x \in heap : x \in sub[x] /\ sub[x] \subseteq heap
  BY DEF Still, Shape, Nested
<1>4. \A x, z \in heap, s \in Sides : \A y, w \in sub[x] :
        Toward(tree[y].data, tree[z].data, s) /\ Toward(tree[z].data, tree[w].data, s)
        => z \in sub[x]
  BY Convex DEF Still
<1>5. \A x \in heap, s \in Sides :
        IF Child(tree, x, s) = Null THEN Part(tree, sub, x, s) = {}
        ELSE /\ Child(tree, x, s) \in heap
             /\ sub[Child(tree, x, s)] = Part(tree, sub, x, s)
  BY DEF Still, Shape, Linked
<1>. QED
  BY <1>1, <1>2, <1>3, <1>4, <1>5

\* The last node on side 1 - s at and below x comes before all the others.
LEMMA DescentLeads ==
  ASSUME NEW top, NEW sub, Still(top, sub), NEW s \in Sides
  PROVE  \A x \in heap : Leads(Descent(1 - s)[x], sub[x], s)
<1>. DEFINE P == {x \in heap : Leads(Descent(1 - s)[x], sub[x], s)}
<1>0. heap \subseteq Nodes /\ IsFiniteSet(heap) /\ Shape(tree, heap, top, sub)
  BY DEF Still
<1>1. 1 - s \in Sides /\ Null \notin Nodes
  BY SideFacts, StillFacts
<1>2. ASSUME NEW x \in heap,
             \A r \in Sides : Child(tree, x, r) # Null => Child(tree, x, r) \in P
      PROVE  x \in P
  <2>1. PICK y, c : y = Descent(1 - s)[x] /\ c = Child(tree, x, 1 - s)
    OBVIOUS
  <2>2. x \in sub[x] /\ sub[x] \subseteq heap /\ tree[x].data \in Int
    BY StillData
  <2>3. \A z \in sub[x] : tree[z].data \in Int
    BY <2>2, StillData
  <2>4. \A z \in sub[x] :
          z = x \/ Toward(tree[x].data, tree[z].data, s) \/ z \in Part(tree, sub, x, 1 - s)
    <3>1. TAKE z \in sub[x]
    <3>2. z # x => tree[z].data # tree[x].data
      BY <2>2, StillData
    <3>3. tree[z].data \in Int
      BY <2>3
    <3>4. \/ tree[z].data = tree[x].data \/ Toward(tree[x].data, tree[z].data, s)
          \/ Toward(tree[x].data, tree[z].data, 1 - s)
      BY <2>2, <3>3, TowardFacts
    <3>. QED
      BY <3>2, <3>4 DEF Part
  <2>5. CASE c = Null
    <3>1. y = x
      BY <1>0, <1>1, <2>1, <2>5, DescentIs
    <3>2. Part(tree, sub, x, 1 - s) = {}
      BY <1>1, <2>1, <2>5, StillData
    <3>. QED
      BY <2>1, <2>2, <2>4, <3>1, <3>2 DEF Leads
  <2>6. CASE c # Null
    <3>1. c \in P /\ sub[c] = Part(tree, sub, x, 1 - s)
      BY <1>1, <1>2, <2>1, <2>6, StillData
    <3>2. y = Descent(1 - s)[c]
      BY <1>0, <1>1, <2>1, <2>6, DescentIs
    <3>3. y \in Part(tree, sub, x, 1 - s)
      BY <3>1, <3>2 DEF Leads
    <3>4. \A z \in Part(tree, sub, x, 1 - s) :
            z = y \/ Toward(tree[y].data, tree[z].data, s)
      BY <3>1, <3>2 DEF Leads
    <3>5. y \in sub[x] /\ Toward(tree[x].data, tree[y].data, 1 - s)
      BY <3>3 DEF Part
    <3>6. Toward(tree[y].data, tree[x].data, s) /\ tree[y].data \in Int
      BY <2>2, <2>3, <3>5, TowardFacts
    <3>7. \A z \in sub[x] : Toward(tree[x].data, tree[z].data, s) =>
            Toward(tree[y].data, tree[z].data, s)
      BY <2>2, <2>3, <3>6, TowardFacts
    <3>. QED
      BY <2>1, <2>4, <3>4, <3>5, <3>6, <3>7 DEF Leads
  <2>. QED
    BY <2>5, <2>6
<1>3. \A x \in heap : x \in P
  <2>. HIDE DEF P
  <2>. QED
    BY <1>0, <1>2, TreeInduction
<1>. QED
  BY <1>3

\* The nodes that are neither below x nor before it, on the way to side s.
Above(sub, x, s) ==
  {z \in heap \ sub[x] : Toward(tree[x].data, tree[z].data, s)}

\* Seen from a child on side s they are those seen from its parent; from the
\* other one the parent comes first.
LEMMA AboveParent ==
  ASSUME NEW top, NEW sub, Still(top, sub), NEW s \in Sides, NEW p \in heap
  PROVE  /\ \A x : x = Child(tree, p, s) /\ x # Null => Above(sub, x, s) = Above(sub, p, s)
         /\ \A x : x = Child(tree, p, 1 - s) /\ x # Null => Leads(p, Above(sub, x, s), s)
<1>0. /\ p \in sub[p] /\ sub[p] \subseteq heap /\ tree[p].data \in Int
      /\ \A z \in heap : tree[z].data \in Int
      /\ 1 - s \in Sides
  BY StillData, SideFacts
<1>1. ASSUME NEW r \in Sides, NEW x, x = Child(tree, p, r), x # Null
      PROVE  /\ x \in heap /\ sub[x] = Part(tree, sub, p, r) /\ x \in sub[x]
             /\ x \in sub[p] /\ Toward(tree[p].data, tree[x].data, r)
             /\ tree[x].data \in Int /\ p \notin sub[x]
  <2>1. x \in heap /\ sub[x] = Part(tree, sub, p, r) /\ x \in sub[x]
    BY <1>1, StillData
  <2>2. x \in sub[p] /\ Toward(tree[p].data, tree[x].data, r)
    BY <2>1 DEF Part
  <2>3. p \notin Part(tree, sub, p, r)
    BY <1>0 DEF Part, Toward
  <2>. QED
    BY <1>0, <2>1, <2>2, <2>3
<1>2. ASSUME NEW x, x = Child(tree, p, s), x # Null
      PROVE  Above(sub, x, s) = Above(sub, p, s)
  <2>1. /\ x \in heap /\ sub[x] = Part(tree, sub, p, s) /\ x \in sub[p]
        /\ Toward(tree[p].data, tree[x].data, s) /\ tree[x].data \in Int
    BY <1>1, <1>2
  <2>2. ASSUME NEW z \in Above(sub, x, s)
        PROVE  z \in Above(sub, p, s)
    <3>1. z \in heap /\ z \notin sub[x] /\ Toward(tree[x].data, tree[z].data, s)
      BY DEF Above
    <3>2. Toward(tree[p].data, tree[z].data, s)
      BY <1>0, <2>1, <3>1, TowardFacts
    <3>3. z \notin sub[p]
      BY <2>1, <3>1, <3>2 DEF Part
    <3>. QED
      BY <3>1, <3>2, <3>3 DEF Above
  <2>3. ASSUME NEW z \in Above(sub, p, s)
        PROVE  z \in Above(sub, x, s)
    <3>1. z \in heap /\ z \notin sub[p] /\ Toward(tree[p].data, tree[z].data, s)
      BY DEF Above
    <3>2. z # x /\ z \notin sub[x]
      BY <2>1, <3>1 DEF Part
    <3>3. ~Toward(tree[z].data, tree[x].data, s)
      BY <1>0, <2>1, <3>1, StillData
    <3>4. tree[z].data # tree[x].data
      BY <2>1, <3>1, <3>2, StillData
    <3>5. Toward(tree[x].data, tree[z].data, s)
      BY <1>0, <2>1, <3>1, <3>3, <3>4, TowardFacts
    <3>. QED
      BY <3>1, <3>2, <3>5 DEF Above
  <2>. QED
    BY <2>2, <2>3
<1>3. ASSUME NEW x, x = Child(tree, p, 1 - s), x # Null
      PROVE  Leads(p, Above(sub, x, s), s)
  <2>1. /\ x \in heap /\ sub[x] = Part(tree, sub, p, 1 - s) /\ x \in sub[p]
        /\ Toward(tree[p].data, tree[x].data, 1 - s) /\ tree[x].data \in Int
        /\ p \notin sub[x]
    BY <1>0, <1>1, <1>3
  <2>2. Toward(tree[x].data, tree[p].data, s)
    BY <1>0, <2>1, TowardFacts
  <2>3. p \in Above(sub, x, s)
    BY <2>1, <2>2 DEF Above
  <2>4. ASSUME NEW z \in Above(sub, x, s), z # p, ~Toward(tree[p].data, tree[z].data, s)
        PROVE  FALSE
    <3>1. z \in heap /\ z \notin sub[x] /\ Toward(tree[x].data, tree[z].data, s)
      BY DEF Above
    <3>2. tree[z].data # tree[p].data
      BY <2>4, <3>1, StillData
    <3>3. Toward(tree[z].data, tree[p].data, s)
      BY <1>0, <2>4, <3>1, <3>2, TowardFacts
    <3>4. z \in sub[p]
      BY <1>0, <2>1, <3>1, <3>3, StillData
    <3>5. Toward(tree[p].data, tree[z].data, 1 - s)
      BY <1>0, <3>1, <3>3, TowardFacts
    <3>. QED
      BY <2>1, <3>1, <3>4, <3>5 DEF Part
  <2>. QED
    BY <2>3, <2>4 DEF Leads
<1>. QED
  BY <1>2, <1>3

\* An ascent ends at the first of them.
LEMMA AscentLeads ==
  ASSUME NEW top, NEW sub, Still(top, sub), NEW s \in Sides
  PROVE  \A x \in heap :
           IF Above(sub, x, s) = {} THEN Ascent(s)[x] = Null
           ELSE Leads(Ascent(s)[x], Above(sub, x, s), s)
<1>. DEFINE Good(x) == IF Above(sub, x, s) = {} THEN Ascent(s)[x] = Null
                       ELSE Leads(Ascent(s)[x], Above(sub, x, s), s)
            P == {x \in heap : Good(x)}
<1>0. heap \subseteq Nodes /\ IsFiniteSet(heap) /\ Shape(tree, heap, top, sub)
  BY DEF Still
<1>1. top \in heap => top \in P
  <2>1. ASSUME top \in heap PROVE Good(top)
    <3>1. tree[top].parent = Null /\ sub[top] = heap
      BY <1>0, <2>1 DEF Shape, Linked
    <3>2. Above(sub, top, s) = {}
      BY <3>1 DEF Above
    <3>3. Ascent(s)[top] = Null
      BY <1>0, <2>1, <3>1, AscentIs
    <3>. QED
      BY <3>2, <3>3
  <2>. QED
    BY <2>1
<1>2. ASSUME NEW x \in heap, x # top, tree[x].parent \in P
      PROVE  x \in P
  <2>1. PICK p, a : p = tree[x].parent /\ a = Ascent(s)[x]
    OBVIOUS
  <2>2. /\ p \in heap /\ p # Null /\ x # Null /\ Good(p)
        /\ \E r \in Sides : Child(tree, p, r) = x
    BY <1>0, <1>2, <2>1, StillFacts DEF Shape, Linked
  <2>3. CASE x = Child(tree, p, 1 - s)
    <3>1. a = p
      BY <1>0, <2>1, <2>2, <2>3, AscentIs
    <3>2. Leads(p, Above(sub, x, s), s)
      BY <2>2, <2>3, AboveParent
    <3>. QED
      BY <2>1, <3>1, <3>2 DEF Leads
  <2>4. CASE x # Child(tree, p, 1 - s)
    <3>1. x = Child(tree, p, s)
      BY <2>2, <2>4, SideFacts
    <3>2. a = Ascent(s)[p]
      BY <1>0, <2>1, <2>2, <2>4, AscentIs
    <3>3. Above(sub, x, s) = Above(sub, p, s)
      BY <2>2, <3>1, AboveParent
    <3>. QED
      BY <2>1, <2>2, <3>2, <3>3
  <2>. QED
    BY <2>3, <2>4
<1>3. \A x \in heap : x \in P
  <2>1. Inherited(tree, heap, top, P)
    BY <1>1, <1>2 DEF Inherited
  <2>. HIDE DEF P
  <2>. QED
    BY <1>0, <2>1, DownInduction
<1>. QED
  BY <1>3

\* The nodes beyond k, and which of them is the nearest.
Ahead(k, s) == {z \in heap : Toward(k, tree[z].data, s)}

\* The nearest is the one that comes first.
LEMMA NearestIs ==
  ASSUME NEW top, NEW sub, Still(top, sub), NEW s \in Sides, NEW k \in Int
  PROVE  /\ Beyond(k, s) = Ahead(k, s)
         /\ Ahead(k, s) = {} => IsNearest(Null, k, s)
         /\ \A x : Leads(x, Ahead(k, s), s) => IsNearest(x, k, s)
<1>0. \A z \in heap : tree[z].data \in Int
  BY StillData
<1>1. ASSUME NEW j \in Int
      PROVE  Beyond(j, s) = Ahead(j, s)
  <2>1. \A z \in heap :
          (IF s = RIGHT THEN tree[z].data > j ELSE tree[z].data < j) <=>
          Toward(j, tree[z].data, s)
    BY <1>0 DEF Toward
  <2>. QED
    BY <2>1 DEF Beyond, Ahead
<1>2. Ahead(k, s) = {} => IsNearest(Null, k, s)
  BY <1>1 DEF IsNearest
<1>3. ASSUME NEW x, Leads(x, Ahead(k, s), s)
      PROVE  IsNearest(x, k, s)
  <2>1. /\ x \in heap /\ Toward(k, tree[x].data, s) /\ tree[x].data \in Int
        /\ \A z \in Ahead(k, s) : z = x \/ Toward(tree[x].data, tree[z].data, s)
    BY <1>0, <1>3 DEF Leads, Ahead
  <2>2. ~Toward(tree[x].data, tree[x].data, s)
    BY <2>1, TowardFacts
  <2>3. \A z \in heap : Toward(tree[x].data, tree[z].data, s) => Toward(k, tree[z].data, s)
    BY <1>0, <2>1, TowardFacts
  <2>4. Ahead(k, s) \ {x} = Ahead(tree[x].data, s)
    BY <2>1, <2>2, <2>3 DEF Ahead
  <2>5. x \in Ahead(k, s)
    BY <2>1 DEF Ahead
  <2>6. Beyond(k, s) = Ahead(k, s) /\ Beyond(tree[x].data, s) = Ahead(tree[x].data, s)
    BY <1>1, <2>1
  <2>. QED
    BY <2>4, <2>5, <2>6 DEF IsNearest
<1>. QED
  BY <1>1, <1>2, <1>3

\* A traversal goes from each node to the nearest one.
LEMMA TraverseIsRight ==
  ASSUME NEW top, NEW sub, Still(top, sub)
  PROVE  \A x \in heap, s \in Sides : IsNearest(Traverse(x, s), tree[x].data, s)
<1>. SUFFICES ASSUME NEW x \in heap, NEW s \in Sides
              PROVE  IsNearest(Traverse(x, s), tree[x].data, s)
  OBVIOUS
<1>1. PICK k : k = tree[x].data
  OBVIOUS
<1>2. /\ k \in Int /\ x \in sub[x] /\ sub[x] \subseteq heap
      /\ \A z \in heap : tree[z].data \in Int
  BY <1>1, StillData
<1>3. \A z \in heap : Toward(k, tree[z].data, s) <=>
        z \in Part(tree, sub, x, s) \/ z \in Above(sub, x, s)
  BY <1>1, <1>2 DEF Part, Above
<1>4. CASE Child(tree, x, s) = Null
  <2>1. Part(tree, sub, x, s) = {}
    BY <1>4, StillData
  <2>2. Ahead(k, s) = Above(sub, x, s)
    BY <1>3, <2>1 DEF Ahead, Above
  <2>3. IF Above(sub, x, s) = {} THEN Ascent(s)[x] = Null
        ELSE Leads(Ascent(s)[x], Above(sub, x, s), s)
    BY AscentLeads
  <2>4. IsNearest(Ascent(s)[x], k, s)
    BY <1>2, <2>2, <2>3, NearestIs
  <2>. QED
    BY <1>1, <1>4, <2>4 DEF Traverse
<1>5. CASE Child(tree, x, s) # Null
  <2>1. PICK c, y : c = Child(tree, x, s) /\ y = Descent(1 - s)[c]
    OBVIOUS
  <2>2. c \in heap /\ sub[c] = Part(tree, sub, x, s)
    BY <1>5, <2>1, StillData
  <2>3. Leads(y, Part(tree, sub, x, s), s)
    BY <2>1, <2>2, DescentLeads
  <2>4. y \in sub[x] /\ y \in heap /\ Toward(k, tree[y].data, s) /\ tree[y].data \in Int
    BY <1>1, <1>2, <2>3 DEF Leads, Part
  <2>5. ASSUME NEW z \in Ahead(k, s), z # y, ~Toward(tree[y].data, tree[z].data, s)
        PROVE  FALSE
    <3>1. z \in heap /\ Toward(k, tree[z].data, s) /\ tree[z].data \in Int
      BY <1>2 DEF Ahead
    <3>2. z \notin sub[x]
      BY <1>1, <2>3, <2>5, <3>1 DEF Leads, Part
    <3>3. tree[z].data # tree[y].data
      BY <2>4, <2>5, <3>1, StillData
    <3>4. Toward(tree[z].data, tree[y].data, s)
      BY <2>4, <2>5, <3>1, <3>3, TowardFacts
    <3>. QED
      BY <1>1, <1>2, <2>4, <3>1, <3>2, <3>4, StillData
  <2>6. Leads(y, Ahead(k, s), s)
    BY <2>4, <2>5 DEF Leads, Ahead
  <2>7. IsNearest(y, k, s)
    BY <1>2, <2>6, NearestIs
  <2>. QED
    BY <1>1, <1>5, <2>1, <2>7 DEF Traverse
<1>. QED
  BY <1>4, <1>5

\* Where k is, if it is anywhere, seen from x.
SoughtIn(sub, x, k) ==
  \A z \in heap :
    Toward(tree[x].data, tree[z].data, Way(x, k)) /\ ~Toward(k, tree[z].data, Way(x, k))
    => z \in sub[x]

\* If it is not at x it is below, where the search goes on.
LEMMA SoughtBelow ==
  ASSUME NEW top, NEW sub, Still(top, sub), NEW k \in Data,
         NEW x \in heap, SoughtIn(sub, x, k), tree[x].data # k,
         Child(tree, x, Way(x, k)) # Null
  PROVE  SoughtIn(sub, Child(tree, x, Way(x, k)), k)
<1>1. PICK c, w : w = Way(x, k) /\ c = Child(tree, x, w)
  OBVIOUS
<1>2. w \in Sides /\ 1 - w \in Sides /\ k \in Int /\ tree[x].data \in Int
  BY <1>1, StillData, SideFacts, DataAssumption DEF Way, Sides
<1>3. c \in heap /\ sub[c] = Part(tree, sub, x, w) /\ c \in sub[c] /\ tree[c].data \in Int
  BY <1>1, <1>2, StillData
<1>4. c \in sub[x] /\ x \in sub[x] /\ Toward(tree[x].data, tree[c].data, w)
  BY <1>3, StillData DEF Part
<1>5. Toward(tree[x].data, k, w)
  <2>1. w = IF tree[x].data < k THEN RIGHT ELSE LEFT
    BY <1>1 DEF Way
  <2>. QED
    BY <1>2, <2>1 DEF Toward, LEFT, RIGHT
<1>6. SUFFICES ASSUME NEW z \in heap, Toward(tree[c].data, tree[z].data, Way(c, k)),
                      ~Toward(k, tree[z].data, Way(c, k))
               PROVE  z \in sub[c]
  BY <1>1 DEF SoughtIn
<1>7. tree[z].data \in Int
  BY StillData
<1>8. SUFFICES z \in sub[x] /\ Toward(tree[x].data, tree[z].data, w)
  BY <1>3 DEF Part
<1>9. CASE Way(c, k) = w
  <2>1. Toward(tree[x].data, tree[z].data, w)
    BY <1>2, <1>3, <1>4, <1>6, <1>7, <1>9, TowardFacts
  <2>2. z \in sub[x]
    BY <1>1, <1>6, <1>9, <2>1 DEF SoughtIn
  <2>. QED
    BY <2>1, <2>2
<1>10. CASE Way(c, k) # w
  <2>1. Way(c, k) = 1 - w
    BY <1>2, <1>10 DEF Way, Sides, LEFT, RIGHT
  <2>2. Toward(tree[z].data, tree[c].data, w)
    BY <1>2, <1>3, <1>6, <1>7, <2>1, TowardFacts
  <2>3. tree[z].data = k \/ Toward(k, tree[z].data, w)
    <3>1. ~Toward(tree[z].data, k, w)
      BY <1>2, <1>6, <1>7, <2>1, TowardFacts
    <3>. QED
      BY <1>2, <1>7, <3>1, TowardFacts
  <2>4. Toward(tree[x].data, tree[z].data, w)
    BY <1>2, <1>5, <1>7, <2>3, TowardFacts
  <2>5. z \in sub[x]
    BY <1>2, <1>4, <2>2, <2>4, StillData
  <2>. QED
    BY <2>4, <2>5
<1>. QED
  BY <1>9, <1>10

\* A search from a node where k is sought ends at such a node.
LEMMA TrailEnds ==
  ASSUME NEW top, NEW sub, Still(top, sub), NEW k \in Data
  PROVE  \A x \in heap : SoughtIn(sub, x, k) =>
           \E y \in heap :
             /\ y = Trail(k)[x] /\ SoughtIn(sub, y, k)
             /\ tree[y].data = k \/ Child(tree, y, Way(y, k)) = Null
<1>. DEFINE Good(x) == SoughtIn(sub, x, k) =>
                         \E y \in heap :
                           /\ y = Trail(k)[x] /\ SoughtIn(sub, y, k)
                           /\ tree[y].data = k \/ Child(tree, y, Way(y, k)) = Null
            P == {x \in heap : Good(x)}
<1>0. heap \subseteq Nodes /\ IsFiniteSet(heap) /\ Shape(tree, heap, top, sub)
  BY DEF Still
<1>1. ASSUME NEW x \in heap,
             \A r \in Sides : Child(tree, x, r) # Null => Child(tree, x, r) \in P
      PROVE  x \in P
  <2>1. PICK c : c = Child(tree, x, Way(x, k))
    OBVIOUS
  <2>2. Way(x, k) \in Sides
    BY DEF Way, Sides
  <2>3. Trail(k)[x] = IF tree[x].data = k \/ c = Null THEN x ELSE Trail(k)[c]
    BY <1>0, <2>1, TrailIs
  <2>4. CASE tree[x].data = k \/ c = Null
    BY <2>1, <2>3, <2>4
  <2>5. CASE ~(tree[x].data = k \/ c = Null)
    <3>1. c \in P
      BY <1>1, <2>1, <2>2, <2>5
    <3>2. SoughtIn(sub, x, k) => SoughtIn(sub, c, k)
      BY <2>1, <2>5, SoughtBelow
    <3>3. Trail(k)[x] = Trail(k)[c]
      BY <2>3, <2>5
    <3>. QED
      BY <3>1, <3>2, <3>3
  <2>. QED
    BY <2>4, <2>5
<1>2. \A x \in heap : x \in P
  <2>. HIDE DEF P
  <2>. QED
    BY <1>0, <1>1, TreeInduction
<1>. QED
  BY <1>2

\* A search from the root finds k or its successor.
LEMMA SearchIsRight ==
  ASSUME NEW sub, Still(root, sub), root \in heap, NEW k \in Data
  PROVE  IF k \in Keys
         THEN Search(k).node # Null /\ tree[Search(k).node].data = k
         ELSE Search(k).node = Null /\ IsNearest(Search(k).successor, k, RIGHT)
<1>1. sub[root] = heap /\ heap \subseteq Nodes /\ Null \notin Nodes /\ root # Null
  BY StillFacts DEF Still, Shape, Linked
<1>2. SoughtIn(sub, root, k)
  BY <1>1 DEF SoughtIn
<1>3. PICK y \in heap : /\ y = Trail(k)[root] /\ SoughtIn(sub, y, k)
                        /\ tree[y].data = k \/ Child(tree, y, Way(y, k)) = Null
  BY <1>2, TrailEnds
<1>4. Search(k) = IF tree[y].data = k THEN [node |-> y, successor |-> Null]
                  ELSE [node |-> Null,
                        successor |-> IF Way(y, k) = LEFT THEN y ELSE Traverse(y, RIGHT)]
  BY <1>1, <1>3 DEF Search
<1>5. CASE tree[y].data = k
  <2>1. k \in Keys
    BY <1>5 DEF Keys
  <2>. QED
    BY <1>1, <1>4, <1>5, <2>1
<1>6. CASE tree[y].data # k
  <2>1. PICK w : w = Way(y, k)
    OBVIOUS
  <2>2. w \in Sides /\ RIGHT \in Sides /\ k \in Int /\ tree[y].data \in Int
    BY <2>1, StillData, DataAssumption DEF Way, Sides
  <2>3. \A z \in heap : tree[z].data \in Int
    BY StillData
  <2>4. Part(tree, sub, y, w) = {}
    BY <1>3, <1>6, <2>1, <2>2, StillData
  <2>5. \A z \in heap : ~Toward(tree[y].data, tree[z].data, w) \/ Toward(k, tree[z].data, w)
    BY <1>3, <2>1, <2>4 DEF SoughtIn, Part
  <2>6. Toward(tree[y].data, k, w)
    <3>1. w = IF tree[y].data < k THEN RIGHT ELSE LEFT
      BY <2>1 DEF Way
    <3>. QED
      BY <1>6, <2>2, <3>1 DEF Toward, LEFT, RIGHT
  <2>7. k \notin Keys
    <3>1. \A z \in heap : tree[z].data # k
      BY <2>2, <2>5, <2>6, TowardFacts
    <3>. QED
      BY <3>1 DEF Keys
  <2>8. CASE w = LEFT
    <3>1. k < tree[y].data
      BY <2>2, <2>6, <2>8 DEF Toward, LEFT, RIGHT
    <3>2. \A z \in heap : k < tree[z].data => tree[y].data <= tree[z].data
      BY <2>2, <2>3, <2>5, <2>8 DEF Toward, LEFT, RIGHT
    <3>3. \A z \in heap : k < tree[z].data => z = y \/ tree[y].data < tree[z].data
      BY <2>2, <2>3, <3>2, StillData
    <3>4. Leads(y, Ahead(k, RIGHT), RIGHT)
      BY <3>1, <3>3 DEF Leads, Ahead, Toward
    <3>5. IsNearest(y, k, RIGHT)
      BY <2>2, <3>4, NearestIs
    <3>6. Search(k).node = Null /\ Search(k).successor = y
      BY <1>4, <1>6, <2>1, <2>8
    <3>. QED
      BY <2>7, <3>5, <3>6
  <2>9. CASE w = RIGHT
    <3>1. IsNearest(Traverse(y, RIGHT), tree[y].data, RIGHT)
      BY <2>2, TraverseIsRight
    <3>2. \A z \in heap : tree[z].data > tree[y].data <=> tree[z].data > k
      <4>1. tree[y].data < k
        BY <2>6, <2>9 DEF Toward
      <4>2. \A z \in heap : tree[y].data < tree[z].data => k < tree[z].data
        BY <2>5, <2>9 DEF Toward
      <4>. QED
        BY <2>2, <2>3, <4>1, <4>2
    <3>3. Beyond(tree[y].data, RIGHT) = Beyond(k, RIGHT)
      BY <3>2 DEF Beyond
    <3>4. IsNearest(Traverse(y, RIGHT), k, RIGHT)
      BY <3>1, <3>3 DEF IsNearest
    <3>5. Search(k).node = Null /\ Search(k).successor = Traverse(y, RIGHT)
      BY <1>4, <1>6, <2>1, <2>9 DEF LEFT, RIGHT
    <3>. QED
      BY <2>7, <3>4, <3>5
  <2>. QED
    BY <2>2, <2>8, <2>9 DEF Sides
<1>. QED
  BY <1>5, <1>6

\* The first and the last node are the nearest to what is outside of the data.
LEMMA OutermostIsRight ==
  ASSUME NEW sub, Still(root, sub), root \in heap
  PROVE  IsNearest(Outermost(LEFT), Lowest, RIGHT) /\ IsNearest(Outermost(RIGHT), Highest, LEFT)
<1>1. /\ sub[root] = heap /\ root # Null
      /\ LEFT \in Sides /\ RIGHT \in Sides /\ 1 - LEFT = RIGHT /\ 1 - RIGHT = LEFT
  BY StillFacts DEF Still, Shape, Linked, LEFT, RIGHT
<1>2. \A s \in Sides : Outermost(s) = Descent(s)[root]
  BY <1>1 DEF Outermost
<1>3. Leads(Outermost(LEFT), heap, RIGHT) /\ Leads(Outermost(RIGHT), heap, LEFT)
  BY <1>1, <1>2, DescentLeads
<1>4. Lowest \in Int /\ Highest \in Int
  BY HighestIs DEF Lowest
<1>5. \A z \in heap : tree[z].data \in Nat /\ tree[z].data < Highest
  BY HighestIs, StillData, DataAssumption
<1>6. Ahead(Lowest, RIGHT) = heap
  BY <1>5 DEF Ahead, Toward, Lowest
<1>7. Ahead(Highest, LEFT) = heap
  BY <1>5 DEF Ahead, Toward, LEFT, RIGHT
<1>. QED
  BY <1>1, <1>3, <1>4, <1>6, <1>7, NearestIs

\* The invariant makes the answers right.
LEMMA RightAnswers ==
  ASSUME RbtInv
  PROVE  AnswersAreRight
<1>1. SUFFICES ASSUME op = "none", ~cutShort
      PROVE  /\ \A k \in Data :
                  IF k \in Keys
                  THEN Search(k).node # Null /\ tree[Search(k).node].data = k
                  ELSE Search(k).node = Null /\ IsNearest(Search(k).successor, k, RIGHT)
             /\ \A x \in heap, s \in Sides : IsNearest(Traverse(x, s), tree[x].data, s)
             /\ IsNearest(Outermost(LEFT), Lowest, RIGHT)
             /\ IsNearest(Outermost(RIGHT), Highest, LEFT)
  BY DEF AnswersAreRight
<1>2. /\ TypeOK /\ IsFiniteSet(heap) /\ \A x \in Nodes \ heap : tree[x] = Erased
  BY DEF RbtInv, Frame
<1>3. PICK top, sub : Shape(tree, heap, top, sub) /\ CallInv(top, sub)
  BY DEF RbtInv
<1>4. root = top
  BY <1>1, <1>3 DEF CallInv
<1>5. Still(root, sub)
  BY <1>2, <1>3, <1>4, TreeType DEF Still
<1>6. root \in heap \/ (root = Null /\ heap = {})
  BY <1>1 DEF RbtInv, RootInv
<1>7. CASE root \in heap
  BY <1>5, <1>7, SearchIsRight, TraverseIsRight, OutermostIsRight
<1>8. CASE root = Null /\ heap = {}
  <2>1. Keys = {} /\ \A k, s : Beyond(k, s) = {}
    BY <1>8 DEF Keys, Beyond
  <2>2. \A k, s : IsNearest(Null, k, s)
    BY <2>1 DEF IsNearest
  <2>3. \A k : Search(k).node = Null /\ Search(k).successor = Null
    BY <1>8 DEF Search
  <2>4. \A s : Outermost(s) = Null
    BY <1>8 DEF Outermost
  <2>. QED
    BY <1>8, <2>1, <2>2, <2>3, <2>4
<1>. QED
  BY <1>6, <1>7, <1>8

\* Between calls a search finds what is there, and otherwise its successor;
\* traversals from either end meet every datum once and in order.
THEOREM AnswersStayRight == Spec => []AnswersAreRight
<1>1. RbtInv => AnswersAreRight
  BY RightAnswers
<1>. QED
  BY <1>1, RbtInvariant, PTL
==============================================================================
