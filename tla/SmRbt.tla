-------------------------------- MODULE SmRbt --------------------------------
(***************************************************************************)
(* A red-black tree in a partition: ici/library/smrbt.c.  Insertion and    *)
(* deletion go down the tree once, with recolouring and rotations on the   *)
(* way; one turn of their loops is one step.  So is one turn of the loop   *)
(* that frees all nodes.  Searches and traversals change nothing and are   *)
(* functions.  Locks are stubs, and nothing else runs during a call.       *)
(*                                                                         *)
(* Data stand for their keys: data of equal keys are never inserted twice  *)
(* (rfx.c looks for the key first, or has the address of the data in it).  *)
(***************************************************************************)
EXTENDS Integers, FiniteSets

CONSTANTS
  Nodes,      \* addresses of nodes
  Data,       \* what nodes hold; the compare functions are their order
  Null,       \* address 0
  Dummy       \* dummyRootBuffer of a running call

ASSUME AddressAssumption ==
  Null \notin Nodes /\ Dummy \notin Nodes /\ Null # Dummy
ASSUME DataAssumption ==
  Data \subseteq Nat /\ IsFiniteSet(Data) /\ Null \notin Data

VARIABLES
  created,    \* whether there is a tree
  root,       \* rbt->root
  length,     \* rbt->length
  tree,       \* SmRbtNode at each address
  heap,       \* the nodes that are allocated
  op,         \* the call that is running
  key,        \* ... its data
  node, parent, grandparent, greatgrandparent,   \* ... where it has come to
  direction, prevDirection,                      \* ... its turns
  target,     \* ... the node that has the data to delete
  passes,     \* history: turns of the loop of the running call
  cutShort    \* history: an insertion has ended without recording its root

rbt == <<created, root, length, tree, heap>>
place == <<node, parent, grandparent, greatgrandparent>>
call == <<op, key, place, direction, prevDirection, target, passes>>
vars == <<rbt, call, cutShort>>

LEFT == 0
RIGHT == 1
Sides == {LEFT, RIGHT}

Erased == [parent |-> Null, child |-> [s \in Sides |-> Null], data |-> Null,
           isRed |-> FALSE]

-----------------------------------------------------------------------------
(* Trees t as values: what the pointers of the C code are changed to.      *)

Child(t, x, s) == t[x].child[s]
IsRed(t, x) == x # Null /\ t[x].isRed
BothRed(t, x) == \A s \in Sides : IsRed(t, Child(t, x, s))
BothBlack(t, x) == \A s \in Sides : ~IsRed(t, Child(t, x, s))

\* x and its children get the colours given.
Coloured(t, x, red, childrenRed) ==
  [z \in DOMAIN t |->
    [t[z] EXCEPT !.isRed =
       IF z = x THEN red
       ELSE IF \E s \in Sides : z = Child(t, x, s) THEN childrenRed ELSE @]]

\* x goes down on side s; its child pivot comes up and leaves it the orphan.
Pivoted(t, x, pivot, orphan, s) ==
  [z \in DOMAIN t |->
    IF z = pivot THEN [t[z] EXCEPT !.parent = t[x].parent, !.child[s] = x,
                                   !.isRed = FALSE]
    ELSE IF z = x THEN [t[z] EXCEPT !.parent = pivot, !.child[1 - s] = orphan,
                                    !.isRed = TRUE]
    ELSE IF z = orphan THEN [t[z] EXCEPT !.parent = x]
    ELSE t[z]]

\* Mutant: the subtree that changes sides keeps its parent link.
RotateOnce_KeepParent(t, x, s) ==
  LET pivot == Child(t, x, 1 - s)
      orphan == Child(t, pivot, s)
      turned == Pivoted(t, x, pivot, orphan, s)
  IN  [tree |-> [z \in DOMAIN t |->
                  IF z = orphan THEN [turned[z] EXCEPT !.parent = pivot] ELSE turned[z]],
       top |-> pivot]

\* Mutant: x keeps its old child, which is now above it.
RotateOnce_KeepChild(t, x, s) ==
  LET pivot == Child(t, x, 1 - s)
  IN  [tree |-> Pivoted(t, x, pivot, pivot, s), top |-> pivot]

\* rotateOnce: the tree, and what is now at the top in place of x.
RotateOnce(t, x, s) ==
  LET pivot == Child(t, x, 1 - s)
  IN  [tree |-> Pivoted(t, x, pivot, Child(t, pivot, s), s), top |-> pivot]

\* rotateTwice.
RotateTwice(t, x, s) ==
  LET first == RotateOnce(t, Child(t, x, 1 - s), 1 - s)
  IN  RotateOnce([first.tree EXCEPT ![x].child[1 - s] = first.top], x, s)

\* The result of a rotation becomes the child of x on side s.
Hung(rotation, x, s) == [rotation.tree EXCEPT ![x].child[s] = rotation.top]

\* The side of y on which x is: as the code asks, RIGHT or else LEFT.
SideOf(t, x, y) == IF Child(t, y, RIGHT) = x THEN RIGHT ELSE LEFT

\* The side of x on which the datum k is sought; for a call.
Way(x, k) == IF tree[x].data < k THEN RIGHT ELSE LEFT
Turn(x) == Way(x, key)

\* The end of a call that has changed the tree to t: the root is the child of
\* the dummy root, and black.
Finished(t) ==
  LET top == Child(t, Dummy, RIGHT)
  IN  /\ root' = top
      /\ tree' = [x \in DOMAIN t |->
                   IF x = Dummy THEN Erased
                   ELSE IF x = top THEN [t[x] EXCEPT !.isRed = FALSE] ELSE t[x]]

Return ==
  /\ op' = "none" /\ key' = Null /\ passes' = 0
  /\ node' = Null /\ parent' = Null
  /\ grandparent' = Null /\ greatgrandparent' = Null
  /\ direction' = LEFT /\ prevDirection' = LEFT /\ target' = Null

WithDummy == [tree EXCEPT ![Dummy].child[RIGHT] = root]

-----------------------------------------------------------------------------
(* sm_rbt_create, sm_rbt_insert.                                           *)

Create ==
  /\ op = "none" /\ ~created
  /\ created' = TRUE /\ root' = Null /\ length' = 0
  /\ UNCHANGED <<tree, heap, call, cutShort>>

NewNode(p, k, red) == [Erased EXCEPT !.parent = p, !.data = k, !.isRed = red]

InsertRoot(k) ==
  /\ op = "none" /\ created /\ root = Null
  /\ \E x \in Nodes \ heap :
       /\ tree' = [tree EXCEPT ![x] = NewNode(Null, k, FALSE)]
       /\ heap' = heap \cup {x} /\ root' = x
  /\ length' = 1
  /\ UNCHANGED <<created, call, cutShort>>

\* A bound of the model: after an insertion that was cut short, the tree is
\* only followed until it is wiped.
Usable == op = "none" /\ created /\ ~cutShort

BeginInsert(k) ==
  /\ Usable /\ root # Null
  /\ op' = "insert" /\ key' = k
  /\ tree' = WithDummy
  /\ node' = root /\ greatgrandparent' = Dummy
  /\ UNCHANGED <<created, root, length, heap, parent, grandparent, direction,
                 prevDirection, target, passes, cutShort>>

\* A node with two red children takes their colour.
Flipped(t, x) == IF BothRed(t, x) THEN Coloured(t, x, TRUE, FALSE) ELSE t

\* If the red node x has a red parent, the grandparent is rotated down.
Repaired(t, x) ==
  LET side == SideOf(t, grandparent, greatgrandparent)
      rotation == IF x = Child(t, parent, prevDirection)
                  THEN RotateOnce(t, grandparent, 1 - prevDirection)
                  ELSE RotateTwice(t, grandparent, 1 - prevDirection)
  IN  IF IsRed(t, parent) /\ IsRed(t, x)
      THEN Hung(rotation, greatgrandparent, side) ELSE t

InsertPass ==
  /\ op = "insert" /\ node # Null
  /\ tree' = Repaired(Flipped(tree, node), node)
  /\ prevDirection' = direction /\ direction' = Turn(node)
  /\ greatgrandparent' = IF grandparent = Null THEN greatgrandparent ELSE grandparent
  /\ grandparent' = parent /\ parent' = node
  /\ node' = Child(tree', node, direction')
  /\ passes' = passes + 1
  /\ UNCHANGED <<created, root, length, heap, op, key, target, cutShort>>

InsertNode ==
  /\ op = "insert" /\ node = Null
  /\ \E x \in Nodes \ heap :
       /\ Finished(Repaired([tree EXCEPT ![x] = NewNode(parent, key, TRUE),
                                         ![parent].child[direction] = x], x))
       /\ heap' = heap \cup {x}
  /\ length' = length + 1
  /\ Return /\ UNCHANGED <<created, cutShort>>

\* There is no space for the node: the call returns there and then, with the
\* root as it was before the pass, and as red as the pass has made it.
InsertFails ==
  /\ op = "insert" /\ node = Null
  /\ tree' = [tree EXCEPT ![Dummy] = Erased]
  /\ cutShort' = (root # Child(tree, Dummy, RIGHT) \/ IsRed(tree, root))
  /\ Return /\ UNCHANGED <<created, root, length, heap>>

-----------------------------------------------------------------------------
(* sm_rbt_delete.                                                          *)

BeginDelete(k) ==
  /\ Usable /\ root # Null /\ length # 0
  /\ op' = "delete" /\ key' = k
  /\ tree' = WithDummy
  /\ node' = Dummy /\ direction' = RIGHT
  /\ UNCHANGED <<created, root, length, heap, parent, grandparent,
                 greatgrandparent, prevDirection, target, passes, cutShort>>

\* The turn from p to its child x, from which the next turn goes to side s:
\* x or that child is to be red.  The tree, and the parent of x in it.
Descended(x, p, s) ==
  LET last == direction
      sibling == Child(tree, p, 1 - last)
      raised == RotateOnce(tree, x, s)
      pulled == IF IsRed(tree, Child(tree, sibling, last))
                THEN RotateTwice(tree, p, last) ELSE RotateOnce(tree, p, last)
      hung == Hung(pulled, parent, SideOf(tree, p, parent))
  IN  IF IsRed(tree, x) \/ IsRed(tree, Child(tree, x, s))
      THEN [tree |-> tree, parent |-> p]
      ELSE IF IsRed(tree, Child(tree, x, 1 - s))
      THEN [tree |-> Hung(raised, p, last), parent |-> raised.top]
      ELSE IF sibling = Null
      THEN [tree |-> tree, parent |-> p]
      ELSE IF BothBlack(tree, sibling)
      THEN [tree |-> Coloured(tree, p, FALSE, TRUE), parent |-> p]
      ELSE [tree |-> [Coloured(hung, pulled.top, TRUE, FALSE) EXCEPT ![x].isRed = TRUE],
            parent |-> p]

DeletePass ==
  /\ op = "delete" /\ Child(tree, node, direction) # Null
  /\ LET x == Child(tree, node, direction)
         next == Descended(x, node, Turn(x))
     IN  /\ tree' = next.tree
         /\ node' = x /\ parent' = next.parent
         /\ direction' = Turn(x)
         /\ target' = IF tree[x].data = key THEN x ELSE target
  /\ grandparent' = parent /\ prevDirection' = direction
  /\ passes' = passes + 1
  /\ UNCHANGED <<created, root, length, heap, op, key, greatgrandparent, cutShort>>

\* Mutant: the datum of the last node is lost.
Moved_Lost == tree

\* The datum of the last node moves to the target.
Moved == [tree EXCEPT ![target].data = tree[node].data]

\* ... and the last node goes.
DeleteTarget ==
  /\ op = "delete" /\ Child(tree, node, direction) = Null /\ target # Null
  /\ LET rest == IF Child(tree, node, LEFT) = Null THEN RIGHT ELSE LEFT
         cut == [Moved EXCEPT ![parent].child[SideOf(tree, node, parent)] =
                                Child(tree, node, rest)]
     IN  Finished([cut EXCEPT ![node] = Erased])
  /\ heap' = heap \ {node} /\ length' = length - 1
  /\ Return /\ UNCHANGED <<created, cutShort>>

DeleteNothing ==
  /\ op = "delete" /\ Child(tree, node, direction) = Null /\ target = Null
  /\ Finished(tree)
  /\ Return /\ UNCHANGED <<created, length, heap, cutShort>>

-----------------------------------------------------------------------------
(* destroyRbtNodes: sm_rbt_clear and sm_rbt_destroy.                       *)

BeginWipe(o) ==
  /\ op = "none" /\ created
  /\ op' = o /\ node' = root
  /\ UNCHANGED <<rbt, key, parent, grandparent, greatgrandparent, direction,
                 prevDirection, target, passes, cutShort>>

Wiping == op \in {"clear", "destroy"}
Leaf(x) == \A s \in Sides : Child(tree, x, s) = Null

WipeDescend ==
  /\ Wiping /\ node # Null /\ ~Leaf(node)
  /\ node' = IF Child(tree, node, LEFT) # Null THEN Child(tree, node, LEFT)
             ELSE Child(tree, node, RIGHT)
  /\ UNCHANGED <<rbt, op, key, parent, grandparent, greatgrandparent, direction,
                 prevDirection, target, passes, cutShort>>

WipeLeaf ==
  /\ Wiping /\ node # Null /\ Leaf(node)
  /\ LET up == tree[node].parent
     IN  /\ tree' = [x \in DOMAIN tree |->
                       IF x = node THEN Erased
                       ELSE IF x # up THEN tree[x]
                       ELSE [tree[x] EXCEPT !.child = [s \in Sides |->
                               IF @[s] = node THEN Null ELSE @[s]]]]
         /\ node' = up
         /\ root' = IF up = Null THEN Null ELSE root
  /\ heap' = heap \ {node}
  /\ UNCHANGED <<created, length, op, key, parent, grandparent, greatgrandparent,
                 direction, prevDirection, target, passes, cutShort>>

\* The length is erased with the tree only, not when it is cleared.
WipeEnd ==
  /\ Wiping /\ node = Null
  /\ IF op = "destroy" THEN created' = FALSE /\ length' = 0
     ELSE UNCHANGED <<created, length>>
  /\ cutShort' = FALSE
  /\ Return /\ UNCHANGED <<root, tree, heap>>

-----------------------------------------------------------------------------
(* Functions that change nothing.                                          *)

\* The last node on side s at or below each node.
Descent(s) ==
  LET down[x \in Nodes] ==
        IF Child(tree, x, s) = Null THEN x ELSE down[Child(tree, x, s)]
  IN  down

\* The first node above each node that has the other one of its sides there.
Ascent(s) ==
  LET up[x \in Nodes] ==
        LET p == tree[x].parent
        IN  IF p = Null THEN Null
            ELSE IF x = Child(tree, p, 1 - s) THEN p ELSE up[p]
  IN  up

\* sm_rbt_first and sm_rbt_last: the last node on side s.
Outermost(s) == IF root = Null THEN Null ELSE Descent(s)[root]

\* Mutant: goes up one node and no further.
Traverse_UpOnce(x, s) ==
  IF Child(tree, x, s) = Null THEN tree[x].parent
  ELSE Descent(1 - s)[Child(tree, x, s)]

\* traverseRbt: the neighbor of x on side s.
Traverse(x, s) ==
  IF Child(tree, x, s) = Null THEN Ascent(s)[x]
  ELSE Descent(1 - s)[Child(tree, x, s)]

\* Where a search for k ends that has come to x.
Trail(k) ==
  LET end[x \in Nodes] ==
        IF tree[x].data = k \/ Child(tree, x, Way(x, k)) = Null THEN x
        ELSE end[Child(tree, x, Way(x, k))]
  IN  end

\* sm_rbt_search: the node that has k, else the successor of k.
Search(k) ==
  LET x == Trail(k)[root]
  IN  IF root = Null THEN [node |-> Null, successor |-> Null]
      ELSE IF tree[x].data = k THEN [node |-> x, successor |-> Null]
      ELSE [node |-> Null,
            successor |-> IF Way(x, k) = LEFT THEN x ELSE Traverse(x, RIGHT)]

-----------------------------------------------------------------------------
(* The specification.                                                      *)

Keys == {tree[x].data : x \in heap}

Init ==
  /\ created = FALSE /\ root = Null /\ length = 0
  /\ tree = [x \in Nodes \cup {Dummy} |-> Erased] /\ heap = {}
  /\ op = "none" /\ key = Null /\ passes = 0 /\ cutShort = FALSE
  /\ node = Null /\ parent = Null
  /\ grandparent = Null /\ greatgrandparent = Null
  /\ direction = LEFT /\ prevDirection = LEFT /\ target = Null

Next ==
  \/ Create
  \/ \E k \in Data \ Keys : InsertRoot(k) \/ BeginInsert(k)
  \/ InsertPass \/ InsertNode \/ InsertFails
  \/ \E k \in Data : BeginDelete(k)
  \/ DeletePass \/ DeleteTarget \/ DeleteNothing
  \/ BeginWipe("clear") \/ BeginWipe("destroy")
  \/ WipeDescend \/ WipeLeaf \/ WipeEnd

Spec == Init /\ [][Next]_vars

-----------------------------------------------------------------------------
(* Properties.                                                             *)

Address == Nodes \cup {Null, Dummy}

TypeOK ==
  /\ created \in BOOLEAN /\ length \in Nat /\ root \in Nodes \cup {Null}
  /\ tree \in [Nodes \cup {Dummy} ->
               [parent : Address, child : [Sides -> Nodes \cup {Null}],
                data : Data \cup {Null}, isRed : BOOLEAN]]
  /\ heap \subseteq Nodes
  /\ op \in {"none", "insert", "delete", "clear", "destroy"}
  /\ key \in Data \cup {Null}
  /\ node \in Address /\ parent \in Address
  /\ grandparent \in Address /\ greatgrandparent \in Address
  /\ direction \in Sides /\ prevDirection \in Sides
  /\ target \in Nodes \cup {Null}
  /\ passes \in Nat /\ cutShort \in BOOLEAN

\* Bounds of the data, outside of them.
Lowest == -1
Highest == CHOOSE n \in {0} \cup {d + 1 : d \in Data} : \A d \in Data : d < n

\* The allocated nodes whose data lie between lo and hi.
Within(lo, hi) == {x \in heap : lo < tree[x].data /\ tree[x].data < hi}

\* A node, how many black nodes all paths down from it meet, and the bounds of
\* the data it leads to.
Region == [node : Nodes \cup {Null}, height : Nat,
           lo : Lowest..Highest, hi : Lowest..Highest]

\* The node of r leads to exactly the nodes with data between the bounds, in
\* order; no red node has a red child, and the height is that on all paths.
IsSubtree[r \in Region] ==
  IF r.node = Null THEN r.height = 0 /\ Within(r.lo, r.hi) = {}
  ELSE LET x == r.node
           below == r.height - IF tree[x].isRed THEN 0 ELSE 1
       IN  /\ x \in Within(r.lo, r.hi) /\ below >= 0
           /\ \A s \in Sides :
                LET c == Child(tree, x, s)
                IN  /\ c # Null => tree[c].parent = x
                    /\ ~(IsRed(tree, x) /\ IsRed(tree, c))
                    /\ IsSubtree[[node |-> c, height |-> below,
                                  lo |-> IF s = LEFT THEN r.lo ELSE tree[x].data,
                                  hi |-> IF s = LEFT THEN tree[x].data ELSE r.hi]]

\* Between calls the tree is a red-black tree of all nodes that are allocated:
\* rotations, recolourings and the moving of data on the way down leave no
\* node astray, out of order or with a stale link to its parent.
TreeIsSound ==
  /\ TypeOK
  /\ op = "none" /\ ~cutShort =>
       /\ root # Null => tree[root].parent = Null /\ ~tree[root].isRed
       /\ \E h \in 0..Cardinality(heap) :
            IsSubtree[[node |-> root, height |-> h, lo |-> Lowest, hi |-> Highest]]
       /\ root # Null => length = Cardinality(heap)
  /\ \A x \in Nodes \ heap : tree[x] = Erased

\* x has the datum next to k on side s, if there is one.
Beyond(k, s) ==
  {x \in heap : IF s = RIGHT THEN tree[x].data > k ELSE tree[x].data < k}
IsNearest(x, k, s) ==
  IF Beyond(k, s) = {} THEN x = Null
  ELSE x \in Beyond(k, s) /\ Beyond(k, s) \ {x} = Beyond(tree[x].data, s)

\* After any sequence of calls a search finds what is there; it names the
\* successor of what is not, from which its callers go on, and they meet every
\* datum once and in order, from either end.
AnswersAreRight ==
  op = "none" /\ ~cutShort =>
    /\ \A k \in Data :
         LET answer == Search(k)
         IN  IF k \in Keys
             THEN answer.node # Null /\ tree[answer.node].data = k
             ELSE answer.node = Null /\ IsNearest(answer.successor, k, RIGHT)
    /\ \A x \in heap, s \in Sides : IsNearest(Traverse(x, s), tree[x].data, s)
    /\ IsNearest(Outermost(LEFT), Lowest, RIGHT)
    /\ IsNearest(Outermost(RIGHT), Highest, LEFT)

Power[n \in Nat] == IF n = 0 THEN 1 ELSE 2 * Power[n - 1]

\* A call goes down a path of logarithmic length, although the tree turns under
\* it: no more than 3 log (n + 1) turns of the loop for n nodes.  They can be
\* more than 2 log (n + 1), the length of the longest path down a red-black
\* tree: after a double rotation the loop looks again at a node it has passed.
CallsAreShort ==
  LET n == Cardinality(heap) IN Power[passes] <= (n + 1) * (n + 1) * (n + 1)

Set == INSTANCE KeySet
  WITH keys <- Keys,
       pending <- CASE op = "none" -> <<"none">>
                    [] op \in {"insert", "delete"} -> <<op, key>>
                    [] op \in {"clear", "destroy"} -> <<"wipe">>

\* Whatever the calls do to the nodes, the tree holds a set of data that
\* changes by one datum at a time, and only by the one that was given; that
\* also when a node could not be allocated, and nothing outlives a wiping.
TreeImplementsSet == Set!Spec
=============================================================================
