------------------------------- MODULE MCSmRbt -------------------------------
(* Small instances of SmRbt for TLC. *)
EXTENDS SmRbt, TLC

\* A tree without the addresses of its nodes, which nothing depends on.
Named(x) == IF x \in heap THEN tree[x].data ELSE x
Anonymous ==
  <<created, Named(root), length,
    {[data |-> tree[x].data, isRed |-> tree[x].isRed,
      parent |-> Named(tree[x].parent),
      child |-> [s \in Sides |-> Named(Child(tree, x, s))]] :
       x \in heap \cup {Dummy}},
    {tree[x] : x \in Nodes \ heap},
    op, key, Named(node), Named(parent), Named(grandparent),
    Named(greatgrandparent), direction, prevDirection, Named(target), passes,
    cutShort>>

InUse == 1..9
==============================================================================
