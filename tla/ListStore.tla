------------------------------ MODULE ListStore ------------------------------
(***************************************************************************)
(* What ici/library/smlist.c promises: each list is a sequence of elements *)
(* with their data.  An insertion puts one new element between two others, *)
(* a deletion takes one out, and no call touches another list.  In a list  *)
(* that is kept in order a new element comes after all that are not        *)
(* greater, so that elements of equal key stay in order of insertion.      *)
(***************************************************************************)
EXTENDS Integers, Sequences

CONSTANTS
  Lists,      \* addresses of lists
  Elts,       \* addresses of elements
  Data,       \* data of elements, in the order of the compare function
  Sorted,     \* the lists that are kept in order
  Null

VARIABLES
  seqs,       \* the elements of each list, in order
  answer      \* of a search that has ended: what it has found

NoAnswer == <<>>
vars == <<seqs, answer>>

Listed(x) == \E l \in Lists : \E i \in DOMAIN seqs[l] : seqs[l][i].elt = x

Put(l, x, d) ==
  /\ ~Listed(x)
  /\ \E i \in 0..Len(seqs[l]) :
       /\ l \in Sorted =>
            /\ \A j \in 1..i : seqs[l][j].data <= d
            /\ \A j \in (i + 1)..Len(seqs[l]) : seqs[l][j].data > d
       /\ seqs' = [seqs EXCEPT ![l] =
                     SubSeq(@, 1, i) \o <<[elt |-> x, data |-> d]>>
                       \o SubSeq(@, i + 1, Len(@))]
  /\ UNCHANGED answer

Take(l, i) ==
  /\ seqs' = [seqs EXCEPT ![l] = SubSeq(@, 1, i - 1) \o SubSeq(@, i + 1, Len(@))]
  /\ UNCHANGED answer

Assign(l, i, d) ==
  /\ l \notin Sorted
  /\ seqs' = [seqs EXCEPT ![l][i].data = d]
  /\ UNCHANGED answer

\* The first element from the i-th on whose data are d.
FirstFrom(s, i, d) ==
  LET hits == {j \in i..Len(s) : s[j].data = d}
  IN  IF hits = {} THEN Null
      ELSE s[CHOOSE j \in hits : \A k \in hits : j <= k].elt

Find(l, i, d) ==
  /\ answer = NoAnswer
  /\ answer' = <<FirstFrom(seqs[l], i, d)>>
  /\ UNCHANGED seqs

Answered ==
  /\ answer # NoAnswer /\ answer' = NoAnswer
  /\ UNCHANGED seqs

Init == seqs = [l \in Lists |-> <<>>] /\ answer = NoAnswer

Next ==
  \/ \E l \in Lists :
       \/ \E x \in Elts, d \in Data : Put(l, x, d)
       \/ \E i \in DOMAIN seqs[l] :
            \/ Take(l, i)
            \/ \E d \in Data : Assign(l, i, d) \/ Find(l, i, d)
  \/ Answered

Spec == Init /\ [][Next]_vars
==============================================================================
