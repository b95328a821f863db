-------------------------------- MODULE KeySet --------------------------------
(***************************************************************************)
(* What ici/library/smrbt.c promises of a tree: it holds a set of data.    *)
(* While a call is running nothing is lost and nothing appears; when it    *)
(* returns, the data it was given are in or out, and no others have been   *)
(* touched.                                                                *)
(***************************************************************************)
CONSTANT Data

VARIABLES
  keys,      \* the data in the tree
  pending    \* the call that is running, with its data if it has any

vars == <<keys, pending>>

Idle == <<"none">>

Begin(c) == pending = Idle /\ pending' = c /\ UNCHANGED keys

\* Also in one step: the first data of a tree.
Insert(k) ==
  /\ pending \in {Idle, <<"insert", k>>}
  /\ k \notin keys /\ keys' = keys \cup {k}
  /\ pending' = Idle

NoSpace == /\ \E k \in Data : pending = <<"insert", k>>
           /\ pending' = Idle /\ UNCHANGED keys

Delete(k) ==
  /\ pending = <<"delete", k>>
  /\ keys' = keys \ {k}
  /\ pending' = Idle

\* A tree is wiped piece by piece, until nothing is left.
WipeOne == /\ pending = <<"wipe">>
           /\ \E k \in keys : keys' = keys \ {k}
           /\ UNCHANGED pending

WipeEnd == /\ pending = <<"wipe">>
           /\ keys' = {}
           /\ pending' = Idle

Init == keys = {} /\ pending = Idle

Next ==
  \/ \E k \in Data : \/ Begin(<<"insert", k>>) \/ Begin(<<"delete", k>>)
                     \/ Insert(k) \/ Delete(k)
  \/ Begin(<<"wipe">>) \/ NoSpace \/ WipeOne \/ WipeEnd

Spec == Init /\ [][Next]_vars
===============================================================================
