----------------------------- MODULE ContactBook -----------------------------
(***************************************************************************)
(* What a contact plan promises about its contacts: a set of reservations  *)
(* of directed node pairs, in which a reservation is entered only if it    *)
(* is disjoint in time from every other reservation of its pair, and from  *)
(* which reservations of one pair may be withdrawn.                        *)
(***************************************************************************)
EXTENDS Integers

VARIABLE booked   \* records with fields fromNode, toNode, fromTime, toTime

Pair(x) == <<x.fromNode, x.toNode>>

Free(c) ==
  \A x \in booked :
    Pair(x) = Pair(c) => x.toTime <= c.fromTime \/ c.toTime <= x.fromTime

Reserve ==
  \E c \in booked' : /\ Free(c)
                    /\ booked' = booked \cup {c}

Withdraw ==
  /\ booked' \subseteq booked
  /\ \A x, y \in booked \ booked' : Pair(x) = Pair(y)

Init == booked = {}

Next == Reserve \/ Withdraw

Spec == Init /\ [][Next]_booked
=============================================================================
