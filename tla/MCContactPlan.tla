---------------------------- MODULE MCContactPlan ----------------------------
(* Small instances of ContactPlan for TLC. *)
EXTENDS ContactPlan, TLC

Symmetric == Permutations(Refs)

\* A contact that a removal may leave in the database; another contact of its
\* pair can touch it, overlap it, or be tried at its key.
MCLosable ==
  {c \in IonContact : /\ <<c.fromNode, c.toNode>> = <<1, 2>>
                      /\ <<c.fromTime, c.toTime>> = <<2, 3>>}
=============================================================================
