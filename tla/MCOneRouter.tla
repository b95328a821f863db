------------------------------ MODULE MCOneRouter ------------------------------
(* Small instances of OneRouter for TLC. *)
EXTENDS OneRouter

\* Messages are numbers: 1, 2, 3, and 11, a copy of 1.
MCId(m) == m % 10
MCSize(m) == m % 10
================================================================================
