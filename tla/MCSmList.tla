------------------------------- MODULE MCSmList -------------------------------
(* Small instances of SmList for TLC. *)
EXTENDS SmList, TLC

Symmetric == Permutations(Elts)
===============================================================================
