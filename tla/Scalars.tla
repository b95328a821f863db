------------------------------- MODULE Scalars -------------------------------
(***************************************************************************)
(* The arithmetic of ici/library/platform.c on counts of bytes that do not *)
(* fit into an int: a count of gigs and the units left over.  Their value  *)
(* may fall below zero, and then the gigs do; the units never.  Values     *)
(* that are multiplied or divided, by way of a double, are not negative.   *)
(***************************************************************************)
EXTENDS Integers

CONSTANT OneGig    \* ONE_GIG

ASSUME OneGigAssumption == OneGig \in Nat \ {0}

Abs(i) == IF i < 0 THEN 0 - i ELSE i

\* The number that a scalar stands for, and the scalar of a number.
Value(s) == OneGig * s.gigs + s.units
Split(n) == [gigs |-> n \div OneGig, units |-> n % OneGig]

LoadScalar(i) == Split(Abs(i))

\* Whole gigs are taken off i first, and one may be carried.
IncreaseScalar(s, i) ==
  LET whole == Split(Abs(i))
      rest == Split(s.units + whole.units)
  IN  [gigs |-> s.gigs + whole.gigs + rest.gigs, units |-> rest.units]

\* Mutant: nothing is borrowed.
ReduceScalar_NoBorrow(s, i) ==
  LET whole == Split(Abs(i))
  IN  [gigs |-> s.gigs - whole.gigs,
       units |-> IF whole.units > s.units THEN s.units + OneGig - whole.units
                 ELSE s.units - whole.units]

\* Whole gigs are taken off i first, and one may be borrowed.
ReduceScalar(s, i) ==
  LET whole == Split(Abs(i))
  IN  IF whole.units > s.units
      THEN [gigs |-> s.gigs - whole.gigs - 1, units |-> s.units + OneGig - whole.units]
      ELSE [gigs |-> s.gigs - whole.gigs, units |-> s.units - whole.units]

MultiplyScalar(s, i) == Split(Value(s) * Abs(i))
DivideScalar(s, i) == Split(Value(s) \div Abs(i))

SubtractFromScalar(s, decrement) ==
  [ReduceScalar(s, decrement.units) EXCEPT !.gigs = @ - decrement.gigs]

ScalarIsValid(s) == s.gigs >= 0
==============================================================================
