------------------------------ MODULE Budget ------------------------------
(***************************************************************************)
(* The byte budget of one tier: committed usage and reservations against a  *)
(* capacity.  A budget is a record; every operation of the code that can    *)
(* fail is an enabling condition and a result.  Sums past the width of the  *)
(* counters are refused by the capacity comparison itself, because the      *)
(* capacity is a counter of the same width.                                 *)
(***************************************************************************)
EXTENDS Integers

Budget == [capacity : Nat, used : Nat, reserved : Nat]

EmptyBudget(c) == [capacity |-> c, used |-> 0, reserved |-> 0]

\* Saturating subtraction: nothing is free once the tier is over its capacity.
Free(b) ==
  IF b.used + b.reserved <= b.capacity THEN b.capacity - (b.used + b.reserved) ELSE 0

CanAddUsed(b, n) == b.used + n <= b.capacity
AddUsed(b, n) == [b EXCEPT !.used = @ + n]

CanReserve(b, n) == b.used + b.reserved + n <= b.capacity
Reserve(b, n) == [b EXCEPT !.reserved = @ + n]

\* The reservation is given up before the addition is checked: a refused
\* addition loses the reserved bytes.
CanCommitReserve(b, n) == n <= b.reserved
CommitReserve(b, n) ==
  LET given == [b EXCEPT !.reserved = @ - n]
  IN  IF CanAddUsed(given, n) THEN AddUsed(given, n) ELSE given

=============================================================================
