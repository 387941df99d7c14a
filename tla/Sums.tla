-------------------------------- MODULE Sums --------------------------------
(***************************************************************************)
(* Running sums and products: what a loop over a list has accumulated after *)
(* each of its turns.                                                       *)
(***************************************************************************)
EXTENDS Naturals, Sequences

Totals(s) ==
  LET total[n \in 0..Len(s)] == IF n = 0 THEN 0 ELSE total[n - 1] + s[n]
  IN  total

Products(s) ==
  LET product[n \in 0..Len(s)] == IF n = 0 THEN 1 ELSE product[n - 1] * s[n]
  IN  product
=============================================================================
