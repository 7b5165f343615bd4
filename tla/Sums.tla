-------------------------------- MODULE Sums --------------------------------
(***************************************************************************)
(* What the loops over columns add up: numbers, or sequences, one for each *)
(* of the first n columns.                                                 *)
(***************************************************************************)
EXTENDS Integers, Sequences

Total(n, x) ==
  LET upto[i \in 0 .. n] == IF i = 0 THEN 0 ELSE upto[i - 1] + x[i]
  IN  upto[n]

Concat(n, x) ==
  LET upto[i \in 0 .. n] == IF i = 0 THEN << >> ELSE upto[i - 1] \o x[i]
  IN  upto[n]
=============================================================================
