--------------------------- MODULE MCExpressions ---------------------------
(***************************************************************************)
(* Instances of Expressions: every program of a few nodes over two         *)
(* variables.                                                              *)
(***************************************************************************)
EXTENDS Expressions, TLC

NameSymmetry == Permutations(Names)
=============================================================================
