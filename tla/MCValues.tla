------------------------------ MODULE MCValues ------------------------------
(* Values for TLC's instances of Values. *)
EXTENDS Values, TLC

MCLiteral == {Num(0), Bool(TRUE), None}

MCData == 0 .. 2

VarSymmetry == Permutations(Var)
=============================================================================
