------------------------------ MODULE MCBackend ------------------------------
(* Names for TLC's instances of Backend. *)
EXTENDS Backend, TLC

FuncSymmetry == Permutations(FuncName)
=============================================================================
