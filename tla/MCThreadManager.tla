--------------------------- MODULE MCThreadManager ---------------------------
(* The client thread for TLC's instance of ThreadManager. *)
EXTENDS ThreadManager

CONSTANT a

OneClient == {a}
==============================================================================
