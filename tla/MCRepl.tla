------------------------------ MODULE MCRepl ------------------------------
(* A table of few types for TLC's instances of Repl. *)
EXTENDS Repl

MCClassName == {"A", "object", "error"}

MCName == {"type", "none", "error", "value", "object", "num"} \cup MCClassName

\* The types the interpreter asks for, in their order.
MCBuiltin ==
  <<[name |-> "type", super |-> "type"], [name |-> "none", super |-> "type"],
    [name |-> "error", super |-> "type"], [name |-> "value", super |-> "type"],
    [name |-> "object", super |-> "type"], [name |-> "num", super |-> "value"]>>
=============================================================================
