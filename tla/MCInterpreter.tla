--------------------------- MODULE MCInterpreter ---------------------------
(* Programs for TLC's instances of Interpreter. *)
EXTENDS Interpreter

\* A class whose objects only refer to what encloses them; a method is only declared.
BareClass == [methods |-> [f \in Func |-> "declared"], members |-> Empty]

\* A class with every method, and every variable as a member.  The class was
\* parsed inside a loop, so that its methods may break.
FullClass == [methods |-> [f \in Func |-> "breaking"], members |-> [x \in Var |-> TRUE]]

\* Without objects: functions inside functions, nested once deeper.
Nesting == [class |-> {}, nested |-> Func, interactive |-> FALSE, depth |-> 4]

\* With objects.
WithObjects == [class |-> {FullClass}, nested |-> {}, interactive |-> FALSE, depth |-> 3]

\* What the REPL runs, statement by statement.
Session == [class |-> {BareClass}, nested |-> {}, interactive |-> TRUE, depth |-> 3]

AllPrograms     == {Nesting, WithObjects, Session}
NestingPrograms == {Nesting}

-----------------------------------------------------------------------------
(* Programs that get through the parser: call_expr parses the callee at    *)
(* every call, and would never end with a function whose text calls it.    *)
(* Here the program calls one function, in whose text the other is         *)
(* declared once more and called; no text of the other calls or declares.  *)

Inner == CHOOSE f \in Func : TRUE

HelperPrograms == {[Nesting EXCEPT !.nested = {Inner}]}

\* The calls under way.
Calls == Cardinality({i \in DOMAIN stack : stack[i].kind \in {"args", "body"}})

BeginsCall == Len(stack') > Len(stack) /\ Last(stack').kind = "args"

Declares ==
  \E d \in DOMAIN heap \cap DOMAIN heap' : heap'[d].functions # heap[d].functions

NoRecursion ==
  /\ BeginsCall => \/ Calls = 0 /\ \E f \in Func \ {Inner} : BeginCall(f)
                   \/ Calls = 1 /\ BeginCall(Inner)
  /\ Declares => Calls = 1

SpecNoRecursion == Init /\ [][Next /\ NoRecursion]_vars
=============================================================================
