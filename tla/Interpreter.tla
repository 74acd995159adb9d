----------------------------- MODULE Interpreter -----------------------------
(***************************************************************************)
(* The tree-walking interpreter (Interpreting/Interpreter.cpp).            *)
(*                                                                         *)
(* The interpreter is a recursive C++ program: run_stmt and run_expr call  *)
(* each other, every one of them works on the one pointer env_, and        *)
(* `break', `return' and errors are C++ exceptions that unwind it.  The    *)
(* C++ stack is the variable `stack'; it keeps a frame for each function   *)
(* that catches something or that keeps a local pointer to an environment: *)
(* run_block_stmt, run_while_stmt and run_for_stmt, run_call_expr (while   *)
(* it evaluates arguments, then while it runs the body), run_access_expr.  *)
(* The other functions only forward to these.                              *)
(*                                                                         *)
(* The program being interpreted is arbitrary: every step picks the        *)
(* statement or expression that comes next among those the parser lets     *)
(* stand there.  Values matter as far as they carry an environment.        *)
(***************************************************************************)
EXTENDS Environment

CONSTANTS Program,      \* the kinds of programs interpreted
          MaxEnv,       \* bound: environments ever allocated
          MaxObject     \* bound: objects whose environment is allocated

\* Of a program: its classes, each with methods, of which some are only declared
\* or may break, and with members of which some are declared with a class; the functions it also declares inside functions;
\* whether run_single_statement (the REPL) runs it instead of run; and, a bound,
\* the frames on its stack.
ASSUME ProgramAssumption ==
  \A p \in Program :
    /\ \A c \in p.class : IsTable(c.methods, Func, Body) /\ IsTable(c.members, Var, BOOLEAN)
    /\ p.nested \subseteq Func
    /\ p.interactive \in BOOLEAN
    /\ p.depth \in Nat
ASSUME BoundAssumption == MaxEnv \in Nat /\ MaxObject \in Nat

VARIABLES
  program, \* the program interpreted
  heap,    \* the environments allocated now
  fresh,   \* the next address `new Environment' returns
  env,     \* this->env_
  stack,   \* the frames of the C++ stack, the innermost last
  exc,     \* the exception in flight
  errors,  \* ErrorManager::error_ocurred
  status,  \* how the process stands
  events   \* history: what happened that the C++ code did not undo

vars == <<program, heap, fresh, env, stack, exc, errors, status, events>>

Class       == program.class
Nested      == program.nested
Interactive == program.interactive
MaxDepth    == program.depth

\* Error: a CILError; Unhandled: the CILError of run_stmt's default branch.
Exception == {"none", "Break", "Return", "Error", "Unhandled"}
CILError  == {"Error", "Unhandled"}

\* terminated: std::terminate, an exception left main; overflow: the recursion
\* of a lookup exhausted the C++ stack; undefined: undefined behaviour.
Status == {"running", "done", "terminated", "overflow", "undefined"}

\* leaked: an exception left a scope without deleting it; unwound: one left
\* run_access_expr; reentered: an object was accessed inside its own access.
Event == {"leaked", "unwound", "reentered"}

\* previous: the local `previous'; own: the environment the frame made current;
\* breaks: the function running was parsed inside a loop.
Frame == [kind : {"block", "loop", "args", "body", "access"},
          previous : Nat, own : Nat, breaks : BOOLEAN]

Init ==
  /\ program \in Program
  /\ heap = Allocate([e \in {} |-> e], Global,
                     [NewEnvironment(Null) EXCEPT
                        !.functions = [f \in IF Interactive THEN {} ELSE Func |-> "defined"]])
  /\ fresh = Global + 1
  /\ env = Global
  /\ stack = <<>>
  /\ exc = "none"
  /\ errors = FALSE
  /\ status = "running"
  /\ events = {}

-----------------------------------------------------------------------------

Running == status = "running" /\ exc = "none"

Top == Last(stack)
TopIs(kind) == stack # <<>> /\ Top.kind = kind

Push(kind, previous, own, breaks) ==
  /\ Len(stack) < MaxDepth
  /\ stack' = Append(stack, [kind |-> kind, previous |-> previous, own |-> own,
                             breaks |-> breaks])
Pop == stack' = Front(stack)

\* A statement may come next; inside arguments and an access only an expression.
InStatement == ~TopIs("args") /\ ~TopIs("access")

\* new Environment(enclosing) becomes current, with these variables.
NewScope(variables) ==
  /\ fresh <= MaxEnv
  /\ heap' = Allocate(heap, fresh, [NewEnvironment(env) EXCEPT !.variables = variables])
  /\ env' = fresh
  /\ fresh' = fresh + 1

\* Mistakes around EndScope, for the runs that check it: the two statements
\* swapped, the second one or the first one forgotten.
SwappedEndScope ==
  /\ env' = Top.previous
  /\ heap' = Delete(heap, Top.previous)
KeepingEndScope == env \in DOMAIN heap /\ heap' = Delete(heap, env) /\ UNCHANGED env
LeakingEndScope == env' = Top.previous /\ UNCHANGED heap

\* delete this->env_; this->env_ = previous;
EndScope ==
  /\ env \in DOMAIN heap
  /\ heap' = Delete(heap, env)
  /\ env' = Top.previous

Throw(e) == exc' = e /\ UNCHANGED <<heap, fresh, env, stack, errors, status, events>>

Objects == {d \in DOMAIN heap : heap[d].of = "object"}
Values  == {NoObject} \cup Objects

\* A variable declared with, or bound to, a value of its own type.
Typed(v) == [object |-> v # NoObject, value |-> v]

-----------------------------------------------------------------------------
(* Blocks and loops.                                                       *)

EnterBlock ==
  /\ Running /\ InStatement
  /\ NewScope(Empty)
  /\ Push("block", env, fresh, FALSE)
  /\ UNCHANGED <<exc, errors, status, events>>

LeaveBlock ==
  /\ Running /\ TopIs("block")
  /\ EndScope /\ Pop
  /\ UNCHANGED <<fresh, exc, errors, status, events>>

\* The try block of run_while_stmt and of run_for_stmt, whose init statement
\* and conditions run in it too; neither opens a scope.
EnterLoop ==
  /\ Running /\ InStatement
  /\ Push("loop", Null, Null, FALSE)
  /\ UNCHANGED <<heap, fresh, env, exc, errors, status, events>>

LeaveLoop ==
  /\ Running /\ TopIs("loop")
  /\ Pop
  /\ UNCHANGED <<heap, fresh, env, exc, errors, status, events>>

\* The frames of the statement that is running inside its function.
InFunction == {i \in DOMAIN stack : \A j \in i .. Len(stack) : stack[j].kind \in {"block", "loop"}}
Caller == Len(stack) - Cardinality(InFunction)

\* loop_level >= 1 where the parser met the statement.
InLoop ==
  \/ \E i \in InFunction : stack[i].kind = "loop"
  \/ Caller > 0 /\ stack[Caller].breaks

Break == Running /\ InStatement /\ InLoop /\ Throw("Break")

\* Mistake: a parser that lets `return' stand outside of functions.
ReturnAnywhere == Running /\ InStatement /\ Throw("Return")

\* func_level >= 1 where the parser met the statement.
Return == Running /\ InStatement /\ Caller > 0 /\ Throw("Return")

\* Every other error of an expression or statement.
Fail == Running /\ Throw("Error")

\* run_if_stmt hands an elif or else branch to run_stmt, whose switch has no
\* case for it.
FalseConditionWithElse == Running /\ InStatement /\ Throw("Unhandled")

-----------------------------------------------------------------------------
(* Declarations and assignments.                                           *)

DeclareVar(x, v) ==
  /\ Running /\ InStatement /\ env \in DOMAIN heap
  /\ CanDefineVar(heap, env, x)
  /\ heap' = DefineVar(heap, env, x, Typed(v))
  /\ UNCHANGED <<fresh, env, stack, exc, errors, status, events>>

\* run reaches only definitions nested in a function (the scanner has taken the
\* others out of the program); a body parsed inside a loop may break.
DeclareFunc(f, defined) ==
  /\ Running /\ InStatement /\ env \in DOMAIN heap
  /\ Interactive \/ Caller > 0
  /\ CanDefineFunc(heap, env, f)
  /\ heap' = DefineFunc(heap, env, f, IF ~defined THEN "declared"
                                      ELSE IF InLoop THEN "breaking" ELSE "defined")
  /\ UNCHANGED <<fresh, env, stack, exc, errors, status, events>>

\* An undefined name makes the assignment do nothing.
AssignVar(x, v) ==
  /\ Running
  /\ \E d \in VarHolder(heap, env, x) : heap' = Assign(heap, d, x, v)
  /\ UNCHANGED <<fresh, env, stack, exc, errors, status, events>>

\* Object::create: members keep the values of the class, which nobody checked
\* against their types.
New(c, member) ==
  /\ Running
  /\ fresh <= MaxEnv /\ Cardinality(Objects) < MaxObject
  /\ heap' = Allocate(heap, fresh, ObjectEnvironment(
                c.methods,
                [x \in DOMAIN c.members |-> [object |-> c.members[x], value |-> member[x]]]))
  /\ fresh' = fresh + 1
  /\ UNCHANGED <<env, stack, exc, errors, status, events>>

\* An error reported where it occurs: an undefined identifier, or a call that
\* fails before it opens a scope.
ReportInPlace ==
  /\ Running /\ ~errors
  /\ errors' = TRUE
  /\ UNCHANGED <<heap, fresh, env, stack, exc, status, events>>

-----------------------------------------------------------------------------
(* Calls.                                                                  *)

\* get_func, then the arguments are evaluated in the caller's scope.  The
\* parser lets a call stand only when the function is global; the REPL has no
\* global functions.
BeginCall(f) ==
  /\ Running /\ ~Interactive
  /\ \E d \in FuncHolder(heap, env, f) :
       /\ heap[d].functions[f] # "declared"
       /\ Push("args", Null, Null, heap[d].functions[f] = "breaking")
  /\ UNCHANGED <<heap, fresh, env, exc, errors, status, events>>

\* The arguments become the variables of a new scope, enclosed by the caller's.
EnterBody(args) ==
  /\ Running /\ TopIs("args")
  /\ NewScope([x \in DOMAIN args |-> Typed(args[x])])
  /\ stack' = Append(Front(stack), [kind |-> "body", previous |-> env, own |-> fresh,
                                     breaks |-> Top.breaks])
  /\ UNCHANGED <<exc, errors, status, events>>

\* Two parameters of one name: define_var throws after the scope was opened.
RepeatedParameter(args) ==
  /\ Running /\ TopIs("args") /\ DOMAIN args # {}
  /\ NewScope([x \in DOMAIN args |-> Typed(args[x])])
  /\ Pop
  /\ errors' = TRUE
  /\ events' = events \cup {"leaked"}
  /\ UNCHANGED <<exc, status>>

\* The body ran to its end without `return'.
LeaveBody ==
  /\ Running /\ TopIs("body")
  /\ EndScope /\ Pop
  /\ UNCHANGED <<fresh, exc, errors, status, events>>

-----------------------------------------------------------------------------
(* Accesses.                                                               *)

\* Mistake: add_enclosing gets env_ after it was overwritten.
EncloseSelf(object) == heap' = SetEnclosing(heap, object, object) /\ env' = object

\* env_ = obj.env(); env_->add_enclosing(previous);
Enclose(object) == heap' = SetEnclosing(heap, object, env) /\ env' = object

BeginAccess(x) ==
  /\ Running
  /\ \E d \in VarHolder(heap, env, x) :
       LET variable == heap[d].variables[x]
           object   == variable.value
       IN  /\ variable.object /\ object \in DOMAIN heap
           /\ Push("access", env, object, FALSE)
           /\ Enclose(object)
           /\ events' = events \cup
                (IF \E i \in DOMAIN stack : stack[i].kind = "access" /\ stack[i].own = object
                 THEN {"reentered"} ELSE {})
  /\ UNCHANGED <<fresh, exc, errors, status>>

\* The variable's type says object, its value is none (the cast returns
\* nullptr) or one whose environment was deleted.
AccessNoObject(x) ==
  /\ Running
  /\ \E d \in VarHolder(heap, env, x) :
       heap[d].variables[x].object /\ heap[d].variables[x].value \notin DOMAIN heap
  /\ status' = "undefined"
  /\ UNCHANGED <<heap, fresh, env, stack, exc, errors, events>>

\* Mistakes: `previous' is read back from the environment after rem_enclosing,
\* is not restored, or is restored before rem_enclosing.
ReleaseByEnclosing ==
  env \in DOMAIN heap /\ heap' = SetEnclosing(heap, env, Null) /\ env' = heap'[env].enclosing
ReleaseKeepingEnv ==
  env \in DOMAIN heap /\ heap' = SetEnclosing(heap, env, Null) /\ UNCHANGED env
ReleaseTooLate ==
  /\ Top.previous \in DOMAIN heap /\ env' = Top.previous
  /\ heap' = SetEnclosing(heap, Top.previous, Null)

\* rem_enclosing acts on whatever env_ is by now.
Release ==
  env \in DOMAIN heap /\ heap' = SetEnclosing(heap, env, Null) /\ env' = Top.previous

EndAccess ==
  /\ Running /\ TopIs("access")
  /\ Release /\ Pop
  /\ UNCHANGED <<fresh, exc, errors, status, events>>

-----------------------------------------------------------------------------
(* Exceptions leave one frame at a time.                                   *)

Unwinding == status = "running" /\ exc # "none"

\* catch (Return&) deletes the scope and rethrows; nothing else is caught.
UnwindBlock ==
  /\ Unwinding /\ TopIs("block")
  /\ \/ exc = "Return" /\ EndScope /\ UNCHANGED events
     \/ exc # "Return" /\ events' = events \cup {"leaked"} /\ UNCHANGED <<heap, env>>
  /\ Pop
  /\ UNCHANGED <<fresh, exc, errors, status>>

\* catch (Break)
UnwindLoop ==
  /\ Unwinding /\ TopIs("loop")
  /\ Pop
  /\ exc' = IF exc = "Break" THEN "none" ELSE exc
  /\ UNCHANGED <<heap, fresh, env, errors, status, events>>

\* catch (CILError&) of run_call_expr, reached from the arguments.
UnwindArgs ==
  /\ Unwinding /\ TopIs("args")
  /\ Pop
  /\ \/ exc \in CILError /\ exc' = "none" /\ errors' = TRUE
     \/ exc \notin CILError /\ UNCHANGED <<exc, errors>>
  /\ UNCHANGED <<heap, fresh, env, status, events>>

\* catch (Return&) ends the call, which fails when the type is not the
\* function's; catch (CILError&) ends it without touching env_.
UnwindBody ==
  /\ Unwinding /\ TopIs("body")
  /\ Pop
  /\ \/ exc = "Return" /\ EndScope /\ exc' = "none"
        /\ errors' \in {errors, TRUE} /\ UNCHANGED events
     \/ exc \in CILError /\ exc' = "none" /\ errors' = TRUE
        /\ events' = events \cup {"leaked"} /\ UNCHANGED <<heap, env>>
     \/ exc = "Break"
        /\ events' = events \cup {"leaked"} /\ UNCHANGED <<heap, env, exc, errors>>
  /\ UNCHANGED <<fresh, status>>

\* run_access_expr has no handler.
UnwindAccess ==
  /\ Unwinding /\ TopIs("access")
  /\ Pop
  /\ events' = events \cup {"unwound"}
  /\ UNCHANGED <<heap, fresh, env, exc, errors, status>>

\* run ends at the first CILError, run_single_statement goes on with the next
\* statement; nobody catches Break or Return.
UnwindProgram ==
  /\ Unwinding /\ stack = <<>>
  /\ \/ exc \in CILError /\ exc' = "none" /\ errors' = TRUE
        /\ status' = IF Interactive THEN "running" ELSE "done"
     \/ exc \notin CILError /\ status' = "terminated" /\ UNCHANGED <<exc, errors>>
  /\ UNCHANGED <<heap, fresh, env, stack, events>>

-----------------------------------------------------------------------------
(* The end of the process.                                                 *)

\* After the last statement main leaves by exit() when an error was reported,
\* which destroys no local; otherwise ~Interpreter deletes env_.
Finish ==
  /\ Running /\ stack = <<>>
  /\ \/ (Interactive \/ ~errors) /\ env \in DOMAIN heap /\ heap' = Delete(heap, env)
     \/ ~Interactive /\ errors /\ UNCHANGED heap
  /\ status' = "done"
  /\ UNCHANGED <<fresh, env, stack, exc, errors, events>>

\* A lookup meets a deleted environment, or env_ itself is one.
UseAfterFree ==
  /\ status = "running" /\ ~Sound(heap, env)
  /\ status' = "undefined"
  /\ UNCHANGED <<heap, fresh, env, stack, exc, errors, events>>

\* The lookup of a name that no environment of a cyclic chain holds.
EndlessLookup ==
  /\ Running /\ Endless(heap, env)
  /\ status' = "overflow"
  /\ UNCHANGED <<heap, fresh, env, stack, exc, errors, events>>

Ended ==
  /\ status # "running"
  /\ UNCHANGED <<heap, fresh, env, stack, exc, errors, status, events>>

-----------------------------------------------------------------------------

Statement ==
  \/ EnterBlock \/ LeaveBlock \/ EnterLoop \/ LeaveLoop
  \/ Break \/ Return \/ FalseConditionWithElse
  \/ \E x \in Var, v \in Values : DeclareVar(x, v)
  \/ \E f \in Nested, defined \in BOOLEAN : DeclareFunc(f, defined)

Expression ==
  \/ Fail \/ ReportInPlace
  \/ \E x \in Var : BeginAccess(x) \/ AccessNoObject(x)
  \/ \E x \in Var, v \in Values : AssignVar(x, v)
  \/ \E c \in Class : \E member \in [DOMAIN c.members -> Values] : New(c, member)
  \/ \E f \in Func : BeginCall(f)
  \/ \E args \in Table(Var, Values) : EnterBody(args) \/ RepeatedParameter(args)
  \/ LeaveBody \/ EndAccess

Unwind ==
  \/ UnwindBlock \/ UnwindLoop \/ UnwindArgs \/ UnwindBody \/ UnwindAccess
  \/ UnwindProgram

Next ==
  /\ \/ Statement \/ Expression \/ Unwind
     \/ Finish \/ UseAfterFree \/ EndlessLookup \/ Ended
  /\ UNCHANGED program

Spec == Init /\ [][Next]_vars

-----------------------------------------------------------------------------
(* Properties.                                                             *)

\* The frames that set env_ and keep a `previous' to restore.
ScopeKind == {"block", "body", "access"}
Scopes    == {i \in DOMAIN stack : stack[i].kind \in ScopeKind}

\* Types of the state; addresses are handed out once, and no pointer the
\* interpreter keeps for a scope is ever nullptr (Interpreter.cpp restores env_
\* from `previous' only).
HeapOK ==
  /\ fresh \in Address
  /\ IsHeap(heap)
  /\ DOMAIN heap \subseteq Global .. fresh - 1
  /\ env \in Global .. fresh - 1

IsFrame(frame, n) ==
  /\ frame \in Frame
  /\ frame.kind \in ScopeKind =>
       frame.previous \in Global .. n - 1 /\ frame.own \in Global .. n - 1

StackOK ==
  /\ stack \in Seq(Frame)
  /\ \A i \in DOMAIN stack : IsFrame(stack[i], fresh)

TypeOK ==
  /\ program \in Program
  /\ HeapOK
  /\ StackOK
  /\ exc \in Exception
  /\ errors \in BOOLEAN
  /\ status \in Status
  /\ events \in SUBSET Event

\* While the program runs, whatever exceptions and accesses did to env_, the
\* `delete this->env_' at the end of a block or a call never hits the global
\* environment, which ~Interpreter deletes again.
GlobalNeverFreed == status = "running" => Global \in DOMAIN heap

\* No exception crossed an access, no object was accessed inside its own access.
Disciplined == events \cap {"unwound", "reentered"} = {}

\* Breaks and errors leave env_ pointing into scopes that nobody deletes.  For
\* disciplined programs that is only a leak: env_, the `previous' of every frame
\* and all that lookups reach from them are allocated.
NoDanglingScope ==
  status = "running" /\ Disciplined =>
    \E S \in SUBSET DOMAIN heap :
      env \in S /\ Closed(heap, S) /\ \A i \in Scopes : stack[i].previous \in S

\* In a disciplined program no variable holds an object whose environment was
\* deleted: a block that ends deletes scopes only (Object.cpp never deletes the
\* environment it allocates, so any delete of it is a mistake of a block).
ObjectsAlive ==
  Disciplined =>
    \A d \in DOMAIN heap : \A x \in DOMAIN heap[d].variables :
      heap[d].variables[x].value \in {NoObject} \cup Objects

\* In a disciplined program every lookup ends: add_enclosing never makes the
\* chain of scopes a cycle.
LookupsEnd == status = "running" /\ Disciplined => ~Endless(heap, env)

\* When every scope so far was left normally or by `return', env_ is the
\* environment of the innermost construct that set it, and the scopes that are
\* allocated are those of the blocks and calls still running: nothing leaks, and
\* declarations go where the source puts them.
ScopesBalanced ==
  status = "running" /\ events \cap {"leaked", "unwound"} = {} =>
    /\ env = IF Scopes = {} THEN Global ELSE stack[Max(Scopes)].own
    /\ {d \in DOMAIN heap : heap[d].of = "scope"} =
         {Global} \cup {stack[i].own : i \in {j \in Scopes : stack[j].kind # "access"}}

\* In a program that raised no exception but `return', the chain that a lookup
\* walks is the nesting of the source: what a block, call or access made current
\* is enclosed by what was current around it, down to the global environment.
ChainFollowsNesting ==
  status = "running" /\ events = {} =>
    \A i \in Scopes :
      /\ stack[i].own \in DOMAIN heap
      /\ heap[stack[i].own].enclosing = stack[i].previous
      /\ LET below == {j \in Scopes : j < i}
         IN  stack[i].previous = IF below = {} THEN Global ELSE stack[Max(below)].own

\* Of the three exceptions only a Break can leave run and end the process: a
\* Return meets the call it belongs to, whatever blocks and loops it crosses,
\* and a CILError is caught by run.
OnlyBreakTerminates == status = "terminated" => exc = "Break"

\* The parser's promise "'break' can only be used inside a loop body": a break
\* executes inside a loop.
BreakInsideLoop == exc = "Break" => \E i \in DOMAIN stack : stack[i].kind = "loop"

\* The else branch of an if statement (Samples/Elif.cil) runs like any other
\* statement: run_stmt has a case for it.
ElseIsHandled == exc # "Unhandled"
==============================================================================
