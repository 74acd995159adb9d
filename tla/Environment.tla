----------------------------- MODULE Environment -----------------------------
(***************************************************************************)
(* The scopes of the interpreter (Interpreting/Environment.cpp): each      *)
(* Environment owns its name tables and points at the environment that     *)
(* encloses it.  The C++ heap they live in is a function `h' from the      *)
(* addresses that are allocated now to their environments; deleting one    *)
(* removes its address, so a pointer that dangles is one outside DOMAIN h. *)
(*                                                                         *)
(* arrays_ and classes_ are tables with the code of variables_             *)
(* (define_arr, get_arr, ... repeat define_var, get_var, ...): one table   *)
(* of variables stands for the three.  What a value is matters only as far *)
(* as the environment an object carries: a value is that address, or       *)
(* NoObject.                                                               *)
(***************************************************************************)
EXTENDS Naturals, FiniteSets, SequencesExt

CONSTANTS Var,   \* the names of variables
          Func   \* the names of functions

Null     == 0    \* nullptr
NoObject == 0    \* a value that is not an object
Global   == 1    \* the environment the constructor of Interpreter allocates

Address == Nat \ {Null}

\* What the function table knows of a name: declared only, or with a body; the
\* body of a "breaking" function was parsed inside a loop and may break.
Body == {"declared", "defined", "breaking"}

\* A variable keeps its declared type next to its value: no assignment
\* compares the two.
Variable == [object : BOOLEAN, value : Nat]

Plain == [object |-> FALSE, value |-> NoObject]

Table(Name, Entry) == UNION {[N -> Entry] : N \in SUBSET Name}

IsTable(t, Name, Entry) == DOMAIN t \in SUBSET Name /\ t \in [DOMAIN t -> Entry]

\* A table, or the heap, with an entry inserted or replaced.
Put(t, n, entry) == [m \in DOMAIN t \cup {n} |-> IF m = n THEN entry ELSE t[m]]

\* of: who allocated it, a scope (block or call) or an object (Object.cpp).
IsEnvironment(e) ==
  /\ e \in [of : {"scope", "object"}, variables : {e.variables},
            functions : {e.functions}, enclosing : Nat]
  /\ IsTable(e.variables, Var, Variable)
  /\ IsTable(e.functions, Func, Body)

\* A heap: a function from some addresses to environments.
IsHeap(h) ==
  /\ h = [d \in DOMAIN h |-> h[d]]
  /\ DOMAIN h \subseteq Address
  /\ \A d \in DOMAIN h : IsEnvironment(h[d])

Empty == [n \in {} |-> n]

NewEnvironment(enclosing) ==
  [of |-> "scope", variables |-> Empty, functions |-> Empty, enclosing |-> enclosing]

\* Object::Object: an environment without enclosing one that holds the class's
\* methods and members.
ObjectEnvironment(methods, members) ==
  [of |-> "object", variables |-> members, functions |-> methods, enclosing |-> Null]

-----------------------------------------------------------------------------
(* The heap.                                                               *)

Allocate(h, e, environment) == Put(h, e, environment)

Delete(h, e) == Restrict(h, DOMAIN h \ {e})

\* add_enclosing(other); rem_enclosing() is the case Null.
SetEnclosing(h, e, other) == [h EXCEPT ![e].enclosing = other]

\* define_var inserts what the table does not hold yet; its other branch, the
\* redefinition, is an error of the caller.
CanDefineVar(h, e, x) == x \notin DOMAIN h[e].variables
DefineVar(h, e, x, variable) ==
  [h EXCEPT ![e].variables = Put(@, x, variable)]

\* define_func replaces a declaration, never a body.
CanDefineFunc(h, e, f) ==
  f \in DOMAIN h[e].functions => h[e].functions[f] = "declared"
DefineFunc(h, e, f, body) ==
  [h EXCEPT ![e].functions = Put(@, f, body)]

\* env_->get_var(x).value = value
Assign(h, e, x, value) == [h EXCEPT ![e].variables[x].value = value]

-----------------------------------------------------------------------------
(* Lookups walk the chain of enclosing environments.                       *)

\* The environments of the walk from e, position by position.
Walk(h, e) ==
  LET walk[k \in 0 .. Cardinality(DOMAIN h)] ==
        IF k = 0 THEN e
        ELSE IF walk[k - 1] \in DOMAIN h THEN h[walk[k - 1]].enclosing ELSE Null
  IN  walk

\* The environment at which a walk from e stops, as a set of at most one
\* address: the first of the chain whose table holds the name.
Holder(h, e, Holds(_)) ==
  LET walk == Walk(h, e)
  IN  {d \in DOMAIN h : \E k \in DOMAIN walk :
         /\ walk[k] = d /\ Holds(d)
         /\ \A j \in 0 .. k - 1 : walk[j] \in DOMAIN h /\ ~Holds(walk[j])}

\* get_var and get_func: an empty set is the error "Undefined ...".
VarHolder(h, e, x)  == Holder(h, e, LAMBDA d : x \in DOMAIN h[d].variables)
FuncHolder(h, e, f) == Holder(h, e, LAMBDA d : f \in DOMAIN h[d].functions)

\* A closed set of environments: what the walks from its members can reach.
Closed(h, S) == \A d \in S : h[d].enclosing \in S \cup {Null}

\* Every environment that a walk from e can meet is allocated.
Sound(h, e) == \E S \in SUBSET DOMAIN h : e \in S /\ Closed(h, S)

\* A walk from e that finds nothing never ends.
Endless(h, e) ==
  \E S \in SUBSET DOMAIN h : e \in S /\ \A d \in S : h[d].enclosing \in S
==============================================================================
