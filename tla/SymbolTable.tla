----------------------------- MODULE SymbolTable -----------------------------
(***************************************************************************)
(* The symbol tables (Scanning/SymbolTable.cpp).                           *)
(*                                                                         *)
(* A table maps the names declared in it to what is known of them.  The    *)
(* code has three copies of every function below, for variables, functions *)
(* and classes; functions are the ones that anything declares.  Types and  *)
(* the names of parameters are left out: params is how many there are.     *)
(***************************************************************************)
EXTENDS Naturals, Sequences

EmptyTable == [n \in {} |-> n]

\* body: the tokens of the definition, none for a declaration.
Entry(params, body) == [params |-> params, body |-> body]

IsTable(table, Name, Token) ==
  /\ DOMAIN table \subseteq Name
  /\ \A n \in DOMAIN table : table[n].params \in Nat /\ table[n].body \in Seq(Token)

\* Mistake: a declaration that stands is kept as it is.
DeclareOnce(table, name, params, body) ==
  [n \in DOMAIN table \cup {name} |-> IF n \in DOMAIN table THEN table[n] ELSE Entry(params, body)]

\* declare_local_function: the first declaration counts for the parameters; the
\* first tokens are kept, and once there are any the name is not to be declared.
Refuses(table, name) == name \in DOMAIN table /\ table[name].body # <<>>

Declare(table, name, params, body) ==
  [n \in DOMAIN table \cup {name} |->
     IF n # name THEN table[n]
     ELSE IF n \in DOMAIN table THEN [table[n] EXCEPT !.body = body]
     ELSE Entry(params, body)]

\* make_table_global: insert keeps the entries that are there.
MakeGlobal(global, table) ==
  [n \in DOMAIN global \cup DOMAIN table |->
     IF n \in DOMAIN global THEN global[n] ELSE table[n]]
==============================================================================
