------------------------------- MODULE Backend -------------------------------
(***************************************************************************)
(* The generation of LLVM code (Compiling/LLVMBackend.cpp, Compiler.cpp),  *)
(* with the flag has_return_ of the parser that it relies on (Parser.cpp). *)
(* main has its call commented out.                                        *)
(*                                                                         *)
(* Programs are arbitrary statements.  The parser and the code generator   *)
(* visit them in the same order, so both are told along one walk.  A value *)
(* of LLVM is its type and the function it belongs to; LLVM is taken       *)
(* without its assertions, which forbid parameters of type void.  Of the   *)
(* instructions, those that only compute are left out.                     *)
(***************************************************************************)
EXTENDS Naturals, Sequences, FiniteSets

CONSTANTS FuncName,   \* names of functions in programs
          ParamName,  \* names of parameters, and of unknown variables
          Main,       \* internal_main
          MaxOperand, \* bound: values held at once by an expression
          MaxCall,    \* bound: calls that wait for their arguments at once
          MaxOpen,    \* bound: depth of blocks and functions
          MaxCode     \* bound: calls and returns in the program

\* Names are no instructions.
ASSUME NameAssumption == Main \notin FuncName /\ FuncName \cap {"ret", "ret_void"} = {}
ASSUME BoundAssumption == MaxOperand \in Nat /\ MaxCall \in Nat /\ MaxOpen \in Nat
                           /\ MaxCode \in Nat

VARIABLES
  module,       \* the functions of module_: names of arguments, entry block, code
  insert,       \* the function that builder_ appends to, of use inside a statement
  named_values, \* whose argument a name stands for
  has_return,   \* Parser::has_return_
  open,         \* the blocks and functions around, innermost last
  operands,     \* the values the functions gen_*_expr hold
  calls,        \* the calls whose arguments are being generated
  failed,       \* a CILError stopped compile()
  written,      \* history: what the text of each function says
  events        \* history: what struck

vars == <<module, insert, named_values, has_return, open, operands, calls, failed, written,
          events>>

\* No operator is for strings, and none for what is void.
Kind  == {"num", "bool", "other"}
Param == [function : FuncName, name : ParamName]

\* nested: a function was defined inside of a block or of a function; stray: a
\* name was no parameter of the function around; renamed: a definition has other
\* parameters than the declaration before.
Event == {"nested", "stray", "renamed"}

NewFunction(params) == [params |-> params, defined |-> FALSE, code |-> <<>>]

\* init
Init ==
  /\ module = [f \in {Main} |-> [NewFunction(<<>>) EXCEPT !.defined = TRUE]]
  /\ insert = Main /\ named_values = [x \in {} |-> Main]
  /\ has_return = FALSE /\ open = <<>> /\ operands = <<>> /\ calls = <<>>
  /\ failed = FALSE
  /\ written = [f \in {Main} |-> <<>>] /\ events = {}

-----------------------------------------------------------------------------
(* Where code goes.                                                        *)

\* gen_statement puts the builder into internal_main for each top-level statement.
Target == IF open = <<>> THEN Main ELSE insert

\* The function that the text is in.
FunctionsAround == {i \in DOMAIN open : open[i].name # Main}
Around ==
  IF FunctionsAround = {} THEN Main
  ELSE open[CHOOSE i \in FunctionsAround : \A j \in FunctionsAround : j <= i].name

Written(f, op) == written' = [written EXCEPT ![f] = Append(@, op)]

Instruction(op, used) == [op |-> op, owners |-> {used[i].owner : i \in DOMAIN used}]

Emit(op, used) ==
  module' = [module EXCEPT ![Target].code = Append(@, Instruction(op, used))]

Room == Cardinality(UNION {{f} \X DOMAIN module[f].code : f \in DOMAIN module}) < MaxCode

-----------------------------------------------------------------------------
(* Expressions.                                                            *)

Value(kind) == [kind |-> kind, owner |-> Target]

\* The operands of the innermost call, or of the statement.
Base == IF calls = <<>> THEN 0 ELSE calls[Len(calls)].base
Holds(n) == Len(operands) - Base >= n
Below(n) == SubSeq(operands, 1, Len(operands) - n)
Top == operands[Len(operands)]

Results(n, kinds) ==
  /\ \E kind \in kinds : operands' = Append(Below(n), Value(kind))
  /\ UNCHANGED <<module, insert, named_values, has_return, open, calls, failed, written,
                 events>>

\* Everything unwinds up to compile(), which stops.
Throw ==
  /\ failed' = TRUE
  /\ open' = <<>> /\ operands' = <<>> /\ calls' = <<>>
  /\ UNCHANGED <<module, insert, named_values, has_return, written, events>>

Expecting == Len(operands) < MaxOperand

Constant == Expecting /\ Results(0, Kind)

\* none, ~, shifts and the bitwise operators, accesses, new, ?: and assignments;
\* print, conditions, loops, break and the other declarations.
Unsupported == Throw

\* Every name in named_values_ is known, wherever it is from; the types of arguments
\* and results are void, whatever the text says.
Identifier(x) ==
  /\ Expecting
  /\ \/ x \notin DOMAIN named_values /\ Throw
     \/ /\ x \in DOMAIN named_values
        /\ operands' = Append(operands, [kind |-> "other", owner |-> named_values[x]])
        /\ events' = events \cup (IF \E i \in DOMAIN open : open[i].name = Around
                                                            /\ x \in open[i].params
                                  THEN {} ELSE {"stray"})
        /\ UNCHANGED <<module, insert, named_values, has_return, open, calls, failed, written>>

UnaryOp == {"!", "-", "++", "--"}

UnaryKind(op, kind) ==
  {k \in {"bool"} : op = "!" /\ kind \in {"num", "bool"}}
    \cup {k \in {"num"} : op # "!" /\ kind = "num"}

Arithmetic == {"+", "-", "*", "/"}
Comparison == {"<", ">", "<=", ">="}
Equality   == {"==", "!="}
Logical    == {"&&", "||"}
BinaryOp   == Arithmetic \cup Comparison \cup Equality \cup Logical

\* && and || of numbers select one of them.
BinaryKind(op, kind) ==
  {k \in {"num"} : op \in Arithmetic \cup Logical /\ kind = "num"}
    \cup {k \in {"bool"} : \/ op \in Comparison \cup Equality /\ kind = "num"
                           \/ op \in Equality \cup Logical /\ kind = "bool"}

Unary(op) ==
  /\ Holds(1)
  /\ LET kinds == UnaryKind(op, Top.kind)
     IN  IF kinds = {} THEN Throw ELSE Results(1, kinds)

Binary(op) ==
  /\ Holds(2)
  /\ LET left  == operands[Len(operands) - 1].kind
         kinds == IF left = Top.kind THEN BinaryKind(op, left) ELSE {}
     IN  IF kinds = {} THEN Throw ELSE Results(2, kinds)

\* The callee and the number of arguments are looked at first.
Fits(f, n) == f \in DOMAIN module /\ n = Len(module[f].params)

BeginCall(f, n) ==
  /\ Room /\ Len(calls) < MaxCall /\ Len(operands) + n <= MaxOperand
  /\ \/ ~Fits(f, n) /\ Throw
     \/ /\ Fits(f, n)
        /\ calls' = Append(calls, [name |-> f, base |-> Len(operands)])
        /\ UNCHANGED <<module, insert, named_values, has_return, open, operands, failed,
                       written, events>>

EndCall ==
  /\ calls # <<>>
  /\ LET call == calls[Len(calls)]
         n    == Len(module[call.name].params)
     IN  /\ Len(operands) = call.base + n
         /\ Emit(call.name, SubSeq(operands, call.base + 1, Len(operands)))
         /\ operands' = Append(Below(n), Value("other"))
         /\ Written(Around, call.name)
  /\ calls' = SubSeq(calls, 1, Len(calls) - 1)
  /\ UNCHANGED <<insert, named_values, has_return, open, failed, events>>

-----------------------------------------------------------------------------
(* Statements.                                                             *)

Between == operands = <<>> /\ calls = <<>>
Computed == calls = <<>> /\ Len(operands) = 1

ExprStmt ==
  /\ Computed
  /\ operands' = <<>>
  /\ UNCHANGED <<module, insert, named_values, has_return, open, calls, failed, written, events>>

\* The parser refuses it outside of functions.
ReturnStmt ==
  /\ Computed /\ Around # Main /\ Room
  /\ Emit("ret", operands)
  /\ operands' = <<>>
  /\ has_return' = TRUE
  /\ Written(Around, "ret")
  /\ UNCHANGED <<insert, named_values, open, calls, failed, events>>

Scope(name, params) == [name |-> name, params |-> params]

BeginBlock ==
  /\ Between /\ Len(open) < MaxOpen
  /\ open' = Append(open, Scope(Main, {}))
  /\ insert' = Target
  /\ UNCHANGED <<module, named_values, has_return, operands, calls, failed, written, events>>

EndBlock ==
  /\ Between /\ open # <<>> /\ open[Len(open)].name = Main
  /\ open' = SubSeq(open, 1, Len(open) - 1)
  /\ UNCHANGED <<module, insert, named_values, has_return, operands, calls, failed, written,
                 events>>

\* Mistake: the last declaration counts.
DeclaredAnew(f, params) ==
  [g \in DOMAIN module \cup {f} |-> IF g = f THEN NewFunction(params) ELSE module[g]]

\* A function that is only declared; the first declaration counts.
Declared(f, params) ==
  IF f \in DOMAIN module THEN module
  ELSE [g \in DOMAIN module \cup {f} |-> IF g = f THEN NewFunction(params) ELSE module[g]]

DeclareFunction(f, params) ==
  /\ Between
  /\ module' = Declared(f, params)
  /\ written' = [g \in DOMAIN module' |-> IF g \in DOMAIN written THEN written[g] ELSE <<>>]
  /\ UNCHANGED <<insert, named_values, has_return, open, operands, calls, failed, events>>

Elements(s) == {s[i] : i \in DOMAIN s}

\* Mistake: names that are taken keep their values.
NameOnce(f, names) ==
  named_values' = [x \in DOMAIN named_values \cup names |->
                     IF x \in DOMAIN named_values THEN named_values[x] ELSE f]

\* The names are never taken back.
NameArguments(f, names) ==
  named_values' = [x \in DOMAIN named_values \cup names |->
                     IF x \in names THEN f ELSE named_values[x]]

Defined(f) == f \in DOMAIN module /\ module[f].defined

BeginFunction(f, params) ==
  /\ Between /\ Len(open) < MaxOpen
  /\ \/ Defined(f) /\ Throw
     \/ /\ ~Defined(f)
        /\ module' = [Declared(f, params) EXCEPT ![f].defined = TRUE]
        /\ insert' = f
        /\ NameArguments(f, Elements(Declared(f, params)[f].params))
        /\ open' = Append(open, Scope(f, Elements(params)))
        /\ written' = [g \in DOMAIN module' |-> IF g \in DOMAIN written THEN written[g]
                                                ELSE <<>>]
        /\ events' = events \cup {e \in {"nested"} : open # <<>>}
                            \cup {e \in {"renamed"} : Declared(f, params)[f].params # params}
        /\ UNCHANGED <<has_return, operands, calls, failed>>

\* Mistake: the flag stays.
EndKeeping == UNCHANGED has_return

\* The parser takes the flag down with the function it saw the return in.
ClearReturn == has_return' = FALSE

EndFunction ==
  /\ Between /\ Room /\ open # <<>> /\ open[Len(open)].name # Main
  /\ IF has_return THEN UNCHANGED module ELSE Emit("ret_void", <<>>)
  /\ ClearReturn
  /\ LET f == Around
     IN  IF "ret" \in Elements(written[f]) THEN UNCHANGED written ELSE Written(f, "ret_void")
  /\ open' = SubSeq(open, 1, Len(open) - 1)
  /\ UNCHANGED <<insert, named_values, operands, calls, failed, events>>

-----------------------------------------------------------------------------

\* Parameters have names of their own.
ParamList == {<<>>} \cup {<<x>> : x \in ParamName}

Expression ==
  \/ Constant \/ EndCall
  \/ \E x \in ParamName : Identifier(x)
  \/ \E op \in UnaryOp : Unary(op)
  \/ \E op \in BinaryOp : Binary(op)
  \/ \E f \in FuncName, n \in 0 .. MaxOperand : BeginCall(f, n)

Statement ==
  \/ ExprStmt \/ ReturnStmt \/ BeginBlock \/ EndBlock \/ EndFunction
  \/ \E f \in FuncName, params \in ParamList :
       DeclareFunction(f, params) \/ BeginFunction(f, params)

\* The program is over, or compile() has stopped.
Ended == UNCHANGED vars

Next ==
  \/ ~failed /\ (Expression \/ Statement \/ Unsupported)
  \/ Ended

Spec == Init /\ [][Next]_vars

-----------------------------------------------------------------------------
(* Properties.                                                             *)

\* Calls and returns.
Op == FuncName \cup {"ret", "ret_void"}

TypeOK ==
  /\ DOMAIN module \subseteq FuncName \cup {Main} /\ Main \in DOMAIN module
  /\ module \in [DOMAIN module ->
       [params : ParamList, defined : BOOLEAN,
        code : Seq([op : Op, owners : SUBSET DOMAIN module])]]
  /\ \A f \in DOMAIN module : ~module[f].defined => module[f].code = <<>>
  /\ insert \in DOMAIN module /\ module[insert].defined /\ module[Main].defined
  /\ DOMAIN named_values \subseteq ParamName
  /\ named_values \in [DOMAIN named_values -> DOMAIN module]
  /\ \A x \in DOMAIN named_values : x \in Elements(module[named_values[x]].params)
  /\ has_return \in BOOLEAN /\ failed \in BOOLEAN /\ events \subseteq Event
  /\ open \in Seq([name : DOMAIN module, params : SUBSET ParamName])
  /\ operands \in Seq([kind : Kind, owner : DOMAIN module])
  /\ calls \in Seq([name : FuncName \cap DOMAIN module, base : Nat])
  /\ \A i \in DOMAIN calls : calls[i].base <= Len(operands)
  /\ written \in [DOMAIN module -> Seq(Op)]

\* If functions are defined at the top level only, the code of each, of
\* internal_main too, is what its own text says, with a return at the end unless
\* the text has one: neither the insertion point that stays in a function nor the
\* parser's flag, which belongs to no function, brings anything elsewhere.
CodeInPlace ==
  "nested" \notin events =>
    \A f \in DOMAIN module :
      [i \in DOMAIN module[f].code |-> module[f].code[i].op] = written[f]

\* Code uses values of its own function, if functions are not nested, bodies name
\* their own parameters only, and definitions repeat those of the declaration.
OperandsOwn ==
  events = {} =>
    \A f \in DOMAIN module : \A i \in DOMAIN module[f].code :
      module[f].code[i].owners \subseteq {f}
==============================================================================
