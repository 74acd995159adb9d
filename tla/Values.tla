-------------------------------- MODULE Values --------------------------------
(***************************************************************************)
(* How the interpreter handles values (Interpreting/Interpreter.cpp with   *)
(* the classes of Types/).                                                 *)
(*                                                                         *)
(* A value is an object on the C++ heap, here a cell, that lives as long   *)
(* as a value_ptr points to it: of a variable, an array, a member of an    *)
(* object or of a class, or of a function of the interpreter that waits    *)
(* for another operand.  Evaluating a name yields the pointer, so          *)
(* declarations, assignments and `new' make places share cells, which ++   *)
(* and -- change in place.                                                 *)
(*                                                                         *)
(* Statements and expressions are arbitrary.  What run_binary_expr and its *)
(* siblings hold is the sequence `operands'.  Scopes and calls, which bind *)
(* parameters like a declaration binds variables, are Interpreter's.       *)
(***************************************************************************)
EXTENDS Operators, Sequences, FiniteSets

CONSTANTS Var,        \* variables
          Literal,    \* values written in the text
          Nowhere,    \* the place of an operand that was computed
          Address,    \* bound: where cells are allocated
          Data,       \* bound: the numbers that values carry
          MaxOperand, \* bound: operands held at once
          MaxSize,    \* bound: elements of the array
          MaxPlace,   \* bound: variables, elements and members that exist at once
          MaxObject   \* bound: objects ever created

ASSUME LiteralAssumption == Literal \subseteq {v \in Value : v.type \notin {"object", "error"}}
ASSUME PlaceAssumption == /\ Nowhere \notin Var
                          /\ \A x \in Var \cup {Nowhere} : x \notin {"element", "member"} \X Nat
ASSUME BoundAssumption == MaxOperand \in Nat /\ MaxSize \in Nat /\ MaxPlace \in Nat
                           /\ MaxObject \in Nat

VARIABLES
  cells,    \* the values allocated now
  slots,    \* the value_ptrs of the environments
  array,    \* the type the array was declared with
  handles,  \* the variables declared with the class
  class,    \* the one of the class's member, <<>> before the class is declared
  operands, \* those of the functions of the interpreter, with the places read
  objects,  \* objects created
  errors,   \* ErrorManager::error_ocurred
  events    \* history: what struck

vars == <<cells, slots, array, handles, class, operands, objects, errors, events>>

\* There is one array, and a class with one member.
Element(i) == <<"element", i>>
Member(id) == <<"member", id>>

Place == Var \cup ({"element", "member"} \X Nat)

\* shared: ++ or -- changed a cell that somebody else held; unreturned: a call
\* ended without `return'.
Event == {"shared", "unreturned"}

Init ==
  /\ cells = [a \in {} |-> ErrorValue]
  /\ slots = [p \in {} |-> CHOOSE a \in Address : TRUE] /\ array = "none" /\ handles = {}
  /\ class = <<>> /\ operands = <<>> /\ objects = 0
  /\ errors = FALSE /\ events = {}

-----------------------------------------------------------------------------
(* The heap.                                                               *)

Operand(a, place) == [cell |-> a, place |-> place]

\* The last operand, its value, and those before it.
Top    == operands[Len(operands)]
Val    == cells[Top.cell]
Others == SubSeq(operands, 1, Len(operands) - 1)

Held(s, c, o) == {s[p] : p \in DOMAIN s} \cup {c[i] : i \in DOMAIN c}
                   \cup {o[i].cell : i \in DOMAIN o}

\* Mistake: raw pointers, whose values nobody frees.
PointLeaking(heap, s, c, o) ==
  /\ Cardinality(DOMAIN s) <= MaxPlace
  /\ slots' = s /\ class' = c /\ operands' = o /\ cells' = heap

\* The pointers change, and a value that lost its last one is freed.
Point(heap, s, c, o) ==
  /\ Cardinality(DOMAIN s) <= MaxPlace
  /\ slots' = s /\ class' = c /\ operands' = o
  /\ cells' = [a \in DOMAIN heap \cap Held(s, c, o) |-> heap[a]]

Hold(o) == Point(cells, slots, class, o)

Free == CHOOSE a \in Address : a \notin DOMAIN cells

With(heap, v) == [a \in DOMAIN heap \cup {Free} |-> IF a = Free THEN v ELSE heap[a]]

\* The rest of the operands and one with a new value.
Yield(heap, rest, v) ==
  /\ \E a \in Address : a \notin DOMAIN cells
  /\ v.data \in Data
  /\ Point(With(heap, v), slots, class, Append(rest, Operand(Free, Nowhere)))

\* An error ends the statement: run stops, run_single_statement goes on.
Throw ==
  /\ Hold(<<>>)
  /\ errors' = TRUE
  /\ UNCHANGED <<array, handles, objects, events>>

Quiet == UNCHANGED <<array, handles, objects, errors, events>>

Expecting == Len(operands) < MaxOperand
Computing == operands # <<>>

-----------------------------------------------------------------------------
(* Primary expressions.                                                    *)

Evaluate(v) == Expecting /\ Yield(cells, operands, v) /\ Quiet

\* get_var(): the pointer itself.
ReadVar(x) ==
  /\ Expecting /\ x \in DOMAIN slots
  /\ Hold(Append(operands, Operand(slots[x], x)))
  /\ Quiet

\* Mistake: an undefined name is not reported.
ReadSilently(x) ==
  /\ Expecting /\ x \notin DOMAIN slots
  /\ Yield(cells, operands, ErrorValue)
  /\ Quiet

ReadUndefined(x) ==
  /\ Expecting /\ x \notin DOMAIN slots
  /\ Yield(cells, operands, ErrorValue)
  /\ errors' = TRUE
  /\ UNCHANGED <<array, handles, objects, events>>

\* run_call_expr without a value: what ended the call was reported, or the
\* function did not return anything, which nobody reports.
CallInVain ==
  /\ Expecting
  /\ Yield(cells, operands, ErrorValue)
  /\ \/ errors' = TRUE /\ UNCHANGED events
     \/ events' = events \cup {"unreturned"} /\ UNCHANGED errors
  /\ UNCHANGED <<array, handles, objects>>

\* run_access_expr reads in the environment of the object that a variable holds;
\* what happens when it was assigned something else is in Interpreter.
ReadMember(x) ==
  /\ Expecting /\ x \in handles /\ cells[slots[x]].type = "object"
  /\ LET place == Member(cells[slots[x]].data)
     IN  place \in DOMAIN slots /\ Hold(Append(operands, Operand(slots[place], place)))
  /\ Quiet

NoAccess(x) == Expecting /\ x \in DOMAIN slots \ handles /\ Throw

\* The index is the last operand.
ReadElement ==
  /\ Computing /\ Val.type = "num" /\ Element(Val.data) \in DOMAIN slots
  /\ Hold(Append(Others, Operand(slots[Element(Val.data)], Element(Val.data))))
  /\ Quiet

NoElement ==
  /\ Computing /\ ~(Val.type = "num" /\ Element(Val.data) \in DOMAIN slots)
  /\ Throw

\* run_new_expr: the object's member is the pointer of the class's.
New ==
  /\ Expecting
  /\ \/ class = <<>> /\ Throw
     \/ /\ class # <<>> /\ objects < MaxObject
        /\ \E a \in Address : a \notin DOMAIN cells
        /\ LET id == objects + 1
           IN  /\ Point(With(cells, Object(id)),
                        [p \in DOMAIN slots \cup {Member(id)} |->
                           IF p = Member(id) THEN class[1] ELSE slots[p]],
                        class, Append(operands, Operand(Free, Nowhere)))
               /\ objects' = id
        /\ UNCHANGED <<array, handles, errors, events>>

-----------------------------------------------------------------------------
(* Operators.                                                              *)

Apply(op) ==
  /\ Computing
  /\ \/ Unary(op, Val) = {} /\ Throw
     \/ \E v \in Unary(op, Val) : Yield(cells, Others, v) /\ Quiet

\* Somebody else than its place and the operand hold the cell.
Shared ==
  \/ \E p \in DOMAIN slots : p # Top.place /\ slots[p] = Top.cell
  \/ \E i \in DOMAIN class : class[i] = Top.cell
  \/ \E i \in 1 .. Len(operands) - 1 : operands[i].cell = Top.cell

\* Mistakes: the result is the only thing that changes; a bool is stored.
ChangeResult(op) ==
  /\ Computing
  /\ \E v \in Stepped(op, Val) : Yield(cells, Others, v)
  /\ Quiet
ChangeType(op) ==
  /\ Computing
  /\ \E v \in Stepped(op, Val) : Yield([cells EXCEPT ![Top.cell] = Bool(Truth(v))], Others, v)
  /\ events' = events \cup (IF Shared THEN {"shared"} ELSE {})
  /\ UNCHANGED <<array, handles, objects, errors>>

\* Number::increment and decrement change the value in place and return a copy;
\* an error value stays one.
Change(op) ==
  /\ Computing
  /\ \E v \in Stepped(op, Val) : Yield([cells EXCEPT ![Top.cell] = v], Others, v)
  /\ events' = events \cup (IF Shared THEN {"shared"} ELSE {})
  /\ UNCHANGED <<array, handles, objects, errors>>

CannotChange ==
  /\ Computing /\ Val.type \notin {"num", "error"}
  /\ Throw

\* Both operands were evaluated, which a left one that is an error prevents.
Combine(op) ==
  /\ Len(operands) >= 2
  /\ LET left == cells[operands[Len(operands) - 1].cell]
     IN  /\ ~IsError(left)
         /\ \/ Binary(op, left, Val) = {} /\ Throw
            \/ /\ \E v \in Binary(op, left, Val) :
                    Yield(cells, SubSeq(operands, 1, Len(operands) - 2), v)
               /\ Quiet

\* A condition that was no error is held until its branch has been evaluated.
Choose ==
  /\ Len(operands) >= 2
  /\ ~IsError(cells[operands[Len(operands) - 1].cell])
  /\ Hold(Append(SubSeq(operands, 1, Len(operands) - 2), Top))
  /\ Quiet

\* The variable gets the pointer, whatever its type; no error is assigned, and
\* an undefined name stays undefined.
Assign(x) ==
  /\ Computing /\ ~IsError(Val) /\ x \in DOMAIN slots
  /\ Point(cells, [slots EXCEPT ![x] = Top.cell], class,
           Append(Others, Operand(Top.cell, x)))
  /\ Quiet

\* The target is no variable.
CannotAssign == Computing /\ ~IsError(Val) /\ Throw

-----------------------------------------------------------------------------
(* Statements.                                                             *)

EndStatement == Len(operands) = 1 /\ Hold(<<>>) /\ Quiet

\* The type is compared, then define_var refuses a name that exists.
DeclareVar(x, type) ==
  /\ Len(operands) = 1
  /\ \/ (Val.type # type \/ x \in DOMAIN slots) /\ Throw
     \/ /\ Val.type = type /\ x \notin DOMAIN slots
        /\ Point(cells, [p \in DOMAIN slots \cup {x} |->
                           IF p = x THEN Top.cell ELSE slots[p]],
                 class, <<>>)
        /\ handles' = handles \cup (IF type = "object" THEN {x} ELSE {})
        /\ UNCHANGED <<array, objects, errors, events>>

Elements == {Element(i - 1) : i \in DOMAIN operands}

\* The array is defined with the operands as its elements.
Define(type) ==
  /\ Element(0) \notin DOMAIN slots
  /\ Point(cells, [p \in DOMAIN slots \cup Elements |->
                     IF p \in Elements THEN operands[p[2] + 1].cell ELSE slots[p]],
           class, <<>>)
  /\ array' = type
  /\ UNCHANGED <<handles, objects, errors, events>>

Matches(i, type) == cells[operands[i].cell].type = type

\* Each value is compared before the next is evaluated; the size was before all.
DeclareArray(type) ==
  /\ Len(operands) \in 1 .. MaxSize
  /\ \A i \in 1 .. Len(operands) - 1 : Matches(i, type)
  /\ \/ (Val.type # type \/ Element(0) \in DOMAIN slots) /\ Throw
     \/ Val.type = type /\ Define(type)

\* Nobody compares the value of a member with its type.
DeclareClass ==
  /\ Len(operands) = 1
  /\ \/ class # <<>> /\ Throw
     \/ class = <<>> /\ Point(cells, slots, <<Top.cell>>, <<>>) /\ Quiet

\* The program is over.
Ended == operands = <<>> /\ UNCHANGED vars

-----------------------------------------------------------------------------

Expression ==
  \/ \E v \in Literal : Evaluate(v)
  \/ \E x \in Var : ReadVar(x) \/ ReadUndefined(x) \/ ReadMember(x) \/ NoAccess(x) \/ Assign(x)
  \/ CallInVain \/ ReadElement \/ NoElement \/ New \/ CannotChange \/ Choose \/ CannotAssign
  \/ \E op \in UnaryOp : Apply(op)
  \/ \E op \in StepOp : Change(op)
  \/ \E op \in BinaryOp : Combine(op)

Statement ==
  \/ EndStatement \/ DeclareClass
  \/ \E type \in Type : DeclareArray(type) \/ (\E x \in Var : DeclareVar(x, type))

Next == Expression \/ Statement \/ Ended

Spec == Init /\ [][Next]_vars

-----------------------------------------------------------------------------
(* Properties.                                                             *)

\* Types of the state.  Every pointer points to a value, and nothing else is
\* allocated.
TypeOK ==
  /\ DOMAIN slots \subseteq Place
  /\ \A p \in DOMAIN slots : slots[p] \in Address
  /\ array \in Type /\ handles \subseteq Var \cap DOMAIN slots
  /\ class \in Seq(Address) /\ Len(class) <= 1
  /\ operands \in Seq([cell : Address, place : Place \cup {Nowhere}])
  /\ DOMAIN cells = Held(slots, class, operands)
  /\ \A a \in DOMAIN cells : cells[a] \in Value
  /\ objects \in Nat /\ errors \in BOOLEAN /\ events \subseteq Event

\* The elements of an array keep the type it was declared with, whatever ++ and
\* -- do to the cells they share with variables, members and operands.
ElementsTyped ==
  \A p \in DOMAIN slots \ Var :
    p[1] = "element" => cells[slots[p]].type = array

\* Operators, conditions and assignments swallow errors without a word, and a
\* class keeps one as the value of its member; but wherever an error value is,
\* one was reported, so main does not go on: unless a call ended without return,
\* which yields an error that nobody has seen.
ErrorsReported ==
  \A a \in DOMAIN cells : IsError(cells[a]) => errors \/ "unreturned" \in events

\* Values as if nothing were shared.
Store == INSTANCE ValueStore WITH
  store    <- [p \in DOMAIN slots |-> cells[slots[p]]],
  operands <- [i \in DOMAIN operands |-> [value |-> cells[operands[i].cell],
                                          place |-> operands[i].place]],
  default  <- [i \in DOMAIN class |-> cells[class[i]]]

\* Until ++ or -- changes a cell that somebody else holds, programs compute what
\* they would if every variable, element, member and operand had a value of its
\* own.
RunsAsValues == Store!Init /\ []["shared" \in events' \/ Store!Next]_Store!vars
==============================================================================
