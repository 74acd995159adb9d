------------------------------ MODULE ValueStore ------------------------------
(***************************************************************************)
(* What a program computes if variables, array elements and members hold   *)
(* values of their own and an operand keeps the value it was read with.    *)
(* Values, where all of them share cells, implements it until ++ or --     *)
(* changes a cell that somebody else holds.                                *)
(***************************************************************************)
EXTENDS Operators, Sequences

CONSTANTS Var,      \* variables
          Literal,  \* values written in the text
          Nowhere,  \* the place of an operand that was computed
          MaxObject \* objects ever created

VARIABLES store,    \* the values of the places that exist
          operands, \* the operands of the expressions being evaluated
          default   \* the value of the member in new objects, <<>> without a class

vars == <<store, operands, default>>

Element(i) == <<"element", i>>
Member(id) == <<"member", id>>

Top    == operands[Len(operands)]
Others == SubSeq(operands, 1, Len(operands) - 1)

Operand(v, place) == [value |-> v, place |-> place]

Init == store = [p \in {} |-> ErrorValue] /\ operands = <<>> /\ default = <<>>

Compute(v) ==
  /\ operands' = Append(operands, Operand(v, Nowhere))
  /\ UNCHANGED <<store, default>>

Read(p) ==
  /\ p \in DOMAIN store
  /\ operands' = Append(operands, Operand(store[p], p))
  /\ UNCHANGED <<store, default>>

\* The index is the last operand.
Index ==
  /\ operands # <<>> /\ Top.value.type = "num"
  /\ Element(Top.value.data) \in DOMAIN store
  /\ operands' = Append(Others, Operand(store[Element(Top.value.data)], Element(Top.value.data)))
  /\ UNCHANGED <<store, default>>

Apply(op) ==
  /\ operands # <<>>
  /\ \E v \in Unary(op, Top.value) : operands' = Append(Others, Operand(v, Nowhere))
  /\ UNCHANGED <<store, default>>

\* ++ and -- change the place of their operand and nothing else.
Change(op) ==
  /\ operands # <<>>
  /\ \E v \in Stepped(op, Top.value) :
       /\ store' = [p \in DOMAIN store |-> IF p = Top.place THEN v ELSE store[p]]
       /\ operands' = Append(Others, Operand(v, Nowhere))
  /\ UNCHANGED default

Combine(op) ==
  /\ Len(operands) >= 2
  /\ LET left == operands[Len(operands) - 1].value
     IN  /\ ~IsError(left)
         /\ \E v \in Binary(op, left, Top.value) :
              operands' = Append(SubSeq(operands, 1, Len(operands) - 2), Operand(v, Nowhere))
  /\ UNCHANGED <<store, default>>

\* The value of a branch stays, that of the condition goes.
Choose ==
  /\ Len(operands) >= 2
  /\ operands' = Append(SubSeq(operands, 1, Len(operands) - 2), Top)
  /\ UNCHANGED <<store, default>>

Assign(x) ==
  /\ operands # <<>> /\ ~IsError(Top.value) /\ x \in DOMAIN store
  /\ store' = [store EXCEPT ![x] = Top.value]
  /\ operands' = Append(Others, Operand(Top.value, x))
  /\ UNCHANGED default

\* A new object, whose member has the default value.
Create(id) ==
  /\ default # <<>> /\ Member(id) \notin DOMAIN store
  /\ store' = [p \in DOMAIN store \cup {Member(id)} |->
                 IF p = Member(id) THEN default[1] ELSE store[p]]
  /\ operands' = Append(operands, Operand(Object(id), Nowhere))
  /\ UNCHANGED default

\* A statement ends: the operands are dropped or become new places.
Drop == operands' = <<>> /\ UNCHANGED <<store, default>>

Declare(x) ==
  /\ Len(operands) = 1 /\ x \notin DOMAIN store
  /\ store' = [p \in DOMAIN store \cup {x} |-> IF p = x THEN Top.value ELSE store[p]]
  /\ operands' = <<>>
  /\ UNCHANGED default

DeclareArray ==
  LET elements == {Element(i - 1) : i \in DOMAIN operands}
  IN  /\ elements \cap DOMAIN store = {}
      /\ store' = [p \in DOMAIN store \cup elements |->
                     IF p \in elements THEN operands[p[2] + 1].value ELSE store[p]]
      /\ operands' = <<>>
      /\ UNCHANGED default

DeclareClass ==
  /\ Len(operands) = 1 /\ default = <<>>
  /\ default' = <<Top.value>>
  /\ operands' = <<>>
  /\ UNCHANGED store

Next ==
  \/ \E v \in Literal \cup {ErrorValue} : Compute(v)
  \/ \E p \in DOMAIN store : Read(p)
  \/ Index \/ Choose \/ Drop \/ DeclareArray \/ DeclareClass
  \/ \E op \in UnaryOp : Apply(op)
  \/ \E op \in StepOp : Change(op)
  \/ \E op \in BinaryOp : Combine(op)
  \/ \E x \in Var : Assign(x) \/ Declare(x)
  \/ \E id \in 1 .. MaxObject : Create(id)

Spec == Init /\ [][Next]_vars
==============================================================================
