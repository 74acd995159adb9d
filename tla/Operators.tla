------------------------------ MODULE Operators ------------------------------
(***************************************************************************)
(* The values of the language and what its operators make of them          *)
(* (Types/Number.cpp, Bool.cpp, String.cpp, None.cpp, ErrorValue.cpp and   *)
(* Value.cpp, whose defaults throw).                                       *)
(*                                                                         *)
(* A value is its type and a number: a string is one over a single letter, *)
(* told by its length, an object its identity, nothing at all is 0.  The   *)
(* operators that differ from "+", "-" and "<" only in the number or truth *)
(* they compute are left out.                                              *)
(***************************************************************************)
EXTENDS Integers

Type  == {"num", "bool", "str", "none", "object", "error"}
Value == [type : Type, data : Int]

Num(n)      == [type |-> "num", data |-> n]
Bool(b)     == [type |-> "bool", data |-> IF b THEN 1 ELSE 0]
Str(length) == [type |-> "str", data |-> length]
None        == [type |-> "none", data |-> 0]
ErrorValue  == [type |-> "error", data |-> 0]
Object(id)  == [type |-> "object", data |-> id]

UnaryOp  == {"!", "-"}
StepOp   == {"++", "--"}
BinaryOp == {"+", "-", "<", "==", "!=", "&&", "||"}

\* to_bool: objects, whose identities begin at 1, are true.
Truth(v) == v.data # 0

IsError(v) == v.type = "error"
Are(type, l, r) == l.type = type /\ r.type = type

\* The results of an operator: none when it throws.  Unary minus inverts, like !.
Unary(op, v) ==
  {r \in {Bool(~Truth(v))} : op \in UnaryOp /\ v.type \in {"num", "bool"}}
    \cup {r \in {ErrorValue} : IsError(v)}

\* The value of a number after ++ or --.
Stepped(op, v) ==
  {r \in {Num(IF op = "++" THEN v.data + 1 ELSE v.data - 1)} : v.type = "num"}

Add(l, r) ==
  {s \in {Num(l.data + r.data)} : Are("num", l, r)}
    \cup {s \in {Str(l.data + r.data)} : Are("str", l, r)}
Subtract(l, r) == {s \in {Num(l.data - r.data)} : Are("num", l, r)}
Less(l, r)     == {s \in {Bool(l.data < r.data)} : Are("num", l, r)}

\* A bool equals what converts to it, whatever its type.
Equal(l, r, same) ==
  {s \in {Bool((l.data = r.data) = same)} : Are("num", l, r) \/ Are("str", l, r)}
    \cup {s \in {Bool((Truth(l) = Truth(r)) = same)} : l.type = "bool"}

\* Only the left operand says whether there is such an operator.
Logical(l, truth) == {s \in {Bool(truth)} : l.type \in {"num", "bool"}}

Result(op, l, r) ==
  CASE op = "+"  -> Add(l, r)
    [] op = "-"  -> Subtract(l, r)
    [] op = "<"  -> Less(l, r)
    [] op = "==" -> Equal(l, r, TRUE)
    [] op = "!=" -> Equal(l, r, FALSE)
    [] op = "&&" -> Logical(l, Truth(l) /\ Truth(r))
    [] op = "||" -> Logical(l, Truth(l) \/ Truth(r))

\* An error on the right comes before the operator; one on the left never gets
\* as far as the right operand.
Binary(op, l, r) == IF IsError(r) THEN {ErrorValue} ELSE Result(op, l, r)
==============================================================================
