--------------------------------- MODULE Repl ---------------------------------
(***************************************************************************)
(* The REPL (REPL/REPL.cpp) with its source of lines (REPLFileManager.cpp) *)
(* and the errors that the stages leave behind (Diagnostics.cpp).          *)
(*                                                                         *)
(* Lines are numbered as they are typed, and told apart by what the stages *)
(* make of them:                                                           *)
(*   bad        nothing, as when cin is at its end, or a string without an *)
(*              end: the lexer reports it                                  *)
(*   long       128 characters or more: strcpy_s ends the process          *)
(*   invalid    an invalid character: the lexer reports it for ever        *)
(*   comment    a // comment.  No line ends with a newline, for which the  *)
(*              lexer looks in the memory behind: where there is one the   *)
(*              line is of the kind it has without the comment, where      *)
(*              there is none of this kind                                 *)
(*   value      an expression                                              *)
(*   branch     an expression with an error in a branch, as in true?1:():  *)
(*              the inner expression() reports it, the outer one is fine   *)
(*   access     an access to a member of an object                         *)
(*   statement  no expression, but a statement                             *)
(*   broken     neither                                                    *)
(***************************************************************************)
EXTENDS TypeTable, FiniteSets

CONSTANTS ClassName, \* names of classes in class declarations
          MaxLine,   \* bound: lines typed
          MaxClass   \* bound: classes registered

ASSUME ClassAssumption ==
  ClassName \subseteq Name /\ "num" \in Name /\ MaxLine \in Nat /\ MaxClass \in Nat

VARIABLES
  at,        \* where run() is
  count,     \* how many lines were typed
  source,    \* REPLFileManager::source_
  curr_line, \* REPLFileManager::curr_line_
  errors,    \* ErrorManager::errors, the numbers of the lines at fault
  builtin,   \* add_builtin_types was called; main calls it behind the REPL's place
  value      \* history: the type of the value the line had, "" when it had none

vars == <<at, count, source, curr_line, errors, builtin, value, table>>

Lethal == {"long", "invalid", "comment"}
Kind   == {"bad", "value", "branch", "access", "statement", "broken"} \cup Lethal

\* "lost": scan_file does not return; "hung": the walk along super types does not.
Point == {"prompt", "scan", "lost", "dropped", "expression", "evaluate", "statement", "execute",
          "end", "hung"}

Init ==
  /\ at = "prompt" /\ source = <<>> /\ curr_line = 0 /\ errors = {}
  /\ count = 0 /\ value = ""
  /\ builtin \in BOOLEAN
  /\ table = IF builtin THEN BuiltinTable ELSE <<>>

-----------------------------------------------------------------------------

\* The line being processed.
Is(kinds) == source[Len(source)].kind \in kinds

GoTo(point) == at' = point

\* cil_error
Report(lines) == errors' = errors \cup lines

\* add_line
AddLine(kind) == source' = Append(source, [line |-> count', kind |-> kind])

\* get_next_line until is_at_end.
Unread == curr_line + 1 .. Len(source)

ReadLine(kind) ==
  /\ at = "prompt" /\ count < MaxLine
  /\ count' = count + 1
  /\ AddLine(kind)
  /\ value' = ""
  /\ GoTo("scan")
  /\ UNCHANGED <<curr_line, errors, builtin, table>>

\* scan_file.  An error drops the line, also one that is left from the line before.
Scan ==
  /\ at = "scan" /\ ~Is(Lethal)
  /\ curr_line' = Len(source)
  /\ Report({source[i].line : i \in {j \in Unread : source[j].kind = "bad"}})
  /\ GoTo(IF errors' # {} THEN "dropped" ELSE "expression")
  /\ UNCHANGED <<count, source, builtin, value, table>>

ScanLost ==
  /\ at = "scan" /\ Is(Lethal)
  /\ GoTo("lost")
  /\ UNCHANGED <<count, source, curr_line, errors, builtin, value, table>>

\* parse_single_expr, then reset and clear_errors when there is no expression.
ParseExpression ==
  /\ at = "expression"
  /\ \/ Is({"value", "access"}) /\ GoTo("evaluate") /\ UNCHANGED errors
     \/ Is({"branch"}) /\ GoTo("evaluate") /\ errors' = {count}
     \/ Is({"statement", "broken"}) /\ GoTo("statement") /\ errors' = {}
  /\ UNCHANGED <<count, source, curr_line, builtin, value, table>>

\* run_single_expression fails: it reports and returns an error value; so does
\* a variable that holds one, without a report.
Fail ==
  /\ at = "evaluate"
  /\ errors' \in {errors, errors \cup {count}}
  /\ GoTo("end")
  /\ UNCHANGED <<count, source, curr_line, builtin, value, table>>

\* Types of values: numbers, and objects of classes that were registered.
ValueType == {"num"} \cup (ClassName \cap {table[i].name : i \in DOMAIN table})

\* Mistake: the source is cleared, the errors are not.
EvaluateClearing(type) ==
  /\ at = "evaluate"
  /\ value' = type /\ source' = <<>> /\ curr_line' = 0
  /\ GoTo(IF TypeId(type) # TypeId("error") THEN "prompt" ELSE "end")
  /\ UNCHANGED <<count, errors, builtin, table>>

\* A value that is no error by its type id is printed; the source is not cleared
\* and errors are not reported.
Evaluate(type) ==
  /\ at = "evaluate"
  /\ Is({"access"}) => \E c \in ClassName : IsSubtype(TypeId(c), TypeId("object"))
  /\ value' = type
  /\ GoTo(IF TypeId(type) # TypeId("error") THEN "prompt" ELSE "end")
  /\ UNCHANGED <<count, source, curr_line, errors, builtin, table>>

\* run_access_expr asks whether the object's type is a subtype of "object".
Hang(type) ==
  /\ at = "evaluate" /\ Is({"access"})
  /\ Endless(TypeId(type), TypeId("object"))
  /\ GoTo("hung")
  /\ UNCHANGED <<count, source, curr_line, errors, builtin, value, table>>

\* class_decl_stmt registers a class at its closing brace, at any depth of the line,
\* whether the rest of it turns out to be broken or not.
Registered == Len(table) - (IF builtin THEN Len(Builtin) ELSE 0)

RegisterClass(name) ==
  /\ at = "statement" /\ Registered < MaxClass
  /\ Register(name, TypeId("object"))
  /\ UNCHANGED <<at, count, source, curr_line, errors, builtin, value>>

\* parse_single_stmt, behind the last class in the line.
ParseStatement ==
  /\ at = "statement"
  /\ \/ Is({"statement"}) /\ GoTo("execute") /\ UNCHANGED errors
     \/ Is({"broken"}) /\ GoTo("end") /\ errors' = {count}
  /\ UNCHANGED <<count, source, curr_line, builtin, value, table>>

\* run_single_statement
Execute ==
  /\ at = "execute"
  /\ errors' \in {errors, errors \cup {count}}
  /\ GoTo("end")
  /\ UNCHANGED <<count, source, curr_line, builtin, value, table>>

\* Mistakes: the line counter stays; the errors stay.
ClearLines == source' = <<>> /\ errors' = {} /\ UNCHANGED curr_line
ClearSource == source' = <<>> /\ curr_line' = 0 /\ UNCHANGED errors

\* report_errors and clear_errors when there are errors, source_.clear() always.
Clear == source' = <<>> /\ curr_line' = 0 /\ errors' = {}

Prompt ==
  /\ at \in {"dropped", "end"}
  /\ Clear
  /\ GoTo("prompt")
  /\ UNCHANGED <<count, builtin, value, table>>

-----------------------------------------------------------------------------

Next ==
  \/ \E kind \in Kind : ReadLine(kind)
  \/ Scan \/ ScanLost \/ ParseExpression \/ Fail \/ ParseStatement \/ Execute \/ Prompt
  \/ \E name \in ClassName : RegisterClass(name)
  \/ \E type \in ValueType : Evaluate(type) \/ Hang(type)

Spec == Init /\ [][Next]_vars

-----------------------------------------------------------------------------
(* Properties.                                                             *)

TypeOK ==
  /\ at \in Point /\ count \in Nat
  /\ source \in Seq([line : 1 .. count, kind : Kind]) /\ curr_line \in 0 .. Len(source)
  /\ errors \subseteq 1 .. count
  /\ builtin \in BOOLEAN /\ value \in {""} \cup Name
  /\ table \in Seq(Entry)

\* Lines pile up in the source behind every value, but the lexer gets the new
\* line and no other one: no line runs twice, and get_next_line, whose guard
\* would let it, never reads behind the last line.
NewLineOnly ==
  at = "scan" => curr_line = Len(source) - 1 /\ source[Len(source)].line = count

\* A report shows the first line of the source.  It is the line at fault unless
\* lines have piled up.
OwnLineShown == Len(source) = 1 => errors \subseteq {source[1].line}

\* A line the lexer has nothing against is dropped only behind a value that came
\* with an error, which is reported then; never twice in a row.
DroppedOnce ==
  at = "dropped" =>
    \/ Is({"bad"})
    \/ Len(source) > 1 /\ source[Len(source) - 1].kind = "branch" /\ errors = {count - 1}

\* The value of an expression is printed, as far as the types have ids of their
\* own: with the builtin types, no more types than ids, and no class that is named
\* "error", whose objects have the type id of error values.
NothingSwallowed ==
  builtin /\ Len(table) <= IdCount /\ value \notin {"", "error"} => at = "prompt"

\* The walk along super types descends to "type", whatever classes users declare
\* and however often the ids wrap around: no access hangs.
SupersDescend ==
  builtin =>
    /\ TypeId("type") = 0
    /\ \A id \in 1 .. IdCount - 1 : SuperOf(id) < id
    /\ at # "hung"
==============================================================================
