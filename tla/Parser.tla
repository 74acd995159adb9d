-------------------------------- MODULE Parser --------------------------------
(***************************************************************************)
(* The recursive-descent parser (Parsing/Parser.cpp).                      *)
(*                                                                         *)
(* The C++ stack of a parser is a sequence of items, the next one first:   *)
(* tokens it expects, functions it calls and, in between, what it does to  *)
(* its counters.  A production replaces the item on top; a CILError drops  *)
(* the items down to the handler that catches it.                          *)
(*                                                                         *)
(* The text is arbitrary: what a token is gets decided when it becomes the *)
(* current one.  Tokens are told apart as far as the parser does: "op" is  *)
(* any operator that is only binary, all binary levels being one loop.     *)
(*                                                                         *)
(* Every call of a global function runs another Parser over the tokens     *)
(* that the scanner has cut out for its body, and these end without EOF.   *)
(***************************************************************************)
EXTENDS Naturals, Sequences, FiniteSets

CONSTANTS Func,    \* the names of functions in the global symbol table
          Source   \* the kinds of source texts parsed

Keyword  == {"const", "print", "if", "elif", "else", "for", "while", "break", "def",
             "return", "class", "new"}
Symbol   == {"(", ")", "{", "}", "[", "]", ";", ",", ":", "?", ".", "->"}
Operator == {"=", "op", "-", "!", "++"}

\* "type" is an identifier that names a type; "literal" a string or a boolean,
\* "other" a keyword that no function of the parser looks for.
Name      == {"id", "type"}
TokenKind == Keyword \cup Symbol \cup Operator \cup Name \cup {"number", "literal", "other"}

EOF  == "EOF"
None == "none"   \* no token: the current position is behind the vector

\* What the symbol table knows of a function: declared only, or with the tokens
\* of a block or of a single statement.
Definition == {"declared", "block", "statement"}

\* The program itself; no function has this name.
Main == "main"

ASSUME FuncAssumption == Main \notin Func

\* Of a source text: the kinds of tokens that occur in the program and in the
\* bodies of functions (the scanner takes every function definition out of the
\* program) and, bounds, the tokens (0: any number) and the constructs within each
\* other before a text runs out.
ASSUME SourceAssumption ==
  \A s \in Source :
    /\ s.program \subseteq TokenKind \ {"def"} /\ s.body \subseteq TokenKind
    /\ s.tokens \in Nat /\ s.nesting \in Nat

VARIABLES
  source,   \* the source text parsed
  parsers,  \* the Parser objects at work, the innermost last
  table,    \* the functions of the global symbol table
  parsed,   \* those whose `parsed' is set
  errors,   \* ErrorManager::error_ocurred
  status,   \* how the process stands
  events    \* history: what struck

vars == <<source, parsers, table, parsed, errors, status, events>>

\* undefined: peek() behind the vector; overflow: functions that call each other
\* are parsed for ever; crashed: the nullptr of a failed cast is dereferenced.
Status == {"running", "done", "undefined", "overflow", "crashed"}

\* atEnd: error recovery met the end of the file; again: a function was parsed
\* that is or was parsed already.
Event == {"atEnd", "again"}

-----------------------------------------------------------------------------
(* The text.                                                               *)

\* The first tokens of a text.
First(kind) ==
  CASE kind = "program"   -> source.program \cup {EOF}
    [] kind = "block"     -> {"{"}
    [] kind = "statement" -> source.body \ {"{", ";"}
    [] kind = "declared"  -> {None}

\* What makes a stack grow: statements, expressions and assignments within others;
\* braces may be skipped and stay open.
Nested == {"catch statement", "catch expression", "assignments"}
Nesting(p) == Cardinality({i \in DOMAIN p.stack : p.stack[i] \in Nested}) + p.depth

Exhausted(p) ==
  (source.tokens > 0 /\ p.read = source.tokens) \/ Nesting(p) >= source.nesting

\* scan_block counts braces, only.
Depth(p) == IF p.kind # "block" THEN 0
            ELSE CASE p.next = "{" -> p.depth + 1
                   [] p.next = "}" -> p.depth - 1
                   [] OTHER -> p.depth

\* What may come behind the current token: the program ends with EOF, a block
\* with the brace that closes it, a single statement with the first semicolon.
After(p) ==
  CASE p.kind = "program"   -> IF p.final \/ Exhausted(p) THEN {EOF}
                               ELSE source.program \cup {EOF}
    [] p.kind = "block"     -> IF Depth(p) = 0 THEN {None}
                                 ELSE IF Exhausted(p) THEN {"}"} ELSE source.body
    [] p.kind = "statement" -> IF p.next = ";" THEN {None}
                                 ELSE IF Exhausted(p) THEN {";"} ELSE source.body

\* next: the current token; last: the one before EOF; final: EOF follows; read:
\* tokens that became current; depth: the braces open; failed: history, whether it
\* threw an error.
NewParser(name, kind, next, level, stack) ==
  [func |-> name, kind |-> kind, next |-> next, last |-> None, final |-> FALSE,
   read |-> IF source.tokens = 0 THEN 0 ELSE 1, depth |-> 0, func_level |-> level,
   loop_level |-> 0, failed |-> FALSE, stack |-> stack]

Init ==
  /\ source \in Source
  /\ \E next \in First("program") :
       parsers = <<NewParser(Main, "program", next, 0, <<"parse">>)>>
  /\ table \in [Func -> Definition]
  /\ parsed = {} /\ errors = FALSE /\ status = "running" /\ events = {}

-----------------------------------------------------------------------------

This == parsers[Len(parsers)]
Become(p) == parsers' = [parsers EXCEPT ![Len(parsers)] = p]

Item == Head(This.stack)
Rest == Tail(This.stack)

\* What the parser does without a look at the current token.
Handler == {"catch statement", "catch expression"}
Silent  == Handler \cup {"loop++", "loop--", "func++", "func--", "in loop", "in function",
                         "call", "cast", "report"}

\* The functions of the parser, and what is left of them behind a token.
Function ==
  {"parse", "statement", "expression", "synchronize", "class_decl_stmt", "for_stmt", "block",
   "block end", "elif_stmt", "declarator", "const declarator", "member", "const member",
   "initializer", "const arr", "const var", "array initializer", "name", "func_decl_stmt",
   "parameters", "after parameter", "result", "body", "get_type", "members", "const members",
   "members end", "arguments", "after argument", "values", "after value", "assignments",
   "alternatives", "operations", "unary_expr", "postfix", "array_access_expr", "identifier",
   "call_expr", "called"}

StackItem == TokenKind \cup Function \cup Silent

At(items) == status = "running" /\ This.stack # <<>> /\ Item \in items

Sees(tokens) == This.next \in tokens

\* current++
Consume(stack) ==
  \E t \in After(This) :
       Become([This EXCEPT !.next = t, !.last = IF t = EOF THEN This.next ELSE None,
                           !.read = IF @ = source.tokens THEN @ ELSE @ + 1,
                           !.depth = Depth(This), !.stack = stack])

\* An item is replaced by a row of others, with or without the current token.
Replace(items, tokens, row) ==
  /\ At(items) /\ Sees(tokens)
  /\ Become([This EXCEPT !.stack = row \o Rest])
  /\ UNCHANGED <<table, parsed, errors, status, events>>

Take(items, tokens, row) ==
  /\ At(items) /\ Sees(tokens)
  /\ Consume(row \o Rest)
  /\ UNCHANGED <<table, parsed, errors, status, events>>

\* The handler that catches what is thrown now.
Catch == CHOOSE i \in DOMAIN This.stack :
           /\ This.stack[i] \in Handler
           /\ \A j \in 1 .. i - 1 : This.stack[j] \notin Handler
Caught == SubSeq(This.stack, Catch + 1, Len(This.stack))

\* expression() reports and returns an error expression; statement() looks for
\* a place to go on, then reports.
Throw ==
  /\ Become([This EXCEPT !.failed = TRUE, !.stack =
       (IF This.stack[Catch] = "catch statement" THEN <<"synchronize", "report">> ELSE <<"report">>)
          \o Caught])
  /\ UNCHANGED <<table, parsed, errors, status, events>>

Fail(items, tokens) == At(items) /\ Sees(tokens) /\ Throw

\* Any token of the text but these.
But(tokens) == (TokenKind \cup {EOF}) \ tokens

-----------------------------------------------------------------------------
(* expect_symbol and its siblings, statement(), expression(), synchronize. *)

Expect ==
  \/ Take(TokenKind, {Item}, <<>>)
  \/ Fail(TokenKind, But({Item}))
  \/ Take({"name"}, Name, <<>>) \/ Fail({"name"}, But(Name))

\* logical_or_expr() and assignment_expr().
Binary     == <<"unary_expr", "operations">>
Assignment == Binary \o <<"alternatives", "assignments">>

\* The try blocks.
statement  == Replace({"statement"}, But({}), <<"class_decl_stmt", "catch statement">>)
expression == Replace({"expression"}, But({}), Assignment \o <<"catch expression">>)

\* The rest of an expression that began with an identifier.
Continued == <<"identifier", "postfix", "operations", "alternatives", "assignments">>

Restart == {"{", "print", "if", "for", "while", "def", "class"}

\* current--
StepBack ==
  /\ At({"synchronize"}) /\ Sees({EOF})
  /\ Become([This EXCEPT !.next = This.last, !.final = TRUE, !.stack = Rest])
  /\ events' = events \cup {"atEnd"}
  /\ UNCHANGED <<table, parsed, errors, status>>

\* Mistake: a recovery that stops in front of the semicolon.
SynchronizeBefore ==
  \/ Replace({"synchronize"}, Restart \cup {";"}, <<>>)
  \/ StepBack
  \/ Take({"synchronize"}, But(Restart \cup {";", EOF}), <<"synchronize">>)

\* It stops behind a semicolon, before a token that may begin a statement, or
\* one token before the end.
Synchronize ==
  \/ Take({"synchronize"}, {";"}, <<>>)
  \/ Replace({"synchronize"}, Restart, <<>>)
  \/ StepBack
  \/ Take({"synchronize"}, But(Restart \cup {";", EOF}), <<"synchronize">>)

\* The try block was left normally, or ErrorManager::cil_error.
Leave ==
  /\ At(Handler \cup {"report"})
  /\ Become([This EXCEPT !.stack = Rest])
  /\ errors' = (errors \/ Item = "report")
  /\ UNCHANGED <<table, parsed, status, events>>

\* parse()
parse == Replace({"parse"}, But({EOF}), <<"statement", "parse">>)

Finish ==
  /\ At({"parse"}) /\ Sees({EOF})
  /\ status' = "done"
  /\ UNCHANGED <<parsers, table, parsed, errors, events>>

-----------------------------------------------------------------------------
(* Statements: each function handles its keyword and otherwise calls the   *)
(* next one, so the item of a function stands for all that follow it.      *)

FromFor == {"class_decl_stmt", "for_stmt"}

expr_stmt ==
  Replace(FromFor, But({"const", "type", "{", "print", "if", "for", "while", "break", "def",
                        "return", "class"}), Assignment \o <<";">>)

\* while (!atEnd()): a statement comes first, then the brace may.
block_stmt ==
  \/ Take(FromFor, {"{"}, <<"block">>)
  \/ Replace({"block"}, But({EOF}), <<"statement", "block end">>)
  \/ Fail({"block"}, {EOF})
  \/ Take({"block end"}, {"}"}, <<>>)
  \/ Replace({"block end"}, But({"}"}), <<"block">>)

break_stmt  == Take(FromFor, {"break"}, <<"in loop", ";">>)
return_stmt == Take(FromFor, {"return"}, <<"in function", "expression", ";">>)
print_stmt  == Take(FromFor, {"print"}, <<"expression", ";">>)

Condition == <<"(", "expression", ")">>

if_stmt == Take(FromFor, {"if"}, Condition \o <<"statement", "elif_stmt">>)

elif_stmt ==
  \/ Take({"elif_stmt"}, {"elif"}, Condition \o <<"statement", "elif_stmt">>)
  \/ Take({"elif_stmt"}, {"else"}, <<"statement">>)
  \/ Replace({"elif_stmt"}, But({"elif", "else"}), <<>>)

\* Mistake: the level is lowered first.
SwappedBody == <<"loop--", "statement", "loop++">>

Body == <<"loop++", "statement", "loop--">>

\* Mistake: the level is raised before the condition is parsed.
EagerWhile == Take(FromFor, {"while"}, <<"loop++">> \o Condition \o <<"statement", "loop--">>)

while_stmt == Take(FromFor, {"while"}, Condition \o Body)

for_stmt ==
  Take(FromFor, {"for"}, <<"(", "statement", "expression", ";", "expression", ")">> \o Body)

\* A type begins a variable, an array or, as an identifier, an expression; a
\* member that turns out to be an expression is cast to a variable declaration.
var_decl_stmt ==
  \/ Take({"class_decl_stmt"}, {"type"}, <<"declarator">>)
  \/ Take({"declarator", "const declarator", "member", "const member"}, Name,
          <<"initializer", ";">>)
  \/ Replace({"declarator"}, But(Name \cup {"["}), Continued \o <<";">>)
  \/ Replace({"member"}, But(Name), Continued \o <<";", "cast">>)
  \/ Fail({"const declarator"}, But(Name \cup {"["}))
  \/ Fail({"const member"}, But(Name))
  \/ Take({"initializer"}, {"="}, <<"expression">>)
  \/ Replace({"initializer"}, But({"="}), <<>>)

\* arr_decl_stmt and var_decl_stmt each take one `const' and give it back only
\* when a type follows: otherwise it is lost.
Const ==
  \/ Take({"class_decl_stmt"}, {"const"}, <<"const arr">>)
  \/ Take({"const arr"}, {"type"}, <<"const declarator">>)
  \/ Take({"const arr"}, {"const"}, <<"const var">>)
  \/ Replace({"const arr"}, But({"type", "const"}), <<"for_stmt">>)
  \/ Take({"const var"}, {"type"}, <<"const member">>)
  \/ Replace({"const var"}, But({"type"}), <<"for_stmt">>)
  \/ Fail({"for_stmt"}, {"const", "def", "class"})

\* An array without "=" is accepted: the error of that case is never thrown.
arr_decl_stmt ==
  \/ Take({"declarator", "const declarator"}, {"["},
          <<"number", "]", "name", "array initializer", "{", "values", ";">>)
  \/ Take({"array initializer"}, {"="}, <<>>)
  \/ Replace({"array initializer"}, But({"="}), <<>>)

func_decl_stmt ==
  \/ Take({"class_decl_stmt", "func_decl_stmt"}, {"def"}, <<"name", "(", "parameters", "result", "body">>)
  \/ Take({"result"}, {"->"}, <<"get_type">>)
  \/ Replace({"result"}, But({"->"}), <<>>)
  \/ Take({"body"}, {";"}, <<>>)
  \/ Replace({"body"}, But({";"}), <<"func++", "statement", "func--">>)

get_type ==
  \/ Take({"get_type"}, {"const"}, <<"type">>)
  \/ Replace({"get_type"}, But({"const"}), <<"type">>)

class_decl_stmt ==
  \/ Take({"class_decl_stmt"}, {"class"}, <<"name", "{", "members">>)
  \/ Fail({"members"}, {EOF})
  \/ Replace({"members"}, {"def"}, <<"func_decl_stmt", "members">>)
  \/ Take({"members"}, {"type"}, <<"member", "members">>)
  \/ Take({"members"}, {"const"}, <<"const members">>)
  \/ Take({"members", "members end"}, {"}"}, <<>>)
  \/ Fail({"members"}, But({EOF, "def", "type", "const", "}"}))
  \/ Take({"const members"}, {"type"}, <<"const member", "members">>)
  \/ Replace({"const members"}, But({"type"}), <<"members end">>)
  \/ Fail({"members end"}, But({"}"}))

-----------------------------------------------------------------------------
(* Lists: members with commas between them, up to the token that closes.   *)

List(item, rest, member, close) ==
  \/ Take({item}, {close}, <<>>)
  \/ Fail({item}, {EOF})
  \/ Replace({item}, But({close, EOF}), member \o <<rest>>)
  \/ Take({rest}, {","}, <<item>>)
  \/ Take({rest}, {close}, <<>>)
  \/ Fail({rest}, But({",", close}))

Lists ==
  \/ List("parameters", "after parameter", <<"get_type", "name">>, ")")
  \/ List("arguments", "after argument", <<"expression">>, ")")
  \/ List("values", "after value", <<"expression">>, "}")

-----------------------------------------------------------------------------
(* Expressions.                                                            *)

assignment_expr ==
  \/ Take({"assignments"}, {"="}, Assignment \o <<"assignments">>)
  \/ Replace({"assignments"}, But({"="}), <<>>)

ternary_expr ==
  \/ Take({"alternatives"}, {"?"}, Binary \o <<":">> \o Binary)
  \/ Replace({"alternatives"}, But({"?"}), <<>>)

\* logical_or_expr down to factor_expr: the levels differ in the tree only.
binary_expr ==
  \/ Take({"operations"}, {"op", "-"}, <<"unary_expr", "operations">>)
  \/ Replace({"operations"}, But({"op", "-"}), <<>>)

unary_expr ==
  \/ Take({"unary_expr"}, {"!", "-"}, <<"unary_expr">>)
  \/ Replace({"unary_expr"}, But({"!", "-"}), <<"array_access_expr", "postfix">>)
  \/ Take({"postfix"}, {"++"}, <<>>)
  \/ Replace({"postfix"}, But({"++"}), <<>>)

\* array_access_expr, new_expr, access_expr, call_expr and primary_expr: what
\* follows a name tells which one it is.
operand ==
  \/ Take({"array_access_expr"}, Name, <<"identifier">>)
  \/ Take({"array_access_expr"}, {"new"}, <<"name", "(", "arguments">>)
  \/ Take({"identifier"}, {"["}, <<"expression", "]">>)
  \/ Take({"identifier"}, {"."}, <<"call_expr">>)
  \/ Replace({"identifier"}, But({"[", ".", "("}), <<>>)

call_expr ==
  \/ Take({"call_expr"}, Name, <<"called">>)
  \/ Take({"identifier", "called"}, {"("}, <<"arguments", "call">>)
  \/ Replace({"called"}, But({"("}), <<>>)

primary_expr ==
  \/ Take({"array_access_expr", "call_expr"}, {"number", "literal"}, <<>>)
  \/ Take({"array_access_expr", "call_expr"}, {"("}, <<"expression", ")">>)
  \/ Fail({"array_access_expr"}, But(Name \cup {"new", "number", "literal", "("}))
  \/ Fail({"call_expr"}, But(Name \cup {"number", "literal", "("}))

-----------------------------------------------------------------------------
(* Counters and checks.                                                    *)

Count(item, func, loop) ==
  /\ At({item})
  /\ Become([This EXCEPT !.func_level = func, !.loop_level = loop, !.stack = Rest])
  /\ UNCHANGED <<table, parsed, errors, status, events>>

Levels ==
  \/ Count("loop++", This.func_level, This.loop_level + 1)
  \/ Count("loop--", This.func_level, This.loop_level - 1)
  \/ Count("func++", This.func_level + 1, This.loop_level)
  \/ Count("func--", This.func_level - 1, This.loop_level)

Check(item, level) ==
  /\ At({item})
  /\ \/ /\ level >= 1 /\ Become([This EXCEPT !.stack = Rest])
        /\ UNCHANGED <<table, parsed, errors, status, events>>
     \/ level < 1 /\ Throw

Checks == Check("in loop", This.loop_level) \/ Check("in function", This.func_level)

\* The last member of the class was an expression statement.
Cast ==
  /\ At({"cast"})
  /\ status' = "crashed"
  /\ UNCHANGED <<parsers, table, parsed, errors, events>>

-----------------------------------------------------------------------------
(* Calls parse the function, whether it has been parsed or not.            *)

Active == {parsers[i].func : i \in DOMAIN parsers}

\* global_function_exists(): any name may be none of a function.
CallUnknown == At({"call"}) /\ Throw

\* Mistake: the tokens of a function are parsed like a program's, up to EOF.
CallProgram(f) ==
  /\ At({"call"}) /\ f \notin Active
  /\ \E next \in First(table[f]) :
       parsers' = Append([parsers EXCEPT ![Len(parsers)] = [@ EXCEPT !.stack = Rest]],
                         NewParser(f, table[f], next, 1, <<"parse">>))
  /\ events' = events \cup (IF f \in parsed THEN {"again"} ELSE {})
  /\ UNCHANGED <<table, parsed, errors, status>>

\* parse_function
CallFunction(f) ==
  /\ At({"call"}) /\ f \notin Active
  /\ \E next \in First(table[f]) :
       parsers' = Append([parsers EXCEPT ![Len(parsers)] = [@ EXCEPT !.stack = Rest]],
                         NewParser(f, table[f], next, 1, <<"statement">>))
  /\ events' = events \cup (IF f \in parsed THEN {"again"} ELSE {})
  /\ UNCHANGED <<table, parsed, errors, status>>

\* The function is being parsed: its tokens lead to this call again.
CallActive(f) ==
  /\ At({"call"}) /\ f \in Active
  /\ status' = "overflow"
  /\ events' = events \cup {"again"}
  /\ UNCHANGED <<parsers, table, parsed, errors>>

\* func.body = body; func.parsed = true;
EndFunction ==
  /\ status = "running" /\ This.stack = <<>>
  /\ parsers' = SubSeq(parsers, 1, Len(parsers) - 1)
  /\ parsed' = parsed \cup {This.func}
  /\ UNCHANGED <<table, errors, status, events>>

\* peek() behind the last token of a function.
ReadPastEnd ==
  /\ status = "running" /\ This.stack # <<>> /\ Item \notin Silent
  /\ Sees({None})
  /\ status' = "undefined"
  /\ UNCHANGED <<parsers, table, parsed, errors, events>>

-----------------------------------------------------------------------------

AnyStatement ==
  \/ expr_stmt \/ block_stmt \/ break_stmt \/ return_stmt \/ print_stmt \/ if_stmt
  \/ elif_stmt \/ while_stmt \/ for_stmt \/ var_decl_stmt \/ Const \/ arr_decl_stmt
  \/ func_decl_stmt \/ get_type \/ class_decl_stmt

AnyExpression ==
  \/ Lists \/ assignment_expr \/ ternary_expr \/ binary_expr \/ unary_expr
  \/ operand \/ call_expr \/ primary_expr

Step ==
  /\ \/ parse \/ Finish \/ statement \/ expression \/ Expect \/ Synchronize \/ Leave
     \/ AnyStatement \/ AnyExpression \/ Levels \/ Checks \/ Cast
     \/ CallUnknown \/ (\E f \in Func : CallFunction(f) \/ CallActive(f))
     \/ EndFunction \/ ReadPastEnd
  /\ UNCHANGED source

Ended == status # "running" /\ UNCHANGED vars

Next == Step \/ Ended

\* The program has one thread, which runs.
Spec == Init /\ [][Next]_vars /\ WF_vars(Step)

-----------------------------------------------------------------------------
(* Properties.                                                             *)

TypeOK ==
  /\ source \in Source
  /\ parsers \in Seq([func : Func \cup {Main}, kind : Definition \cup {"program"},
                      next : TokenKind \cup {EOF, None}, last : TokenKind \cup {None},
                      final : BOOLEAN, read : Nat, depth : Nat, func_level : Nat, loop_level : Nat,
                      failed : BOOLEAN, stack : Seq(StackItem)])
  /\ parsers # <<>>
  /\ table \in [Func -> Definition] /\ parsed \subseteq Func
  /\ errors \in BOOLEAN /\ status \in Status /\ events \subseteq Event

Pending(p, item) == Cardinality({i \in DOMAIN p.stack : p.stack[i] = item})

\* parse_function starts at func_level 1.
Base(p) == IF p.func = Main THEN 0 ELSE 1

\* Whatever errors were thrown and caught, func_level and loop_level count the
\* functions and loops around the current token: no error makes the parser lose
\* or keep a level, since statement() catches below every increment.
LevelsMatch ==
  \A i \in DOMAIN parsers :
    LET p == parsers[i]
    IN  /\ p.loop_level + Pending(p, "loop++") = Pending(p, "loop--")
        /\ p.func_level + Pending(p, "func++") = Pending(p, "func--") + Base(p)

\* A parser that met no error in the block of a function reads all tokens that the
\* scanner has cut out for it and none behind them.
ReadsOwnBody ==
  \/ This.failed \/ This.kind # "block"
  \/ /\ status # "undefined"
     /\ status = "running" /\ This.stack = <<>> => This.next = None

\* The parser of a text that ends comes to an end, whatever the errors, unless
\* recovery runs into the end of the file: then it steps back before the last
\* token, for ever.
ParseEnds == source.tokens > 0 /\ []("atEnd" \notin events) => <>(status # "running")

\* "... and it hasn't been parsed yet" (CILPlan.txt): no function is parsed twice.
ParsedOnce == "again" \notin events
===============================================================================
