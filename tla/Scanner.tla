------------------------------- MODULE Scanner -------------------------------
(***************************************************************************)
(* The scanner (Scanning/Scanner.cpp), which takes the declarations and    *)
(* definitions of functions out of the tokens of a file.                   *)
(*                                                                         *)
(* A step is one turn of a loop of scan, scan_function, scan_stmt or       *)
(* scan_block, or what stands between two of them.  Errors are CILErrors   *)
(* that no function up to main catches.                                    *)
(***************************************************************************)
EXTENDS SymbolTable, Integers, FiniteSets

CONSTANTS Func,   \* identifiers that name no type
          Type,   \* identifiers that do
          Text    \* the files: records whose field `code' is what the lexer returns,
                  \* `functions' where functions were written in it

Identifier == Func \cup Type
Mark  == {"def", "const", "(", ")", "{", "}", ",", ";", "=", "->"}
Token == Identifier \cup Mark \cup {"other"}
EOF   == "EOF"

\* The lexer's last token is EOF, and no other.
IsCode(code) ==
  /\ code \in Seq(Token \cup {EOF}) /\ Len(code) > 0
  /\ \A i \in 1 .. Len(code) : code[i] = EOF <=> i = Len(code)

ASSUME NameAssumption == Identifier \cap (Mark \cup {"other", EOF}) = {}
ASSUME TextAssumption == \A t \in Text : IsCode(t.code)

VARIABLES
  text,    \* the file
  current, \* the position of the next token, counted from 1
  list,    \* the tokens that scan returns
  table,   \* Scanner::table_
  def,     \* the locals of scan_function, scan_stmt and scan_block
  at,      \* where the scanner stands, or which error it threw
  global,  \* SymbolTable::global_table_
  status   \* how the process stands

vars == <<text, current, list, table, def, at, global, status>>

code  == text.code
AtEnd == current = Len(code) + 1
Here  == code[current]

\* "name" .. "body" are the parts of a definition's head, "statement" and "block"
\* its body.  "unexpected": an expect_* failed; "already": the table refused.
Place == {"scan", "name", "parameters", "named", "default", "pushed", "result", "body",
          "statement", "block", "unexpected", "already"}

\* undefined: peek() behind the tokens; terminated: an error left main.
Status == {"running", "done", "terminated", "undefined"}

NoDef == [name |-> EOF, params |-> 0, body |-> <<>>, depth |-> 0]

Init ==
  /\ text \in Text
  /\ current = 1 /\ list = <<>> /\ table = EmptyTable /\ def = NoDef /\ at = "scan"
  /\ global = EmptyTable /\ status = "running"

-----------------------------------------------------------------------------

Go(place, next) == at' = place /\ current' = next /\ UNCHANGED <<list, table, global, status>>

Throw(error) ==
  /\ at' = error /\ status' = "terminated" /\ def' = NoDef
  /\ UNCHANGED <<current, list, table, global>>

Define(body) ==
  \/ Refuses(table, def.name) /\ Throw("already")
  \/ /\ ~Refuses(table, def.name)
     /\ table' = Declare(table, def.name, def.params, body)
     /\ at' = "scan" /\ current' = current + 1 /\ def' = NoDef
     /\ UNCHANGED <<list, global, status>>

\* scan(): all that does not belong to a function is returned.
Copy ==
  /\ at = "scan" /\ ~AtEnd /\ Here # "def"
  /\ list' = Append(list, Here) /\ current' = current + 1
  /\ UNCHANGED <<table, def, at, global, status>>

Begin == at = "scan" /\ ~AtEnd /\ Here = "def" /\ Go("name", current + 1) /\ UNCHANGED def

Finish ==
  /\ at = "scan" /\ AtEnd
  /\ global' = MakeGlobal(global, table) /\ status' = "done"
  /\ UNCHANGED <<current, list, table, def, at>>

-----------------------------------------------------------------------------
(* scan_function.  An expect_* that succeeds consumes a token that is not  *)
(* EOF, so that there is one to look at behind it.                         *)

In(place) == at = place /\ ~AtEnd

\* Mistake: what should be the name is not looked at.
AnyName == In("name") /\ Go("parameters", current + 2) /\ def' = [def EXCEPT !.name = Here]

Name ==
  /\ In("name")
  /\ LET expected == Here \in Identifier /\ code[current + 1] = "("
     IN  \/ expected /\ Go("parameters", current + 2) /\ def' = [def EXCEPT !.name = Here]
         \/ ~expected /\ Throw("unexpected")

\* expect_type: where the name of the type is expected.
TypeAt(i) == IF code[i] = "const" THEN i + 1 ELSE i

Parameters ==
  LET typeAt   == TypeAt(current)
      expected == code[typeAt] \in Type /\ code[typeAt + 1] \in Identifier
  IN  /\ In("parameters")
      /\ \/ Here = ")" /\ Go("result", current + 1) /\ UNCHANGED def
         \/ Here # ")" /\ expected /\ Go("named", typeAt + 2) /\ UNCHANGED def
         \/ Here # ")" /\ ~expected /\ Throw("unexpected")

\* parameters.push_back, then a comma or the end.
EndParameter ==
  \/ /\ Here \in {",", ")"}
     /\ Go(IF Here = "," THEN "parameters" ELSE "result", current + 1)
     /\ def' = [def EXCEPT !.params = @ + 1]
  \/ Here \notin {",", ")"} /\ Throw("unexpected")

Named ==
  /\ In("named")
  /\ \/ Here = "=" /\ Go("default", current + 1) /\ UNCHANGED def
     \/ Here # "=" /\ EndParameter

\* Mistake: the tokens of the default are looked at, never consumed.
PeekDefault == In("default") /\ Here \in {",", ")"} /\ Go("pushed", current) /\ UNCHANGED def

\* The tokens up to a comma or parenthesis; then the parameter is pushed with
\* them, and once more without.
Default ==
  /\ In("default")
  /\ \/ Here \notin {",", ")"} /\ Go("default", current + 1) /\ UNCHANGED def
     \/ Here \in {",", ")"} /\ Go("pushed", current) /\ def' = [def EXCEPT !.params = @ + 1]

Pushed == In("pushed") /\ EndParameter

Result ==
  /\ In("result")
  /\ \/ Here # "->" /\ Go("body", current) /\ UNCHANGED def
     \/ /\ Here = "->" /\ code[TypeAt(current + 1)] \in Type
        /\ Go("body", TypeAt(current + 1) + 1) /\ UNCHANGED def
     \/ Here = "->" /\ code[TypeAt(current + 1)] \notin Type /\ Throw("unexpected")

-----------------------------------------------------------------------------
(* scan_stmt and scan_block, which do not look for the end of the file.    *)

Push(depth) == def' = [def EXCEPT !.body = Append(@, Here), !.depth = depth]

Body ==
  /\ In("body")
  /\ \/ Here = ";" /\ Define(<<>>)
     \/ Here = "{" /\ Go("block", current + 1) /\ Push(1)
     \/ Here \notin {";", "{"} /\ Go("statement", current) /\ UNCHANGED def

Statement ==
  /\ In("statement")
  /\ \/ Here # ";" /\ Go("statement", current + 1) /\ Push(0)
     \/ Here = ";" /\ Define(Append(def.body, Here))

\* Mistake: the first closing brace ends the block.
FlatBlock ==
  /\ In("block")
  /\ \/ Here # "}" /\ Go("block", current + 1) /\ Push(1)
     \/ Here = "}" /\ Define(Append(def.body, Here))

Block ==
  LET depth == CASE Here = "{" -> def.depth + 1 [] Here = "}" -> def.depth - 1
                 [] OTHER -> def.depth
  IN  /\ In("block")
      /\ \/ depth > 0 /\ Go("block", current + 1) /\ Push(depth)
         \/ depth = 0 /\ Define(Append(def.body, Here))

\* Every look at a token behind the last one.
ReadPastEnd ==
  /\ at # "scan" /\ AtEnd
  /\ status' = "undefined"
  /\ UNCHANGED <<current, list, table, def, at, global>>

-----------------------------------------------------------------------------

Next ==
  /\ status = "running" /\ UNCHANGED text
  /\ \/ Copy \/ Begin \/ Finish
     \/ Name \/ Parameters \/ Named \/ Default \/ Pushed \/ Result
     \/ Body \/ Statement \/ Block \/ ReadPastEnd

\* One thread, which waits for nothing.
Spec == Init /\ [][Next]_vars /\ WF_vars(Next)

-----------------------------------------------------------------------------
(* Properties.                                                             *)

\* Types of the state; the position stays in the tokens or just behind them.
TypeOK ==
  /\ IsCode(code) /\ current \in 1 .. Len(code) + 1
  /\ list \in Seq(Token \cup {EOF})
  /\ IsTable(table, Identifier, Token \cup {EOF}) /\ IsTable(global, Identifier, Token \cup {EOF})
  /\ def \in [name : Identifier \cup {EOF}, params : Nat, body : Seq(Token \cup {EOF}), depth : Nat]
  /\ at \in Place /\ status \in Status

\* What Parser assumes of the bodies it is given: a block ends with the brace
\* that closes it, a single statement with its first semicolon, and EOF is in none.
Level(s, n) ==
  Cardinality({i \in 1 .. n : s[i] = "{"}) - Cardinality({i \in 1 .. n : s[i] = "}"})

IsBlock(s) ==
  /\ s[1] = "{" /\ Level(s, Len(s)) = 0
  /\ \A n \in 1 .. Len(s) - 1 : Level(s, n) > 0

IsStatement(s) ==
  /\ Len(s) > 1 /\ s[1] # "{" /\ s[Len(s)] = ";"
  /\ \A n \in 1 .. Len(s) - 1 : s[n] # ";"

\* Whatever the file holds, what the scanner hands on is what the parser relies
\* on: a program without definitions and with EOF at its end, and whole bodies.
FitForParser ==
  /\ \A i \in DOMAIN list : list[i] # "def"
  /\ status = "done" => list # <<>> /\ list[Len(list)] = EOF
  /\ \A f \in DOMAIN table :
       LET body == table[f].body
       IN  body = <<>> \/ ((IsBlock(body) \/ IsStatement(body)) /\ \A i \in DOMAIN body : body[i] # EOF)

\* A declaration or definition of a function as it is written from `first' to `last':
\* `ends' has the places of what ends its parameters, `close' is that of the
\* parenthesis, `open' that of the body or of the semicolon.
Function == [name : Identifier, first : Nat, ends : Seq(Nat), close : Nat, open : Nat, last : Nat]

From(f, j)    == IF j = 1 THEN f.first + 3 ELSE f.ends[j - 1] + 1
NamedAt(f, j) == TypeAt(From(f, j)) + 2

\* A parameter: a type, a name, a default or none, a comma or the parenthesis.
IsParameter(f, j) ==
  LET n == NamedAt(f, j)
      e == f.ends[j]
  IN  /\ code[n - 2] \in Type /\ code[n - 1] \in Identifier
      /\ e = n \/ (e > n /\ code[n] = "=" /\ \A i \in n + 1 .. e - 1 : code[i] \notin {",", ")"})
      /\ code[e] = "," \/ (j = Len(f.ends) /\ e = f.close)

IsFunction(f) ==
  LET m == Len(f.ends)
      t == TypeAt(f.close + 2)
      s == SubSeq(code, f.open, f.last)
  IN  /\ f.first > 0 /\ f.last < Len(code) /\ f.open \in f.close + 1 .. f.last
      /\ f.close > f.first /\ \A j \in 1 .. m : f.ends[j] \in f.first .. f.close
      /\ code[f.first] = "def" /\ code[f.first + 1] = f.name /\ code[f.first + 2] = "("
      /\ \A j \in 1 .. m : IsParameter(f, j)
      /\ f.close = From(f, m + 1) \/ (m > 0 /\ f.close = f.ends[m])
      /\ code[f.close] = ")"
      /\ \/ f.open = f.close + 1 /\ code[f.open] # "->"
         \/ code[f.close + 1] = "->" /\ code[t] \in Type /\ f.open = t + 1
      /\ (f.open = f.last /\ code[f.open] = ";") \/ IsBlock(s) \/ IsStatement(s)

functions == text.functions

\* A whole file: functions one behind the other, and no "def" outside of them.
Program == {i \in DOMAIN code : \A k \in DOMAIN functions : i \notin functions[k].first .. functions[k].last}

Whole ==
  /\ functions \in Seq(Function)
  /\ \A k \in DOMAIN functions :
       /\ IsFunction(functions[k])
       /\ \A j \in 1 .. k - 1 : functions[j].last < functions[k].first
  /\ \A i \in Program : code[i] # "def"

Defines(f) == f.open # f.last
BodyOf(f)  == IF Defines(f) THEN SubSeq(code, f.open, f.last) ELSE <<>>

\* Some parameter of a function has a default.
HasDefault(f) == \E j \in 1 .. Len(f.ends) : f.ends[j] # NamedAt(f, j)

\* The place of a token of the program among the others.
Rank(i) == Cardinality({j \in Program : j <= i})

\* Behind the definition of a function stands another declaration of it, which
\* defines it or does not.
Behind(j, k) == j < k /\ functions[j].name = functions[k].name /\ Defines(functions[j])

DefinedTwice == \E j, k \in DOMAIN functions : Behind(j, k) /\ Defines(functions[k])
Redeclared   == \E j, k \in DOMAIN functions : Behind(j, k) /\ ~Defines(functions[k])

\* A whole file in which no plain declaration stands behind a definition is scanned
\* as it was written: the program is what stands between the functions, in its order;
\* the global table has every function, with the body of its definition, wherever that
\* stands, and the parameters of its first declaration; and the scan ends in an error
\* exactly if a function is defined twice.  For plain declarations behind a definition
\* see DuplicatesAllowed; of parameters with a default, which scan_function pushes
\* twice, nothing is claimed.
ScansAsWritten ==
  status # "running" /\ Whole /\ ~Redeclared =>
    \/ status = "terminated" /\ at = "already" /\ DefinedTwice
    \/ /\ status = "done" /\ ~DefinedTwice
       /\ Len(list) = Cardinality(Program) /\ \A i \in Program : list[Rank(i)] = code[i]
       /\ DOMAIN global = {functions[k].name : k \in DOMAIN functions}
       /\ \A k \in DOMAIN functions :
            LET f == functions[k]
            IN  /\ Defines(f) => global[f.name].body = BodyOf(f)
                /\ (\A j \in 1 .. k - 1 : functions[j].name # f.name) /\ ~HasDefault(f)
                     => global[f.name].params = Len(f.ends)
                /\ (\A j \in DOMAIN functions : functions[j].name = f.name => ~Defines(functions[j]))
                     => global[f.name].body = <<>>

\* CILPlan.txt:25 says "If there are duplicate declarations they must only have one
\* definition": the scan of a whole file fails only if a function is defined twice.
DuplicatesAllowed == status = "terminated" /\ Whole => DefinedTwice

\* The scanner comes to an end, by its own way or by an error.
ScanEnds == <>(status # "running")
==============================================================================
