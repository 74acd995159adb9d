---------------------------- MODULE ScannerProofs ----------------------------
(***************************************************************************)
(* For every file: the scanner stays in its types, and what it hands on is *)
(* what the parser relies on, whole bodies of functions above all.  For    *)
(* every file of whole functions: it takes out what was written.           *)
(***************************************************************************)
EXTENDS Scanner, FiniteSetTheorems, SequenceTheorems, TLAPS

Symbols == Token \cup {EOF}
Def     == [name : Identifier \cup {EOF}, params : Nat, body : Seq(Symbols), depth : Nat]
Entries == [params : Nat, body : Seq(Symbols)]

Left      == "{"
Right     == "}"
Semicolon == ";"

NoEOF(s) == \A i \in DOMAIN s : s[i] # EOF

\* The part of a block that has been read so far: depth braces of it are open.
IsOpen(s, depth) ==
  /\ Len(s) > 0 /\ s[1] = Left /\ Level(s, Len(s)) = depth
  /\ \A n \in 1 .. Len(s) : Level(s, n) > 0

\* What the parser can be given for the body of a function.
IsBody(s) == s = <<>> \/ ((IsBlock(s) \/ IsStatement(s)) /\ NoEOF(s))

\* The locals of scan_function are those of the definition it is in.
InDefinition ==
  /\ at \notin {"scan", "name", "unexpected", "already"} => def.name \in Identifier
  /\ at \notin {"statement", "block"} => def.body = <<>>

\* What has been gathered of a body.
Gathered ==
  /\ current <= Len(code) => NoEOF(def.body)
  /\ at = "statement" =>
       /\ \A i \in DOMAIN def.body : def.body[i] # Semicolon
       /\ IF def.body = <<>> THEN current <= Len(code) => Here # Semicolon /\ Here # Left
          ELSE def.body[1] # Left
  /\ at = "block" => IsOpen(def.body, def.depth) /\ def.depth > 0

\* What is handed on to the parser.
Handed ==
  /\ \A n \in DOMAIN table : table[n] \in Entries /\ IsBody(table[n].body)
  /\ \A i \in DOMAIN list : list[i] # "def"
  /\ (at = "scan" /\ AtEnd) \/ status = "done" => list # <<>> /\ list[Len(list)] = EOF

ScanInv == TypeOK /\ InDefinition /\ Gathered /\ Handed

-----------------------------------------------------------------------------
(* Levels of braces.                                                       *)

Count(s, c) == Cardinality({i \in 1 .. Len(s) : s[i] = c})

\* A token that is appended is counted once more.
LEMMA CountAppend ==
  ASSUME NEW S, NEW s \in Seq(S), NEW x \in S, NEW c
  PROVE  /\ Count(s, c) \in Nat
         /\ x = c => Count(Append(s, x), c) = Count(s, c) + 1
         /\ x # c => Count(Append(s, x), c) = Count(s, c)
<1> DEFINE t == Append(s, x)
           A == {i \in 1 .. Len(s) : s[i] = c}
           B == {i \in 1 .. Len(t) : t[i] = c}
           m == Len(s) + 1
<1> SUFFICES /\ Cardinality(A) \in Nat
             /\ x = c => Cardinality(B) = Cardinality(A) + 1
             /\ x # c => Cardinality(B) = Cardinality(A)
  BY DEF Count
<1>1. /\ Len(s) \in Nat /\ Len(t) = m /\ t[m] = x
      /\ \A i \in 1 .. Len(s) : t[i] = s[i]
  OBVIOUS
<1>2. IsFiniteSet(A) /\ Cardinality(A) \in Nat
  <2>1. A \in SUBSET (1 .. Len(s))
    OBVIOUS
  <2>2. \A n \in Nat : IsFiniteSet(1 .. n)
    BY FS_Interval
  <2>3. IsFiniteSet(1 .. Len(s))
    BY ONLY <1>1, <2>2
  <2> HIDE DEF A
  <2> QED BY <2>1, <2>3, FS_Subset, FS_CardinalityType
<1>3. m \notin A
  BY <1>1
<1>4. CASE x = c
  <2>1. B = A \cup {m}
    BY <1>1, <1>4
  <2> HIDE DEF A, B, m
  <2>2. Cardinality(B) = Cardinality(A) + 1
    BY <2>1, <1>2, <1>3, FS_AddElement
  <2> QED BY <2>2, <1>2, <1>4
<1>5. CASE x # c
  <2>1. B = A
    BY <1>1, <1>5
  <2> HIDE DEF A, B
  <2> QED BY <2>1, <1>2, <1>5
<1> QED BY <1>4, <1>5

\* How a token changes the number of open braces.
Depth(depth, x) == CASE x = "{" -> depth + 1 [] x = "}" -> depth - 1 [] OTHER -> depth

LEMMA LevelMoves ==
  \A a, b \in Nat : (a + 1) - b = (a - b) + 1 /\ a - (b + 1) = (a - b) - 1
OBVIOUS

\* The level within what was there stays; the new token raises or lowers it.
LEMMA LevelAppend ==
  ASSUME NEW S, NEW s \in Seq(S), NEW x \in S, Level(s, Len(s)) \in Int
  PROVE  LET t == Append(s, x)
         IN  /\ \A n \in 1 .. Len(s) : Level(t, n) = Level(s, n)
             /\ Level(t, Len(t)) = Depth(Level(s, Len(s)), x)
<1> DEFINE t == Append(s, x)
<1>1. ASSUME NEW n \in 1 .. Len(s) PROVE Level(t, n) = Level(s, n)
  <2>1. \A i \in 1 .. n : t[i] = s[i]
    OBVIOUS
  <2>2. /\ {i \in 1 .. n : t[i] = "{"} = {i \in 1 .. n : s[i] = "{"}
        /\ {i \in 1 .. n : t[i] = "}"} = {i \in 1 .. n : s[i] = "}"}
    BY <2>1
  <2> QED BY <2>2 DEF Level
<1>2. /\ Count(s, "{") \in Nat
      /\ x = "{" => Count(t, "{") = Count(s, "{") + 1
      /\ x # "{" => Count(t, "{") = Count(s, "{")
  BY CountAppend
<1>3. /\ Count(s, "}") \in Nat
      /\ x = "}" => Count(t, "}") = Count(s, "}") + 1
      /\ x # "}" => Count(t, "}") = Count(s, "}")
  BY CountAppend
<1>4. /\ Level(s, Len(s)) = Count(s, "{") - Count(s, "}")
      /\ Level(t, Len(t)) = Count(t, "{") - Count(t, "}")
  BY DEF Level, Count
<1>5. Level(t, Len(t)) = Depth(Level(s, Len(s)), x)
  <2> HIDE DEF t
  <2>0. Count(s, "{") \in Nat /\ Count(s, "}") \in Nat
    BY <1>2, <1>3
  <2>1. CASE x = "{"
    <3>1. Count(t, "{") = Count(s, "{") + 1 /\ Count(t, "}") = Count(s, "}")
      BY <1>2, <1>3, <2>1
    <3>2. (Count(s, "{") + 1) - Count(s, "}") = (Count(s, "{") - Count(s, "}")) + 1
      BY <2>0, LevelMoves
    <3>3. Level(t, Len(t)) = Level(s, Len(s)) + 1
      BY <3>1, <3>2, <1>4
    <3> QED BY <3>3, <2>1 DEF Depth
  <2>2. CASE x = "}"
    <3>1. Count(t, "}") = Count(s, "}") + 1 /\ Count(t, "{") = Count(s, "{")
      BY <1>2, <1>3, <2>2
    <3>2. Count(s, "{") - (Count(s, "}") + 1) = (Count(s, "{") - Count(s, "}")) - 1
      BY <2>0, LevelMoves
    <3>3. Level(t, Len(t)) = Level(s, Len(s)) - 1
      BY <3>1, <3>2, <1>4
    <3> QED BY <3>3, <2>2 DEF Depth
  <2>3. CASE x \notin {"{", "}"}
    <3>1. Level(t, Len(t)) = Level(s, Len(s))
      BY <1>2, <1>3, <2>3, <1>4
    <3> QED BY <3>1, <2>3 DEF Depth
  <2> QED BY <2>1, <2>2, <2>3
<1> QED BY <1>1, <1>5

LEMMA DepthCases ==
  ASSUME NEW depth, NEW x
  PROVE  /\ x = Left => Depth(depth, x) = depth + 1
         /\ x = Right => Depth(depth, x) = depth - 1
         /\ x # Left /\ x # Right => Depth(depth, x) = depth
BY DEF Depth, Left, Right

-----------------------------------------------------------------------------
(* Bodies.                                                                 *)

\* EOF and the marks are no identifiers, and the marks no EOF.
LEMMA MarksDiffer ==
  /\ EOF \notin Identifier /\ EOF \notin Token
  /\ \A x \in Mark : x \notin Identifier /\ x # EOF /\ x \in Token
BY NameAssumption DEF EOF, Token, Mark

LEMMA AppendFacts ==
  ASSUME NEW s \in Seq(Symbols), NEW x \in Symbols
  PROVE  LET t == Append(s, x)
         IN  /\ t \in Seq(Symbols) /\ Len(t) = Len(s) + 1 /\ Len(s) \in Nat /\ t[Len(t)] = x
             /\ DOMAIN t = 1 .. Len(s) + 1 /\ DOMAIN s = 1 .. Len(s)
             /\ \A i \in 1 .. Len(s) : t[i] = s[i]
OBVIOUS

LEMMA NoEOFAppend ==
  ASSUME NEW s \in Seq(Symbols), NEW x \in Symbols, NoEOF(s), x # EOF
  PROVE  NoEOF(Append(s, x))
<1> DEFINE t == Append(s, x)
<1>1. DOMAIN t = 1 .. Len(s) + 1 /\ DOMAIN s = 1 .. Len(s) /\ Len(s) \in Nat /\ t[Len(s) + 1] = x
  BY AppendFacts
<1>2. \A i \in 1 .. Len(s) : t[i] = s[i]
  BY AppendFacts
<1> HIDE DEF t
<1>3. \A i \in DOMAIN t : t[i] # EOF
  BY <1>1, <1>2 DEF NoEOF
<1> QED BY <1>3 DEF NoEOF, t

\* The first token of a block opens it.
LEMMA OpenStart == IsOpen(Append(<<>>, Left), 1)
<1> DEFINE t == Append(<<>>, Left)
<1>0. Left \in Symbols
  BY MarksDiffer DEF Symbols, Left, Mark
<1>1. <<>> \in Seq(Symbols) /\ Len(<<>>) = 0
  OBVIOUS
<1>2. {i \in 1 .. 0 : <<>>[i] = "{"} = {} /\ {i \in 1 .. 0 : <<>>[i] = "}"} = {}
  BY SMT
<1>3. Level(<<>>, 0) = 0
  BY <1>2, FS_EmptySet DEF Level
<1>4. Len(t) = 1 /\ t[1] = Left
  BY <1>0, <1>1, AppendFacts
<1>5. Level(t, 1) = 1
  <2>1. Level(<<>>, Len(<<>>)) = 0 /\ 0 \in Int
    BY <1>1, <1>3
  <2>2. Level(t, Len(t)) = Depth(Level(<<>>, Len(<<>>)), Left)
    <3>1. Level(<<>>, Len(<<>>)) \in Int
      BY <2>1
    <3> QED BY ONLY <1>0, <1>1, <3>1, LevelAppend
  <2>3. Level(t, Len(t)) = Depth(0, Left)
    BY <2>1, <2>2
  <2>4. Depth(0, Left) = 0 + 1
    BY DepthCases
  <2> HIDE DEF t
  <2> QED BY <1>4, <2>3, <2>4
<1> HIDE DEF t
<1>6. IsOpen(t, 1)
  BY <1>4, <1>5 DEF IsOpen
<1> QED BY <1>6 DEF t

\* It stays open until its braces are closed, and then it is a block.
LEMMA OpenAppend ==
  ASSUME NEW s \in Seq(Symbols), NEW x \in Symbols, NEW depth \in Nat, IsOpen(s, depth)
  PROVE  LET t == Append(s, x)
         IN  /\ Depth(depth, x) > 0 => IsOpen(t, Depth(depth, x))
             /\ Depth(depth, x) = 0 => IsBlock(t)
<1> DEFINE t == Append(s, x)
           d == Depth(depth, x)
<1>1. /\ Len(t) = Len(s) + 1 /\ Len(s) \in Nat /\ Len(s) > 0 /\ t[1] = Left
      /\ \A n \in 1 .. Len(s) : Level(t, n) > 0
      /\ Level(t, Len(t)) = d
  BY AppendFacts, LevelAppend DEF IsOpen
<1> HIDE DEF t, d
<1>2. d > 0 => IsOpen(t, d)
  BY <1>1 DEF IsOpen
<1>3. ASSUME d = 0 PROVE IsBlock(t)
  <2>1. Level(t, Len(t)) = 0 /\ \A n \in 1 .. Len(t) - 1 : Level(t, n) > 0
    BY <1>1, <1>3
  <2>2. t[1] = "{"
    BY <1>1 DEF Left
  <2> QED BY <2>1, <2>2 DEF IsBlock
<1> QED BY <1>2, <1>3 DEF t, d

\* A statement ends with its first semicolon.
LEMMA StatementEnds ==
  ASSUME NEW s \in Seq(Symbols), s # <<>>, s[1] # Left, \A i \in DOMAIN s : s[i] # Semicolon
  PROVE  IsStatement(Append(s, Semicolon))
<1> DEFINE t == Append(s, Semicolon)
<1>0. Semicolon \in Symbols
  BY MarksDiffer DEF Symbols, Semicolon, Mark
<1>1. /\ Len(t) = Len(s) + 1 /\ Len(s) \in Nat /\ t[Len(t)] = Semicolon /\ DOMAIN s = 1 .. Len(s)
      /\ \A i \in 1 .. Len(s) : t[i] = s[i]
  BY <1>0, AppendFacts
<1>2. Len(s) > 0
  OBVIOUS
<1> HIDE DEF t
<1>3. Len(t) > 1 /\ t[1] # Left /\ \A n \in 1 .. Len(t) - 1 : t[n] # Semicolon
  BY <1>1, <1>2
<1> QED BY <1>1, <1>3 DEF IsStatement, Left, Semicolon, t

-----------------------------------------------------------------------------
(* Positions.                                                              *)

\* Only the last token is EOF.
LEMMA Positions ==
  ASSUME TypeOK
  PROVE  /\ Len(code) \in Nat /\ Len(code) > 0 /\ current \in 1 .. Len(code) + 1
         /\ (AtEnd <=> current > Len(code))
         /\ \A i \in 1 .. Len(code) :
              code[i] \in Symbols /\ (code[i] # EOF => i < Len(code)) /\ (i < Len(code) => code[i] # EOF)
<1>1. code \in Seq(Symbols) /\ Len(code) > 0 /\ current \in 1 .. Len(code) + 1
  BY DEF TypeOK, IsCode, Symbols
<1>2. \A i \in 1 .. Len(code) : code[i] = EOF <=> i = Len(code)
  BY DEF TypeOK, IsCode
<1>3. \A i \in 1 .. Len(code) : code[i] \in Symbols
  BY <1>1
<1>4. Len(code) \in Nat
  BY <1>1
<1> QED BY <1>1, <1>2, <1>3, <1>4 DEF AtEnd

\* A definition that can be declared, and no other, changes the table.
LEMMA Declares ==
  ASSUME NEW t, \A n \in DOMAIN t : t[n] \in Entries /\ IsBody(t[n].body),
         NEW name, NEW params \in Nat, NEW body \in Seq(Symbols), IsBody(body)
  PROVE  LET u == Declare(t, name, params, body)
         IN  /\ DOMAIN u = DOMAIN t \cup {name}
             /\ \A n \in DOMAIN u : u[n] \in Entries /\ IsBody(u[n].body)
<1> DEFINE u == Declare(t, name, params, body)
<1>1. DOMAIN u = DOMAIN t \cup {name}
  BY DEF Declare
<1>2. ASSUME NEW n \in DOMAIN u PROVE u[n] \in Entries /\ IsBody(u[n].body)
  <2>1. CASE n # name
    BY <2>1, <1>1 DEF Declare
  <2>2. CASE n = name /\ n \in DOMAIN t
    <3>1. u[n] = [t[n] EXCEPT !.body = body]
      BY <2>2, <1>1 DEF Declare
    <3>2. u[n] \in Entries /\ u[n].body = body
      BY <3>1, <2>2 DEF Entries
    <3> QED BY <3>2
  <2>3. CASE n = name /\ n \notin DOMAIN t
    <3>1. u[n] = Entry(params, body)
      BY <2>3, <1>1 DEF Declare
    <3> QED BY <3>1 DEF Entries, Entry
  <2> QED BY <2>1, <2>2, <2>3
<1> QED BY <1>1, <1>2

-----------------------------------------------------------------------------
(* Steps.                                                                  *)

LEMMA NothingEOF == NoEOF(<<>>)
BY DEF NoEOF

\* The scanner goes on in the definition, or to its beginning.
LEMMA Goes ==
  ASSUME ScanInv, status = "running", UNCHANGED text,
         NEW place \in Place \ {"scan", "unexpected", "already"},
         NEW next \in 1 .. Len(code) + 1, Go(place, next), def' \in Def,
         place # "name" => def'.name \in Identifier,
         place \notin {"statement", "block"} => def'.body = <<>>,
         place \in {"statement", "block"} => Gathered'
  PROVE  ScanInv'
<1> USE DEF Go
<1>1. code' = code
  BY DEF code
<1>2. TypeOK'
  BY <1>1 DEF ScanInv, TypeOK, Def, Symbols
<1>3. InDefinition'
  BY DEF InDefinition, Place
<1>4. Gathered'
  <2>1. CASE place \notin {"statement", "block"}
    BY <2>1, NothingEOF DEF Gathered
  <2> QED BY <2>1
<1>5. Handed'
  BY DEF ScanInv, Handed, Place
<1> QED BY <1>2, <1>3, <1>4, <1>5 DEF ScanInv

\* What an error and the end of a definition leave of the locals.
LEMMA NoDefTyped == NoDef \in Def /\ NoDef.body = <<>>
BY DEF NoDef, Def

\* An error ends it.
LEMMA Throws ==
  ASSUME ScanInv, status = "running", UNCHANGED text, NEW error \in {"unexpected", "already"},
         Throw(error)
  PROVE  ScanInv'
<1> USE DEF Throw
<1>1. code' = code
  BY DEF code
<1>2. TypeOK'
  BY <1>1, NoDefTyped DEF ScanInv, TypeOK, Def, Symbols, Place, Status
<1>3. InDefinition' /\ Gathered'
  BY NoDefTyped, NothingEOF DEF InDefinition, Gathered
<1>4. Handed'
  BY DEF ScanInv, Handed
<1> QED BY <1>2, <1>3, <1>4 DEF ScanInv

\* A definition is complete.
LEMMA DefinitionEnds ==
  ASSUME ScanInv, status = "running", UNCHANGED text, current < Len(code),
         def.name \in Identifier, NEW body \in Seq(Symbols), IsBody(body), Define(body)
  PROVE  ScanInv'
<1>1. code' = code
  BY DEF code
<1>2. CASE Throw("already")
  BY <1>2, Throws
<1>3. CASE /\ table' = Declare(table, def.name, def.params, body)
           /\ at' = "scan" /\ current' = current + 1 /\ def' = NoDef
           /\ UNCHANGED <<list, global, status>>
  <2>1. def.params \in Nat /\ DOMAIN table \subseteq Identifier /\ Len(code) \in Nat
    BY Positions DEF ScanInv, TypeOK, IsTable
  <2>2. /\ DOMAIN table' = DOMAIN table \cup {def.name}
        /\ \A n \in DOMAIN table' : table'[n] \in Entries /\ IsBody(table'[n].body)
    <3>1. \A n \in DOMAIN table : table[n] \in Entries /\ IsBody(table[n].body)
      BY DEF ScanInv, Handed
    <3>2. table' = Declare(table, def.name, def.params, body)
      BY <1>3
    <3> QED BY ONLY <3>1, <3>2, <2>1, body \in Seq(Symbols), IsBody(body), Declares
  <2>3. IsTable(table, Identifier, Symbols)'
    BY <2>1, <2>2 DEF IsTable, Entries
  <2>4. TypeOK'
    BY <1>1, <1>3, <2>1, <2>3, NoDefTyped, Positions DEF ScanInv, TypeOK, Def, Symbols, Place
  <2>5. InDefinition' /\ Gathered'
    BY <1>3, NoDefTyped DEF InDefinition, Gathered, NoEOF
  <2>6. Handed'
    BY <1>1, <1>3, <2>1, <2>2, Positions DEF ScanInv, Handed, AtEnd
  <2> QED BY <2>4, <2>5, <2>6 DEF ScanInv
<1> QED BY <1>2, <1>3 DEF Define

LEMMA CopyKeeps ==
  ASSUME ScanInv, status = "running", UNCHANGED text, Copy
  PROVE  ScanInv'
<1> USE DEF Copy
<1>1. code' = code
  BY DEF code
<1>2. /\ Here \in Symbols /\ Here # "def" /\ current \in 1 .. Len(code) /\ Len(code) \in Nat
      /\ Here # EOF => current < Len(code)
  BY Positions DEF ScanInv, Here
<1>3. list \in Seq(Symbols)
  BY DEF ScanInv, TypeOK, Symbols
<1>4. /\ list' \in Seq(Symbols) /\ Len(list') = Len(list) + 1 /\ list'[Len(list')] = Here
      /\ DOMAIN list' = DOMAIN list \cup {Len(list) + 1} /\ list' # <<>>
      /\ \A i \in DOMAIN list : list'[i] = list[i]
  BY <1>2, <1>3
<1>5. TypeOK'
  BY <1>1, <1>2, <1>4 DEF ScanInv, TypeOK, Symbols
<1>6. InDefinition'
  BY DEF ScanInv, InDefinition
<1>7. Gathered'
  <2>1. def.body = <<>>
    BY DEF ScanInv, InDefinition
  <2> QED BY <2>1 DEF Gathered, NoEOF
<1>8. Handed'
  <2>1. \A i \in DOMAIN list' : list'[i] # "def"
    BY <1>2, <1>3, <1>4 DEF ScanInv, Handed
  <2>2. AtEnd' => Here = EOF
    BY <1>1, <1>2 DEF AtEnd
  <2> QED BY <1>4, <2>1, <2>2 DEF ScanInv, Handed
<1> QED BY <1>5, <1>6, <1>7, <1>8 DEF ScanInv

LEMMA FinishKeeps ==
  ASSUME ScanInv, status = "running", UNCHANGED text, Finish
  PROVE  ScanInv'
<1> USE DEF Finish
<1>1. code' = code
  BY DEF code
<1>2. IsTable(global, Identifier, Symbols)'
  <2>1. IsTable(global, Identifier, Symbols) /\ IsTable(table, Identifier, Symbols)
    BY DEF ScanInv, TypeOK, Symbols
  <2>2. /\ DOMAIN global' = DOMAIN global \cup DOMAIN table
        /\ \A n \in DOMAIN global' : global'[n] = IF n \in DOMAIN global THEN global[n] ELSE table[n]
    BY DEF MakeGlobal
  <2> QED BY <2>1, <2>2 DEF IsTable
<1>3. TypeOK'
  BY <1>1, <1>2 DEF ScanInv, TypeOK, Symbols, Status
<1>4. InDefinition' /\ Gathered'
  BY <1>1 DEF ScanInv, InDefinition, Gathered, Here
<1>5. Handed'
  BY DEF ScanInv, Handed
<1> QED BY <1>3, <1>4, <1>5 DEF ScanInv

-----------------------------------------------------------------------------
(* The head of a definition.                                               *)

\* Behind an identifier or a mark there is another token.
LEMMA NotLast ==
  ASSUME TypeOK, NEW i \in 1 .. Len(code), code[i] \in Identifier \/ code[i] \in Mark
  PROVE  i + 1 \in 1 .. Len(code)
<1>1. code[i] # EOF
  BY MarksDiffer
<1>2. i < Len(code) /\ Len(code) \in Nat
  BY <1>1, Positions
<1> QED BY <1>2

LEMMA TypeInside ==
  ASSUME TypeOK, NEW i \in 1 .. Len(code)
  PROVE  TypeAt(i) \in 1 .. Len(code)
<1>1. CASE code[i] = "const"
  BY <1>1, NotLast DEF TypeAt, Mark
<1>2. CASE code[i] # "const"
  BY <1>2 DEF TypeAt
<1> QED BY <1>1, <1>2

LEMMA Within ==
  ASSUME TypeOK, NEW place, In(place)
  PROVE  /\ at = place /\ current \in 1 .. Len(code) /\ Here = code[current]
         /\ Len(code) \in Nat
         /\ \A i \in 1 .. Len(code) : i \in 1 .. Len(code) + 1 /\ i + 1 \in 1 .. Len(code) + 1
BY Positions DEF In, Here

\* The head goes on, with the same name and no body yet.
LEMMA HeadGoes ==
  ASSUME ScanInv, status = "running", UNCHANGED text,
         at \in {"parameters", "named", "default", "pushed", "result"},
         NEW place \in {"parameters", "named", "default", "pushed", "result", "body"},
         NEW next \in 1 .. Len(code) + 1, Go(place, next),
         UNCHANGED def \/ def' = [def EXCEPT !.params = @ + 1]
  PROVE  ScanInv'
<1>1. def \in Def /\ def.name \in Identifier /\ def.body = <<>>
  BY DEF ScanInv, TypeOK, InDefinition, Def, Symbols
<1>2. def' \in Def /\ def'.name \in Identifier /\ def'.body = <<>>
  BY <1>1 DEF Def
<1>3. place \in Place \ {"scan", "unexpected", "already"}
  BY DEF Place
<1> QED BY <1>2, <1>3, Goes

LEMMA BeginKeeps ==
  ASSUME ScanInv, status = "running", UNCHANGED text, Begin
  PROVE  ScanInv'
<1>1. current + 1 \in 1 .. Len(code) + 1 /\ "name" \in Place
  BY Positions DEF ScanInv, Begin, Place
<1>2. def \in Def /\ def.body = <<>>
  BY DEF ScanInv, TypeOK, InDefinition, Def, Symbols, Begin
<1> QED BY <1>1, <1>2, Goes DEF Begin

LEMMA NameKeeps ==
  ASSUME ScanInv, status = "running", UNCHANGED text, Name
  PROVE  ScanInv'
<1>1. /\ at = "name" /\ current \in 1 .. Len(code) /\ Here = code[current] /\ Len(code) \in Nat
      /\ TypeOK
  BY Within DEF ScanInv, Name
<1>2. CASE Throw("unexpected")
  BY <1>2, Throws
<1>3. CASE /\ Here \in Identifier /\ code[current + 1] = "("
           /\ Go("parameters", current + 2) /\ def' = [def EXCEPT !.name = Here]
  <2>1. current + 1 \in 1 .. Len(code)
    BY <1>1, <1>3, NotLast
  <2>2. current + 1 + 1 \in 1 .. Len(code)
    BY <1>1, <1>3, <2>1, NotLast DEF Mark
  <2>3. current + 2 \in 1 .. Len(code) + 1 /\ "parameters" \in Place
    BY <1>1, <2>2 DEF Place
  <2>4. def \in Def /\ def.body = <<>>
    BY <1>1 DEF ScanInv, TypeOK, InDefinition, Def, Symbols
  <2>5. def' \in Def /\ def'.name \in Identifier /\ def'.body = <<>>
    BY <2>4, <1>3 DEF Def
  <2> QED BY <1>3, <2>3, <2>5, Goes
<1> QED BY <1>2, <1>3 DEF Name

LEMMA ParametersKeeps ==
  ASSUME ScanInv, status = "running", UNCHANGED text, Parameters
  PROVE  ScanInv'
<1> DEFINE typeAt == TypeAt(current)
<1>1. /\ at = "parameters" /\ current \in 1 .. Len(code) /\ Len(code) \in Nat /\ TypeOK
      /\ current + 1 \in 1 .. Len(code) + 1
  BY Within DEF ScanInv, Parameters
<1>2. CASE Go("result", current + 1) /\ UNCHANGED def
  BY <1>1, <1>2, HeadGoes
<1>3. CASE /\ code[typeAt] \in Type /\ code[typeAt + 1] \in Identifier
           /\ Go("named", typeAt + 2) /\ UNCHANGED def
  <2>1. typeAt \in 1 .. Len(code)
    BY <1>1, TypeInside
  <2> HIDE DEF typeAt
  <2>2. typeAt + 1 \in 1 .. Len(code)
    BY <1>1, <1>3, <2>1, NotLast DEF Identifier
  <2>3. typeAt + 1 + 1 \in 1 .. Len(code)
    BY <1>1, <1>3, <2>2, NotLast
  <2>4. typeAt + 2 \in 1 .. Len(code) + 1
    BY <1>1, <2>1, <2>3
  <2> QED BY <1>1, <1>3, <2>4, HeadGoes
<1>4. CASE Throw("unexpected")
  BY <1>4, Throws
<1> QED BY <1>2, <1>3, <1>4 DEF Parameters

LEMMA EndParameterKeeps ==
  ASSUME ScanInv, status = "running", UNCHANGED text, at \in {"named", "pushed"},
         current \in 1 .. Len(code), EndParameter
  PROVE  ScanInv'
<1>1. current + 1 \in 1 .. Len(code) + 1
  BY Positions DEF ScanInv
<1>2. CASE Throw("unexpected")
  BY <1>2, Throws
<1>3. CASE /\ \/ Go("parameters", current + 1) \/ Go("result", current + 1)
           /\ def' = [def EXCEPT !.params = @ + 1]
  BY <1>1, <1>3, HeadGoes
<1> QED BY <1>2, <1>3 DEF EndParameter

LEMMA DefaultKeeps ==
  ASSUME ScanInv, status = "running", UNCHANGED text, Named \/ Default \/ Pushed
  PROVE  ScanInv'
<1>1. /\ at \in {"named", "default", "pushed"} /\ current \in 1 .. Len(code)
      /\ current + 1 \in 1 .. Len(code) + 1 /\ current \in 1 .. Len(code) + 1
  BY Within DEF ScanInv, Named, Default, Pushed
<1>2. CASE Named
  <2>1. at = "named"
    BY <1>2 DEF Named, In
  <2>2. CASE Go("default", current + 1) /\ UNCHANGED def
    BY <1>1, <2>2, <2>1, HeadGoes
  <2> QED BY <1>1, <1>2, <2>1, <2>2, EndParameterKeeps DEF Named
<1>3. CASE Default
  <2>1. at = "default"
    BY <1>3 DEF Default, In
  <2>2. CASE Go("default", current + 1) /\ UNCHANGED def
    BY <1>1, <2>2, <2>1, HeadGoes
  <2>3. CASE Go("pushed", current) /\ def' = [def EXCEPT !.params = @ + 1]
    BY <1>1, <2>3, <2>1, HeadGoes
  <2> QED BY <1>3, <2>2, <2>3 DEF Default
<1>4. CASE Pushed
  BY <1>1, <1>4, EndParameterKeeps DEF Pushed, In
<1> QED BY <1>2, <1>3, <1>4

LEMMA ResultKeeps ==
  ASSUME ScanInv, status = "running", UNCHANGED text, Result
  PROVE  ScanInv'
<1> DEFINE typeAt == TypeAt(current + 1)
<1>1. /\ at = "result" /\ current \in 1 .. Len(code) /\ Len(code) \in Nat /\ TypeOK
      /\ Here = code[current] /\ current \in 1 .. Len(code) + 1
  BY Within DEF ScanInv, Result
<1>2. CASE Go("body", current) /\ UNCHANGED def
  BY <1>1, <1>2, HeadGoes
<1>3. CASE /\ Here = "->" /\ code[typeAt] \in Type
           /\ Go("body", typeAt + 1) /\ UNCHANGED def
  <2>1. current + 1 \in 1 .. Len(code)
    BY <1>1, <1>3, NotLast DEF Mark
  <2>2. typeAt \in 1 .. Len(code)
    BY <1>1, <2>1, TypeInside
  <2> HIDE DEF typeAt
  <2>3. typeAt + 1 \in 1 .. Len(code) + 1
    BY <1>1, <2>2
  <2> QED BY <1>1, <1>3, <2>3, HeadGoes
<1>4. CASE Throw("unexpected")
  BY <1>4, Throws
<1> QED BY <1>2, <1>3, <1>4 DEF Result

-----------------------------------------------------------------------------
(* The body of a definition.                                               *)

\* Inside of a definition the locals are typed; the token here can be gathered.
LEMMA BodyFacts ==
  ASSUME ScanInv, at \in {"body", "statement", "block"}, current \in 1 .. Len(code)
  PROVE  /\ def \in Def /\ def.name \in Identifier /\ def.body \in Seq(Symbols) /\ def.depth \in Nat
         /\ NoEOF(def.body) /\ Here \in Symbols /\ Here = code[current]
         /\ current + 1 \in 1 .. Len(code) + 1 /\ current \in 1 .. Len(code) + 1
         /\ current + 1 <= Len(code) => Here # EOF
<1>1. def \in Def /\ TypeOK /\ NoEOF(def.body)
  BY Positions DEF ScanInv, TypeOK, Def, Symbols, Gathered
<1>2. def.name \in Identifier
  BY DEF ScanInv, InDefinition
<1>3. def.body \in Seq(Symbols) /\ def.depth \in Nat
  BY <1>1 DEF Def
<1>4. /\ Here \in Symbols /\ Here = code[current] /\ Len(code) \in Nat
      /\ current < Len(code) => Here # EOF
  BY <1>1, Positions DEF Here
<1> QED BY <1>1, <1>2, <1>3, <1>4

\* A token is gathered.
LEMMA TokenGathered ==
  ASSUME ScanInv, status = "running", UNCHANGED text, at \in {"body", "statement", "block"},
         current \in 1 .. Len(code), NEW place \in {"statement", "block"}, Go(place, current + 1),
         NEW depth \in Nat, Push(depth),
         place = "statement" => at = "statement" /\ Here # Semicolon,
         place = "block" => IsOpen(Append(def.body, Here), depth) /\ depth > 0
  PROVE  ScanInv'
<1> DEFINE body == Append(def.body, Here)
<1>1. /\ def \in Def /\ def.name \in Identifier /\ def.body \in Seq(Symbols) /\ Here \in Symbols
      /\ NoEOF(def.body) /\ current + 1 \in 1 .. Len(code) + 1
      /\ current + 1 <= Len(code) => Here # EOF
  BY BodyFacts
<1>2. body \in Seq(Symbols)
  BY <1>1, AppendFacts
<1>3. def' \in Def /\ def'.name \in Identifier /\ def'.body = body /\ def'.depth = depth
  <2> HIDE DEF body
  <2>1. def' = [def EXCEPT !.body = body, !.depth = depth]
    BY DEF Push, body
  <2> QED BY <1>1, <1>2, <2>1 DEF Def
<1>4. code' = code /\ current' = current + 1 /\ at' = place
  BY DEF code, Go
<1>5. current + 1 <= Len(code) => NoEOF(body)
  BY <1>1, NoEOFAppend
<1>6. ASSUME place = "statement"
      PROVE  (\A i \in DOMAIN body : body[i] # Semicolon) /\ body # <<>> /\ body[1] # Left
  <2>1. /\ \A i \in DOMAIN def.body : def.body[i] # Semicolon
        /\ IF def.body = <<>> THEN Here # Left ELSE def.body[1] # Left
    BY <1>6, Positions DEF ScanInv, Gathered
  <2>2. /\ Len(body) = Len(def.body) + 1 /\ Len(def.body) \in Nat /\ body[Len(body)] = Here
        /\ DOMAIN body = 1 .. Len(def.body) + 1 /\ DOMAIN def.body = 1 .. Len(def.body)
        /\ \A i \in 1 .. Len(def.body) : body[i] = def.body[i]
    BY <1>1, AppendFacts
  <2>3. def.body = <<>> => Len(def.body) = 0
    OBVIOUS
  <2>4. def.body # <<>> => Len(def.body) > 0
    BY <1>1
  <2> HIDE DEF body
  <2>5. \A i \in DOMAIN body : body[i] # Semicolon
    BY <1>6, <2>1, <2>2
  <2>6. body # <<>>
    BY <2>2, <1>2
  <2> QED BY <2>1, <2>2, <2>3, <2>4, <2>5, <2>6
<1>7. Gathered'
  <2> HIDE DEF body
  <2>1. current' <= Len(code') => NoEOF(def'.body)
    BY <1>3, <1>4, <1>5
  <2>2. at' = "statement" =>
          (\A i \in DOMAIN def'.body : def'.body[i] # Semicolon) /\ def'.body # <<>> /\ def'.body[1] # Left
    BY <1>3, <1>4, <1>6
  <2>3. at' = "block" => IsOpen(def'.body, def'.depth) /\ def'.depth > 0
    BY <1>3, <1>4 DEF body
  <2> QED BY <2>1, <2>2, <2>3 DEF Gathered
<1>8. place \in Place \ {"scan", "unexpected", "already"}
  BY DEF Place
<1> QED BY <1>1, <1>3, <1>7, <1>8, Goes

\* The token that ends a body is not the last one.
LEMMA BodyEnds ==
  ASSUME ScanInv, at \in {"body", "statement", "block"}, current \in 1 .. Len(code), Here \in Mark
  PROVE  current < Len(code)
<1>1. TypeOK /\ code[current] # EOF
  BY MarksDiffer DEF ScanInv, Here
<1> QED BY <1>1, Positions

LEMMA BodyKeeps ==
  ASSUME ScanInv, status = "running", UNCHANGED text, Body
  PROVE  ScanInv'
<1>0. at = "body" /\ current \in 1 .. Len(code)
  BY Within DEF ScanInv, Body
<1>1. at = "body" /\ current \in 1 .. Len(code) /\ def.body = <<>>
  BY <1>0 DEF ScanInv, InDefinition
<1>2. /\ def \in Def /\ def.name \in Identifier /\ current \in 1 .. Len(code) + 1
  BY <1>1, BodyFacts
<1>3. CASE Here = ";" /\ Define(<<>>)
  <2>1. current < Len(code)
    BY <1>1, <1>3, BodyEnds DEF Mark
  <2>2. IsBody(<<>>)
    BY DEF IsBody
  <2>3. <<>> \in Seq(Symbols)
    OBVIOUS
  <2> QED BY <1>2, <1>3, <2>1, <2>2, <2>3, DefinitionEnds
<1>4. CASE Here = "{" /\ Go("block", current + 1) /\ Push(1)
  <2>1. IsOpen(Append(def.body, Here), 1)
    BY <1>1, <1>4, OpenStart DEF Left
  <2>2. 1 \in Nat /\ 1 > 0
    OBVIOUS
  <2> QED BY <1>1, <1>4, <2>1, <2>2, TokenGathered
<1>5. CASE Here \notin {";", "{"} /\ Go("statement", current) /\ UNCHANGED def
  <2>1. Here # Semicolon /\ Here # Left
    BY <1>5 DEF Semicolon, Left
  <2>2. at' = "statement" /\ def' = def /\ Here' = Here
    BY <1>5 DEF Go, Here, code
  <2>3. Gathered'
    BY <1>1, <2>1, <2>2, NothingEOF DEF Gathered
  <2>4. "statement" \in Place
    BY DEF Place
  <2> QED BY <1>2, <1>5, <2>2, <2>3, <2>4, Goes
<1> QED BY <1>3, <1>4, <1>5 DEF Body

LEMMA StatementKeeps ==
  ASSUME ScanInv, status = "running", UNCHANGED text, Statement
  PROVE  ScanInv'
<1>1. at = "statement" /\ current \in 1 .. Len(code)
  BY Within DEF ScanInv, Statement
<1>2. /\ def.name \in Identifier /\ def.body \in Seq(Symbols) /\ NoEOF(def.body) /\ Here \in Symbols
  BY <1>1, BodyFacts
<1>3. CASE Here # ";" /\ Go("statement", current + 1) /\ Push(0)
  <2>1. Here # Semicolon
    BY <1>3 DEF Semicolon
  <2>2. 0 \in Nat
    OBVIOUS
  <2> QED BY <1>1, <1>3, <2>1, <2>2, TokenGathered
<1>4. CASE Here = ";" /\ Define(Append(def.body, Here))
  <2>1. current < Len(code) /\ Here = Semicolon /\ Here # EOF
    BY <1>1, <1>4, BodyEnds, MarksDiffer DEF Mark, Semicolon
  <2>2. /\ \A i \in DOMAIN def.body : def.body[i] # Semicolon
        /\ def.body # <<>> /\ def.body[1] # Left
    BY <1>1, <2>1, Positions DEF ScanInv, Gathered
  <2>3. IsStatement(Append(def.body, Here))
    BY <1>2, <2>1, <2>2, StatementEnds
  <2>4. NoEOF(Append(def.body, Here)) /\ Append(def.body, Here) \in Seq(Symbols)
    BY <1>2, <2>1, NoEOFAppend, AppendFacts
  <2>5. IsBody(Append(def.body, Here))
    BY <2>3, <2>4 DEF IsBody
  <2> QED BY <1>2, <1>4, <2>1, <2>4, <2>5, DefinitionEnds
<1> QED BY <1>3, <1>4 DEF Statement

LEMMA BlockKeeps ==
  ASSUME ScanInv, status = "running", UNCHANGED text, Block
  PROVE  ScanInv'
<1> DEFINE depth == Depth(def.depth, Here)
<1>1. at = "block" /\ current \in 1 .. Len(code)
  BY Within DEF ScanInv, Block
<1>2. /\ def.name \in Identifier /\ def.body \in Seq(Symbols) /\ NoEOF(def.body) /\ Here \in Symbols
      /\ def.depth \in Nat
  BY <1>1, BodyFacts
<1>3. IsOpen(def.body, def.depth) /\ def.depth > 0
  BY <1>1 DEF ScanInv, Gathered
<1>4. /\ depth > 0 => IsOpen(Append(def.body, Here), depth)
      /\ depth = 0 => IsBlock(Append(def.body, Here))
  BY <1>2, <1>3, OpenAppend
<1>5. /\ Here = Left => depth = def.depth + 1
      /\ Here = Right => depth = def.depth - 1
      /\ Here # Left /\ Here # Right => depth = def.depth
  BY DepthCases
<1>6. \/ depth > 0 /\ Go("block", current + 1) /\ Push(depth)
      \/ depth = 0 /\ Define(Append(def.body, Here))
  BY DEF Block, Depth
<1> HIDE DEF depth
<1>7. depth \in Nat /\ (depth = 0 => Here = Right)
  BY <1>2, <1>3, <1>5
<1>8. CASE depth > 0 /\ Go("block", current + 1) /\ Push(depth)
  BY <1>1, <1>4, <1>7, <1>8, TokenGathered
<1>9. CASE depth = 0 /\ Define(Append(def.body, Here))
  <2>1. Here \in Mark
    BY <1>7, <1>9 DEF Right, Mark
  <2>2. current < Len(code) /\ Here # EOF
    BY <1>1, <2>1, BodyEnds, MarksDiffer
  <2>3. NoEOF(Append(def.body, Here)) /\ Append(def.body, Here) \in Seq(Symbols)
    BY <1>2, <2>2, NoEOFAppend, AppendFacts
  <2>4. IsBody(Append(def.body, Here))
    BY <1>4, <1>9, <2>3 DEF IsBody
  <2> QED BY <1>2, <1>9, <2>2, <2>3, <2>4, DefinitionEnds
<1> QED BY <1>6, <1>8, <1>9

-----------------------------------------------------------------------------
(* The invariant.                                                          *)

LEMMA ReadPastEndKeeps ==
  ASSUME ScanInv, status = "running", UNCHANGED text, ReadPastEnd
  PROVE  ScanInv'
<1> USE DEF ReadPastEnd
<1>1. code' = code
  BY DEF code
<1>2. TypeOK'
  BY <1>1 DEF ScanInv, TypeOK, Status
<1>3. InDefinition' /\ Gathered'
  BY <1>1 DEF ScanInv, InDefinition, Gathered, Here
<1>4. Handed'
  BY <1>1 DEF ScanInv, Handed, AtEnd
<1> QED BY <1>2, <1>3, <1>4 DEF ScanInv

LEMMA InitScanned == Init => ScanInv
<1> SUFFICES ASSUME Init PROVE ScanInv
  OBVIOUS
<1>1. IsCode(code)
  BY TextAssumption DEF Init, code
<1>2. Len(code) \in Nat /\ Len(code) > 0
  BY <1>1 DEF IsCode
<1>3. DOMAIN EmptyTable = {}
  BY DEF EmptyTable
<1>4. list \in Seq(Symbols) /\ current \in 1 .. Len(code) + 1 /\ DOMAIN list = {}
  BY <1>2 DEF Init
<1>5. IsTable(EmptyTable, Identifier, Symbols)
  BY <1>3 DEF IsTable
<1>6. TypeOK
  BY <1>1, <1>4, <1>5, NoDefTyped DEF Init, TypeOK, Def, Symbols, Place, Status
<1>7. InDefinition /\ Gathered
  BY NoDefTyped, NothingEOF DEF Init, InDefinition, Gathered
<1>8. ~AtEnd
  BY <1>2 DEF Init, AtEnd
<1>9. Handed
  BY <1>3, <1>4, <1>8 DEF Init, Handed
<1> QED BY <1>6, <1>7, <1>9 DEF ScanInv

LEMMA StepScanned == ScanInv /\ [Next]_vars => ScanInv'
<1> SUFFICES ASSUME ScanInv, [Next]_vars PROVE ScanInv'
  OBVIOUS
<1>1. CASE Next
  BY <1>1, CopyKeeps, BeginKeeps, FinishKeeps, NameKeeps, ParametersKeeps, DefaultKeeps, ResultKeeps,
     BodyKeeps, StatementKeeps, BlockKeeps, ReadPastEndKeeps DEF Next
<1>2. CASE UNCHANGED vars
  <2>1. code' = code /\ Here' = Here /\ (AtEnd' <=> AtEnd)
    BY <1>2 DEF vars, code, Here, AtEnd
  <2>2. TypeOK' /\ InDefinition'
    BY <1>2, <2>1 DEF vars, ScanInv, TypeOK, InDefinition
  <2>3. Gathered' /\ Handed'
    BY <1>2, <2>1 DEF vars, ScanInv, Gathered, Handed
  <2> QED BY <2>2, <2>3 DEF ScanInv
<1> QED BY <1>1, <1>2

\* The state of the scanner keeps its types; its position stays in the tokens or
\* just behind them.
THEOREM ScannerTypeCorrect == Spec => []TypeOK
<1>1. ScanInv => TypeOK
  BY DEF ScanInv
<1> QED BY <1>1, InitScanned, StepScanned, PTL DEF Spec

\* Whatever the file, the program and the bodies that are handed on have the
\* shape that the parser relies on.
THEOREM BodiesFit == Spec => []FitForParser
<1>1. ScanInv => FitForParser
  BY DEF ScanInv, Handed, FitForParser, IsBody, NoEOF
<1> QED BY <1>1, InitScanned, StepScanned, PTL DEF Spec

-----------------------------------------------------------------------------
(* Whole files.  The functions before a place are in the table as they     *)
(* were written, and what stands between them in the list; the scanner is  *)
(* between two functions, or in the next one.                              *)

\* The parameters the table has for a function: one with a default counts twice, as
\* scan_function pushes it twice.
Pushes(f) == Len(f.ends) + Cardinality({j \in 1 .. Len(f.ends) : f.ends[j] # NamedAt(f, j)})

\* A function is declared or defined after its definition: declare_local_function
\* refuses both.
Again ==
  \E j, k \in DOMAIN functions :
    j < k /\ functions[j].name = functions[k].name /\ Defines(functions[j])

\* What the code does with every whole file, whatever the documents say of it; it
\* implies ScansAsWritten.
Scanned ==
  status # "running" /\ Whole =>
    \/ status = "terminated" /\ at = "already" /\ Again
    \/ /\ status = "done" /\ ~Again
       /\ Len(list) = Cardinality(Program) /\ \A i \in Program : list[Rank(i)] = code[i]
       /\ DOMAIN global = {functions[k].name : k \in DOMAIN functions}
       /\ \A k \in DOMAIN functions :
            LET f == functions[k]
            IN  /\ Defines(f) => global[f.name].body = BodyOf(f)
                /\ (\A j \in 1 .. k - 1 : functions[j].name # f.name) => global[f.name].params = Pushes(f)
                /\ (\A j \in DOMAIN functions : functions[j].name = f.name => ~Defines(functions[j]))
                     => global[f.name].body = <<>>

\* What has been pushed when the first parameters of a function are read.
PushedBy(f, j) == j + Cardinality({i \in 1 .. j : f.ends[i] # NamedAt(f, i)})

\* The first n functions are in the table, and none of them was defined before.
Sorted(n) ==
  /\ DOMAIN table = {functions[k].name : k \in 1 .. n}
  /\ \A k \in 1 .. n :
       LET f == functions[k]
       IN  /\ Defines(f) => table[f.name].body = BodyOf(f)
           /\ (\A j \in 1 .. k - 1 : functions[j].name # f.name) => table[f.name].params = Pushes(f)
           /\ (\A j \in 1 .. n : functions[j].name = f.name => ~Defines(functions[j]))
                => table[f.name].body = <<>>
           /\ \A j \in 1 .. k - 1 : functions[j].name = f.name => ~Defines(functions[j])

\* The program before a place is in the list.
Copied(b) ==
  /\ Len(list) = Cardinality({i \in Program : i < b})
  /\ \A i \in Program : i < b => list[Rank(i)] = code[i]

\* The first n functions are behind the scanner, the others are not.
Passed(n) ==
  \A k \in DOMAIN functions :
    /\ k <= n => functions[k].last < current
    /\ k > n => functions[k].first >= current

\* The locals in the head of a function.
HeadOf(f, params) == def.name = f.name /\ def.params = params /\ def.body = <<>>

\* Behind the first parameters; in the next one.
BehindParameter(f, j) ==
  /\ at = "parameters" /\ current = From(f, j + 1) /\ current <= f.close
  /\ HeadOf(f, PushedBy(f, j))

InParameter(f, j) ==
  \/ at = "named" /\ current = NamedAt(f, j) /\ HeadOf(f, PushedBy(f, j - 1))
  \/ at = "default" /\ current \in NamedAt(f, j) + 1 .. f.ends[j] /\ HeadOf(f, PushedBy(f, j - 1))
  \/ /\ at = "pushed" /\ current = f.ends[j] /\ f.ends[j] # NamedAt(f, j)
     /\ HeadOf(f, PushedBy(f, j - 1) + 1)

InHead(f) ==
  \/ at = "name" /\ current = f.first + 1 /\ def = NoDef
  \/ \E j \in 0 .. Len(f.ends) : BehindParameter(f, j)
  \/ \E j \in 1 .. Len(f.ends) : InParameter(f, j)
  \/ at = "result" /\ current = f.close + 1 /\ HeadOf(f, Pushes(f))
  \/ at = "body" /\ current = f.open /\ HeadOf(f, Pushes(f))

InBody(f) ==
  /\ def.name = f.name /\ def.params = Pushes(f) /\ Defines(f)
  /\ current \in f.open .. f.last /\ def.body = SubSeq(code, f.open, current - 1)
  /\ \/ at = "statement" /\ code[f.open] # Left
     \/ at = "block" /\ current > f.open /\ code[f.open] = Left

Between(n) == at = "scan" /\ def = NoDef /\ Copied(current) /\ Passed(n)

Inside(f) == Copied(f.first) /\ (InHead(f) \/ InBody(f))

\* Where the scanner of a whole file is, with n functions in the table.
Reading(n) == Sorted(n) /\ (Between(n) \/ (n < Len(functions) /\ Inside(functions[n + 1])))

\* The scanner has read a whole file up to where it stands.
ScanRead ==
  Whole /\ status = "running" => global = EmptyTable /\ \E n \in 0 .. Len(functions) : Reading(n)

-----------------------------------------------------------------------------
(* Where a function was written.                                           *)

\* The positions of a function are those of tokens that are not the last one.
LEMMA FunctionPlaces ==
  ASSUME TypeOK, NEW f \in Function, IsFunction(f)
  PROVE  /\ f.name \in Identifier /\ f.first \in Nat /\ f.close \in Nat /\ f.open \in Nat /\ f.last \in Nat
         /\ f.ends \in Seq(Nat) /\ Len(f.ends) \in Nat /\ Len(code) \in Nat
         /\ 0 < f.first /\ f.first < f.close /\ f.close < f.open /\ f.open <= f.last /\ f.last < Len(code)
         /\ \A j \in 1 .. Len(f.ends) : f.ends[j] \in Nat /\ f.first <= f.ends[j] /\ f.ends[j] <= f.close
         /\ code[f.first] = "def" /\ code[f.first + 1] = f.name /\ code[f.first + 2] = "("
         /\ code[f.close] = ")"
<1>1. /\ f.name \in Identifier /\ f.first \in Nat /\ f.close \in Nat /\ f.open \in Nat /\ f.last \in Nat
      /\ f.ends \in Seq(Nat)
  BY DEF Function
<1>2. /\ f.first > 0 /\ f.last < Len(code) /\ f.open \in f.close + 1 .. f.last /\ f.close > f.first
      /\ \A j \in 1 .. Len(f.ends) : f.ends[j] \in f.first .. f.close
      /\ code[f.first] = "def" /\ code[f.first + 1] = f.name /\ code[f.first + 2] = "("
      /\ code[f.close] = ")"
  BY DEF IsFunction
<1>3. Len(code) \in Nat /\ Len(f.ends) \in Nat
  BY <1>1, Positions
<1> QED BY <1>1, <1>2, <1>3

\* The parts of a parameter, one behind the other.
LEMMA ParameterPlaces ==
  ASSUME TypeOK, NEW f \in Function, IsFunction(f), NEW j \in 1 .. Len(f.ends)
  PROVE  LET a == From(f, j)
             t == TypeAt(a)
             n == NamedAt(f, j)
             e == f.ends[j]
         IN  /\ a \in Nat /\ 0 < a /\ t \in Nat /\ a <= t /\ t <= a + 1 /\ n = t + 2
             /\ e \in Nat /\ n <= e /\ e <= f.close /\ e < Len(code)
             /\ code[t] \in Type /\ code[t + 1] \in Identifier
             /\ code[a] = "const" \/ t = a
             /\ e = n \/ (e > n /\ code[n] = "=" /\ \A i \in n + 1 .. e - 1 : code[i] \notin {",", ")"})
             /\ code[e] = "," \/ (j = Len(f.ends) /\ e = f.close)
<1> DEFINE a == From(f, j)
           t == TypeAt(a)
           n == NamedAt(f, j)
           e == f.ends[j]
<1>1. /\ f.first \in Nat /\ 0 < f.first /\ f.close \in Nat /\ f.close < Len(code) /\ Len(code) \in Nat
      /\ Len(f.ends) \in Nat
      /\ \A i \in 1 .. Len(f.ends) : f.ends[i] \in Nat /\ f.first <= f.ends[i] /\ f.ends[i] <= f.close
  <2>1. /\ f.first \in Nat /\ f.close \in Nat /\ f.open \in Nat /\ f.last \in Nat /\ Len(code) \in Nat
        /\ 0 < f.first /\ f.close < f.open /\ f.open <= f.last /\ f.last < Len(code)
    BY FunctionPlaces
  <2>2. f.close < Len(code)
    BY ONLY <2>1
  <2>3. /\ Len(f.ends) \in Nat
        /\ \A i \in 1 .. Len(f.ends) : f.ends[i] \in Nat /\ f.first <= f.ends[i] /\ f.ends[i] <= f.close
    BY FunctionPlaces
  <2> QED BY <2>1, <2>2, <2>3
<1>2. a \in Nat /\ 0 < a
  <2>1. CASE j = 1
    BY <1>1, <2>1 DEF From
  <2>2. CASE j # 1
    <3>1. j - 1 \in 1 .. Len(f.ends)
      BY <1>1, <2>2
    <3>2. f.ends[j - 1] \in Nat
      BY <1>1, <3>1
    <3> QED BY <2>2, <3>2 DEF From
  <2> QED BY <2>1, <2>2
<1>3. n = t + 2
  BY DEF NamedAt
<1>4. t \in Nat /\ a <= t /\ t <= a + 1 /\ (code[a] = "const" \/ t = a)
  <2> HIDE DEF a
  <2> QED BY <1>2 DEF TypeAt
<1>5. e \in Nat /\ e <= f.close
  BY <1>1
<1>6. /\ code[n - 2] \in Type /\ code[n - 1] \in Identifier
      /\ e = n \/ (e > n /\ code[n] = "=" /\ \A i \in n + 1 .. e - 1 : code[i] \notin {",", ")"})
      /\ code[e] = "," \/ (j = Len(f.ends) /\ e = f.close)
  <2>1. IsParameter(f, j)
    BY DEF IsFunction
  <2> QED BY <2>1 DEF IsParameter
<1> HIDE DEF a, t, n, e
<1>7. n - 2 = t /\ n - 1 = t + 1 /\ n \in Nat
  BY <1>3, <1>4
<1>8. code[t] \in Type /\ code[t + 1] \in Identifier
  BY <1>6, <1>7
<1>9. n <= e /\ e < Len(code)
  <2>1. e = n \/ e > n
    BY <1>6
  <2>2. f.close \in Nat /\ f.close < Len(code) /\ Len(code) \in Nat
    BY <1>1
  <2> QED BY <2>1, <2>2, <1>5, <1>7
<1> QED BY <1>2, <1>3, <1>4, <1>5, <1>6, <1>8, <1>9 DEF a, t, n, e

\* Behind all parameters there is the parenthesis, unless it ended the last one.
LEMMA ParametersEnd ==
  ASSUME TypeOK, NEW f \in Function, IsFunction(f)
  PROVE  LET m == Len(f.ends)
         IN  /\ From(f, m + 1) = f.close \/ (m > 0 /\ f.ends[m] = f.close /\ From(f, m + 1) = f.close + 1)
             /\ From(f, 1) = f.first + 3 /\ f.first + 3 <= f.close
             /\ \A j \in 1 .. m : From(f, j + 1) = f.ends[j] + 1
<1> DEFINE m == Len(f.ends)
<1>1. m \in Nat /\ f.first \in Nat /\ f.close \in Nat
  BY FunctionPlaces
<1>2. f.close = From(f, m + 1) \/ (m > 0 /\ f.close = f.ends[m])
  BY DEF IsFunction
<1>3. From(f, 1) = f.first + 3
  BY DEF From
<1>4. \A j \in 1 .. m : From(f, j + 1) = f.ends[j] + 1
  <2> HIDE DEF m
  <2> QED BY <1>1 DEF From
<1>5. f.first + 3 <= f.close
  <2>1. CASE m = 0
    <3>1. f.close = From(f, 0 + 1)
      BY <1>2, <2>1
    <3> QED BY <3>1, <1>1, <1>3
  <2>2. CASE m > 0
    <3>1. 1 \in 1 .. m
      BY <1>1, <2>2
    <3>2. From(f, 1) <= f.close
      <4> DEFINE a == From(f, 1)
                 t == TypeAt(a)
                 n == NamedAt(f, 1)
                 e == f.ends[1]
      <4>1. a \in Nat /\ t \in Nat /\ a <= t /\ n = t + 2 /\ e \in Nat /\ n <= e /\ e <= f.close
        BY <3>1, ParameterPlaces
      <4> HIDE DEF a, t, n, e
      <4>2. a <= f.close
        BY <1>1, <4>1
      <4> QED BY <4>2 DEF a
    <3> QED BY <1>3, <3>2
  <2> QED BY <1>1, <2>1, <2>2
<1>6. From(f, m + 1) = f.close \/ (m > 0 /\ f.ends[m] = f.close /\ From(f, m + 1) = f.close + 1)
  <2>1. ASSUME m > 0, f.close = f.ends[m] PROVE From(f, m + 1) = f.close + 1
    <3>1. m \in 1 .. m
      BY <1>1, <2>1
    <3> QED BY <1>4, <2>1, <3>1
  <2> QED BY <1>2, <2>1
<1> QED BY <1>3, <1>4, <1>5, <1>6

\* A parameter is pushed once, and once more if it has a default.
LEMMA PushedNext ==
  ASSUME NEW f, NEW j \in Nat, j > 0
  PROVE  /\ PushedBy(f, j - 1) \in Nat
         /\ f.ends[j] = NamedAt(f, j) => PushedBy(f, j) = PushedBy(f, j - 1) + 1
         /\ f.ends[j] # NamedAt(f, j) => PushedBy(f, j) = PushedBy(f, j - 1) + 1 + 1
<1> DEFINE A == {i \in 1 .. j - 1 : f.ends[i] # NamedAt(f, i)}
           B == {i \in 1 .. j : f.ends[i] # NamedAt(f, i)}
           ca == Cardinality(A)
           cb == Cardinality(B)
<1>1. IsFiniteSet(A)
  <2>1. IsFiniteSet(1 .. j - 1)
    BY FS_Interval
  <2>2. A \in SUBSET (1 .. j - 1)
    OBVIOUS
  <2> HIDE DEF A
  <2> QED BY <2>1, <2>2, FS_Subset
<1>2. Cardinality(A) \in Nat
  BY <1>1, FS_CardinalityType
<1>3. j \notin A
  OBVIOUS
<1>4. (1 .. j) = (1 .. j - 1) \cup {j}
  OBVIOUS
<1>5. ASSUME f.ends[j] = NamedAt(f, j) PROVE Cardinality(B) = Cardinality(A)
  <2>1. B = A
    BY <1>4, <1>5
  <2> QED BY <2>1
<1>6. ASSUME f.ends[j] # NamedAt(f, j) PROVE Cardinality(B) = Cardinality(A) + 1
  <2>1. B = A \cup {j}
    BY <1>4, <1>6
  <2> HIDE DEF A, B
  <2> QED BY <1>1, <1>3, <2>1, FS_AddElement
<1>7. PushedBy(f, j - 1) = (j - 1) + ca /\ PushedBy(f, j) = j + cb
  BY DEF PushedBy
<1>8. /\ ca \in Nat
      /\ f.ends[j] = NamedAt(f, j) => cb = ca
      /\ f.ends[j] # NamedAt(f, j) => cb = ca + 1
  BY <1>2, <1>5, <1>6
<1> HIDE DEF ca, cb
<1> QED BY <1>7, <1>8

LEMMA PushedNone == \A f : PushedBy(f, 0) = 0
<1>1. ASSUME NEW f PROVE PushedBy(f, 0) = 0
  <2>1. {i \in 1 .. 0 : f.ends[i] # NamedAt(f, i)} = {}
    BY SMT
  <2>2. Cardinality({i \in 1 .. 0 : f.ends[i] # NamedAt(f, i)}) = 0
    BY <2>1, FS_EmptySet
  <2> QED BY <2>2 DEF PushedBy
<1> QED BY <1>1

LEMMA PushedAll == \A f : Pushes(f) = PushedBy(f, Len(f.ends))
BY DEF Pushes, PushedBy

-----------------------------------------------------------------------------
(* Reading the head of a function.                                         *)

\* What depends on the file alone stays.
LEMMA FileStays ==
  ASSUME UNCHANGED text
  PROVE  /\ code' = code /\ functions' = functions
         /\ \A f, j : From(f, j)' = From(f, j) /\ NamedAt(f, j)' = NamedAt(f, j) /\ PushedBy(f, j)' = PushedBy(f, j)
         /\ \A f : Pushes(f)' = Pushes(f) /\ Defines(f)' = Defines(f) /\ BodyOf(f)' = BodyOf(f)
<1>1. code' = code /\ functions' = functions
  BY DEF code, functions
<1>2. \A f, j : From(f, j)' = From(f, j)
  BY DEF From
<1>3. \A f, j : NamedAt(f, j)' = NamedAt(f, j)
  BY <1>1, <1>2 DEF NamedAt, TypeAt
<1>4. \A f, j : PushedBy(f, j)' = PushedBy(f, j)
  BY <1>3 DEF PushedBy
<1>5. \A f : Pushes(f)' = Pushes(f)
  BY <1>3 DEF Pushes
<1>6. \A f : Defines(f)' = Defines(f) /\ BodyOf(f)' = BodyOf(f)
  BY <1>1 DEF Defines, BodyOf
<1> QED BY <1>1, <1>2, <1>3, <1>4, <1>5, <1>6

\* Where each action takes place.
LEMMA ActsAt ==
  /\ Copy => at = "scan"
  /\ Begin => at = "scan"
  /\ Finish => at = "scan"
  /\ Name => at = "name"
  /\ Parameters => at = "parameters"
  /\ Named => at = "named"
  /\ Default => at = "default"
  /\ Pushed => at = "pushed"
  /\ Result => at = "result"
  /\ Body => at = "body"
  /\ Statement => at = "statement"
  /\ Block => at = "block"
BY DEF Copy, Begin, Finish, Name, Parameters, Named, Default, Pushed, Result, Body, Statement, Block, In

\* Before the end of the file, the place says which action it is.
LEMMA Acts ==
  ASSUME TypeOK, Next, current <= Len(code)
  PROVE  /\ at = "scan" => Copy \/ Begin
         /\ at = "name" => Name
         /\ at = "parameters" => Parameters
         /\ at = "named" => Named
         /\ at = "default" => Default
         /\ at = "pushed" => Pushed
         /\ at = "result" => Result
         /\ at = "body" => Body
         /\ at = "statement" => Statement
         /\ at = "block" => Block
<1>1. ~AtEnd
  BY Positions
<1>2. ~Finish /\ ~ReadPastEnd
  BY <1>1 DEF Finish, ReadPastEnd
<1>3. \/ Copy \/ Begin \/ Name \/ Parameters \/ Named \/ Default \/ Pushed \/ Result
      \/ Body \/ Statement \/ Block
  BY <1>2 DEF Next
<1> QED BY <1>3, ActsAt

\* The ways to be in the head of a function after a step.
LEMMA GoesBehind ==
  ASSUME UNCHANGED text, NEW f, NEW j \in 0 .. Len(f.ends), Go("parameters", From(f, j + 1)),
         From(f, j + 1) <= f.close, HeadOf(f, PushedBy(f, j))'
  PROVE  InHead(f)'
<1>1. BehindParameter(f, j)'
  BY FileStays DEF BehindParameter, Go, HeadOf
<1> QED BY <1>1 DEF InHead

LEMMA GoesInto ==
  ASSUME UNCHANGED text, NEW f, NEW j \in 1 .. Len(f.ends), NEW next,
         \/ Go("named", next) /\ next = NamedAt(f, j) /\ HeadOf(f, PushedBy(f, j - 1))'
         \/ Go("default", next) /\ next \in NamedAt(f, j) + 1 .. f.ends[j] /\ HeadOf(f, PushedBy(f, j - 1))'
         \/ /\ Go("pushed", next) /\ next = f.ends[j] /\ f.ends[j] # NamedAt(f, j)
            /\ HeadOf(f, PushedBy(f, j - 1) + 1)'
  PROVE  InHead(f)'
<1>1. InParameter(f, j)'
  BY FileStays DEF InParameter, Go, HeadOf
<1> QED BY <1>1 DEF InHead

LEMMA GoesOn ==
  ASSUME UNCHANGED text, NEW f, HeadOf(f, Pushes(f))',
         Go("result", f.close + 1) \/ Go("body", f.open)
  PROVE  InHead(f)'
<1>1. \/ (at = "result" /\ current = f.close + 1 /\ HeadOf(f, Pushes(f)))'
      \/ (at = "body" /\ current = f.open /\ HeadOf(f, Pushes(f)))'
  BY DEF Go
<1> QED BY <1>1 DEF InHead

\* No identifier is a mark.
LEMMA IdentifierNoMark ==
  \A x \in Identifier : x \notin {")", ",", "=", "->", ";", "{", "const"}
<1>1. \A x \in {")", ",", "=", "->", ";", "{", "const"} : x \in Mark
  BY DEF Mark
<1> QED BY <1>1, MarksDiffer

LEMMA NameRead ==
  ASSUME ScanInv, UNCHANGED text, NEW f \in Function, IsFunction(f),
         at = "name", current = f.first + 1, def = NoDef, Name
  PROVE  InHead(f)' /\ UNCHANGED <<list, table, global, status>>
<1>1. /\ f.name \in Identifier /\ f.first \in Nat /\ code[f.first + 1] = f.name /\ code[f.first + 2] = "("
      /\ Len(f.ends) \in Nat
  BY FunctionPlaces DEF ScanInv
<1>2. Here = f.name /\ current + 1 = f.first + 2 /\ current + 2 = f.first + 3
  BY <1>1 DEF Here
<1>3. Go("parameters", current + 2) /\ def' = [def EXCEPT !.name = Here]
  BY <1>1, <1>2 DEF Name
<1>4. From(f, 0 + 1) = current + 2 /\ From(f, 0 + 1) <= f.close
  BY <1>1, <1>2, ParametersEnd DEF ScanInv
<1>5. HeadOf(f, PushedBy(f, 0))'
  <2>1. def'.name = f.name /\ def'.params = 0 /\ def'.body = <<>>
    BY <1>2, <1>3 DEF NoDef
  <2>2. PushedBy(f, 0)' = 0
    BY FileStays, PushedNone
  <2> QED BY <2>1, <2>2 DEF HeadOf
<1>6. InHead(f)'
  BY <1>1, <1>3, <1>4, <1>5, GoesBehind
<1> QED BY <1>3, <1>6 DEF Go

LEMMA ParametersRead ==
  ASSUME ScanInv, UNCHANGED text, NEW f \in Function, IsFunction(f),
         NEW j \in 0 .. Len(f.ends), BehindParameter(f, j), Parameters
  PROVE  InHead(f)' /\ UNCHANGED <<list, table, global, status>>
<1>1. /\ f.close \in Nat /\ Len(f.ends) \in Nat /\ code[f.close] = ")" /\ TypeOK
  BY FunctionPlaces DEF ScanInv
<1>2. /\ current = From(f, j + 1) /\ current <= f.close /\ HeadOf(f, PushedBy(f, j))
      /\ Here = code[current]
  BY DEF BehindParameter, Here
<1>3. CASE j = Len(f.ends)
  <2>1. current = f.close
    <3>1. \/ From(f, Len(f.ends) + 1) = f.close
          \/ From(f, Len(f.ends) + 1) = f.close + 1
      BY <1>1, ParametersEnd
    <3> QED BY <1>1, <1>2, <1>3, <3>1
  <2>2. Here = ")"
    BY <1>1, <1>2, <2>1
  <2>3. Go("result", current + 1) /\ UNCHANGED def
    BY <2>2 DEF Parameters
  <2>4. HeadOf(f, Pushes(f))'
    BY <1>2, <1>3, <2>3, FileStays, PushedAll DEF HeadOf
  <2>5. InHead(f)'
    BY <2>1, <2>3, <2>4, GoesOn
  <2> QED BY <2>3, <2>5 DEF Go
<1>4. CASE j < Len(f.ends)
  <2> DEFINE t == TypeAt(current)
  <2>0. j + 1 \in 1 .. Len(f.ends) /\ (j + 1) - 1 = j
    BY <1>1, <1>4
  <2>1. /\ t \in Nat /\ NamedAt(f, j + 1) = t + 2
        /\ code[t] \in Type /\ code[t + 1] \in Identifier
        /\ code[current] = "const" \/ t = current
    BY <1>1, <1>2, <2>0, ParameterPlaces
  <2>2. Here # ")"
    <3>1. CASE Here = "const"
      BY <3>1
    <3>2. CASE Here \in Type
      BY <3>2, IdentifierNoMark DEF Identifier
    <3> QED BY <1>2, <2>1, <3>1, <3>2
  <2>3. Go("named", t + 2) /\ UNCHANGED def
    BY <2>1, <2>2 DEF Parameters
  <2> HIDE DEF t
  <2>4. HeadOf(f, PushedBy(f, (j + 1) - 1))'
    BY <1>2, <2>0, <2>3, FileStays DEF HeadOf
  <2>5. InHead(f)'
    BY <2>0, <2>1, <2>3, <2>4, GoesInto
  <2> QED BY <2>3, <2>5 DEF Go
<1> QED BY <1>1, <1>3, <1>4

LEMMA EndRead ==
  ASSUME ScanInv, UNCHANGED text, NEW f \in Function, IsFunction(f),
         NEW j \in 1 .. Len(f.ends), current = f.ends[j], NEW params \in Nat,
         HeadOf(f, params), params + 1 = PushedBy(f, j), EndParameter
  PROVE  InHead(f)' /\ UNCHANGED <<list, table, global, status>>
<1>1. /\ f.close \in Nat /\ Len(f.ends) \in Nat /\ code[f.close] = ")" /\ TypeOK
  BY FunctionPlaces DEF ScanInv
<1>2. /\ Here = code[current]
      /\ code[current] = "," \/ (j = Len(f.ends) /\ current = f.close)
  BY <1>1, ParameterPlaces DEF Here
<1>0. current \in Nat /\ current <= f.close /\ f.close \in Nat
  BY <1>1, ParameterPlaces
<1>3. Here \in {",", ")"}
  BY <1>1, <1>2
<1>4. /\ Go(IF Here = "," THEN "parameters" ELSE "result", current + 1)
      /\ def' = [def EXCEPT !.params = @ + 1]
  BY <1>3 DEF EndParameter
<1>5. def'.name = f.name /\ def'.params = PushedBy(f, j) /\ def'.body = <<>>
  BY <1>4 DEF HeadOf, ScanInv, TypeOK
<1>6. CASE Here = ","
  <2>1. Go("parameters", current + 1)
    BY <1>4, <1>6
  <2>2. From(f, j + 1) = current + 1
    BY <1>1, ParametersEnd
  <2>3. current # f.close
    BY <1>1, <1>2, <1>6
  <2>4. From(f, j + 1) <= f.close
    BY ONLY <1>0, <2>2, <2>3
  <2>5. j \in 0 .. Len(f.ends)
    BY <1>1
  <2>6. HeadOf(f, PushedBy(f, j))'
    BY <1>5, FileStays DEF HeadOf
  <2>7. InHead(f)'
    BY <2>1, <2>2, <2>4, <2>5, <2>6, GoesBehind
  <2> QED BY <2>1, <2>7 DEF Go
<1>7. CASE Here # ","
  <2>1. Go("result", current + 1) /\ current = f.close /\ j = Len(f.ends)
    BY <1>2, <1>4, <1>7
  <2>2. HeadOf(f, Pushes(f))'
    BY <1>5, <2>1, FileStays, PushedAll DEF HeadOf
  <2>3. InHead(f)'
    BY <2>1, <2>2, GoesOn
  <2> QED BY <2>1, <2>3 DEF Go
<1> QED BY <1>6, <1>7

LEMMA ParameterRead ==
  ASSUME ScanInv, UNCHANGED text, NEW f \in Function, IsFunction(f),
         NEW j \in 1 .. Len(f.ends), InParameter(f, j),
         at = "named" => Named, at = "default" => Default, at = "pushed" => Pushed
  PROVE  InHead(f)' /\ UNCHANGED <<list, table, global, status>>
<1> DEFINE n == NamedAt(f, j)
           e == f.ends[j]
<1>1. f.close \in Nat /\ Len(f.ends) \in Nat /\ code[f.close] = ")" /\ TypeOK
  BY FunctionPlaces DEF ScanInv
<1>2. /\ n \in Nat /\ e \in Nat /\ n <= e
      /\ e = n \/ (e > n /\ code[n] = "=" /\ \A i \in n + 1 .. e - 1 : code[i] \notin {",", ")"})
      /\ code[e] = "," \/ (j = Len(f.ends) /\ e = f.close)
  <2> DEFINE t == TypeAt(From(f, j))
  <2>1. t \in Nat /\ n = t + 2
    BY <1>1, ParameterPlaces
  <2> HIDE DEF t, n
  <2>2. n \in Nat
    BY <2>1
  <2> QED BY <1>1, <2>2, ParameterPlaces DEF n
<1>0. n \in Nat /\ e \in Nat /\ n <= e /\ (e = n \/ e > n)
  BY <1>2
<1>3. code[e] \in {",", ")"}
  BY <1>1, <1>2
<1>4. /\ PushedBy(f, j - 1) \in Nat
      /\ e = n => PushedBy(f, j) = PushedBy(f, j - 1) + 1
      /\ e # n => PushedBy(f, j) = PushedBy(f, j - 1) + 1 + 1
  BY <1>1, PushedNext
<1>5. def \in Def /\ def.params \in Nat
  BY DEF ScanInv, TypeOK, Def, Symbols
<1>6. CASE at = "named" /\ current = n /\ HeadOf(f, PushedBy(f, j - 1))
  <2>1. Named /\ Here = code[n]
    BY <1>6 DEF Here
  <2>2. CASE e = n
    <3>1. Here # "="
      BY <1>3, <2>1, <2>2
    <3>2. EndParameter
      BY <2>1, <3>1 DEF Named
    <3>3. current = f.ends[j] /\ PushedBy(f, j - 1) + 1 = PushedBy(f, j)
      BY <1>4, <1>6, <2>2
    <3> QED BY <1>4, <1>6, <3>2, <3>3, EndRead
  <2>3. CASE e > n /\ code[n] = "="
    <3>1. Go("default", current + 1) /\ UNCHANGED def
      BY <2>1, <2>3 DEF Named
    <3>2. HeadOf(f, PushedBy(f, j - 1))'
      BY <1>6, <3>1, FileStays DEF HeadOf
    <3>3. current + 1 \in n + 1 .. e
      BY ONLY <1>0, <1>6, <2>3
    <3>4. InHead(f)'
      BY <3>1, <3>2, <3>3, GoesInto
    <3> QED BY <3>1, <3>4 DEF Go
  <2> QED BY <1>2, <2>2, <2>3
<1>7. CASE at = "default" /\ current \in n + 1 .. e /\ HeadOf(f, PushedBy(f, j - 1))
  <2>1. Default /\ Here = code[current]
    BY <1>7 DEF Here
  <2>2. current \in Nat /\ n < current /\ current <= e
    BY ONLY <1>0, <1>7
  <2>3. CASE current = e
    <3>1. Here \in {",", ")"}
      BY <1>3, <2>1, <2>3
    <3>2. Go("pushed", current) /\ def' = [def EXCEPT !.params = @ + 1]
      BY <2>1, <3>1 DEF Default
    <3>3. HeadOf(f, PushedBy(f, j - 1) + 1)'
      <4>1. /\ def'.name = f.name /\ def'.body = <<>>
            /\ def'.params = PushedBy(f, j - 1) + 1
        BY <1>5, <1>7, <3>2 DEF HeadOf, Def
      <4> QED BY <4>1, FileStays DEF HeadOf
    <3>4. e # n
      BY ONLY <1>0, <2>2, <2>3
    <3>5. InHead(f)'
      BY <2>3, <3>2, <3>3, <3>4, GoesInto
    <3> QED BY <3>2, <3>5 DEF Go
  <2>4. CASE current < e
    <3>1. code[current] \notin {",", ")"}
      <4>1. current \in n + 1 .. e - 1
        BY ONLY <1>0, <2>2, <2>4
      <4>2. e # n
        BY ONLY <1>0, <2>2
      <4> HIDE DEF n, e
      <4> QED BY <1>2, <4>1, <4>2
    <3>2. Go("default", current + 1) /\ UNCHANGED def
      BY <2>1, <3>1 DEF Default
    <3>3. HeadOf(f, PushedBy(f, j - 1))'
      BY <1>7, <3>2, FileStays DEF HeadOf
    <3>4. current + 1 \in n + 1 .. e
      BY ONLY <1>0, <2>2, <2>4
    <3>5. InHead(f)'
      BY <3>2, <3>3, <3>4, GoesInto
    <3> QED BY <3>2, <3>5 DEF Go
  <2>5. current = e \/ current < e
    BY ONLY <1>0, <2>2
  <2> QED BY <2>3, <2>4, <2>5
<1>8. CASE at = "pushed" /\ current = e /\ e # n /\ HeadOf(f, PushedBy(f, j - 1) + 1)
  <2>1. EndParameter
    BY <1>8 DEF Pushed
  <2>2. PushedBy(f, j - 1) + 1 \in Nat /\ (PushedBy(f, j - 1) + 1) + 1 = PushedBy(f, j)
    BY <1>4, <1>8
  <2> QED BY <1>8, <2>1, <2>2, EndRead
<1> QED BY <1>6, <1>7, <1>8 DEF InParameter

LEMMA ResultRead ==
  ASSUME ScanInv, UNCHANGED text, NEW f \in Function, IsFunction(f),
         at = "result", current = f.close + 1, HeadOf(f, Pushes(f)), Result
  PROVE  InHead(f)' /\ UNCHANGED <<list, table, global, status>>
<1> DEFINE t == TypeAt(f.close + 2)
<1>1. f.close \in Nat
  BY FunctionPlaces DEF ScanInv
<1>2. \/ f.open = f.close + 1 /\ code[f.open] # "->"
      \/ code[f.close + 1] = "->" /\ code[t] \in Type /\ f.open = t + 1
  BY DEF IsFunction
<1>3. Here = code[f.close + 1] /\ TypeAt(current + 1) = t
  <2>1. current + 1 = f.close + 2
    BY <1>1
  <2> QED BY <2>1 DEF Here
<1> HIDE DEF t
<1>4. Go("body", f.open) /\ UNCHANGED def
  BY <1>2, <1>3 DEF Result
<1>5. HeadOf(f, Pushes(f))'
  BY <1>4, FileStays DEF HeadOf
<1>6. InHead(f)'
  BY <1>4, <1>5, GoesOn
<1> QED BY <1>4, <1>6 DEF Go

-----------------------------------------------------------------------------
(* Reading the body of a function.                                         *)

LEMMA PartOf ==
  ASSUME TypeOK, NEW a \in 1 .. Len(code), NEW c \in a - 1 .. Len(code)
  PROVE  LET s == SubSeq(code, a, c)
         IN  /\ s \in Seq(Symbols) /\ Len(s) = c - a + 1
             /\ \A i \in 1 .. c - a + 1 : s[i] = code[a + i - 1]
<1>1. /\ Len(code) \in Nat /\ a \in Int /\ c \in Int
      /\ \A i \in a .. c : code[i] \in Symbols
  BY Positions
<1>2. Len(SubSeq(code, a, c)) = IF a <= c THEN c - a + 1 ELSE 0
  BY <1>1, SubSeqProperties
<1>3. /\ SubSeq(code, a, c) \in Seq(Symbols)
      /\ \A i \in 1 .. c - a + 1 : SubSeq(code, a, c)[i] = code[a + i - 1]
  BY <1>1, SubSeqProperties
<1>4. (IF a <= c THEN c - a + 1 ELSE 0) = c - a + 1
  BY <1>1
<1> QED BY <1>2, <1>3, <1>4

LEMMA PartNext ==
  ASSUME TypeOK, NEW a \in 1 .. Len(code), NEW c \in a .. Len(code)
  PROVE  Append(SubSeq(code, a, c - 1), code[c]) = SubSeq(code, a, c)
<1> DEFINE s == SubSeq(code, a, c - 1)
           t == SubSeq(code, a, c)
           u == Append(s, code[c])
<1>1. Len(code) \in Nat /\ c \in Nat /\ a \in Nat /\ c - 1 \in a - 1 .. Len(code) /\ c \in a - 1 .. Len(code)
  BY Positions
<1>2. code[c] \in Symbols
  BY <1>1, Positions
<1>3. /\ s \in Seq(Symbols) /\ Len(s) = (c - 1) - a + 1
      /\ \A i \in 1 .. (c - 1) - a + 1 : s[i] = code[a + i - 1]
  BY <1>1, PartOf
<1>4. /\ t \in Seq(Symbols) /\ Len(t) = c - a + 1
      /\ \A i \in 1 .. c - a + 1 : t[i] = code[a + i - 1]
  BY <1>1, PartOf
<1>5. /\ u \in Seq(Symbols) /\ Len(u) = Len(s) + 1 /\ u[Len(u)] = code[c]
      /\ \A i \in 1 .. Len(s) : u[i] = s[i]
  <2> HIDE DEF s
  <2> QED BY <1>2, <1>3, AppendFacts
<1> HIDE DEF s, t, u
<1>6. Len(s) = c - a /\ Len(u) = Len(t) /\ Len(t) = c - a + 1 /\ a + (c - a + 1) - 1 = c
  BY <1>1, <1>3, <1>4, <1>5
<1>7. ASSUME NEW i \in 1 .. Len(t) PROVE u[i] = t[i]
  <2>1. CASE i = Len(t)
    <3>1. t[c - a + 1] = code[a + (c - a + 1) - 1]
      <4>1. c - a + 1 \in 1 .. c - a + 1
        BY <1>1
      <4> QED BY <1>4, <4>1
    <3> QED BY <2>1, <3>1, <1>5, <1>6
  <2>2. CASE i # Len(t)
    <3>1. i \in 1 .. Len(s) /\ i \in 1 .. (c - 1) - a + 1 /\ i \in 1 .. c - a + 1
      BY <1>1, <1>6, <2>2
    <3> QED BY <3>1, <1>3, <1>4, <1>5
  <2> QED BY <2>1, <2>2
<1>8. u = t
  BY <1>4, <1>5, <1>6, <1>7
<1> QED BY <1>8 DEF s, t, u

\* The three kinds of functions.
LEMMA BodyKinds ==
  ASSUME TypeOK, NEW f \in Function, IsFunction(f)
  PROVE  \/ ~Defines(f) /\ f.open = f.last /\ code[f.open] = ";"
         \/ /\ Defines(f) /\ f.open < f.last /\ code[f.open] = Left
            /\ IsBlock(SubSeq(code, f.open, f.last))
         \/ /\ Defines(f) /\ f.open < f.last /\ code[f.open] \notin {Left, ";"} /\ code[f.last] = ";"
            /\ \A i \in f.open .. f.last - 1 : code[i] # ";"
<1> DEFINE s == SubSeq(code, f.open, f.last)
           a == f.open
           z == f.last
<1>1. a \in Nat /\ z \in Nat /\ 0 < a /\ a <= z /\ z < Len(code) /\ Len(code) \in Nat
  <2>1. /\ f.first \in Nat /\ f.close \in Nat /\ a \in Nat /\ z \in Nat /\ Len(code) \in Nat
        /\ 0 < f.first /\ f.first < f.close /\ f.close < a /\ a <= z /\ z < Len(code)
    BY FunctionPlaces
  <2> HIDE DEF a, z
  <2> QED BY <2>1
<1>2. /\ s \in Seq(Symbols) /\ Len(s) = z - a + 1
      /\ \A i \in 1 .. z - a + 1 : s[i] = code[a + i - 1]
  <2>1. a \in 1 .. Len(code) /\ z \in a - 1 .. Len(code)
    BY ONLY <1>1
  <2> QED BY <2>1, PartOf
<1>3. (a = z /\ code[a] = ";") \/ IsBlock(s) \/ IsStatement(s)
  BY DEF IsFunction
<1>4. Defines(f) <=> a # z
  BY DEF Defines
<1> HIDE DEF s, a, z
<1>5. Len(s) > 0 /\ s[1] = code[a] /\ s[Len(s)] = code[z]
  <2>1. a + 1 - 1 = a /\ a + (z - a + 1) - 1 = z /\ 1 \in 1 .. z - a + 1 /\ z - a + 1 \in 1 .. z - a + 1
    BY <1>1
  <2>2. s[1] = code[a + 1 - 1] /\ s[z - a + 1] = code[a + (z - a + 1) - 1]
    BY <1>2, <2>1
  <2> QED BY <1>1, <1>2, <2>1, <2>2
<1>6. ASSUME IsBlock(s) PROVE code[a] = Left /\ a < z
  <2>1. s[1] = Left /\ Level(s, Len(s)) = 0
    BY <1>6 DEF IsBlock, Left
  <2>2. ASSUME a = z PROVE FALSE
    <3>1. Len(s) = 1
      BY <1>1, <1>2, <2>2
    <3>2. Left \in Symbols
      BY MarksDiffer DEF Symbols, Left, Mark
    <3>3. s = Append(<<>>, Left)
      <4>1. <<>> \in Seq(Symbols) /\ Len(<<>>) = 0
        OBVIOUS
      <4>2. /\ Append(<<>>, Left) \in Seq(Symbols) /\ Len(Append(<<>>, Left)) = 1
            /\ Append(<<>>, Left)[1] = Left
        BY <3>2, <4>1, AppendFacts
      <4>3. s \in Seq(Symbols) /\ s[1] = Left
        BY <1>2, <2>1
      <4> QED BY ONLY <3>1, <4>2, <4>3
    <3>4. Level(s, Len(s)) = 1
      BY <3>3, OpenStart DEF IsOpen
    <3> QED BY <2>1, <3>4
  <2> QED BY <1>1, <1>5, <2>1, <2>2
<1>7. ASSUME IsStatement(s)
      PROVE  /\ a < z /\ code[a] \notin {Left, ";"} /\ code[z] = ";"
             /\ \A i \in a .. z - 1 : code[i] # ";"
  <2>1. /\ Len(s) > 1 /\ s[1] # Left /\ s[Len(s)] = ";"
        /\ \A n \in 1 .. Len(s) - 1 : s[n] # ";"
    BY <1>7 DEF IsStatement, Left
  <2>2. a < z
    <3>1. Len(s) > 1 /\ Len(s) = z - a + 1
      BY <1>2, <2>1
    <3> QED BY ONLY <1>1, <3>1
  <2>3. ASSUME NEW i \in a .. z - 1 PROVE code[i] # ";"
    <3>1. i - a + 1 \in 1 .. Len(s) - 1 /\ i - a + 1 \in 1 .. z - a + 1 /\ a + (i - a + 1) - 1 = i
      BY <1>1, <1>2
    <3>2. s[i - a + 1] = code[a + (i - a + 1) - 1]
      BY <1>2, <3>1
    <3> QED BY <2>1, <3>1, <3>2
  <2>4. a \in a .. z - 1
    BY <1>1, <2>2
  <2> QED BY <1>5, <2>1, <2>2, <2>3, <2>4
<1>8. \/ ~Defines(f) /\ a = z /\ code[a] = ";"
      \/ Defines(f) /\ a < z /\ code[a] = Left /\ IsBlock(s)
      \/ /\ Defines(f) /\ a < z /\ code[a] \notin {Left, ";"} /\ code[z] = ";"
         /\ \A i \in a .. z - 1 : code[i] # ";"
  <2>1. a < z => a # z
    BY <1>1
  <2>2. CASE a = z /\ code[a] = ";"
    BY <1>4, <2>2
  <2>3. CASE IsBlock(s)
    BY <1>4, <1>6, <2>1, <2>3
  <2>4. CASE IsStatement(s)
    BY <1>4, <1>7, <2>1, <2>4
  <2> QED BY <1>3, <2>2, <2>3, <2>4
<1> QED BY <1>8 DEF s, a, z

\* Braces are counted alike in a body and in the part of it that has been read.
LEMMA LevelOfPart ==
  ASSUME TypeOK, NEW a \in 1 .. Len(code), NEW z \in a .. Len(code), NEW c \in a .. z
  PROVE  LET t == SubSeq(code, a, c)
         IN  Level(t, Len(t)) = Level(SubSeq(code, a, z), c - a + 1)
<1> DEFINE s == SubSeq(code, a, z)
           t == SubSeq(code, a, c)
           m == c - a + 1
<1>1. Len(code) \in Nat /\ a \in Nat /\ z \in Nat /\ c \in Nat
  BY Positions
<1>2. Len(t) = m /\ \A i \in 1 .. m : t[i] = code[a + i - 1]
  <2>1. c \in a - 1 .. Len(code)
    BY <1>1
  <2> QED BY <2>1, PartOf
<1>3. \A i \in 1 .. z - a + 1 : s[i] = code[a + i - 1]
  <2>1. z \in a - 1 .. Len(code)
    BY <1>1
  <2> QED BY <2>1, PartOf
<1>4. \A i \in 1 .. m : i \in 1 .. z - a + 1
  BY <1>1
<1> HIDE DEF s, t, m
<1>5. \A i \in 1 .. m : t[i] = s[i]
  BY <1>2, <1>3, <1>4
<1>6. /\ {i \in 1 .. m : t[i] = "{"} = {i \in 1 .. m : s[i] = "{"}
      /\ {i \in 1 .. m : t[i] = "}"} = {i \in 1 .. m : s[i] = "}"}
  BY <1>5
<1>7. Level(t, m) = Level(s, m)
  BY <1>6 DEF Level
<1> QED BY <1>2, <1>7 DEF s, t, m

\* What a step in the body of a function leads to: further into the body, or to
\* its end with all of it.
Reads(f) ==
  \/ InBody(f)' /\ UNCHANGED <<list, table, global, status>>
  \/ current = f.last /\ def.name = f.name /\ def.params = Pushes(f) /\ Define(BodyOf(f))

\* A token of the body is gathered.
LEMMA GoesThrough ==
  ASSUME ScanInv, UNCHANGED text, NEW f \in Function, IsFunction(f), Defines(f),
         current \in f.open .. f.last - 1, def.name = f.name, def.params = Pushes(f),
         def.body = SubSeq(code, f.open, current - 1),
         NEW place, Go(place, current + 1), NEW depth, Push(depth),
         \/ place = "statement" /\ code[f.open] # Left
         \/ place = "block" /\ code[f.open] = Left
  PROVE  InBody(f)' /\ UNCHANGED <<list, table, global, status>>
<1>1. /\ f.open \in Nat /\ f.last \in Nat /\ f.open <= f.last /\ f.last < Len(code) /\ Len(code) \in Nat
      /\ f.first \in Nat /\ f.close \in Nat /\ 0 < f.first /\ f.first < f.close /\ f.close < f.open
  BY FunctionPlaces DEF ScanInv
<1>2. /\ current \in Nat /\ f.open \in 1 .. Len(code) /\ current \in f.open .. Len(code)
      /\ current + 1 \in f.open .. f.last /\ current + 1 > f.open /\ (current + 1) - 1 = current
  BY <1>1
<1>3. Append(def.body, Here) = SubSeq(code, f.open, (current + 1) - 1)
  BY <1>2, PartNext DEF ScanInv, Here
<1>4. def' = [def EXCEPT !.body = Append(def.body, Here), !.depth = depth]
  BY DEF Push
<1>5. def \in Def
  BY DEF ScanInv, TypeOK, Def, Symbols
<1>6. def'.name = f.name /\ def'.params = Pushes(f) /\ def'.body = SubSeq(code, f.open, (current + 1) - 1)
  BY <1>3, <1>4, <1>5 DEF Def
<1>7. at' = place /\ current' = current + 1
  BY DEF Go
<1>8. InBody(f)'
  BY <1>2, <1>6, <1>7, FileStays DEF InBody
<1> QED BY <1>8 DEF Go

LEMMA BodyRead ==
  ASSUME ScanInv, UNCHANGED text, NEW f \in Function, IsFunction(f),
         at = "body", current = f.open, HeadOf(f, Pushes(f)), Body
  PROVE  Reads(f)
<1>1. Here = code[f.open] /\ def.name = f.name /\ def.params = Pushes(f) /\ def.body = <<>>
  BY DEF Here, HeadOf
<1>2. f.open \in Nat /\ f.last \in Nat
  BY FunctionPlaces DEF ScanInv
<1>3. SubSeq(code, f.open, f.open - 1) = <<>>
  BY <1>2, SubSeqEmpty
<1>4. CASE ~Defines(f) /\ f.open = f.last /\ code[f.open] = ";"
  <2>1. Define(<<>>)
    BY <1>1, <1>4 DEF Body
  <2>2. BodyOf(f) = <<>>
    BY <1>4 DEF BodyOf
  <2> QED BY <1>1, <1>4, <2>1, <2>2 DEF Reads
<1>5. CASE Defines(f) /\ f.open < f.last /\ code[f.open] = Left
  <2>1. Go("block", current + 1) /\ Push(1)
    BY <1>1, <1>5 DEF Body, Left
  <2>2. current \in f.open .. f.last - 1
    BY <1>2, <1>5
  <2> QED BY <1>1, <1>3, <1>5, <2>1, <2>2, GoesThrough DEF Reads
<1>6. CASE Defines(f) /\ f.open < f.last /\ code[f.open] \notin {Left, ";"}
  <2>1. Go("statement", current) /\ UNCHANGED def
    BY <1>1, <1>6 DEF Body, Left
  <2>2. current \in f.open .. f.last
    <3>1. f.open < f.last /\ current = f.open
      BY <1>6
    <3> QED BY ONLY <1>2, <3>1
  <2>3. at' = "statement" /\ current' = current /\ def' = def
    BY <2>1 DEF Go
  <2>4. InBody(f)'
    BY <1>1, <1>3, <1>6, <2>2, <2>3, FileStays DEF InBody
  <2> QED BY <2>1, <2>4 DEF Reads, Go
<1> QED BY <1>4, <1>5, <1>6, BodyKinds DEF ScanInv

LEMMA BodyGathered ==
  ASSUME ScanInv, UNCHANGED text, NEW f \in Function, IsFunction(f), InBody(f),
         at = "statement" => Statement, at = "block" => Block
  PROVE  Reads(f)
<1>1. /\ f.open \in Nat /\ f.last \in Nat /\ f.open <= f.last /\ f.last < Len(code) /\ Len(code) \in Nat
      /\ f.first \in Nat /\ f.close \in Nat /\ 0 < f.first /\ f.first < f.close /\ f.close < f.open
  BY FunctionPlaces DEF ScanInv
<1>2. /\ def.name = f.name /\ def.params = Pushes(f) /\ Defines(f) /\ current \in f.open .. f.last
      /\ def.body = SubSeq(code, f.open, current - 1) /\ Here = code[current]
  BY DEF InBody, Here
<1>3. /\ current \in Nat /\ f.open \in 1 .. Len(code) /\ current \in f.open .. Len(code)
      /\ current \in 1 .. Len(code)
      /\ current = f.last \/ current \in f.open .. f.last - 1
  BY <1>1, <1>2
<1>4. Append(def.body, Here) = SubSeq(code, f.open, current)
  BY <1>2, <1>3, PartNext DEF ScanInv
<1>5. BodyOf(f) = SubSeq(code, f.open, f.last)
  BY <1>2 DEF BodyOf
<1>6. CASE at = "statement" /\ code[f.open] # Left
  <2>0. Statement
    BY <1>6
  <2>1. code[f.last] = ";" /\ \A i \in f.open .. f.last - 1 : code[i] # ";"
    BY <1>2, <1>6, BodyKinds DEF ScanInv
  <2>2. CASE current = f.last
    <3>1. Define(BodyOf(f))
      BY <1>2, <1>4, <1>5, <2>0, <2>1, <2>2 DEF Statement
    <3> QED BY <1>2, <2>2, <3>1 DEF Reads
  <2>3. CASE current \in f.open .. f.last - 1
    <3>1. Go("statement", current + 1) /\ Push(0)
      BY <1>2, <2>0, <2>1, <2>3 DEF Statement
    <3> QED BY <1>2, <1>6, <2>3, <3>1, GoesThrough DEF Reads
  <2> QED BY <1>3, <2>2, <2>3
<1>7. CASE at = "block" /\ code[f.open] = Left
  <2> DEFINE s == SubSeq(code, f.open, f.last)
             t == SubSeq(code, f.open, current)
             depth == Depth(def.depth, Here)
  <2>0. Block /\ IsBlock(s)
    BY <1>2, <1>7, BodyKinds DEF ScanInv
  <2>1. /\ def.body \in Seq(Symbols) /\ Here \in Symbols /\ def.depth \in Nat
        /\ IsOpen(def.body, def.depth) /\ def.depth > 0
    <3>1. IsOpen(def.body, def.depth) /\ def.depth > 0
      BY <1>7 DEF ScanInv, Gathered
    <3> QED BY <1>3, <1>7, <3>1, BodyFacts
  <2>2. /\ depth > 0 => Level(t, Len(t)) = depth
        /\ depth = 0 => Level(t, Len(t)) = 0
    <3>1. /\ depth > 0 => IsOpen(t, depth)
          /\ depth = 0 => IsBlock(t)
      BY <1>4, <2>1, OpenAppend
    <3> HIDE DEF t, depth
    <3> QED BY <3>1 DEF IsOpen, IsBlock
  <2>3. Level(t, Len(t)) = Level(s, current - f.open + 1)
    <3>1. f.last \in f.open .. Len(code)
      BY <1>1
    <3> QED BY <1>2, <1>3, <3>1, LevelOfPart DEF ScanInv
  <2>4. Len(s) = f.last - f.open + 1
    <3>1. f.last \in f.open - 1 .. Len(code)
      BY <1>1
    <3> QED BY <1>3, <3>1, PartOf DEF ScanInv
  <2>5. \/ depth > 0 /\ Go("block", current + 1) /\ Push(depth)
        \/ depth = 0 /\ Define(Append(def.body, Here))
    BY <2>0 DEF Block, Depth
  <2>6. Level(s, Len(s)) = 0 /\ \A n \in 1 .. Len(s) - 1 : Level(s, n) > 0
    BY <2>0 DEF IsBlock
  <2> HIDE DEF s, t, depth
  <2>7. CASE current = f.last
    <3>1. depth = 0
      <4>1. Level(t, Len(t)) = 0
        BY <2>3, <2>4, <2>6, <2>7
      <4> QED BY <2>2, <2>5, <4>1
    <3>2. Define(BodyOf(f))
      BY <1>4, <1>5, <2>5, <2>7, <3>1
    <3> QED BY <1>2, <2>7, <3>2 DEF Reads
  <2>8. CASE current \in f.open .. f.last - 1
    <3>1. depth > 0
      <4>1. current - f.open + 1 \in 1 .. Len(s) - 1
        BY ONLY <1>1, <1>3, <2>4, <2>8
      <4>2. Level(t, Len(t)) > 0
        BY <2>3, <2>6, <4>1
      <4> QED BY <2>2, <2>5, <4>2
    <3>2. Go("block", current + 1) /\ Push(depth)
      BY <2>5, <3>1
    <3> QED BY <1>2, <1>7, <2>8, <3>2, GoesThrough DEF Reads
  <2> QED BY <1>3, <2>7, <2>8
<1> QED BY <1>6, <1>7 DEF InBody

LEMMA BodyNotEmpty ==
  ASSUME TypeOK, NEW f \in Function, IsFunction(f), Defines(f)
  PROVE  BodyOf(f) # <<>>
<1>1. /\ f.open \in Nat /\ f.last \in Nat /\ f.open <= f.last /\ f.last < Len(code) /\ Len(code) \in Nat
      /\ f.first \in Nat /\ f.close \in Nat /\ 0 < f.first /\ f.first < f.close /\ f.close < f.open
  BY FunctionPlaces
<1>2. f.open \in 1 .. Len(code) /\ f.last \in f.open - 1 .. Len(code) /\ f.last - f.open + 1 > 0
  BY <1>1
<1>3. Len(BodyOf(f)) = f.last - f.open + 1
  BY <1>2, PartOf DEF BodyOf
<1>4. Len(<<>>) = 0
  OBVIOUS
<1> QED BY <1>2, <1>3, <1>4

-----------------------------------------------------------------------------
(* From function to function.                                              *)

LEMMA WholeStays ==
  ASSUME UNCHANGED text
  PROVE  /\ Program' = Program /\ (\A i : Rank(i)' = Rank(i)) /\ (Whole' <=> Whole) /\ (Again' <=> Again)
<1>1. code' = code /\ functions' = functions
  BY FileStays
<1>2. Program' = Program
  BY <1>1 DEF Program
<1>3. \A i : Rank(i)' = Rank(i)
  BY <1>2 DEF Rank
<1>4. \A f : IsFunction(f)' <=> IsFunction(f)
  <2>1. \A f, j : From(f, j)' = From(f, j) /\ NamedAt(f, j)' = NamedAt(f, j)
    BY FileStays
  <2>2. ASSUME NEW f, NEW j PROVE IsParameter(f, j)' <=> IsParameter(f, j)
    BY <1>1, <2>1 DEF IsParameter
  <2>3. ASSUME NEW f
        PROVE  /\ TypeAt(f.close + 2)' = TypeAt(f.close + 2)
               /\ SubSeq(code, f.open, f.last)' = SubSeq(code, f.open, f.last)
    BY <1>1 DEF TypeAt
  <2>4. \A s : (IsBlock(s)' <=> IsBlock(s)) /\ (IsStatement(s)' <=> IsStatement(s))
    BY DEF IsBlock, IsStatement, Level
  <2>5. ASSUME NEW f PROVE IsFunction(f)' <=> IsFunction(f)
    BY <1>1, <2>1, <2>2, <2>3, <2>4 DEF IsFunction
  <2> QED BY <2>5
<1>5. Whole' <=> Whole
  BY <1>1, <1>2, <1>4 DEF Whole, Function
<1>6. Again' <=> Again
  BY <1>1 DEF Again, Defines
<1> QED BY <1>2, <1>3, <1>5, <1>6

LEMMA CopiedStays ==
  ASSUME UNCHANGED text, UNCHANGED list
  PROVE  \A b : Copied(b)' <=> Copied(b)
BY WholeStays, FileStays DEF Copied

LEMMA SortedStays ==
  ASSUME UNCHANGED text, UNCHANGED table
  PROVE  \A n : Sorted(n)' <=> Sorted(n)
BY FileStays DEF Sorted

\* In a whole file every function is one, and they stand one behind the other.
LEMMA FunctionsOfWhole ==
  ASSUME TypeOK, Whole
  PROVE  /\ functions \in Seq(Function) /\ Len(functions) \in Nat /\ DOMAIN functions = 1 .. Len(functions)
         /\ \A k \in 1 .. Len(functions) :
              LET f == functions[k]
              IN  /\ f \in Function /\ IsFunction(f) /\ f.first \in Nat /\ f.last \in Nat
                  /\ 0 < f.first /\ f.first <= f.last /\ f.last < Len(code) /\ code[f.first] = "def"
         /\ \A k \in 1 .. Len(functions) : \A j \in 1 .. k - 1 : functions[j].last < functions[k].first
<1>1. /\ functions \in Seq(Function) /\ Len(functions) \in Nat /\ DOMAIN functions = 1 .. Len(functions)
      /\ \A k \in 1 .. Len(functions) : functions[k] \in Function
  BY DEF Whole
<1>2. \A k \in 1 .. Len(functions) :
        /\ IsFunction(functions[k])
        /\ \A j \in 1 .. k - 1 : functions[j].last < functions[k].first
  BY <1>1 DEF Whole
<1>3. ASSUME NEW k \in 1 .. Len(functions)
      PROVE  LET f == functions[k]
             IN  /\ f \in Function /\ IsFunction(f) /\ f.first \in Nat /\ f.last \in Nat
                 /\ 0 < f.first /\ f.first <= f.last /\ f.last < Len(code) /\ code[f.first] = "def"
  <2> DEFINE f == functions[k]
  <2>1. f \in Function /\ IsFunction(f)
    BY <1>1, <1>2
  <2> HIDE DEF f
  <2>2. /\ f.first \in Nat /\ f.close \in Nat /\ f.open \in Nat /\ f.last \in Nat /\ Len(code) \in Nat
        /\ 0 < f.first /\ f.first < f.close /\ f.close < f.open /\ f.open <= f.last /\ f.last < Len(code)
        /\ code[f.first] = "def"
    BY <2>1, FunctionPlaces
  <2>3. f.first <= f.last
    BY <2>2
  <2> QED BY <2>1, <2>2, <2>3 DEF f
<1> QED BY <1>1, <1>2, <1>3

\* The program before a place is finite, and one place more adds at most that.
LEMMA ProgramBefore ==
  ASSUME TypeOK, NEW c \in Nat
  PROVE  LET P == {i \in Program : i < c}
             Q == {i \in Program : i < c + 1}
         IN  /\ IsFiniteSet(P) /\ Cardinality(P) \in Nat
             /\ c \in Program => Cardinality(Q) = Cardinality(P) + 1 /\ Rank(c) = Cardinality(P) + 1
             /\ \A i \in P : Rank(i) \in 1 .. Cardinality(P)
<1> DEFINE P == {i \in Program : i < c}
           Q == {i \in Program : i < c + 1}
           R(i) == {j \in Program : j <= i}
<1>1. Program \subseteq Nat /\ Program \subseteq 1 .. Len(code) /\ Len(code) \in Nat
  <2>1. code \in Seq(Symbols) /\ Len(code) \in Nat
    BY DEF TypeOK, IsCode, Symbols
  <2>2. DOMAIN code = 1 .. Len(code)
    BY <2>1
  <2> QED BY <2>1, <2>2 DEF Program
<1>2. IsFiniteSet(Program)
  <2>1. IsFiniteSet(1 .. Len(code))
    BY <1>1, FS_Interval
  <2> QED BY <1>1, <2>1, FS_Subset
<1>3. IsFiniteSet(P) /\ Cardinality(P) \in Nat
  <2>1. P \in SUBSET Program
    OBVIOUS
  <2> HIDE DEF P
  <2> QED BY <1>2, <2>1, FS_Subset, FS_CardinalityType
<1>4. ASSUME c \in Program
      PROVE  Cardinality(Q) = Cardinality(P) + 1 /\ Rank(c) = Cardinality(P) + 1
  <2>1. \A i \in Nat : i < c + 1 <=> i < c \/ i = c
    OBVIOUS
  <2>2. \A i \in Nat : i <= c <=> i < c \/ i = c
    OBVIOUS
  <2>3. Q = P \cup {c}
    BY <1>1, <1>4, <2>1
  <2>4. R(c) = P \cup {c}
    BY <1>1, <1>4, <2>2
  <2>5. c \notin P
    OBVIOUS
  <2>6. Rank(c) = Cardinality(R(c))
    BY DEF Rank
  <2> HIDE DEF P, Q, R
  <2>7. Cardinality(P \cup {c}) = Cardinality(P) + 1
    BY <1>3, <2>5, FS_AddElement
  <2> QED BY <2>3, <2>4, <2>6, <2>7
<1>5. ASSUME NEW i \in P PROVE Rank(i) \in 1 .. Cardinality(P)
  <2>1. i \in Nat /\ i < c /\ i \in Program
    BY <1>1
  <2>2. R(i) \in SUBSET P
    <3>1. \A j \in Nat : j <= i => j < c
      BY <2>1
    <3> QED BY <1>1, <3>1
  <2>3. i \in R(i)
    BY <2>1
  <2>4. Rank(i) = Cardinality(R(i))
    BY DEF Rank
  <2> HIDE DEF P, R
  <2>5. IsFiniteSet(R(i)) /\ Cardinality(R(i)) <= Cardinality(P)
    BY <1>3, <2>2, FS_Subset
  <2>6. Cardinality(R(i)) \in Nat /\ Cardinality(R(i)) # 0
    BY <2>3, <2>5, FS_CardinalityType, FS_EmptySet
  <2> QED BY <1>3, <2>4, <2>5, <2>6
<1> QED BY <1>3, <1>4, <1>5

\* What does not belong to a function is copied.
LEMMA CopyRead ==
  ASSUME ScanInv, Whole, UNCHANGED text, NEW n \in 0 .. Len(functions), Sorted(n), Between(n), Copy
  PROVE  Sorted(n)' /\ Between(n)' /\ UNCHANGED <<global, status>>
<1> DEFINE P == {i \in Program : i < current}
<1>1. TypeOK /\ current \in Nat /\ current \in 1 .. Len(code) /\ Len(code) \in Nat
  BY Positions DEF ScanInv, Copy
<1>2. /\ at' = at /\ def' = def /\ table' = table /\ current' = current + 1 /\ Here # "def"
      /\ list' = Append(list, Here) /\ UNCHANGED <<status, global>>
  BY DEF Copy
<1>3. /\ Len(functions) \in Nat /\ DOMAIN functions = 1 .. Len(functions)
      /\ \A k \in 1 .. Len(functions) :
           LET f == functions[k]
           IN  /\ f.first \in Nat /\ f.last \in Nat /\ f.first <= f.last /\ code[f.first] = "def"
  BY <1>1, FunctionsOfWhole
<1>4. ASSUME NEW k \in 1 .. Len(functions)
      PROVE  /\ k <= n => functions[k].last < current + 1
             /\ k > n => functions[k].first >= current + 1
             /\ current \notin functions[k].first .. functions[k].last
  <2> DEFINE a == functions[k].first
             z == functions[k].last
  <2>1. a \in Nat /\ z \in Nat /\ a <= z /\ code[a] = "def" /\ n \in Nat /\ k \in Nat
    BY <1>3
  <2>2. (k <= n => z < current) /\ (k > n => a >= current)
    BY <1>3 DEF Between, Passed
  <2>3. a # current
    BY <1>2, <2>1 DEF Here
  <2> HIDE DEF a, z
  <2>4. /\ k <= n => z < current + 1
        /\ k > n => a >= current + 1
        /\ current \notin a .. z
    BY ONLY <1>1, <2>1, <2>2, <2>3
  <2> QED BY <2>4 DEF a, z
<1>5. current \in Program
  <2>1. current \in DOMAIN code
    <3>1. code \in Seq(Symbols)
      BY <1>1 DEF TypeOK, IsCode, Symbols
    <3> QED BY <1>1, <3>1
  <2> QED BY <1>3, <1>4, <2>1 DEF Program
<1>6. /\ Cardinality(P) \in Nat
      /\ Cardinality({i \in Program : i < current + 1}) = Cardinality(P) + 1 /\ Rank(current) = Cardinality(P) + 1
      /\ \A i \in P : Rank(i) \in 1 .. Cardinality(P)
  BY <1>1, <1>5, ProgramBefore
<1>7. Len(list) = Cardinality(P) /\ \A i \in P : list[Rank(i)] = code[i]
  BY DEF Between, Copied
<1>8. /\ Len(list') = Len(list) + 1 /\ list'[Len(list) + 1] = Here
      /\ \A i \in 1 .. Len(list) : list'[i] = list[i]
  <2>1. list \in Seq(Symbols) /\ Here \in Symbols
    BY <1>1, Positions DEF TypeOK, Symbols, Here
  <2> QED BY <1>2, <2>1
<1>9. Copied(current)'
  <2>1. ASSUME NEW i \in Program, i < current + 1 PROVE list'[Rank(i)] = code[i]
    <3>1. CASE i = current
      BY <1>6, <1>7, <1>8, <3>1 DEF Here
    <3>2. CASE i # current
      <4>1. i \in Nat
        <5>1. code \in Seq(Symbols)
          BY <1>1 DEF TypeOK, IsCode, Symbols
        <5> QED BY <5>1 DEF Program
      <4>2. i < current
        BY ONLY <1>1, <2>1, <3>2, <4>1
      <4>3. i \in P
        BY <4>2
      <4> HIDE DEF P
      <4> QED BY <1>6, <1>7, <1>8, <4>3
    <3> QED BY <3>1, <3>2
  <2>2. Len(list') = Cardinality({i \in Program : i < current + 1})
    BY <1>6, <1>7, <1>8
  <2>3. code' = code /\ Program' = Program /\ (\A i : Rank(i)' = Rank(i)) /\ current' = current + 1
    BY <1>2, FileStays, WholeStays
  <2>4. Len(list') = Cardinality({i \in Program' : i < current'})
    BY <2>2, <2>3
  <2>5. \A i \in Program' : i < current' => list'[Rank(i)'] = code'[i]
    BY <2>1, <2>3
  <2> QED BY <2>4, <2>5 DEF Copied
<1>10. Passed(n)'
  BY <1>2, <1>3, <1>4, FileStays DEF Passed
<1>11. Sorted(n)' /\ at' = "scan" /\ def' = NoDef
  BY <1>2, SortedStays DEF Between
<1> QED BY <1>2, <1>9, <1>10, <1>11 DEF Between

\* The first token that is not copied is the first one of the next function.
LEMMA BeginRead ==
  ASSUME ScanInv, Whole, UNCHANGED text, NEW n \in 0 .. Len(functions), Between(n), Begin
  PROVE  /\ n < Len(functions) /\ Copied(functions[n + 1].first)
         /\ at' = "name" /\ current' = functions[n + 1].first + 1 /\ def' = NoDef
         /\ UNCHANGED <<list, table, global, status>>
<1>1. TypeOK /\ current \in Nat /\ current \in 1 .. Len(code) /\ Len(code) \in Nat /\ code[current] = "def"
  BY Positions DEF ScanInv, Begin, Here
<1>2. at' = "name" /\ current' = current + 1 /\ def' = def /\ UNCHANGED <<list, table, global, status>>
  BY DEF Begin, Go
<1>3. /\ Len(functions) \in Nat /\ DOMAIN functions = 1 .. Len(functions)
      /\ \A k \in 1 .. Len(functions) :
           LET f == functions[k]
           IN  f.first \in Nat /\ f.last \in Nat /\ f.first <= f.last
      /\ \A k \in 1 .. Len(functions) : \A j \in 1 .. k - 1 : functions[j].last < functions[k].first
  BY <1>1, FunctionsOfWhole
<1>4. current \notin Program
  BY <1>1 DEF Whole
<1>5. current \in DOMAIN code
  <2>1. code \in Seq(Symbols)
    BY <1>1 DEF TypeOK, IsCode, Symbols
  <2> QED BY <1>1, <2>1
<1>6. PICK k \in 1 .. Len(functions) : current \in functions[k].first .. functions[k].last
  BY <1>3, <1>4, <1>5 DEF Program
<1> DEFINE a == functions[k].first
           z == functions[k].last
<1>7. a \in Nat /\ z \in Nat /\ a <= current /\ current <= z /\ n \in Nat /\ k \in Nat
  <2>1. a \in Nat /\ z \in Nat /\ current \in a .. z
    BY <1>3, <1>6
  <2> HIDE DEF a, z
  <2> QED BY <2>1, <1>1
<1>8. (k <= n => z < current) /\ (k > n => a >= current)
  BY <1>3 DEF Between, Passed
<1>9. k > n /\ a = current
  <2> HIDE DEF a, z
  <2> QED BY ONLY <1>1, <1>7, <1>8
<1>10. n + 1 \in 1 .. Len(functions) /\ n < Len(functions)
  BY <1>3, <1>9
<1>11. ASSUME k # n + 1 PROVE FALSE
  <2> DEFINE b == functions[n + 1].first
             y == functions[n + 1].last
  <2>1. b \in Nat /\ y \in Nat /\ b <= y
    BY <1>3, <1>10
  <2>2. n + 1 \in 1 .. k - 1
    BY ONLY <1>7, <1>9, <1>10, <1>11
  <2>3. y < a
    BY <1>3, <2>2
  <2>4. b >= current
    <3>1. n + 1 > n
      BY ONLY <1>7
    <3> QED BY <1>3, <1>10, <3>1 DEF Between, Passed
  <2> HIDE DEF a, b, y
  <2> QED BY ONLY <1>1, <1>7, <1>9, <2>1, <2>3, <2>4
<1>12. functions[n + 1].first = current
  BY <1>9, <1>11
<1> QED BY <1>2, <1>10, <1>12 DEF Between

\* At the end of a whole file all functions are in the table.
LEMMA FinishRead ==
  ASSUME ScanInv, Whole, UNCHANGED text, NEW n \in 0 .. Len(functions), Sorted(n), Between(n),
         global = EmptyTable, Finish
  PROVE  Scanned'
<1>1. TypeOK /\ Len(code) \in Nat /\ current = Len(code) + 1
  BY Positions DEF ScanInv, Finish, AtEnd
<1>2. /\ Len(functions) \in Nat /\ DOMAIN functions = 1 .. Len(functions)
      /\ \A k \in 1 .. Len(functions) :
           LET f == functions[k]
           IN  f.first \in Nat /\ f.last \in Nat /\ f.first <= f.last /\ f.last < Len(code)
  BY <1>1, FunctionsOfWhole
<1>3. n = Len(functions)
  <2> SUFFICES ASSUME n # Len(functions) PROVE FALSE
    OBVIOUS
  <2> DEFINE a == functions[n + 1].first
             z == functions[n + 1].last
  <2>0. Len(functions) \in Nat /\ n \in 0 .. Len(functions) /\ n # Len(functions)
    BY <1>2
  <2>1. n + 1 \in 1 .. Len(functions) /\ n + 1 > n
    BY ONLY <2>0
  <2>2. a \in Nat /\ z \in Nat /\ a <= z /\ z < Len(code)
    BY <1>2, <2>1
  <2>3. a >= current
    BY <1>2, <2>1 DEF Between, Passed
  <2> HIDE DEF a, z
  <2> QED BY ONLY <1>1, <2>2, <2>3
<1>4. /\ DOMAIN global' = DOMAIN table /\ \A m \in DOMAIN table : global'[m] = table[m]
      /\ status' = "done" /\ list' = list
  <2>1. DOMAIN EmptyTable = {}
    BY DEF EmptyTable
  <2>2. global' = MakeGlobal(EmptyTable, table)
    BY DEF Finish
  <2>3. MakeGlobal(EmptyTable, table) = [m \in DOMAIN table |-> table[m]]
    BY <2>1 DEF MakeGlobal
  <2> QED BY <2>2, <2>3 DEF Finish
<1>5. ~Again
  <2>1. \A k \in 1 .. n : \A j \in 1 .. k - 1 : functions[j].name = functions[k].name => ~Defines(functions[j])
    BY DEF Sorted
  <2>2. ASSUME NEW j \in 1 .. n, NEW k \in 1 .. n, j < k PROVE j \in 1 .. k - 1
    BY <2>2
  <2> QED BY <1>2, <1>3, <2>1, <2>2 DEF Again
<1>6. Program \subseteq 1 .. Len(code)
  <2>1. code \in Seq(Symbols)
    BY <1>1 DEF TypeOK, IsCode, Symbols
  <2> QED BY <2>1 DEF Program
<1>7. Len(list) = Cardinality(Program) /\ \A i \in Program : list[Rank(i)] = code[i]
  <2>1. \A i \in Program : i < current
    BY <1>1, <1>6
  <2>2. {i \in Program : i < current} = Program
    BY <2>1
  <2> QED BY <2>1, <2>2 DEF Between, Copied
<1>8. /\ DOMAIN table = {functions[k].name : k \in DOMAIN functions}
      /\ \A k \in DOMAIN functions :
           LET f == functions[k]
           IN  /\ Defines(f) => table[f.name].body = BodyOf(f)
               /\ (\A j \in 1 .. k - 1 : functions[j].name # f.name) => table[f.name].params = Pushes(f)
               /\ (\A j \in DOMAIN functions : functions[j].name = f.name => ~Defines(functions[j]))
                    => table[f.name].body = <<>>
  <2>1. DOMAIN functions = 1 .. n
    BY <1>2, <1>3
  <2> QED BY <2>1 DEF Sorted
<1>9. /\ DOMAIN global' = {functions[k].name : k \in DOMAIN functions}
      /\ \A k \in DOMAIN functions :
           LET f == functions[k]
           IN  /\ Defines(f) => global'[f.name].body = BodyOf(f)
               /\ (\A j \in 1 .. k - 1 : functions[j].name # f.name) => global'[f.name].params = Pushes(f)
               /\ (\A j \in DOMAIN functions : functions[j].name = f.name => ~Defines(functions[j]))
                    => global'[f.name].body = <<>>
  <2>1. \A k \in DOMAIN functions : global'[functions[k].name] = table[functions[k].name]
    BY <1>4, <1>8
  <2> QED BY <1>4, <1>8, <2>1
<1> QED BY <1>4, <1>5, <1>7, <1>9, FileStays, WholeStays DEF Scanned

\* A function that is declared or defined joins the others in the table.
LEMMA SortedNext ==
  ASSUME ScanInv, Whole, UNCHANGED text, NEW n \in 0 .. Len(functions) - 1, Sorted(n),
         NEW f, f = functions[n + 1], ~Refuses(table, f.name),
         table' = Declare(table, f.name, Pushes(f), BodyOf(f))
  PROVE  Sorted(n + 1)'
<1> DEFINE u == table'
<1>1. n \in Nat /\ n + 1 \in 1 .. n + 1 /\ \A k \in 1 .. n + 1 : k \in 1 .. n \/ k = n + 1
  BY FunctionsOfWhole DEF ScanInv
<1>2. /\ DOMAIN table = {functions[k].name : k \in 1 .. n}
      /\ \A k \in 1 .. n :
           LET g == functions[k]
           IN  /\ Defines(g) => table[g.name].body = BodyOf(g)
               /\ (\A j \in 1 .. k - 1 : functions[j].name # g.name) => table[g.name].params = Pushes(g)
               /\ (\A j \in 1 .. n : functions[j].name = g.name => ~Defines(functions[j]))
                    => table[g.name].body = <<>>
               /\ \A j \in 1 .. k - 1 : functions[j].name = g.name => ~Defines(functions[j])
  BY DEF Sorted
<1>3. ASSUME NEW k \in 1 .. n, functions[k].name = f.name PROVE ~Defines(functions[k])
  <2> SUFFICES ASSUME Defines(functions[k]) PROVE FALSE
    OBVIOUS
  <2>1. f.name \in DOMAIN table /\ table[f.name].body = BodyOf(functions[k])
    BY <1>2, <1>3
  <2>2. BodyOf(functions[k]) # <<>>
    <3>1. TypeOK /\ k \in 1 .. Len(functions)
      BY FunctionsOfWhole DEF ScanInv
    <3>2. functions[k] \in Function /\ IsFunction(functions[k])
      BY <3>1, FunctionsOfWhole
    <3> QED BY <3>1, <3>2, BodyNotEmpty
  <2> QED BY <2>1, <2>2 DEF Refuses
<1>4. /\ DOMAIN u = DOMAIN table \cup {f.name}
      /\ \A m \in DOMAIN table : m # f.name => u[m] = table[m]
      /\ f.name \in DOMAIN table => u[f.name] = [table[f.name] EXCEPT !.body = BodyOf(f)]
      /\ f.name \notin DOMAIN table => u[f.name] = Entry(Pushes(f), BodyOf(f))
  BY DEF Declare
<1>5. u[f.name].body = BodyOf(f)
  <2>1. ASSUME f.name \in DOMAIN table PROVE u[f.name].body = BodyOf(f)
    <3>1. table[f.name] \in Entries
      BY <2>1 DEF ScanInv, Handed
    <3> HIDE DEF u
    <3> QED BY <1>4, <2>1, <3>1 DEF Entries
  <2>2. ASSUME f.name \notin DOMAIN table PROVE u[f.name].body = BodyOf(f)
    <3> HIDE DEF u
    <3> QED BY <1>4, <2>2 DEF Entry
  <2> QED BY <2>1, <2>2
<1>6. /\ f.name \in DOMAIN table => u[f.name].params = table[f.name].params
      /\ f.name \notin DOMAIN table => u[f.name].params = Pushes(f)
  <2>1. ASSUME f.name \in DOMAIN table PROVE u[f.name].params = table[f.name].params
    <3>1. table[f.name] \in Entries
      BY <2>1 DEF ScanInv, Handed
    <3> HIDE DEF u
    <3> QED BY <1>4, <2>1, <3>1 DEF Entries
  <2>2. ASSUME f.name \notin DOMAIN table PROVE u[f.name].params = Pushes(f)
    <3> HIDE DEF u
    <3> QED BY <1>4, <2>2 DEF Entry
  <2> QED BY <2>1, <2>2
<1>7. ~Defines(f) => BodyOf(f) = <<>>
  BY DEF BodyOf
<1> HIDE DEF u
<1>8. DOMAIN u = {functions[k].name : k \in 1 .. n + 1}
  <2>1. (1 .. n + 1) = (1 .. n) \cup {n + 1}
    BY <1>1
  <2> QED BY <1>2, <1>4, <2>1
<1>9. ASSUME NEW k \in 1 .. n, functions[k].name # f.name
      PROVE  LET g == functions[k]
             IN  /\ Defines(g) => u[g.name].body = BodyOf(g)
                 /\ (\A j \in 1 .. k - 1 : functions[j].name # g.name) => u[g.name].params = Pushes(g)
                 /\ (\A j \in 1 .. n + 1 : functions[j].name = g.name => ~Defines(functions[j]))
                      => u[g.name].body = <<>>
                 /\ \A j \in 1 .. k - 1 : functions[j].name = g.name => ~Defines(functions[j])
  <2>1. u[functions[k].name] = table[functions[k].name]
    BY <1>2, <1>4, <1>9
  <2>2. \A j \in 1 .. n : j \in 1 .. n + 1
    BY <1>1
  <2> QED BY <1>2, <2>1, <2>2
<1>10. ASSUME NEW k \in 1 .. n, functions[k].name = f.name
       PROVE  LET g == functions[k]
              IN  /\ ~Defines(g)
                  /\ (\A j \in 1 .. k - 1 : functions[j].name # g.name) => u[g.name].params = Pushes(g)
                  /\ (\A j \in 1 .. n + 1 : functions[j].name = g.name => ~Defines(functions[j]))
                       => u[g.name].body = <<>>
                  /\ \A j \in 1 .. k - 1 : functions[j].name = g.name => ~Defines(functions[j])
  <2>1. f.name \in DOMAIN table
    BY <1>2, <1>10
  <2>2. (\A j \in 1 .. n + 1 : functions[j].name = f.name => ~Defines(functions[j])) => u[f.name].body = <<>>
    BY <1>1, <1>5, <1>7
  <2> QED BY <1>2, <1>3, <1>6, <1>10, <2>1, <2>2
<1>11. LET g == functions[n + 1]
       IN  /\ Defines(g) => u[g.name].body = BodyOf(g)
           /\ (\A j \in 1 .. (n + 1) - 1 : functions[j].name # g.name) => u[g.name].params = Pushes(g)
           /\ (\A j \in 1 .. n + 1 : functions[j].name = g.name => ~Defines(functions[j]))
                => u[g.name].body = <<>>
           /\ \A j \in 1 .. (n + 1) - 1 : functions[j].name = g.name => ~Defines(functions[j])
  <2>1. (n + 1) - 1 = n
    BY <1>1
  <2>2. (\A j \in 1 .. n : functions[j].name # f.name) => f.name \notin DOMAIN table
    BY <1>2
  <2>3. (\A j \in 1 .. n + 1 : functions[j].name = f.name => ~Defines(functions[j])) => u[f.name].body = <<>>
    BY <1>1, <1>5, <1>7
  <2> QED BY <1>3, <1>5, <1>6, <2>1, <2>2, <2>3
<1>12. \A k \in 1 .. n + 1 :
         LET g == functions[k]
         IN  /\ Defines(g) => u[g.name].body = BodyOf(g)
             /\ (\A j \in 1 .. k - 1 : functions[j].name # g.name) => u[g.name].params = Pushes(g)
             /\ (\A j \in 1 .. n + 1 : functions[j].name = g.name => ~Defines(functions[j]))
                  => u[g.name].body = <<>>
             /\ \A j \in 1 .. k - 1 : functions[j].name = g.name => ~Defines(functions[j])
  BY <1>1, <1>9, <1>10, <1>11
<1>13. /\ u = table' /\ functions' = functions
       /\ \A g : Pushes(g)' = Pushes(g) /\ Defines(g)' = Defines(g) /\ BodyOf(g)' = BodyOf(g)
  BY FileStays DEF u
<1> QED BY ONLY <1>8, <1>12, <1>13 DEF Sorted

\* A function that was defined before is refused; another one is behind the scanner.
LEMMA DefineRead ==
  ASSUME ScanInv, Whole, UNCHANGED text, NEW n \in 0 .. Len(functions) - 1, Sorted(n),
         NEW f, f = functions[n + 1], Copied(f.first),
         current = f.last, def.name = f.name, def.params = Pushes(f), Define(BodyOf(f))
  PROVE  \/ status' = "terminated" /\ at' = "already" /\ Again
         \/ Sorted(n + 1)' /\ Between(n + 1)' /\ UNCHANGED <<global, status>>
<1>1. /\ TypeOK /\ Len(functions) \in Nat /\ DOMAIN functions = 1 .. Len(functions)
      /\ \A k \in 1 .. Len(functions) :
           LET g == functions[k]
           IN  /\ g \in Function /\ IsFunction(g) /\ g.first \in Nat /\ g.last \in Nat
               /\ g.first <= g.last
      /\ \A k \in 1 .. Len(functions) : \A j \in 1 .. k - 1 : functions[j].last < functions[k].first
  BY FunctionsOfWhole DEF ScanInv
<1>2. n \in Nat /\ n + 1 \in 1 .. Len(functions) /\ \A k \in 1 .. n : k \in 1 .. Len(functions) /\ k < n + 1
  BY <1>1
<1>3. CASE Refuses(table, f.name) /\ Throw("already")
  <2>1. f.name \in DOMAIN table /\ table[f.name].body # <<>>
    BY <1>3 DEF Refuses
  <2>2. PICK k \in 1 .. n : functions[k].name = f.name
    BY <2>1 DEF Sorted
  <2>3. PICK j \in 1 .. n : functions[j].name = f.name /\ Defines(functions[j])
    BY <2>1, <2>2 DEF Sorted
  <2>4. Again
    BY <1>1, <1>2, <2>3 DEF Again
  <2> QED BY <1>3, <2>4 DEF Throw
<1>4. CASE /\ ~Refuses(table, f.name)
           /\ table' = Declare(table, f.name, Pushes(f), BodyOf(f))
           /\ at' = "scan" /\ current' = current + 1 /\ def' = NoDef
           /\ UNCHANGED <<list, global, status>>
  <2>1. Sorted(n + 1)'
    BY <1>4, SortedNext
  <2> DEFINE a == f.first
             z == f.last
  <2>2. a \in Nat /\ z \in Nat /\ a <= z /\ current' = z + 1
    BY <1>1, <1>2, <1>4
  <2>3. ASSUME NEW i \in Program PROVE i < z + 1 <=> i < a
    <3>1. i \in Nat
      <4>1. code \in Seq(Symbols)
        BY <1>1 DEF TypeOK, IsCode, Symbols
      <4> QED BY <4>1 DEF Program
    <3>2. i \notin a .. z
      BY <1>1, <1>2 DEF Program
    <3> HIDE DEF a, z
    <3> QED BY <2>2, <3>1, <3>2
  <2>4. {i \in Program : i < z + 1} = {i \in Program : i < a}
    BY <2>3
  <2>5. Len(list) = Cardinality({i \in Program : i < a}) /\ \A i \in Program : i < a => list[Rank(i)] = code[i]
    BY DEF Copied
  <2>6. Copied(current)'
    <3>1. /\ code' = code /\ Program' = Program /\ (\A i : Rank(i)' = Rank(i)) /\ current' = z + 1
          /\ list' = list
      BY <1>4, FileStays, WholeStays
    <3> HIDE DEF a, z
    <3>2. Len(list') = Cardinality({i \in Program' : i < current'})
      BY <2>4, <2>5, <3>1
    <3>3. \A i \in Program' : i < current' => list'[Rank(i)'] = code'[i]
      BY <2>3, <2>5, <3>1
    <3> QED BY <3>2, <3>3 DEF Copied
  <2>7. ASSUME NEW k \in 1 .. Len(functions)
        PROVE  /\ k <= n + 1 => functions[k].last < z + 1
               /\ k > n + 1 => functions[k].first >= z + 1
    <3> DEFINE b == functions[k].first
               y == functions[k].last
    <3>1. b \in Nat /\ y \in Nat /\ b <= y /\ k \in Nat
      BY <1>1
    <3>2. k < n + 1 => y < a
      <4>1. k < n + 1 => k \in 1 .. (n + 1) - 1
        BY <1>2
      <4> QED BY <1>1, <1>2, <4>1
    <3>3. k > n + 1 => z < b
      <4>1. k > n + 1 => n + 1 \in 1 .. k - 1
        BY <1>2, <3>1
      <4> QED BY <1>1, <1>2, <4>1
    <3>4. k = n + 1 => y = z
      OBVIOUS
    <3> HIDE DEF a, z, b, y
    <3>5. (k <= n + 1 => y < z + 1) /\ (k > n + 1 => b >= z + 1)
      BY ONLY <1>2, <2>2, <3>1, <3>2, <3>3, <3>4
    <3> QED BY <3>5 DEF b, y
  <2>8. Passed(n + 1)'
    <3> HIDE DEF a, z
    <3> QED BY <1>1, <2>2, <2>7, FileStays DEF Passed
  <2> QED BY <1>4, <2>1, <2>6, <2>8 DEF Between
<1> QED BY <1>3, <1>4 DEF Define

-----------------------------------------------------------------------------
(* The scan of a whole file.                                               *)

\* In a function a step leads further, or to its end; it never throws before that,
\* and it does not come to the end of the file.
LEMMA InsideRead ==
  ASSUME ScanInv, Next, NEW f \in Function, IsFunction(f), InHead(f) \/ InBody(f)
  PROVE  \/ (InHead(f)' \/ InBody(f)') /\ UNCHANGED <<list, table, global, status>>
         \/ current = f.last /\ def.name = f.name /\ def.params = Pushes(f) /\ Define(BodyOf(f))
<1>1. UNCHANGED text /\ TypeOK
  BY DEF Next, ScanInv
<1>2. /\ f.first \in Nat /\ f.close \in Nat /\ f.open \in Nat /\ f.last \in Nat /\ Len(code) \in Nat
      /\ 0 < f.first /\ f.first < f.close /\ f.close < f.open /\ f.open <= f.last /\ f.last < Len(code)
      /\ Len(f.ends) \in Nat
  BY <1>1, FunctionPlaces
<1>3. ASSUME current <= Len(code)
      PROVE  /\ at = "name" => Name
             /\ at = "parameters" => Parameters
             /\ at = "named" => Named
             /\ at = "default" => Default
             /\ at = "pushed" => Pushed
             /\ at = "result" => Result
             /\ at = "body" => Body
             /\ at = "statement" => Statement
             /\ at = "block" => Block
  BY <1>1, <1>3, Acts
<1>4. CASE at = "name" /\ current = f.first + 1 /\ def = NoDef
  <2>1. current <= Len(code)
    BY ONLY <1>2, <1>4
  <2> QED BY <1>1, <1>3, <1>4, <2>1, NameRead
<1>5. ASSUME NEW j \in 0 .. Len(f.ends), BehindParameter(f, j)
      PROVE  InHead(f)' /\ UNCHANGED <<list, table, global, status>>
  <2>1. at = "parameters" /\ current <= f.close /\ current \in Nat
    BY <1>1, <1>5, Positions DEF BehindParameter
  <2>2. current <= Len(code)
    BY ONLY <1>2, <2>1
  <2> QED BY <1>1, <1>3, <1>5, <2>1, <2>2, ParametersRead
<1>6. ASSUME NEW j \in 1 .. Len(f.ends), InParameter(f, j)
      PROVE  InHead(f)' /\ UNCHANGED <<list, table, global, status>>
  <2> DEFINE n == NamedAt(f, j)
             e == f.ends[j]
             t == TypeAt(From(f, j))
  <2>1. t \in Nat /\ n = t + 2 /\ e \in Nat /\ n <= e /\ e < Len(code)
    BY <1>1, ParameterPlaces
  <2>2. current = n \/ current \in n + 1 .. e \/ current = e
    BY <1>6 DEF InParameter
  <2> HIDE DEF n, e, t
  <2>3. current <= Len(code)
    BY ONLY <1>2, <2>1, <2>2
  <2> QED BY <1>1, <1>3, <1>6, <2>3, ParameterRead
<1>7. CASE at = "result" /\ current = f.close + 1 /\ HeadOf(f, Pushes(f))
  <2>1. current <= Len(code)
    BY ONLY <1>2, <1>7
  <2> QED BY <1>1, <1>3, <1>7, <2>1, ResultRead
<1>8. CASE at = "body" /\ current = f.open /\ HeadOf(f, Pushes(f))
  <2>1. current <= Len(code)
    BY ONLY <1>2, <1>8
  <2> QED BY <1>1, <1>3, <1>8, <2>1, BodyRead DEF Reads
<1>9. CASE InBody(f)
  <2>1. current \in f.open .. f.last
    BY <1>9 DEF InBody
  <2>2. current <= Len(code)
    BY ONLY <1>2, <2>1
  <2> QED BY <1>1, <1>3, <1>9, <2>2, BodyGathered DEF Reads
<1> QED BY <1>4, <1>5, <1>6, <1>7, <1>8, <1>9 DEF InHead

LEMMA FunctionRead ==
  ASSUME ScanInv, Whole, Next, NEW n \in 0 .. Len(functions) - 1, Sorted(n), Inside(functions[n + 1])
  PROVE  \/ status' = "terminated" /\ at' = "already" /\ Again
         \/ /\ Reading(n)' \/ Reading(n + 1)'
            /\ UNCHANGED <<global, status>>
<1>1. UNCHANGED text /\ TypeOK
  BY DEF Next, ScanInv
<1>2. n + 1 \in 1 .. Len(functions) /\ n < Len(functions)
  BY <1>1, FunctionsOfWhole
<1>3. PICK f : f = functions[n + 1]
  OBVIOUS
<1>4. f \in Function /\ IsFunction(f)
  BY <1>1, <1>2, <1>3, FunctionsOfWhole
<1>5. Copied(f.first) /\ (InHead(f) \/ InBody(f))
  BY <1>3 DEF Inside
<1>6. CASE (InHead(f)' \/ InBody(f)') /\ UNCHANGED <<list, table, global, status>>
  <2>1. Sorted(n)' /\ Copied(f.first)'
    BY <1>1, <1>5, <1>6, SortedStays, CopiedStays
  <2>2. Inside(f)'
    BY <1>6, <2>1 DEF Inside
  <2>3. Inside(functions[n + 1])'
    BY <1>1, <1>3, <2>2, FileStays
  <2> QED BY <1>1, <1>2, <1>6, <2>1, <2>3, FileStays DEF Reading
<1>7. CASE current = f.last /\ def.name = f.name /\ def.params = Pushes(f) /\ Define(BodyOf(f))
  BY <1>1, <1>3, <1>5, <1>7, DefineRead DEF Reading
<1> QED BY <1>4, <1>5, <1>6, <1>7, InsideRead

LEMMA BetweenRead ==
  ASSUME ScanInv, Whole, Next, NEW n \in 0 .. Len(functions), Sorted(n), Between(n), global = EmptyTable
  PROVE  (status' = "done" /\ Scanned') \/ (Reading(n)' /\ UNCHANGED <<global, status>>)
<1>1. UNCHANGED text /\ TypeOK /\ at = "scan"
  BY DEF Next, ScanInv, Between
<1>2. Copy \/ Begin \/ Finish
  BY <1>1, ActsAt DEF Next, ReadPastEnd
<1>3. CASE Copy
  BY <1>1, <1>3, CopyRead DEF Reading
<1>4. CASE Begin
  <2>1. /\ n < Len(functions) /\ Copied(functions[n + 1].first)
        /\ at' = "name" /\ current' = functions[n + 1].first + 1 /\ def' = NoDef
        /\ UNCHANGED <<list, table, global, status>>
    BY <1>1, <1>4, BeginRead
  <2>2. PICK f : f = functions[n + 1]
    OBVIOUS
  <2>3. Sorted(n)' /\ Copied(f.first)'
    BY <1>1, <2>1, <2>2, SortedStays, CopiedStays
  <2>4. InHead(f)'
    BY <2>1, <2>2 DEF InHead
  <2>5. Inside(f)'
    BY <2>3, <2>4 DEF Inside
  <2>6. Inside(functions[n + 1])'
    BY <1>1, <2>2, <2>5, FileStays
  <2> QED BY <1>1, <2>1, <2>3, <2>6, FileStays DEF Reading
<1>5. CASE Finish
  BY <1>1, <1>5, FinishRead DEF Finish
<1> QED BY <1>2, <1>3, <1>4, <1>5

LEMMA InitRead == Init => ScanRead /\ Scanned
<1> SUFFICES ASSUME Init PROVE ScanRead /\ Scanned
  OBVIOUS
<1>1. status = "running" /\ at = "scan" /\ def = NoDef /\ current = 1 /\ list = <<>> /\ table = EmptyTable
      /\ global = EmptyTable /\ TypeOK
  BY InitScanned DEF Init, ScanInv
<1>2. Scanned
  BY <1>1 DEF Scanned
<1>3. ASSUME Whole PROVE Sorted(0) /\ Between(0) /\ 0 \in 0 .. Len(functions)
  <2>1. /\ Len(functions) \in Nat /\ DOMAIN functions = 1 .. Len(functions)
        /\ \A k \in 1 .. Len(functions) : functions[k].first \in Nat /\ 0 < functions[k].first
    BY <1>1, <1>3, FunctionsOfWhole
  <2>2. DOMAIN table = {}
    BY <1>1 DEF EmptyTable
  <2>3. Sorted(0)
    BY <2>2 DEF Sorted
  <2>4. Passed(0)
    BY <1>1, <2>1 DEF Passed
  <2>5. Program \subseteq Nat \ {0}
    <3>1. code \in Seq(Symbols)
      BY <1>1 DEF TypeOK, IsCode, Symbols
    <3> QED BY <3>1 DEF Program
  <2>6. {i \in Program : i < 1} = {}
    <3>1. \A i \in Nat \ {0} : ~(i < 1)
      OBVIOUS
    <3> QED BY <2>5, <3>1
  <2>7. Len(list) = 0
    BY <1>1
  <2>8. Copied(1)
    BY <2>6, <2>7, FS_EmptySet DEF Copied
  <2> QED BY <1>1, <2>1, <2>3, <2>4, <2>8 DEF Between
<1>4. ScanRead
  BY <1>1, <1>3 DEF ScanRead, Reading
<1> QED BY <1>2, <1>4

\* A step that changes nothing.
LEMMA ReadingStays ==
  ASSUME UNCHANGED vars
  PROVE  \A n : Reading(n)' <=> Reading(n)
<1>1. /\ UNCHANGED text /\ UNCHANGED list /\ UNCHANGED table
      /\ current' = current /\ at' = at /\ def' = def
  BY DEF vars
<1>2. \A n : Sorted(n)' <=> Sorted(n)
  BY <1>1, SortedStays
<1>3. \A b : Copied(b)' <=> Copied(b)
  BY <1>1, CopiedStays
<1>4. \A n : Between(n)' <=> Between(n)
  BY <1>1, <1>3, FileStays DEF Between, Passed
<1>5. \A f : InHead(f)' <=> InHead(f)
  <2>1. \A f, j : BehindParameter(f, j)' <=> BehindParameter(f, j)
    BY <1>1, FileStays DEF BehindParameter, HeadOf
  <2>2. \A f, j : InParameter(f, j)' <=> InParameter(f, j)
    BY <1>1, FileStays DEF InParameter, HeadOf
  <2> QED BY <1>1, <2>1, <2>2, FileStays DEF InHead, HeadOf
<1>6. \A f : InBody(f)' <=> InBody(f)
  BY <1>1, FileStays DEF InBody
<1>7. \A f : Inside(f)' <=> Inside(f)
  BY <1>3, <1>5, <1>6 DEF Inside
<1> QED BY <1>1, <1>2, <1>4, <1>7, FileStays DEF Reading

LEMMA StepRead ==
  ScanInv /\ ScanRead /\ Scanned /\ [Next]_vars => ScanRead' /\ Scanned'
<1> SUFFICES ASSUME ScanInv, ScanRead, Scanned, [Next]_vars PROVE ScanRead' /\ Scanned'
  OBVIOUS
<1>1. CASE UNCHANGED vars
  <2>1. UNCHANGED text /\ UNCHANGED <<list, at, global, status>>
    BY <1>1 DEF vars
  <2>2. Scanned'
    BY <2>1, FileStays, WholeStays DEF Scanned
  <2>3. ScanRead'
    BY <1>1, <2>1, ReadingStays, FileStays, WholeStays DEF ScanRead
  <2> QED BY <2>2, <2>3
<1>2. CASE Next
  <2>1. UNCHANGED text /\ status = "running" /\ TypeOK
    BY <1>2 DEF Next, ScanInv
  <2>2. (Whole' <=> Whole) /\ (Again' <=> Again) /\ functions' = functions
    BY <2>1, WholeStays, FileStays
  <2>3. CASE ~Whole
    BY <2>2, <2>3 DEF ScanRead, Scanned
  <2>4. CASE Whole
    <3>1. global = EmptyTable
      BY <2>1, <2>4 DEF ScanRead
    <3>2. PICK n \in 0 .. Len(functions) : Reading(n)
      BY <2>1, <2>4 DEF ScanRead
    <3>3. Len(functions) \in Nat
      BY <2>1, <2>4, FunctionsOfWhole
    <3>4. ASSUME status' = "running" PROVE Scanned'
      BY <3>4 DEF Scanned
    <3>5. ASSUME status' # "running" PROVE ScanRead'
      BY <3>5 DEF ScanRead
    <3>6. ASSUME NEW m \in 0 .. Len(functions), Reading(m)', UNCHANGED <<global, status>>
          PROVE  ScanRead' /\ Scanned'
      BY <2>1, <2>2, <3>1, <3>4, <3>6 DEF ScanRead
    <3>7. CASE Between(n)
      <4>1. \/ status' = "done" /\ Scanned'
            \/ Reading(n)' /\ UNCHANGED <<global, status>>
        BY <1>2, <2>4, <3>1, <3>2, <3>7, BetweenRead DEF Reading
      <4> QED BY <3>5, <3>6, <4>1
    <3>8. CASE n < Len(functions) /\ Inside(functions[n + 1])
      <4>1. n \in 0 .. Len(functions) - 1 /\ n + 1 \in 0 .. Len(functions)
        BY ONLY <3>3, <3>8, n \in 0 .. Len(functions)
      <4>2. \/ status' = "terminated" /\ at' = "already" /\ Again
            \/ (Reading(n)' \/ Reading(n + 1)') /\ UNCHANGED <<global, status>>
        BY <1>2, <2>4, <3>2, <3>8, <4>1, FunctionRead DEF Reading
      <4>3. CASE status' = "terminated" /\ at' = "already" /\ Again
        BY <2>2, <3>5, <4>3 DEF Scanned
      <4> QED BY <3>6, <4>1, <4>2, <4>3
    <3> QED BY <3>2, <3>7, <3>8 DEF Reading
  <2> QED BY <2>3, <2>4
<1> QED BY <1>1, <1>2

\* Without defaults the parameters in the table are those that are written.
LEMMA PushedOnce ==
  ASSUME NEW f \in Function, ~HasDefault(f) PROVE Pushes(f) = Len(f.ends)
<1>1. {j \in 1 .. Len(f.ends) : f.ends[j] # NamedAt(f, j)} = {}
  BY DEF HasDefault
<1>2. Len(f.ends) \in Nat
  BY DEF Function
<1>3. Cardinality({j \in 1 .. Len(f.ends) : f.ends[j] # NamedAt(f, j)}) = 0
  <2>1. Cardinality({}) = 0
    BY FS_EmptySet
  <2> QED BY <1>1, <2>1, Zenon
<1>4. Pushes(f) = Len(f.ends) + 0
  BY <1>3, Zenon DEF Pushes
<1> QED BY <1>2, <1>4

\* What the code does is what was written, where no plain declaration stands behind
\* a definition.
LEMMA WrittenIfScanned == Scanned => ScansAsWritten
<1> SUFFICES ASSUME Scanned, status # "running", Whole, ~Redeclared
             PROVE  \/ status = "terminated" /\ at = "already" /\ DefinedTwice
                    \/ /\ status = "done" /\ ~DefinedTwice
                       /\ Len(list) = Cardinality(Program) /\ \A i \in Program : list[Rank(i)] = code[i]
                       /\ DOMAIN global = {functions[k].name : k \in DOMAIN functions}
                       /\ \A k \in DOMAIN functions :
                            LET f == functions[k]
                            IN  /\ Defines(f) => global[f.name].body = BodyOf(f)
                                /\ (\A j \in 1 .. k - 1 : functions[j].name # f.name) /\ ~HasDefault(f)
                                     => global[f.name].params = Len(f.ends)
                                /\ (\A j \in DOMAIN functions : functions[j].name = f.name => ~Defines(functions[j]))
                                     => global[f.name].body = <<>>
  BY DEF ScansAsWritten
<1>1. Again <=> DefinedTwice
  BY DEF Again, DefinedTwice, Redeclared, Behind
<1>2. CASE status = "terminated" /\ at = "already" /\ Again
  BY <1>1, <1>2
<1>3. CASE /\ status = "done" /\ ~Again
           /\ Len(list) = Cardinality(Program) /\ \A i \in Program : list[Rank(i)] = code[i]
           /\ DOMAIN global = {functions[k].name : k \in DOMAIN functions}
           /\ \A k \in DOMAIN functions :
                LET f == functions[k]
                IN  /\ Defines(f) => global[f.name].body = BodyOf(f)
                    /\ (\A j \in 1 .. k - 1 : functions[j].name # f.name) => global[f.name].params = Pushes(f)
                    /\ (\A j \in DOMAIN functions : functions[j].name = f.name => ~Defines(functions[j]))
                         => global[f.name].body = <<>>
  <2>1. \A k \in DOMAIN functions : functions[k] \in Function
    BY DEF Whole
  <2>2. \A k \in DOMAIN functions : ~HasDefault(functions[k]) => Pushes(functions[k]) = Len(functions[k].ends)
    BY <2>1, PushedOnce
  <2> QED BY <1>1, <1>3, <2>2, Zenon
<1> QED BY <1>2, <1>3 DEF Scanned

\* Whatever the functions of a file and what stands between them, without a plain
\* declaration behind a definition: the scanner returns the program, and the global
\* table has every function with the body of its definition and, if no parameter has a
\* default, the parameters of its first declaration; it ends in an error exactly if a
\* function is defined twice.
THEOREM FileScanned == Spec => []ScansAsWritten
<1> QED BY InitScanned, StepScanned, InitRead, StepRead, WrittenIfScanned, PTL DEF Spec
==============================================================================
