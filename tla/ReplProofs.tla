----------------------------- MODULE ReplProofs -----------------------------
(***************************************************************************)
(* The walk along super types ends, for every list of builtin types, every *)
(* number of ids and whatever classes users declare; the lexer of the REPL *)
(* reads the new line only; and errors are shown with their line, or drop  *)
(* one other at most; and values are printed while ids are unique.         *)
(*                                                                         *)
(* SupersDescend is about ids, which wrap around.  The invariant is about  *)
(* the table: the builtin types stay at its start, an entry among the      *)
(* first IdCount has its index as its id and a super type with a smaller   *)
(* one.  Entries behind have ids of earlier ones, which get_super_type     *)
(* finds first.                                                            *)
(***************************************************************************)
EXTENDS Repl, WellFoundedInduction, TLAPS

BuiltinKept(t) ==
  /\ Len(Builtin) <= Len(t)
  /\ \A i \in 1 .. Len(Builtin) : t[i].name = Builtin[i].name

EntryOK(t, i) ==
  /\ t[i].id = i - 1
  /\ t[i].parent \in Nat
  /\ i > 1 => t[i].parent < i - 1

IdsOK(t) == \A i \in 1 .. Len(t) : i <= IdCount => EntryOK(t, i)

TableInv == table \in Seq(Entry) /\ BuiltinKept(table) /\ IdsOK(table)

-----------------------------------------------------------------------------
(* Lookups.                                                                *)

\* A loop that finds anything finds the first of it.
LEMMA FirstIsLeast ==
  ASSUME NEW I, I \subseteq Nat, I # {}
  PROVE  First(I) \in I /\ \A j \in I : First(I) <= j
<1>1. PICK i \in I : \A j \in I : ~(<<j, i>> \in OpToRel(<, Nat))
  BY NatLessThanWellFounded, WFMin
<1>2. \A j \in I : ~(j < i)
  BY <1>1 DEF OpToRel
<1>3. \A j \in I : i <= j
  BY <1>2
<1> QED BY <1>3 DEF First

\* get_type_id returns the id of the first entry with the name.
LEMMA FirstNamed ==
  ASSUME NEW t \in Seq(Entry), NEW name, NEW n \in 1 .. Len(t), t[n].name = name
  PROVE  \E i \in 1 .. n : t[i].name = name /\ IdIn(t, name) = t[i].id
<1> DEFINE Named == {i \in DOMAIN t : t[i].name = name}
<1>1. Named \subseteq Nat /\ n \in Named
  OBVIOUS
<1>2. First(Named) \in Named /\ First(Named) <= n
  BY <1>1, FirstIsLeast
<1>3. First(Named) \in 1 .. n
  BY <1>1, <1>2
<1>4. IdIn(t, name) = t[First(Named)].id
  BY <1>1 DEF IdIn
<1> QED BY <1>2, <1>3, <1>4

\* A builtin name has an id below the number of builtin types, "type" has 0.
LEMMA BuiltinIds ==
  ASSUME NEW t \in Seq(Entry), BuiltinKept(t), IdsOK(t)
  PROVE  /\ IdIn(t, "type") = 0
         /\ IdIn(t, "object") \in 0 .. Len(Builtin) - 1
<1>1. /\ Builtin \in Seq([name : Name, super : Name])
      /\ Len(Builtin) \in 1 .. IdCount /\ IdCount \in Nat
      /\ Builtin[1].name = "type"
  BY BuiltinAssumption
<1>2. /\ Len(Builtin) \in Nat /\ Len(t) \in Nat
      /\ \A i \in 1 .. Len(Builtin) : i \in 1 .. Len(t) /\ t[i].name = Builtin[i].name
                                      /\ t[i].id = i - 1
  BY <1>1 DEF BuiltinKept, IdsOK, EntryOK
<1>3. IdIn(t, "type") = 0
  <2>1. PICK i \in 1 .. 1 : IdIn(t, "type") = t[i].id
    BY <1>1, <1>2, FirstNamed
  <2> QED BY <1>1, <1>2, <2>1
<1>4. IdIn(t, "object") \in 0 .. Len(Builtin) - 1
  <2>1. PICK n \in 1 .. Len(Builtin) : Builtin[n].name = "object"
    BY <1>1, BuiltinAssumption
  <2>2. n \in 1 .. Len(t) /\ t[n].name = "object"
    BY <1>2, <2>1
  <2>3. PICK i \in 1 .. n : IdIn(t, "object") = t[i].id
    BY <2>2, FirstNamed
  <2>4. i \in 1 .. Len(Builtin) /\ t[i].id = i - 1
    BY <1>2, <2>1, <2>3
  <2> QED BY <1>2, <2>3, <2>4
<1> QED BY <1>3, <1>4

\* get_super_type: an id that is in use below IdCount is found at its place.
LEMMA SuperBelow ==
  ASSUME TableInv, NEW id \in 1 .. IdCount - 1
  PROVE  SuperOf(id) \in Nat /\ SuperOf(id) < id
<1>1. IdCount \in Nat /\ Len(table) \in Nat /\ DOMAIN table = 1 .. Len(table)
  BY BuiltinAssumption DEF TableInv
<1>2. \A i \in 1 .. Len(table) : i <= IdCount => EntryOK(table, i)
  BY DEF TableInv, IdsOK
<1>3. CASE id < Len(table)
  <2>1. id + 1 \in 1 .. Len(table) /\ id + 1 <= IdCount /\ EntryOK(table, id + 1)
    BY <1>1, <1>2, <1>3
  <2>2. WithId(id) \subseteq Nat /\ id + 1 \in WithId(id)
    BY <1>1, <2>1 DEF EntryOK, WithId
  <2>3. \A j \in 1 .. id : j \notin WithId(id)
    BY <1>1, <1>2, <1>3 DEF EntryOK, WithId
  <2>4. First(WithId(id)) \in WithId(id) /\ First(WithId(id)) <= id + 1
    BY <2>2, FirstIsLeast
  <2>5. First(WithId(id)) \in 1 .. Len(table)
    BY <1>1, <2>4 DEF WithId
  <2>6. First(WithId(id)) = id + 1
    BY <1>1, <2>3, <2>4, <2>5
  <2>7. SuperOf(id) = table[id + 1].parent
    BY <2>2, <2>6 DEF SuperOf
  <2> QED BY <2>1, <2>7 DEF EntryOK
<1>4. CASE ~(id < Len(table))
  <2>1. WithId(id) = {}
    BY <1>1, <1>2, <1>4 DEF EntryOK, WithId
  <2> QED BY <1>1, <2>1 DEF SuperOf
<1> QED BY <1>3, <1>4

\* No walk towards "object" passes a set of ids for ever: it would have a least one.
LEMMA WalkEnds ==
  ASSUME TableInv, NEW id
  PROVE  ~Endless(id, TypeId("object"))
<1>1. TypeId("type") = 0
  BY BuiltinIds DEF TableInv, TypeId
<1> SUFFICES ASSUME NEW S \in SUBSET Id, Passed(S, id, TypeId("object")),
                    S \cap {TypeId("object"), TypeId("type")} = {}
             PROVE  FALSE
  BY DEF Endless
<1>2. S \subseteq Nat /\ S # {}
  BY BuiltinAssumption DEF Id, Passed
<1>3. PICK m \in S : \A i \in S : m <= i
  BY <1>2, FirstIsLeast
<1>4. m \in 1 .. IdCount - 1
  BY <1>1, BuiltinAssumption DEF Id
<1>5. SuperOf(m) \in S
  BY <1>3 DEF Passed
<1>6. SuperOf(m) \in Nat /\ SuperOf(m) < m
  BY <1>4, SuperBelow
<1> QED BY <1>2, <1>3, <1>5, <1>6

-----------------------------------------------------------------------------
(* The table.                                                              *)

\* add_builtin_types
LEMMA BuiltinTableInv ==
  /\ BuiltinTable \in Seq(Entry) /\ BuiltinKept(BuiltinTable) /\ IdsOK(BuiltinTable)
<1> DEFINE n == Len(Builtin)
           Super(i) == First({j \in 1 .. i - 1 : Builtin[j].name = Builtin[i].super})
<1>1. /\ Builtin \in Seq([name : Name, super : Name]) /\ n \in Nat
      /\ DOMAIN Builtin = 1 .. n
      /\ \A i \in 2 .. n : \E j \in 1 .. i - 1 : Builtin[j].name = Builtin[i].super
  BY BuiltinAssumption
<1>2. ASSUME NEW i \in 2 .. n
      PROVE  Super(i) \in 1 .. i - 1
  <2> DEFINE Supers == {j \in 1 .. i - 1 : Builtin[j].name = Builtin[i].super}
  <2>1. Supers \subseteq Nat /\ Supers # {}
    BY <1>1
  <2>2. Super(i) \in Supers
    BY <2>1, FirstIsLeast
  <2> QED BY <2>2
<1> HIDE DEF Super
<1>3. /\ DOMAIN BuiltinTable = 1 .. n
      /\ \A i \in 1 .. n : BuiltinTable[i] = [name |-> Builtin[i].name, id |-> i - 1,
                                              parent |-> IF i = 1 THEN 0 ELSE Super(i) - 1]
  BY <1>1 DEF BuiltinTable, Super
<1>4. ASSUME NEW i \in 1 .. n
      PROVE  BuiltinTable[i] \in Entry
  <2> DEFINE Described == [name : Name, super : Name]
  <2>0. Builtin \in Seq(Described) /\ n \in Nat
    BY <1>1
  <2>1. Builtin[i].name \in Name /\ i - 1 \in Nat
    <3> HIDE DEF Described
    <3>1. Builtin[i] \in Described
      BY <2>0
    <3> QED BY <3>1 DEF Described
  <2>2. (IF i = 1 THEN 0 ELSE Super(i) - 1) \in Nat
    BY <1>1, <1>2
  <2> QED BY <1>3, <2>1, <2>2 DEF Entry
<1>5. BuiltinTable \in Seq(Entry) /\ Len(BuiltinTable) = n
  <2>1. BuiltinTable = [i \in 1 .. n |-> BuiltinTable[i]]
    BY <1>3 DEF BuiltinTable
  <2>2. BuiltinTable \in [1 .. n -> Entry]
    BY <1>4, <2>1
  <2> QED BY <1>1, <2>2
<1>6. BuiltinKept(BuiltinTable)
  BY <1>1, <1>3, <1>5 DEF BuiltinKept
<1>7. IdsOK(BuiltinTable)
  BY <1>1, <1>2, <1>3, <1>5 DEF IdsOK, EntryOK
<1> QED BY <1>5, <1>6, <1>7

\* register_type for the class of a declaration.
LEMMA RegisterInv ==
  ASSUME TableInv, NEW name \in Name, Register(name, TypeId("object"))
  PROVE  TableInv'
<1> DEFINE e == [name |-> name, id |-> Len(table) % IdCount, parent |-> TypeId("object")]
<1>1. /\ table \in Seq(Entry) /\ Len(table) \in Nat /\ IdCount \in Nat /\ IdCount > 0
      /\ Len(Builtin) \in 1 .. IdCount /\ Len(Builtin) <= Len(table)
  BY BuiltinAssumption DEF TableInv, BuiltinKept
<1>2. TypeId("object") \in 0 .. Len(Builtin) - 1
  BY BuiltinIds DEF TableInv, TypeId
<1>3. Len(table) % IdCount \in Nat /\ (Len(table) < IdCount => Len(table) % IdCount = Len(table))
  BY <1>1
<1>4. e \in Entry
  BY <1>1, <1>2, <1>3 DEF Entry
<1>5. table' = Append(table, e)
  BY DEF Register
<1> HIDE DEF e
<1>6. /\ table' \in Seq(Entry) /\ Len(table') = Len(table) + 1
      /\ \A i \in 1 .. Len(table) : table'[i] = table[i]
      /\ table'[Len(table) + 1] = e
  BY <1>1, <1>4, <1>5
<1>7. BuiltinKept(table')
  BY <1>1, <1>6 DEF TableInv, BuiltinKept
<1>8. IdsOK(table')
  <2>1. ASSUME NEW i \in 1 .. Len(table'), i <= IdCount
        PROVE  EntryOK(table', i)
    <3>1. CASE i <= Len(table)
      BY <1>1, <1>6, <2>1, <3>1 DEF TableInv, IdsOK, EntryOK
    <3>2. CASE i = Len(table) + 1
      <4>1. e.id = Len(table) /\ e.parent \in Nat /\ e.parent < Len(table)
        BY <1>1, <1>2, <1>3, <2>1, <3>2 DEF e
      <4> QED BY <1>1, <1>6, <3>2, <4>1 DEF EntryOK
    <3> QED BY <1>1, <1>6, <3>1, <3>2
  <2> QED BY <2>1 DEF IdsOK
<1> QED BY <1>6, <1>7, <1>8 DEF TableInv

-----------------------------------------------------------------------------
(* The REPL.                                                               *)

ReplInv == builtin => TableInv /\ at # "hung"

\* No step of the REPL harms the table, and none hangs.
LEMMA ReplInvStep ==
  ASSUME ReplInv, Next
  PROVE  ReplInv'
<1>1. builtin' = builtin
  BY DEF Next, ReadLine, AddLine, Scan, ScanLost, Report, Unread, ParseExpression, Fail, RegisterClass,
         ParseStatement, Execute, Prompt, Evaluate, Hang
<1> SUFFICES ASSUME builtin PROVE TableInv' /\ at' # "hung"
  BY <1>1 DEF ReplInv
<1>2. TableInv
  BY DEF ReplInv
<1>3. CASE UNCHANGED table /\ at' \in Point \ {"hung"}
  BY <1>2, <1>3 DEF TableInv, BuiltinKept, IdsOK, EntryOK
<1>4. ASSUME NEW kind \in Kind, ReadLine(kind) PROVE UNCHANGED table /\ at' \in Point \ {"hung"}
  BY <1>4 DEF ReadLine, AddLine, GoTo, Point
<1>5. CASE Scan
  BY <1>3, <1>5 DEF Scan, Report, Unread, GoTo, Point
<1>6. CASE ParseExpression
  BY <1>3, <1>6 DEF ParseExpression, GoTo, Point
<1>7. CASE Fail
  BY <1>3, <1>7 DEF Fail, GoTo, Point
<1>8. CASE ParseStatement
  BY <1>3, <1>8 DEF ParseStatement, GoTo, Point
<1>9. CASE Execute
  BY <1>3, <1>9 DEF Execute, GoTo, Point
<1>10. CASE Prompt
  BY <1>3, <1>10 DEF Prompt, GoTo, Point
<1>11. ASSUME NEW type, Evaluate(type) PROVE UNCHANGED table /\ at' \in Point \ {"hung"}
  BY <1>11 DEF Evaluate, GoTo, Point
<1>12. ASSUME NEW type PROVE ~Hang(type)
  BY <1>2, WalkEnds DEF Hang
<1>13. CASE ScanLost
  BY <1>3, <1>13 DEF ScanLost, GoTo, Point
<1>14. ASSUME NEW name \in ClassName, RegisterClass(name) PROVE TableInv' /\ at' # "hung"
  BY <1>2, <1>14, RegisterInv, ClassAssumption DEF RegisterClass
<1> QED BY <1>3, <1>4, <1>5, <1>6, <1>7, <1>8, <1>9, <1>10, <1>11, <1>12, <1>13, <1>14 DEF Next

\* The table is in order from the start on.
LEMMA ReplInvAlways == Spec => []ReplInv
<1>1. Init => ReplInv
  BY BuiltinTableInv DEF Init, ReplInv, TableInv
<1>2. ReplInv /\ UNCHANGED vars => ReplInv'
  BY DEF ReplInv, TableInv, BuiltinKept, IdsOK, EntryOK, vars
<1> QED BY <1>1, <1>2, ReplInvStep, PTL DEF Spec

\* Super types descend to "type", and no access hangs once the builtin types are
\* registered.
THEOREM TypesDescend == Spec => []SupersDescend
<1>1. ReplInv => SupersDescend
  BY BuiltinIds, SuperBelow DEF ReplInv, SupersDescend, TableInv, TypeId
<1> QED BY <1>1, ReplInvAlways, PTL

-----------------------------------------------------------------------------
(* The lines.                                                              *)

Line == [line : Nat, kind : Kind]

\* Between two lines, the lexer has read all of them.  For a line it does not return
\* from, the counter no longer matters.
LineInv ==
  /\ count \in Nat
  /\ source \in Seq(Line)
  /\ at \in {"scan", "lost"} => /\ Len(source) > 0 /\ curr_line = Len(source) - 1
                               /\ source[Len(source)].line = count
  /\ at \notin {"scan", "lost"} => curr_line = Len(source)

\* Every step of the REPL keeps the line counter in order.
LEMMA LineInvStep ==
  ASSUME LineInv, Next
  PROVE  LineInv'
<1>1. count \in Nat /\ source \in Seq(Line) /\ Len(source) \in Nat
  BY DEF LineInv
<1>2. CASE UNCHANGED <<count, source, curr_line>> /\ {at, at'} \cap {"scan", "lost"} = {}
  BY <1>2 DEF LineInv
<1>3. ASSUME NEW kind \in Kind, ReadLine(kind)
      PROVE  LineInv'
  <2> DEFINE l == [line |-> count + 1, kind |-> kind]
  <2>1. /\ count' = count + 1 /\ source' = Append(source, l) /\ at = "prompt" /\ at' = "scan"
        /\ curr_line' = curr_line /\ curr_line = Len(source)
    BY <1>3 DEF ReadLine, AddLine, GoTo, LineInv
  <2>2. l \in Line
    BY <1>1 DEF Line
  <2> HIDE DEF l
  <2>3. /\ source' \in Seq(Line)
        /\ Len(source') = Len(source) + 1 /\ source'[Len(source) + 1] = l
    BY <1>1, <2>1, <2>2
  <2>4. l.line = count + 1
    BY DEF l
  <2> QED BY <1>1, <2>1, <2>3, <2>4 DEF LineInv
<1>4. CASE Scan
  BY <1>4 DEF Scan, Report, Unread, GoTo, LineInv
<1>5. CASE ParseExpression
  BY <1>2, <1>5 DEF ParseExpression, GoTo
<1>6. CASE Fail
  BY <1>2, <1>6 DEF Fail, GoTo
<1>7. CASE ParseStatement
  BY <1>2, <1>7 DEF ParseStatement, GoTo
<1>8. CASE Execute
  BY <1>2, <1>8 DEF Execute, GoTo
<1>9. CASE Prompt
  BY <1>1, <1>9 DEF Prompt, Clear, GoTo, LineInv
<1>10. ASSUME NEW type, Evaluate(type) \/ Hang(type)
       PROVE  UNCHANGED <<count, source, curr_line>> /\ {at, at'} \cap {"scan", "lost"} = {}
  BY <1>10 DEF Evaluate, Hang, GoTo
<1>11. ASSUME NEW name, RegisterClass(name)
       PROVE  UNCHANGED <<count, source, curr_line>> /\ {at, at'} \cap {"scan", "lost"} = {}
  BY <1>11 DEF RegisterClass
<1>12. CASE ScanLost
  BY <1>12 DEF ScanLost, GoTo, LineInv
<1> QED BY <1>2, <1>3, <1>4, <1>5, <1>6, <1>7, <1>8, <1>9, <1>10, <1>11, <1>12 DEF Next

\* There are no lines at first.
LEMMA InitialLine == Init => LineInv
<1>1. <<>> \in Seq(Line) /\ Len(<<>>) = 0
  OBVIOUS
<1>2. Init => at = "prompt" /\ source = <<>> /\ curr_line = 0 /\ count = 0
  BY DEF Init
<1> QED BY <1>1, <1>2 DEF LineInv

\* The lexer of the REPL gets the line that was typed, and never reads behind it.
THEOREM NewLineRead == Spec => []NewLineOnly
<1>1. Init => LineInv
  BY InitialLine
<1>2. LineInv /\ UNCHANGED vars => LineInv'
  BY DEF LineInv, vars
<1>3. LineInv => NewLineOnly
  BY DEF LineInv, NewLineOnly
<1> QED BY <1>1, <1>2, <1>3, LineInvStep, PTL DEF Spec

-----------------------------------------------------------------------------
(* The errors.                                                             *)

\* The line before the last has come with an error that is not reported yet.
Stale(last) == last > 0 /\ source[last].kind = "branch"

\* What the list of errors holds where run() is.  Errors outlive their line
\* behind a value only, which leaves the line in the source.
ErrorInv ==
  LET n == Len(source)
  IN  /\ n > 0 => source[n].line = count
      /\ at \in Point
      /\ at \notin {"prompt", "scan"} => n > 0
      /\ at = "prompt" => errors = {} \/ (errors = {count} /\ Stale(n))
      /\ at \in {"scan", "lost"} => errors = {} \/ (errors = {count - 1} /\ Stale(n - 1))
      /\ at = "dropped" => \/ source[n].kind = "bad" /\ (n > 1 \/ errors = {count})
                           \/ errors = {count - 1} /\ Stale(n - 1)
      /\ at \in {"expression", "statement", "execute"} => errors = {}
      /\ at = "evaluate" => errors = {} \/ (errors = {count} /\ Stale(n))
      /\ at \in {"end", "hung"} => errors \subseteq {count}

\* Every step of the REPL keeps the errors where ErrorInv says.
LEMMA ErrorInvStep ==
  ASSUME LineInv, ErrorInv, Next
  PROVE  ErrorInv'
<1> DEFINE n == Len(source)
<1>1. count \in Nat /\ source \in Seq(Line) /\ n \in Nat
  BY DEF LineInv
<1>2. ASSUME NEW kind \in Kind, ReadLine(kind)
      PROVE  ErrorInv'
  <2> DEFINE l == [line |-> count + 1, kind |-> kind]
  <2>1. /\ count' = count + 1 /\ source' = Append(source, l) /\ at = "prompt" /\ at' = "scan"
        /\ errors' = errors
    BY <1>2 DEF ReadLine, AddLine, GoTo
  <2>2. l \in Line /\ l.line = count + 1
    BY <1>1 DEF Line
  <2> HIDE DEF l
  <2>3. /\ Len(source') = n + 1 /\ source'[n + 1] = l
        /\ \A i \in 1 .. n : source'[i] = source[i]
    BY <1>1, <2>1, <2>2
  <2>4. errors' = {} \/ (errors' = {count' - 1} /\ n > 0 /\ source'[n].kind = "branch")
    BY <1>1, <2>1, <2>3 DEF ErrorInv, Point, Stale
  <2>5. n + 1 > 0 /\ source'[n + 1].line = count' /\ Len(source') - 1 = n
    BY <1>1, <2>1, <2>2, <2>3
  <2> QED BY <1>1, <2>1, <2>3, <2>4, <2>5 DEF ErrorInv, Point, Stale
<1>3. CASE Scan
  <2> DEFINE New == {source[i].line : i \in {j \in curr_line + 1 .. n :
                                              source[j].kind = "bad"}}
  <2>1. /\ at = "scan" /\ UNCHANGED <<count, source>> /\ errors' = errors \cup New
        /\ at' = IF errors' # {} THEN "dropped" ELSE "expression"
    BY <1>3 DEF Scan, Report, Unread, GoTo
  <2>2. n > 0 /\ curr_line = n - 1 /\ source[n].line = count
    BY <2>1 DEF LineInv
  <2>3. New = IF source[n].kind = "bad" THEN {count} ELSE {}
    BY <1>1, <2>2
  <2> HIDE DEF New
  <2>4. errors = {} \/ (errors = {count - 1} /\ Stale(n - 1))
    BY <2>1 DEF ErrorInv, Point
  <2>5. Stale(n - 1) => n > 1
    BY <1>1 DEF Stale
  <2>6. Stale(n - 1)' = Stale(n - 1)
    BY <2>1 DEF Stale
  <2>7. CASE source[n].kind = "bad"
    BY <1>1, <2>1, <2>2, <2>3, <2>4, <2>5, <2>7 DEF ErrorInv, Point
  <2>8. CASE source[n].kind # "bad"
    BY <1>1, <2>1, <2>2, <2>3, <2>4, <2>6, <2>8 DEF ErrorInv, Point
  <2> QED BY <2>7, <2>8
<1>4. CASE ParseExpression
  <2>1. UNCHANGED <<count, source>> /\ at = "expression" /\ errors = {} /\ n > 0
    BY <1>4 DEF ParseExpression, ErrorInv, Point
  <2>2. \/ at' = "evaluate" /\ errors' = {}
        \/ at' = "evaluate" /\ errors' = {count} /\ Stale(n)
        \/ at' = "statement" /\ errors' = {}
    BY <1>4, <2>1 DEF ParseExpression, GoTo, Is, Stale
  <2>3. CASE at' = "statement"
    BY <2>1, <2>2, <2>3 DEF ErrorInv, Point
  <2>4. CASE at' = "evaluate"
    <3>1. Len(source') = n /\ source[n].line = count /\ at' \in Point
      BY <2>1, <2>4 DEF ErrorInv, Point
    <3>2. errors' = {} \/ (errors' = {count} /\ Stale(n)')
      BY <2>1, <2>2, <2>4 DEF Stale
    <3> QED BY <2>1, <2>4, <3>1, <3>2 DEF ErrorInv
  <2> QED BY <2>2, <2>3, <2>4
<1>5. CASE Fail
  BY <1>5 DEF Fail, GoTo, ErrorInv, Point
<1>6. CASE ParseStatement
  <2>1. UNCHANGED <<count, source>> /\ at = "statement" /\ errors = {} /\ n > 0
    BY <1>6 DEF ParseStatement, ErrorInv, Point
  <2>2. \/ at' = "execute" /\ errors' = {}
        \/ at' = "end" /\ errors' = {count}
    BY <1>6, <2>1 DEF ParseStatement, GoTo
  <2> QED BY <2>1, <2>2 DEF ErrorInv, Point
<1>7. CASE Execute
  BY <1>7 DEF Execute, GoTo, ErrorInv, Point
<1>8. CASE Prompt
  <2>1. source' = <<>> /\ errors' = {} /\ at' = "prompt" /\ Len(source') = 0
    BY <1>8 DEF Prompt, Clear, GoTo
  <2> QED BY <2>1 DEF ErrorInv, Point
<1>9. ASSUME NEW type, Evaluate(type) \/ Hang(type)
      PROVE  ErrorInv'
  <2>1. /\ UNCHANGED <<count, source, errors>> /\ at = "evaluate"
        /\ at' \in {"prompt", "end", "hung"}
    BY <1>9 DEF Evaluate, Hang, GoTo
  <2> QED BY <2>1 DEF ErrorInv, Point, Stale
<1>10. CASE ScanLost
  <2>1. UNCHANGED <<count, source, errors>> /\ at = "scan" /\ at' = "lost"
    BY <1>10 DEF ScanLost, GoTo
  <2>2. n > 0 /\ source[n].line = count
    BY <2>1 DEF LineInv
  <2>3. errors = {} \/ (errors = {count - 1} /\ Stale(n - 1))
    BY <2>1 DEF ErrorInv, Point
  <2>4. Stale(n - 1)' = Stale(n - 1)
    BY <2>1 DEF Stale
  <2> QED BY <2>1, <2>2, <2>3, <2>4 DEF ErrorInv, Point
<1>11. ASSUME NEW name, RegisterClass(name)
       PROVE  ErrorInv'
  <2>1. UNCHANGED <<at, count, source, errors>> /\ at = "statement"
    BY <1>11 DEF RegisterClass
  <2> QED BY <2>1 DEF ErrorInv, Point
<1> QED BY <1>2, <1>3, <1>4, <1>5, <1>6, <1>7, <1>8, <1>9, <1>10, <1>11 DEF Next

\* The line counter and the errors are in order from the start on.
LEMMA ErrorInvAlways == Spec => [](LineInv /\ ErrorInv)
<1>1. Init => LineInv
  BY InitialLine
<1>2. Init => ErrorInv
  <2>1. Len(<<>>) = 0
    OBVIOUS
  <2>2. Init => at = "prompt" /\ source = <<>> /\ errors = {}
    BY DEF Init
  <2> QED BY <2>1, <2>2 DEF ErrorInv, Point
<1>3. LineInv /\ ErrorInv /\ UNCHANGED vars => (LineInv /\ ErrorInv)'
  BY DEF LineInv, ErrorInv, Point, Stale, vars
<1> QED BY <1>1, <1>2, <1>3, LineInvStep, ErrorInvStep, PTL DEF Spec

\* Reports show the line at fault unless lines have piled up.
THEOREM FaultShown == Spec => []OwnLineShown
<1>1. LineInv /\ ErrorInv => OwnLineShown
  <2> SUFFICES ASSUME LineInv, ErrorInv, Len(source) = 1
               PROVE  errors \subseteq {source[1].line}
    BY DEF OwnLineShown
  <2>1. source[1].line = count /\ ~Stale(Len(source) - 1)
    BY DEF ErrorInv, Point, Stale
  <2>2. at \in Point
    BY DEF ErrorInv, Point
  <2> QED BY <2>1, <2>2 DEF ErrorInv, Point
<1> QED BY <1>1, ErrorInvAlways, PTL

\* A line is dropped unread only behind a value that came with an error.
THEOREM LineDropped == Spec => []DroppedOnce
<1>1. LineInv /\ ErrorInv => DroppedOnce
  BY DEF LineInv, ErrorInv, Point, Stale, DroppedOnce, Is
<1> QED BY <1>1, ErrorInvAlways, PTL

-----------------------------------------------------------------------------
(* The values.                                                             *)

\* While every entry has an id of its own, only "error" has the id of "error".
LEMMA ErrorIsItself ==
  ASSUME TableInv, Len(table) <= IdCount, NEW name, name # "error"
  PROVE  TypeId(name) # TypeId("error")
<1>1. /\ table \in Seq(Entry) /\ Len(table) \in Nat /\ IdCount \in Nat
      /\ Len(Builtin) \in 1 .. IdCount /\ Len(Builtin) <= Len(table)
      /\ \A i \in 1 .. Len(table) : table[i].id = i - 1
      /\ \A i \in 1 .. Len(Builtin) : table[i].name = Builtin[i].name
  BY BuiltinAssumption DEF TableInv, BuiltinKept, IdsOK, EntryOK
<1>2. PICK n \in 1 .. Len(Builtin) : Builtin[n].name = "error"
  BY BuiltinAssumption
<1>3. n \in 1 .. Len(table) /\ table[n].name = "error"
  BY <1>1, <1>2
<1>4. PICK e \in 1 .. n : table[e].name = "error" /\ TypeId("error") = table[e].id
  BY <1>1, <1>3, FirstNamed DEF TypeId
<1>5. e \in 1 .. Len(table) /\ TypeId("error") = e - 1
  <2>1. e \in 1 .. Len(table)
    BY <1>1, <1>3
  <2>2. table[e].id = e - 1
    BY <1>1, <2>1
  <2> QED BY <1>4, <2>1, <2>2
<1>6. e # 1
  <2>1. table[1].name = "type"
    BY <1>1, BuiltinAssumption
  <2>2. "type" # "error"
    OBVIOUS
  <2> QED BY <1>4, <2>1, <2>2
<1>7. CASE \E i \in 1 .. Len(table) : table[i].name = name
  <2>1. PICK m \in 1 .. Len(table) : table[m].name = name
    BY <1>7
  <2>2. PICK i \in 1 .. m : table[i].name = name /\ TypeId(name) = table[i].id
    BY <1>1, <2>1, FirstNamed DEF TypeId
  <2>3. i # e
    BY <1>4, <2>2
  <2>4. i \in 1 .. Len(table) /\ TypeId(name) = i - 1
    BY <1>1, <2>2
  <2> QED BY <1>5, <2>3, <2>4
<1>8. CASE ~ \E i \in 1 .. Len(table) : table[i].name = name
  <2>1. TypeId(name) = 0
    BY <1>1, <1>8 DEF TypeId, IdIn
  <2> QED BY <1>5, <1>6, <2>1
<1> QED BY <1>7, <1>8

\* A value is kept until the next line is read, and the table while there is a
\* value that was printed.
LEMMA NothingSwallowedStep ==
  ASSUME ReplInv, NothingSwallowed, Next
  PROVE  NothingSwallowed'
<1>1. builtin' = builtin
  BY DEF Next, ReadLine, AddLine, Scan, ScanLost, Report, Unread, ParseExpression, Fail, RegisterClass,
         ParseStatement, Execute, Prompt, Evaluate, Hang
<1> SUFFICES ASSUME builtin PROVE NothingSwallowed'
  BY <1>1 DEF NothingSwallowed
<1>2. CASE UNCHANGED <<table, value>> /\ at # "prompt"
  BY <1>1, <1>2 DEF NothingSwallowed
<1>3. ASSUME NEW kind \in Kind, ReadLine(kind)
      PROVE  NothingSwallowed'
  BY <1>3 DEF ReadLine, NothingSwallowed
<1>4. CASE Scan
  BY <1>2, <1>4 DEF Scan
<1>5. CASE ParseExpression
  BY <1>2, <1>5 DEF ParseExpression
<1>6. CASE Fail
  BY <1>2, <1>6 DEF Fail
<1>7. CASE ParseStatement
  BY <1>2, <1>7 DEF ParseStatement
<1>8. CASE Execute
  BY <1>2, <1>8 DEF Execute
<1>9. CASE Prompt
  BY <1>9 DEF Prompt, GoTo, NothingSwallowed
<1>10. ASSUME NEW type, Evaluate(type)
       PROVE  NothingSwallowed'
  <2>1. /\ value' = type /\ UNCHANGED <<builtin, table>>
        /\ at' = IF TypeId(type) # TypeId("error") THEN "prompt" ELSE "end"
    BY <1>10 DEF Evaluate, GoTo
  <2>2. builtin /\ Len(table) <= IdCount /\ type # "error" => TypeId(type) # TypeId("error")
    BY ErrorIsItself DEF ReplInv
  <2> QED BY <2>1, <2>2 DEF NothingSwallowed
<1>11. ASSUME NEW type, Hang(type)
       PROVE  NothingSwallowed'
  BY <1>2, <1>11 DEF Hang
<1>12. CASE ScanLost
  BY <1>2, <1>12 DEF ScanLost
<1>13. ASSUME NEW name, RegisterClass(name)
       PROVE  NothingSwallowed'
  <2> DEFINE e == [name |-> name, id |-> Len(table) % IdCount, parent |-> TypeId("object")]
  <2>1. at = "statement" /\ UNCHANGED <<at, value>> /\ table' = Append(table, e)
    BY <1>13 DEF RegisterClass, Register
  <2> HIDE DEF e
  <2>2. Len(table') = Len(table) + 1 /\ Len(table) \in Nat /\ IdCount \in Nat
    BY <2>1, BuiltinAssumption DEF ReplInv, TableInv
  <2>3. Len(table') <= IdCount => Len(table) <= IdCount
    BY <2>2
  <2> QED BY <2>1, <2>3 DEF NothingSwallowed
<1> QED BY <1>3, <1>4, <1>5, <1>6, <1>7, <1>8, <1>9, <1>10, <1>11, <1>12, <1>13 DEF Next

\* With fewer types than ids, every value is printed whose class is not named "error".
THEOREM ValuesPrinted == Spec => []NothingSwallowed
<1>1. Init => NothingSwallowed
  BY DEF Init, NothingSwallowed
<1>2. NothingSwallowed /\ UNCHANGED vars => NothingSwallowed'
  BY DEF NothingSwallowed, vars
<1> QED BY <1>1, <1>2, NothingSwallowedStep, ReplInvAlways, PTL DEF Spec

-----------------------------------------------------------------------------
(* The types.                                                              *)

\* TypeOK, with the numbers of the lines apart.
Numbered == \A i \in 1 .. Len(source) : source[i].line \in 1 .. count
Counted  == curr_line \in 0 .. Len(source) /\ errors \subseteq 1 .. count
Valued   == builtin \in BOOLEAN /\ value \in {""} \cup Name

CountInv == Numbered /\ Counted /\ Valued /\ table \in Seq(Entry)

\* The parts of TypeOK make TypeOK.
LEMMA CountTyped ==
  ASSUME LineInv, ErrorInv, CountInv
  PROVE  TypeOK
<1> DEFINE T == [line : 1 .. count, kind : Kind]
<1>1. source \in Seq(Line) /\ Len(source) \in Nat /\ count \in Nat
  BY DEF LineInv
<1>2. ASSUME NEW i \in 1 .. Len(source)
      PROVE  source[i] \in T
  <2> DEFINE l == source[i]
  <2>1. l \in Line
    BY <1>1
  <2>2. l.line \in 1 .. count
    BY DEF CountInv, Numbered
  <2> HIDE DEF l
  <2>3. l \in T
    BY <2>1, <2>2 DEF Line
  <2> QED BY <2>3 DEF l
<1> HIDE DEF T
<1>3. source \in [1 .. Len(source) -> T]
  BY <1>1, <1>2
<1>4. source \in Seq(T)
  BY <1>1, <1>3
<1>5. at \in Point
  BY DEF ErrorInv
<1>6. Counted /\ Valued /\ table \in Seq(Entry)
  BY DEF CountInv
<1>7. source \in Seq([line : 1 .. count, kind : Kind])
  BY <1>4 DEF T
<1> QED BY <1>1, <1>5, <1>6, <1>7, Zenon DEF TypeOK, Counted, Valued

\* Ids are numbers, and a class that is registered makes an entry.
LEMMA EntryTyped ==
  ASSUME NEW t \in Seq(Entry), NEW name \in Name
  PROVE  /\ IdIn(t, "object") \in Nat
         /\ [name |-> name, id |-> Len(t) % IdCount, parent |-> IdIn(t, "object")] \in Entry
<1>1. IdIn(t, "object") \in Nat
  <2>1. CASE \E i \in 1 .. Len(t) : t[i].name = "object"
    <3>1. PICK n \in 1 .. Len(t) : t[n].name = "object"
      BY <2>1
    <3>2. PICK i \in 1 .. n : IdIn(t, "object") = t[i].id
      BY <3>1, FirstNamed
    <3>3. i \in 1 .. Len(t) /\ t[i] \in Entry
      BY <3>1, <3>2
    <3> QED BY <3>2, <3>3 DEF Entry
  <2>2. CASE ~ \E i \in 1 .. Len(t) : t[i].name = "object"
    BY <2>2 DEF IdIn
  <2> QED BY <2>1, <2>2
<1>2. Len(t) % IdCount \in Nat
  <2>1. Len(t) \in Nat /\ IdCount \in Nat /\ IdCount > 0
    BY BuiltinAssumption
  <2> QED BY <2>1
<1> QED BY <1>1, <1>2 DEF Entry

\* The line that is processed is the one that was typed last.
LEMMA LineCounted ==
  ASSUME Numbered, LineInv, ErrorInv, at # "prompt"
  PROVE  count \in 1 .. count
<1>1. Len(source) \in Nat
  BY DEF LineInv
<1>2. Len(source) > 0 /\ source[Len(source)].line = count
  BY DEF LineInv, ErrorInv
<1>3. Len(source) \in 1 .. Len(source)
  BY <1>1, <1>2
<1> QED BY <1>2, <1>3 DEF Numbered

\* A line that is typed gets the next number.
LEMMA ReadTyped ==
  ASSUME Numbered, Counted, LineInv, NEW kind \in Kind, ReadLine(kind)
  PROVE  Numbered' /\ Counted'
<1> DEFINE l == [line |-> count + 1, kind |-> kind]
<1>1. /\ count' = count + 1 /\ source' = Append(source, l)
      /\ UNCHANGED <<curr_line, errors>>
  BY DEF ReadLine, AddLine
<1>2. count \in Nat /\ source \in Seq(Line) /\ Len(source) \in Nat
  BY DEF LineInv
<1>3. l \in Line /\ l.line = count + 1
  BY <1>2 DEF Line
<1> HIDE DEF l
<1>4. /\ Len(source') = Len(source) + 1 /\ source'[Len(source) + 1] = l
      /\ \A i \in 1 .. Len(source) : source'[i] = source[i]
  BY <1>1, <1>2, <1>3
<1>5. \A i \in 1 .. Len(source') : source'[i].line \in 1 .. count'
  <2>1. ASSUME NEW i \in 1 .. Len(source')
        PROVE  source'[i].line \in 1 .. count + 1
    <3>1. CASE i = Len(source) + 1
      BY <1>2, <1>3, <1>4, <3>1
    <3>2. CASE i # Len(source) + 1
      <4>1. i \in 1 .. Len(source)
        BY <1>2, <1>4, <3>2
      <4>2. source[i].line \in 1 .. count
        BY <4>1 DEF Numbered
      <4>3. source'[i] = source[i]
        BY <1>4, <4>1
      <4> QED BY <1>2, <4>2, <4>3
    <3> QED BY <3>1, <3>2
  <2> QED BY <1>1, <2>1
<1>6. curr_line' \in 0 .. Len(source') /\ errors' \subseteq 1 .. count'
  BY <1>1, <1>2, <1>4 DEF Counted
<1> QED BY <1>5, <1>6 DEF Numbered, Counted

\* The errors of the scan are those of lines that were typed.
LEMMA ScanTyped ==
  ASSUME Numbered, Counted, LineInv, Scan
  PROVE  Numbered' /\ Counted'
<1> DEFINE New == {source[i].line : i \in {j \in Unread : source[j].kind = "bad"}}
<1>1. /\ UNCHANGED <<count, source>>
      /\ curr_line' = Len(source) /\ errors' = errors \cup New
  BY DEF Scan, Report
<1>2. Len(source) \in Nat /\ Unread \subseteq 1 .. Len(source)
  BY DEF LineInv, Counted, Unread
<1>3. New \subseteq 1 .. count
  BY <1>2 DEF Numbered
<1> HIDE DEF New
<1> QED BY <1>1, <1>2, <1>3 DEF Numbered, Counted

\* Every step of the REPL keeps the types.
LEMMA ReplTyped ==
  ASSUME CountInv, LineInv, ErrorInv, Next
  PROVE  CountInv'
<1>1. /\ Numbered /\ Counted /\ Valued /\ table \in Seq(Entry)
  BY DEF CountInv
<1>2. Len(source) \in Nat /\ count \in Nat
  BY DEF LineInv
<1>3. ASSUME NEW kind \in Kind, ReadLine(kind)
      PROVE  CountInv'
  <2>1. Numbered' /\ Counted'
    BY <1>1, <1>3, ReadTyped
  <2>2. value' = "" /\ UNCHANGED <<builtin, table>>
    BY <1>3 DEF ReadLine
  <2> QED BY <1>1, <2>1, <2>2, Zenon DEF CountInv, Valued
<1>4. CASE Scan
  <2>1. Numbered' /\ Counted'
    BY <1>1, <1>4, ScanTyped
  <2>2. UNCHANGED <<value, builtin, table>>
    BY <1>4 DEF Scan
  <2> QED BY <1>1, <2>1, <2>2, Zenon DEF CountInv, Valued
<1>5. ASSUME UNCHANGED count, at # "prompt",
             \/ UNCHANGED <<source, curr_line>>
             \/ source' = <<>> /\ curr_line' = 0,
             errors' \subseteq errors \cup {count}
      PROVE  Numbered' /\ Counted'
  <2>1. errors' \subseteq 1 .. count
    BY <1>1, <1>5, LineCounted DEF Counted
  <2>2. CASE UNCHANGED <<source, curr_line>>
    BY <1>1, <1>5, <2>1, <2>2 DEF Numbered, Counted
  <2>3. CASE source' = <<>> /\ curr_line' = 0
    BY <1>2, <1>5, <2>1, <2>3 DEF Numbered, Counted
  <2> QED BY <1>5, <2>2, <2>3
<1>6. CASE ScanLost \/ ParseExpression \/ Fail \/ ParseStatement \/ Execute \/ Prompt
  <2>1. /\ UNCHANGED count /\ at # "prompt"
        /\ \/ UNCHANGED <<source, curr_line>>
           \/ source' = <<>> /\ curr_line' = 0
        /\ errors' \subseteq errors \cup {count}
    BY <1>6 DEF ScanLost, ParseExpression, Fail, ParseStatement, Execute, Prompt, Clear
  <2>2. UNCHANGED <<value, builtin, table>>
    BY <1>6 DEF ScanLost, ParseExpression, Fail, ParseStatement, Execute, Prompt
  <2>3. Numbered' /\ Counted'
    BY <1>5, <2>1
  <2> QED BY <1>1, <2>2, <2>3, Zenon DEF CountInv, Valued
<1>7. ASSUME NEW name \in ClassName, RegisterClass(name)
      PROVE  CountInv'
  <2>1. /\ UNCHANGED <<count, source, curr_line, errors, builtin, value>> /\ at = "statement"
        /\ Register(name, TypeId("object"))
    BY <1>7 DEF RegisterClass
  <2>2. table' \in Seq(Entry)
    <3> DEFINE e == [name |-> name, id |-> Len(table) % IdCount, parent |-> TypeId("object")]
    <3>1. e \in Entry
      BY <1>1, EntryTyped, ClassAssumption DEF TypeId
    <3>2. table' = Append(table, e)
      BY <2>1 DEF Register
    <3> HIDE DEF e
    <3> QED BY <1>1, <3>1, <3>2
  <2>3. Numbered' /\ Counted'
    BY <1>5, <2>1
  <2> QED BY <1>1, <2>1, <2>2, <2>3, Zenon DEF CountInv, Valued
<1>8. ASSUME NEW type \in ValueType, Evaluate(type) \/ Hang(type)
      PROVE  CountInv'
  <2>1. type \in Name
    BY ClassAssumption DEF ValueType
  <2>2. UNCHANGED <<count, source, curr_line, errors, builtin, table>> /\ at = "evaluate"
    BY <1>8 DEF Evaluate, Hang
  <2>3. value' = type \/ value' = value
    BY <1>8 DEF Evaluate, Hang
  <2>4. Numbered' /\ Counted'
    BY <1>5, <2>2
  <2> QED BY <1>1, <2>1, <2>2, <2>3, <2>4, Zenon DEF CountInv, Valued
<1> QED BY <1>3, <1>4, <1>6, <1>7, <1>8 DEF Next

\* In every execution the state of the REPL keeps its types: errors are about lines
\* that were typed, and lines that are read are lines of the source.
THEOREM ReplTypeCorrect == Spec => []TypeOK
<1>1. Init => CountInv
  <2>1. Init => Numbered /\ Counted
    <3>1. Init => source = <<>> /\ curr_line = 0 /\ errors = {}
      BY DEF Init
    <3> QED BY <3>1 DEF Numbered, Counted
  <2>2. Init => Valued
    BY DEF Init, Valued
  <2>3. Init => table \in Seq(Entry)
    <3>1. Init => table = BuiltinTable \/ table = <<>>
      BY Zenon DEF Init
    <3>2. <<>> \in Seq(Entry)
      OBVIOUS
    <3> QED BY <3>1, <3>2, BuiltinTableInv
  <2> QED BY <2>1, <2>2, <2>3 DEF CountInv
<1>2. CountInv /\ UNCHANGED vars => CountInv'
  BY DEF CountInv, Numbered, Counted, Valued, vars
<1> QED BY <1>1, <1>2, CountTyped, ReplTyped, ErrorInvAlways, PTL DEF Spec
=============================================================================
