----------------------------- MODULE LexerProofs -----------------------------
(***************************************************************************)
(* For every file: the ranges of the tokens lie in their lines and in      *)
(* order, and the lexer leaves a line in the three known cases only.  For  *)
(* every file of lexemes and comments: its tokens are these lexemes.       *)
(***************************************************************************)
EXTENDS Lexer, WellFoundedInduction, TLAPS

\* The tokens so far lie in front of the cursor.
Behind ==
  status = "running" =>
    \A i \in DOMAIN tokens :
      LET t == tokens[i]
      IN  t.row < row \/ (t.row = row /\ t.start + t.size <= off)

\* Tokens lie in lines that have been read.
Placed == \A i \in DOMAIN tokens : tokens[i].kind # "EOF" => tokens[i].row \in 1 .. Len(lines)

\* A comment that comes to a newline without having hidden it is not there yet.
Hides ==
  status = "running" /\ comment =>
    /\ row > 0
    /\ off >= Len(line) - 1 /\ line[Len(line)] = Newline =>
         Len(line) = 1 \/ line[Len(line) - 1] = "*"

LexInv == TypeOK /\ Behind /\ Placed /\ RangesInOrder /\ Hides /\ StaysInLine

-----------------------------------------------------------------------------
(* Lines.                                                                  *)

\* A line that has been read is a row of characters; it ends with a newline if
\* another one follows.
LEMMA LineRead ==
  ASSUME TypeOK
  PROVE  /\ line \in Seq(Char) /\ Len(line) \in Nat /\ lines \in Seq(Seq(Char))
         /\ row > 0 => Len(line) > 0 /\ (~AtEnd => line[Len(line)] = Newline)
         /\ row = 0 => line = <<>>
<1>1. lines \in Seq(Seq(Char)) /\ row \in 0 .. Len(lines)
  BY DEF TypeOK, IsFile
<1>2. CASE row = 0
  BY <1>1, <1>2 DEF line
<1>3. CASE row > 0
  <2>1. row \in DOMAIN lines /\ line = lines[row]
    BY <1>1, <1>3 DEF line
  <2>2. line # <<>> /\ line \in Seq(Char)
    BY <2>1, <1>1 DEF TypeOK, IsFile
  <2>3. row < Len(lines) => line[Len(line)] = Newline
    BY <2>1 DEF TypeOK, IsFile
  <2> QED BY <1>1, <1>3, <2>2, <2>3 DEF AtEnd
<1> QED BY <1>1, <1>2, <1>3

\* Ranges are numbers.
LEMMA RangeTyped ==
  ASSUME TypeOK, NEW i \in DOMAIN tokens
  PROVE  /\ tokens[i].row \in Nat /\ tokens[i].start \in Nat /\ tokens[i].size \in Nat
         /\ tokens[i].start + tokens[i].size \in Nat
<1>1. tokens[i] \in TokenRange
  BY DEF TypeOK
<1> QED BY <1>1 DEF TokenRange

\* A run of characters ends in its line.
LEMMA RunEnds ==
  ASSUME TypeOK, NEW C, Zero \notin C, NEW i \in 0 .. Len(line)
  PROVE  /\ Run(C, i) \in Nat /\ i + Run(C, i) <= Len(line)
         /\ At(i) \in C => Run(C, i) > 0
         /\ \A k \in 0 .. Run(C, i) - 1 : At(i + k) \in C
<1>0. Len(line) \in Nat
  BY LineRead
<1> DEFINE N == {n \in 0 .. Len(line) : At(i + n) \notin C}
<1>1. N \subseteq Nat /\ Len(line) - i \in N
  BY <1>0 DEF At, Byte
<1>2. PICK n \in N : \A k \in N : ~(<<k, n>> \in OpToRel(<, Nat))
  BY <1>1, NatLessThanWellFounded, WFMin
<1>3. \A k \in N : ~(k < n)
  BY <1>1, <1>2 DEF OpToRel
<1>4. n \in 0 .. Len(line) /\ At(i + n) \notin C /\ \A k \in 0 .. n - 1 : At(i + k) \in C
  BY <1>0, <1>3
<1>5. /\ Run(C, i) \in 0 .. Len(line) /\ At(i + Run(C, i)) \notin C
      /\ \A k \in 0 .. Run(C, i) - 1 : At(i + k) \in C
  BY <1>4 DEF Run
<1>6. i + Run(C, i) <= Len(line)
  <2>1. SUFFICES ASSUME Len(line) - i \in 0 .. Run(C, i) - 1 PROVE FALSE
    BY <1>0, <1>5
  <2>2. At(i + (Len(line) - i)) \in C
    BY <2>1, <1>5
  <2>3. i + (Len(line) - i) = Len(line)
    BY <1>0
  <2> QED BY <2>2, <2>3, <1>0 DEF At, Byte
<1>7. ASSUME At(i) \in C PROVE Run(C, i) # 0
  BY <1>5, <1>7
<1> QED BY <1>5, <1>6, <1>7

-----------------------------------------------------------------------------
(* Steps.                                                                  *)

\* The cursor moves forward in the line.
LEMMA Moves ==
  ASSUME LexInv, status = "running", UNCHANGED <<file, row, tokens, status>>,
         off' \in off .. Len(line), errors' \in BOOLEAN, comment' \in BOOLEAN,
         comment' => /\ row > 0
                     /\ off' >= Len(line) - 1 /\ line[Len(line)] = Newline =>
                          Len(line) = 1 \/ line[Len(line) - 1] = "*"
  PROVE  LexInv'
<1> USE DEF LexInv
<1>1. line' = line /\ lines' = lines
  BY DEF line, lines
<1>2. TypeOK'
  BY <1>1 DEF TypeOK
<1>3. Behind'
  <2>1. off \in Nat /\ off' \in Nat /\ off <= off'
    BY LineRead DEF TypeOK
  <2>2. \A i \in DOMAIN tokens : tokens[i].start + tokens[i].size \in Nat
    BY RangeTyped
  <2> QED BY <2>1, <2>2 DEF Behind
<1>4. Placed' /\ RangesInOrder'
  BY <1>1 DEF Placed, RangesInOrder
<1>5. Hides'
  BY <1>1 DEF Hides
<1>6. StaysInLine'
  BY DEF StaysInLine
<1> QED BY <1>2, <1>3, <1>4, <1>5, <1>6

\* The next line is read.
LEMMA Reads ==
  ASSUME LexInv, status = "running", UNCHANGED <<file, tokens, status>>,
         row < Len(lines), row' = row + 1, off' \in 0 .. Len(lines[row + 1]),
         errors' \in BOOLEAN, comment' \in BOOLEAN,
         comment' =>
           LET next == lines[row + 1]
           IN  off' >= Len(next) - 1 /\ next[Len(next)] = Newline =>
                 Len(next) = 1 \/ next[Len(next) - 1] = "*"
  PROVE  LexInv'
<1> USE DEF LexInv
<1>0. row \in 0 .. Len(lines) /\ lines \in Seq(Seq(Char))
  BY DEF TypeOK, IsFile
<1>1. lines' = lines /\ line' = lines[row + 1]
  BY <1>0 DEF line, lines
<1>2. TypeOK'
  BY <1>0, <1>1 DEF TypeOK
<1>3. Behind'
  <2>1. \A i \in DOMAIN tokens : tokens[i].row \in Nat
    BY RangeTyped
  <2> QED BY <1>0, <2>1 DEF Behind
<1>4. Placed' /\ RangesInOrder'
  BY <1>1 DEF Placed, RangesInOrder
<1>5. Hides'
  BY <1>0, <1>1 DEF Hides
<1>6. StaysInLine'
  BY DEF StaysInLine
<1> QED BY <1>2, <1>3, <1>4, <1>5, <1>6

\* A token is added that lies between the cursor and where it goes.
LEMMA Adds ==
  ASSUME LexInv, status = "running", UNCHANGED <<file, row, comment, errors>>, ~comment,
         NEW kind \in Kind, NEW n \in Nat,
         tokens' = Append(tokens, [kind |-> kind, row |-> row, start |-> off, size |-> n]),
         off' \in 0 .. Len(line), status' = "running" \/ status' = "done",
         status' = "running" => off' = off + n,
         kind # "EOF" => n > 0 /\ off + n <= Len(line)
  PROVE  LexInv'
<1> USE DEF LexInv
<1> DEFINE new == [kind |-> kind, row |-> row, start |-> off, size |-> n]
<1>1. line' = line /\ lines' = lines
  BY DEF line, lines
<1>2. off \in 0 .. Len(line) /\ Len(line) \in Nat /\ row \in 0 .. Len(lines) /\ Len(lines) \in Nat
  BY LineRead DEF TypeOK
<1>3. tokens \in Seq(TokenRange) /\ new \in TokenRange
  BY <1>2 DEF TypeOK, TokenRange
<1>4. /\ tokens' \in Seq(TokenRange) /\ DOMAIN tokens' = 1 .. Len(tokens) + 1
      /\ DOMAIN tokens = 1 .. Len(tokens) /\ Len(tokens) \in Nat
      /\ \A i \in 1 .. Len(tokens) : tokens'[i] = tokens[i]
      /\ tokens'[Len(tokens) + 1] = new
  BY <1>3
<1>5. TypeOK'
  BY <1>1, <1>2, <1>4 DEF TypeOK
<1>6. \A i \in 1 .. Len(tokens) :
        /\ tokens[i].start + tokens[i].size \in Nat
        /\ tokens[i].row < row \/ (tokens[i].row = row /\ tokens[i].start + tokens[i].size <= off)
  BY <1>4, RangeTyped DEF Behind
<1>7. Behind'
  BY <1>2, <1>4, <1>6 DEF Behind
<1>8. kind # "EOF" => row \in 1 .. Len(lines) /\ line = lines[row]
  BY <1>2, LineRead DEF line
<1>9. Placed'
  BY <1>1, <1>4, <1>8 DEF Placed
<1>10. RangesInOrder'
  <2>1. SUFFICES ASSUME NEW i \in DOMAIN tokens'
                 PROVE  LET t == tokens'[i]
                        IN  /\ t.kind # "EOF" => t.size > 0 /\ t.start + t.size <= Len(lines[t.row])
                            /\ i > 1 => LET s == tokens'[i - 1]
                                        IN  s.row < t.row \/ (s.row = t.row /\ s.start + s.size <= t.start)
    BY <1>1 DEF RangesInOrder
  <2>2. CASE i \in 1 .. Len(tokens)
    BY <2>2, <1>4 DEF RangesInOrder
  <2>3. CASE i = Len(tokens) + 1
    <3>0. tokens'[i] = new /\ i - 1 = Len(tokens) /\ (i > 1 => Len(tokens) \in 1 .. Len(tokens))
      BY <2>3, <1>4
    <3>1. /\ tokens'[i] = new
          /\ i > 1 => i - 1 \in 1 .. Len(tokens) /\ tokens'[i - 1] = tokens[i - 1]
      BY <3>0, <1>4
    <3>2. /\ tokens'[i].kind = kind /\ tokens'[i].row = row
          /\ tokens'[i].start = off /\ tokens'[i].size = n
      BY <3>1
    <3>3. i > 1 => \/ tokens'[i - 1].row < row
                   \/ /\ tokens'[i - 1].row = row
                      /\ tokens'[i - 1].start + tokens'[i - 1].size <= off
      BY <3>1, <1>6
    <3> QED BY <3>2, <3>3, <1>8
  <2> QED BY <2>1, <2>2, <2>3, <1>4
<1>11. Hides'
  BY DEF Hides
<1>12. StaysInLine'
  BY DEF StaysInLine
<1> QED BY <1>5, <1>7, <1>9, <1>10, <1>11, <1>12

\* The lexer leaves its line.
LEMMA Leaves ==
  ASSUME LexInv, UNCHANGED file, GoAstray,
         \/ AtEnd /\ At(Len(line) - 1) # Newline
         \/ /\ comment /\ At(Len(line) - 1) = Newline
            /\ Len(line) = 1 \/ At(Len(line) - 2) = "*"
  PROVE  LexInv'
<1>1. line' = line /\ lines' = lines
  BY DEF line, lines, GoAstray
<1>2. TypeOK' /\ Behind' /\ Placed' /\ RangesInOrder' /\ Hides'
  BY <1>1 DEF LexInv, TypeOK, Behind, Placed, RangesInOrder, Hides, GoAstray
<1>3. StaysInLine'
  BY <1>1 DEF StaysInLine, AtEnd, At, Byte, GoAstray
<1> QED BY <1>2, <1>3 DEF LexInv

-----------------------------------------------------------------------------
(* The functions of the lexer.                                             *)

\* A token of the line.
LEMMA Emits ==
  ASSUME LexInv, status = "running", ~comment, UNCHANGED file, NEW kind \in Kind \ {"EOF"},
         NEW n \in Nat, n > 0, off + n <= Len(line), Emit(kind, n)
  PROVE  LexInv'
<1>1. off \in Nat /\ Len(line) \in Nat
  BY LineRead DEF LexInv, TypeOK
<1> QED BY <1>1, Adds DEF Emit

LEMMA Skipped ==
  ASSUME LexInv, status = "running", ~comment, UNCHANGED file, NEW n \in Nat,
         off + n <= Len(line), Skip(n)
  PROVE  LexInv'
<1>1. off \in Nat /\ Len(line) \in Nat /\ errors \in BOOLEAN
  BY LineRead DEF LexInv, TypeOK
<1>2. off' \in off .. Len(line) /\ errors' \in BOOLEAN /\ comment' = FALSE
  BY <1>1 DEF Skip, LexInv, TypeOK
<1> QED BY <1>2, Moves DEF Skip

\* The cursor after a test for the end of a comment is in the line, and behind
\* an asterisk if it is behind what it tested.
LEMMA TestStays ==
  ASSUME NEW text \in Seq(Char), NEW i \in 0 .. Len(text), TestEnd(text, i)
  PROVE  /\ off' \in i .. Len(text) /\ comment' \in BOOLEAN
         /\ comment' => off' = i \/ (off' = i + 1 /\ i < Len(text) /\ text[i + 1] = "*")
<1> DEFINE at(k) == Byte(text, k)
<1>1. /\ comment' = ~(at(i) = "*" /\ at(i + 1) = "/")
      /\ off' = IF at(i) = "*" /\ at(i + 1) = "/" THEN i + 2 ELSE IF at(i) = "*" THEN i + 1 ELSE i
  BY DEF TestEnd
<1>2. at(i) = "*" => i < Len(text) /\ text[i + 1] = "*"
  BY DEF Byte, Zero
<1>3. at(i + 1) = "/" => i + 1 < Len(text)
  BY DEF Byte, Zero
<1>4. comment' \in BOOLEAN /\ (comment' => ~(at(i) = "*" /\ at(i + 1) = "/"))
  BY <1>1
<1>5. Len(text) \in Nat
  OBVIOUS
<1> HIDE DEF at
<1>6. off' \in i .. Len(text)
  BY <1>1, <1>2, <1>3, <1>5
<1>7. ~(at(i) = "*" /\ at(i + 1) = "/") => off' = i \/ (off' = i + 1 /\ at(i) = "*")
  BY <1>1
<1> QED BY <1>2, <1>4, <1>6, <1>7

\* A test at the beginning of a line passes its newline only behind an asterisk,
\* or when it is all there is.
LEMMA ShortLine ==
  ASSUME NEW text \in Seq(Char), NEW n \in Nat, n = Len(text), n > 0,
         NEW i \in Nat, i = 0 \/ (i = 1 /\ text[1] = "*"), i + 1 >= n
  PROVE  n = 1 \/ text[n - 1] = "*"
<1>1. i = 0 => n = 1
  OBVIOUS
<1>2. i = 1 /\ n # 1 => n - 1 = 1
  OBVIOUS
<1> QED BY <1>1, <1>2

LEMMA InCommentKeeps ==
  ASSUME LexInv, status = "running", UNCHANGED file, InComment
  PROVE  LexInv'
<1> USE DEF LexInv
<1>0. /\ line \in Seq(Char) /\ Len(line) \in Nat /\ off \in 0 .. Len(line)
      /\ comment /\ off < Len(line) /\ errors \in BOOLEAN /\ row > 0
  BY LineRead DEF TypeOK, InComment, Hides
<1>1. CASE /\ At(off + 1) # Newline
           /\ TestEnd(line, off + 1) /\ UNCHANGED <<row, tokens, errors, status>>
  <2>1. /\ off' \in off + 1 .. Len(line) /\ comment' \in BOOLEAN
        /\ comment' => \/ off' = off + 1
                       \/ off' = off + 2 /\ off + 1 < Len(line) /\ line[off + 2] = "*"
    BY <1>0, <1>1, TestStays
  <2>2. off + 1 < Len(line) => line[off + 2] # Newline
    BY <1>0, <1>1 DEF At, Byte
  <2>3. ASSUME comment', off' >= Len(line) - 1, line[Len(line)] = Newline
        PROVE  Len(line) = 1 \/ line[Len(line) - 1] = "*"
    <3>1. CASE off' = off + 1
      <4>1. off + 1 = Len(line)
        BY <3>1, <2>2, <2>3, <1>0
      <4> QED BY <4>1, <2>3, <1>0, <1>1 DEF Hides
    <3>2. CASE off' = off + 2 /\ off + 1 < Len(line) /\ line[off + 2] = "*"
      BY <3>2, <2>3, <1>0 DEF Newline
    <3> QED BY <2>1, <2>3, <3>1, <3>2
  <2> QED BY <1>0, <1>1, <2>1, <2>3, Moves
<1>2. CASE /\ At(off + 1) = Newline /\ ~AtEnd
           /\ row' = row + 1 /\ TestEnd(lines[row + 1], 0) /\ UNCHANGED <<tokens, errors, status>>
  <2> DEFINE next == lines[row + 1]
  <2>0. row < Len(lines) /\ next \in Seq(Char) /\ next # <<>>
    BY <1>2 DEF AtEnd, TypeOK, IsFile
  <2>1. row < Len(lines) /\ next \in Seq(Char) /\ Len(next) > 0
    <3> HIDE DEF next
    <3> QED BY <2>0
  <2>2. /\ off' \in 0 .. Len(next) /\ comment' \in BOOLEAN
        /\ comment' => off' = 0 \/ (off' = 1 /\ next[1] = "*")
    BY <1>2, <2>1, TestStays
  <2>3. comment' => (off' >= Len(next) - 1 /\ next[Len(next)] = Newline =>
                       Len(next) = 1 \/ next[Len(next) - 1] = "*")
    <3>1. ASSUME comment', off' >= Len(next) - 1
          PROVE  Len(next) = 1 \/ next[Len(next) - 1] = "*"
      <4>1. off' = 0 \/ (off' = 1 /\ next[1] = "*")
        BY <3>1, <2>2
      <4>2. off' \in Nat /\ off' + 1 >= Len(next)
        BY <3>1, <4>1, <2>1
      <4>3. Len(next) \in Nat
        BY <2>1
      <4> HIDE DEF next
      <4> QED BY <4>1, <4>2, <4>3, <2>1, ShortLine
    <3> QED BY <3>1
  <2> QED BY <1>0, <1>2, <2>1, <2>2, <2>3, Reads
<1>3. CASE /\ At(off + 1) = Newline /\ AtEnd
           /\ Error /\ comment' = FALSE /\ off' = Len(line) /\ UNCHANGED <<row, tokens, status>>
  <2>1. errors' \in BOOLEAN /\ comment' \in BOOLEAN /\ ~comment'
    BY <1>3 DEF Error
  <2>2. off' \in off .. Len(line)
    BY <1>0, <1>3
  <2> QED BY <2>1, <2>2, <1>3, Moves
<1> QED BY <1>1, <1>2, <1>3 DEF InComment

LEMMA PastLineKeeps ==
  ASSUME LexInv, status = "running", UNCHANGED file, PastLine
  PROVE  LexInv'
<1> USE DEF LexInv
<1>0. line \in Seq(Char) /\ Len(line) \in Nat /\ comment /\ off = Len(line) /\ row > 0
  BY LineRead DEF PastLine, Hides
<1>1. Len(line) > 0 /\ (~AtEnd => line[Len(line)] = Newline)
  BY <1>0, LineRead
<1>2. line[Len(line)] = Newline => Len(line) = 1 \/ line[Len(line) - 1] = "*"
  BY <1>0 DEF Hides
<1> QED BY <1>0, <1>1, <1>2, Leaves DEF PastLine, At, Byte

LEMMA LineCommentKeeps ==
  ASSUME LexInv, status = "running", ~comment, off < Len(line), UNCHANGED file, LineComment
  PROVE  LexInv'
<1> USE DEF LexInv
<1>0. line \in Seq(Char) /\ Len(line) \in Nat /\ off \in 0 .. Len(line) - 1
  BY LineRead DEF TypeOK
<1>1. CASE Skip(Len(line) - 1 - off)
  BY <1>0, <1>1, Skipped
<1>2. CASE At(Len(line) - 1) # Newline /\ GoAstray
  <2>1. row > 0
    BY <1>0, LineRead DEF TypeOK, IsFile
  <2>2. AtEnd
    BY <1>0, <1>2, <2>1, LineRead DEF At, Byte
  <2> QED BY <1>2, <2>2, Leaves
<1> QED BY <1>1, <1>2 DEF LineComment

LEMMA OpenCommentKeeps ==
  ASSUME LexInv, status = "running", ~comment, off < Len(line), UNCHANGED file, OpenComment
  PROVE  LexInv'
<1> USE DEF LexInv
<1>0. /\ line \in Seq(Char) /\ Len(line) \in Nat /\ off \in 0 .. Len(line) - 1
      /\ errors \in BOOLEAN
  BY LineRead DEF TypeOK
<1>1. off + 1 < Len(line) /\ line[off + 2] = "*"
  BY <1>0 DEF OpenComment, At, Byte, Zero
<1>2. row > 0
  BY <1>0, LineRead DEF TypeOK, IsFile
<1>3. off + 1 >= Len(line) - 1 /\ line[Len(line)] = Newline => FALSE
  BY <1>0, <1>1 DEF Newline
<1>4. off' \in off .. Len(line)
  BY <1>0, <1>1 DEF OpenComment
<1> QED BY <1>0, <1>2, <1>3, <1>4, Moves DEF OpenComment

\* Digits, spaces and letters are no 0.
LEMMA NoZero == Zero \notin Space /\ Zero \notin Digit /\ Zero \notin Letter \cup Digit
BY LetterAssumption DEF Zero, Space, Digit

LEMMA NextTokenKeeps ==
  ASSUME LexInv, status = "running", UNCHANGED file, NextToken
  PROVE  LexInv'
<1> USE DEF LexInv
<1>0. /\ line \in Seq(Char) /\ Len(line) \in Nat /\ off \in 0 .. Len(line) - 1
      /\ errors \in BOOLEAN /\ ~comment /\ off < Len(line) /\ off \in 0 .. Len(line)
      /\ Here = At(off)
  BY LineRead DEF TypeOK, NextToken, Here
<1>b. comment = FALSE
  BY DEF TypeOK, NextToken
<1>1. CASE LineComment \/ OpenComment
  BY <1>0, <1>1, LineCommentKeeps, OpenCommentKeeps
<1>2. CASE SkipNewline
  BY <1>0, <1>2, Skipped DEF SkipNewline
<1>3. CASE SkipSpaces
  BY <1>0, <1>3, NoZero, RunEnds, Skipped DEF SkipSpaces
<1>4. CASE get_symbol
  <2>1. At(off + 1) = ">" => off + 1 < Len(line)
    BY DEF At, Byte, Zero
  <2> QED BY <1>0, <1>4, <2>1, Emits DEF get_symbol, Kind
<1>5. CASE get_operator
  <2>1. <<Here, At(off + 1)>> \in Double => off + 1 < Len(line)
    BY DEF At, Byte, Zero, Double
  <2> QED BY <1>0, <1>5, <2>1, Emits DEF get_operator, Kind
<1>6. CASE get_number
  <2> DEFINE whole == Run(Digit, off)
             rest  == off + whole + 1
  <2>1. whole \in Nat /\ whole > 0 /\ off + whole <= Len(line)
    BY <1>0, <1>6, NoZero, RunEnds DEF get_number
  <2>2. ASSUME At(off + whole) = "."
        PROVE  Run(Digit, rest) \in Nat /\ rest + Run(Digit, rest) <= Len(line)
    <3>1. rest \in 0 .. Len(line)
      BY <1>0, <2>1, <2>2 DEF At, Byte, Zero
    <3> QED BY <3>1, NoZero, RunEnds
  <2> DEFINE n == IF At(off + whole) = "." THEN whole + 1 + Run(Digit, rest) ELSE whole
  <2>3. n \in Nat /\ n > 0 /\ off + n <= Len(line)
    <3> HIDE DEF whole
    <3> QED BY <1>0, <2>1, <2>2
  <2>4. Emit("number", n)
    BY <1>6 DEF get_number
  <2> HIDE DEF n
  <2> QED BY <1>0, <2>3, <2>4, Emits DEF Kind
<1>7. CASE get_string
  <2> DEFINE quotes == {i \in off + 1 .. Len(line) - 1 : At(i) = Quote}
  <2>1. CASE \E i \in quotes : Emit("string", i + 1 - off)
    BY <1>0, <2>1, Emits DEF Kind
  <2>2. CASE Error /\ off' = Len(line) /\ UNCHANGED <<row, comment, tokens, status>>
    <3>1. errors' \in BOOLEAN /\ comment' \in BOOLEAN /\ ~comment'
      BY <1>b, <2>2 DEF Error
    <3>2. off' \in off .. Len(line)
      BY <1>0, <2>2
    <3> QED BY <3>1, <3>2, <2>2, Moves
  <2> QED BY <1>7, <2>1, <2>2 DEF get_string
<1>8. CASE get_word
  <2> DEFINE n == Run(Letter \cup Digit, off)
  <2>1. n \in Nat /\ n > 0 /\ off + n <= Len(line)
    BY <1>0, <1>8, NoZero, RunEnds DEF get_word
  <2>2. Emit("keyword", n) \/ Emit("identifier", n)
    BY <1>8 DEF get_word
  <2> HIDE DEF n
  <2> QED BY <1>0, <2>1, <2>2, Emits DEF Kind
<1>9. CASE RejectCharacter
  <2>1. errors' \in BOOLEAN /\ comment' \in BOOLEAN /\ ~comment'
    BY <1>b, <1>9 DEF RejectCharacter, Error
  <2>2. off' \in off .. Len(line)
    BY <1>0, <1>9 DEF RejectCharacter
  <2> QED BY <2>1, <2>2, <1>9, Moves DEF RejectCharacter
<1> QED
  BY <1>1, <1>2, <1>3, <1>4, <1>5, <1>6, <1>7, <1>8, <1>9 DEF NextToken

LEMMA InitLexed == Init => LexInv
<1> SUFFICES ASSUME Init PROVE LexInv
  OBVIOUS
<1>1. IsFile(lines)
  BY FileAssumption DEF Init, lines
<1>2. Len(lines) \in Nat /\ line = <<>>
  BY <1>1 DEF IsFile, Init, line
<1>3. TypeOK
  <2>1. comment \in BOOLEAN /\ errors \in BOOLEAN /\ status \in {"running", "done", "astray"}
    BY DEF Init
  <2>3. tokens \in Seq(TokenRange)
    BY DEF Init
  <2>2. row \in 0 .. Len(lines) /\ off \in 0 .. Len(line)
    BY <1>2 DEF Init
  <2> QED BY <1>1, <2>1, <2>2, <2>3 DEF TypeOK
<1>4. Behind /\ Placed /\ RangesInOrder
  BY DEF Init, Behind, Placed, RangesInOrder
<1>5. Hides /\ StaysInLine
  BY DEF Init, Hides, StaysInLine
<1> QED BY <1>3, <1>4, <1>5 DEF LexInv

LEMMA StepLexed == LexInv /\ [Next]_vars => LexInv'
<1> SUFFICES ASSUME LexInv, [Next]_vars PROVE LexInv'
  OBVIOUS
<1>0. /\ Len(line) \in Nat /\ off \in 0 .. Len(line) /\ row \in 0 .. Len(lines)
      /\ Len(lines) \in Nat /\ errors \in BOOLEAN
  BY LineRead DEF LexInv, TypeOK
<1>1. CASE status = "running" /\ UNCHANGED file /\ ~comment /\ ReadLine
  <2>1. row < Len(lines) /\ row + 1 \in DOMAIN lines
    BY <1>0, <1>1, LineRead DEF ReadLine, AtEnd, LexInv
  <2>2. Len(lines[row + 1]) \in Nat
    BY <2>1, LineRead DEF LexInv
  <2>3. off' \in 0 .. Len(lines[row + 1]) /\ errors' \in BOOLEAN /\ comment' \in BOOLEAN /\ ~comment'
    BY <1>0, <1>1, <2>2 DEF ReadLine, LexInv, TypeOK
  <2> QED BY <1>1, <2>1, <2>3, Reads DEF ReadLine
<1>2. CASE status = "running" /\ UNCHANGED file /\ ~comment /\ EndFile
  BY <1>0, <1>2, Adds DEF EndFile, Kind
<1>3. CASE status = "running" /\ UNCHANGED file /\ (InComment \/ PastLine \/ NextToken)
  BY <1>3, InCommentKeeps, PastLineKeeps, NextTokenKeeps
<1>4. CASE UNCHANGED vars
  BY <1>4 DEF vars, LexInv, TypeOK, Behind, Placed, RangesInOrder, Hides, StaysInLine, line,
              lines, AtEnd, At, Byte
<1> QED BY <1>1, <1>2, <1>3, <1>4 DEF Next

\* The cursor and the tokens of the lexer keep their types; the cursor stays in
\* its line or on the 0 behind it.
THEOREM LexerTypeCorrect == Spec => []TypeOK
<1>1. LexInv => TypeOK
  BY DEF LexInv
<1> QED BY <1>1, InitLexed, StepLexed, PTL DEF Spec

\* The ranges that tokens are reported at lie in their lines, each behind the one
\* before, in every file.
THEOREM TokensInOrder == Spec => []RangesInOrder
<1>1. LexInv => RangesInOrder
  BY DEF LexInv
<1> QED BY <1>1, InitLexed, StepLexed, PTL DEF Spec

\* Only in the three kinds of comments does the lexer leave a line.
THEOREM CommentsAstray == Spec => []StaysInLine
<1>1. LexInv => StaysInLine
  BY DEF LexInv
<1> QED BY <1>1, InitLexed, StepLexed, PTL DEF Spec

-----------------------------------------------------------------------------
(* Files that are laid out are read as they were written.  A lexeme that   *)
(* begins at the cursor lets one function of the lexer read it and no      *)
(* other; what is not read yet begins at the cursor or behind it.          *)

\* The lexemes that are not read yet begin behind a place.
ToCome(r, i) ==
  \A k \in DOMAIN lexemes : k > Len(tokens) => NotAfter(r, i, lexemes[k].row, lexemes[k].start)

\* The tokens so far are the first lexemes.
Found == Len(tokens) <= Len(lexemes) /\ \A k \in DOMAIN tokens : tokens[k] = lexemes[k]

\* The cursor is in no comment.
Clear == \A c \in comments : NotAfter(c.last, c.stop, row, off) \/ NotAfter(row, off, c.row, c.start)

\* The cursor is in a comment, before the asterisk that ends it.
InsideOf(c) ==
  /\ IsBlock(c) /\ off < Len(line) /\ Here # Newline
  /\ NotAfter(c.row, c.start + 1, row, off) /\ NotAfter(row, off + 3, c.last, c.stop)
  /\ ToCome(c.last, c.stop)

ReadInv ==
  LaidOut =>
    /\ status \in {"running", "done"} /\ ~errors
    /\ status = "running" =>
         /\ Found
         /\ ~comment => ToCome(row, off) /\ Clear
         /\ comment => \E c \in comments : InsideOf(c)
    /\ ReadsAsWritten

\* A run that ends where it is said to has that length.
LEMMA RunIs ==
  ASSUME NEW C, NEW i \in Nat, NEW n \in 0 .. Len(line), Len(line) \in Nat,
         \A k \in 0 .. n - 1 : At(i + k) \in C, At(i + n) \notin C
  PROVE  Run(C, i) = n
<1>1. /\ Run(C, i) \in 0 .. Len(line) /\ At(i + Run(C, i)) \notin C
      /\ \A k \in 0 .. Run(C, i) - 1 : At(i + k) \in C
  BY DEF Run
<1> DEFINE m == Run(C, i)
<1>2. ASSUME m < n PROVE FALSE
  <2>1. m \in 0 .. n - 1
    BY <1>1, <1>2
  <2> QED BY <2>1, <1>1
<1>3. ASSUME n < m PROVE FALSE
  <2>1. n \in 0 .. m - 1
    BY <1>1, <1>3
  <2> QED BY <2>1, <1>1
<1>4. m \in Nat /\ n \in Nat
  BY <1>1
<1>5. m = n
  <2> HIDE DEF m
  <2> QED BY <1>2, <1>3, <1>4
<1> QED BY <1>5

\* A lexeme is a range of its line.
LEMMA LexemeTyped ==
  ASSUME TypeOK, LaidOut, NEW k \in DOMAIN lexemes
  PROVE  /\ lexemes[k] \in TokenRange /\ k \in Nat \ {0} /\ Len(lexemes) \in Nat
         /\ lexemes[k].row \in 1 .. Len(lines) /\ lexemes[k].start \in Nat
         /\ lexemes[k].size \in Nat \ {0}
         /\ lexemes[k].start + lexemes[k].size <= Len(lines[lexemes[k].row])
         /\ Len(lines[lexemes[k].row]) \in Nat
<1>1. lexemes \in Seq(TokenRange) /\ lines \in Seq(Seq(Char))
  BY DEF LaidOut, TypeOK, IsFile
<1>2. lexemes[k] \in TokenRange /\ k \in Nat \ {0} /\ Len(lexemes) \in Nat
  BY <1>1
<1>3. /\ lexemes[k].row \in DOMAIN lines /\ lexemes[k].size > 0
      /\ lexemes[k].start + lexemes[k].size <= Len(lines[lexemes[k].row])
  BY DEF LaidOut
<1> QED BY <1>1, <1>2, <1>3 DEF TokenRange

\* Where the cursor stands there is a space, a newline, the next lexeme or a comment.
LEMMA Standing ==
  ASSUME LexInv, LaidOut, status = "running", ~comment, off < Len(line),
         Found, ToCome(row, off), Clear
  PROVE  \/ Here \in Space \cup {Newline}
         \/ LET k == Len(tokens) + 1
            IN  k \in DOMAIN lexemes /\ lexemes[k].row = row /\ lexemes[k].start = off
         \/ \E c \in comments : c.row = row /\ c.start = off
<1> USE DEF LexInv
<1>0. /\ line \in Seq(Char) /\ Len(line) \in Nat /\ off \in 0 .. Len(line) - 1
      /\ row \in 1 .. Len(lines) /\ line = lines[row] /\ DOMAIN lines = 1 .. Len(lines)
      /\ Here = line[off + 1] /\ Len(tokens) \in Nat
  BY LineRead DEF TypeOK, Here, At, Byte, line
<1>1. \/ Here \in Space \cup {Newline}
      \/ \E k \in DOMAIN lexemes : Holds(Span(lexemes[k]), row, off)
      \/ \E c \in comments : Holds(c, row, off)
  BY <1>0 DEF LaidOut
<1>2. CASE \E k \in DOMAIN lexemes : Holds(Span(lexemes[k]), row, off)
  <2>1. PICK k \in DOMAIN lexemes : Holds(Span(lexemes[k]), row, off)
    BY <1>2
  <2>2. lexemes[k].row = row /\ lexemes[k].start <= off /\ off < lexemes[k].start + lexemes[k].size
    BY <1>0, <2>1, LexemeTyped DEF Holds, Span, NotAfter
  <2>3. k > Len(tokens)
    <3>1. SUFFICES ASSUME k \in DOMAIN tokens PROVE FALSE
      BY <1>0, LexemeTyped DEF TypeOK
    <3>2. tokens[k] = lexemes[k]
      BY <3>1 DEF Found
    <3> QED BY <3>1, <3>2, <2>2, <1>0, LexemeTyped DEF Behind
  <2>4. lexemes[k].start = off
    BY <2>2, <2>3, <1>0, LexemeTyped DEF ToCome, NotAfter
  <2>5. k = Len(tokens) + 1
    <3>1. SUFFICES ASSUME Len(tokens) + 1 < k PROVE FALSE
      BY <2>3, <1>0, LexemeTyped
    <3> DEFINE j == Len(tokens) + 1
    <3>2. j \in DOMAIN lexemes /\ j \in 1 .. k - 1
      BY <3>1, <1>0, LexemeTyped DEF LaidOut
    <3>3. Before(Span(lexemes[j]), Span(lexemes[k])) /\ NotAfter(row, off, lexemes[j].row, lexemes[j].start)
      BY <3>2, <1>0 DEF LaidOut, ToCome
    <3>4. /\ lexemes[j].row \in Nat /\ lexemes[j].start \in Nat /\ lexemes[j].size \in Nat \ {0}
          /\ lexemes[k].row \in Nat /\ lexemes[k].start \in Nat /\ row \in Nat /\ off \in Nat
      BY <3>2, <1>0, LexemeTyped
    <3>5. NotAfter(lexemes[j].row, lexemes[j].start + lexemes[j].size, lexemes[k].row, lexemes[k].start)
      BY <3>3 DEF Before, Span
    <3> HIDE DEF j
    <3> QED BY ONLY <3>3, <3>4, <3>5, <2>2, <2>4 DEF NotAfter
  <2> QED BY <2>2, <2>4, <2>5
<1>3. CASE \E c \in comments : Holds(c, row, off)
  <2>1. PICK c \in comments : Holds(c, row, off)
    BY <1>3
  <2>2. c \in Comment
    BY DEF LaidOut
  <2>3. c.row = row /\ c.start = off
    BY <2>1, <2>2, <1>0 DEF Holds, Clear, NotAfter, Comment
  <2> QED BY <2>3
<1> QED BY <1>1, <1>2, <1>3

\* Each character belongs to one function of the lexer, a minus or a slash with
\* the character behind it.
LEMMA Letters ==
  ASSUME NEW c \in Letter
  PROVE  c \notin Digit \cup Space \cup Symbol \cup Operator \cup {Newline, Quote, "invalid", Zero, "/", "-"}
BY LetterAssumption DEF Operator

LEMMA OnlyWord ==
  ASSUME NextToken, Here \in Letter
  PROVE  get_word
<1>1. Here \notin Digit \cup Space \cup Symbol \cup Operator
                   \cup {Newline, Quote, "invalid", Zero, "/", "-"}
  BY Letters
<1> QED BY <1>1 DEF NextToken, LineComment, OpenComment, SkipNewline, SkipSpaces, get_symbol,
                    get_operator, get_number, get_string, RejectCharacter, Invalid, Known

LEMMA OnlyNumber ==
  ASSUME NextToken, Here \in Digit
  PROVE  get_number
<1>1. Here = "1" /\ Here \notin Letter
  BY Letters DEF Digit
<1> QED BY <1>1 DEF NextToken, LineComment, OpenComment, SkipNewline, SkipSpaces, get_symbol,
                    get_operator, get_word, get_string, RejectCharacter, Invalid, Known, Digit,
                    Space, Symbol, Operator, Newline, Quote, Zero

LEMMA OnlyString ==
  ASSUME NextToken, Here = Quote
  PROVE  get_string
<1>1. Here = "\"" /\ Here \notin Letter
  BY Letters DEF Quote
<1> QED BY <1>1 DEF NextToken, LineComment, OpenComment, SkipNewline, SkipSpaces, get_symbol,
                    get_operator, get_word, get_number, RejectCharacter, Invalid, Known, Digit,
                    Space, Symbol, Operator, Newline, Quote, Zero

LEMMA OnlySymbol ==
  ASSUME NextToken, Here \in Symbol \/ <<Here, At(off + 1)>> = <<"-", ">">>
  PROVE  get_symbol
<1>1. Here \notin Letter \cup Digit \cup Space \cup {Newline, Quote, "/", Zero}
  <2>1. CASE Here \in Symbol
    <3>1. Here \notin Letter
      BY <2>1, Letters
    <3> QED BY <2>1, <3>1 DEF Symbol, Digit, Space, Newline, Quote, Zero
  <2>2. CASE Here = "-"
    <3>1. Here \notin Letter
      BY <2>2, Letters
    <3> QED BY <2>2, <3>1 DEF Digit, Space, Newline, Quote, Zero
  <2> QED BY <2>1, <2>2
<1>2. Here \in Operator => <<Here, At(off + 1)>> = <<"-", ">">>
  BY DEF Symbol, Operator
<1>3. Here \in Known
  BY DEF Known, Operator
<1> QED BY <1>1, <1>2, <1>3 DEF NextToken, LineComment, OpenComment, SkipNewline, SkipSpaces,
                    get_operator, get_word, get_number, get_string, RejectCharacter, Invalid

LEMMA OnlyOperator ==
  ASSUME NextToken, Here \in Operator, ~Skips, <<Here, At(off + 1)>> # <<"-", ">">>
  PROVE  get_operator
<1>1. Here \notin Letter \cup Digit \cup Space \cup Symbol \cup {Newline, Quote, Zero}
  <2>1. Here \notin Letter
    BY Letters
  <2> QED BY <2>1 DEF Operator, Symbol, Digit, Space, Newline, Quote, Zero
<1>2. Here \in Known
  BY DEF Known
<1>3. ~LineComment /\ ~OpenComment
  BY DEF LineComment, OpenComment, Skips
<1> QED BY <1>1, <1>2, <1>3 DEF NextToken, SkipNewline, SkipSpaces, get_symbol,
                    get_word, get_number, get_string, RejectCharacter, Invalid

LEMMA OnlyBlank ==
  ASSUME NextToken, Here \in Space \cup {Newline}
  PROVE  SkipNewline \/ SkipSpaces
<1>1. Here \notin Letter
  BY Letters
<1> QED BY <1>1 DEF NextToken, LineComment, OpenComment, get_symbol, get_operator, get_word, get_number,
                    get_string, RejectCharacter, Invalid, Known, Digit, Space, Symbol, Operator,
                    Newline, Quote, Zero

LEMMA OnlyComment ==
  ASSUME NextToken, Skips
  PROVE  LineComment \/ OpenComment
<1>1. Here = "/" /\ Here \notin Letter
  BY Letters DEF Skips
<1> QED BY <1>1 DEF NextToken, SkipNewline, SkipSpaces, get_symbol, get_operator, get_word, get_number,
                    get_string, RejectCharacter, Invalid, Known, Digit, Space, Symbol, Operator,
                    Newline, Quote, Zero

\* A lexeme that begins at the cursor is what the lexer reads.
LEMMA ReadsLexeme ==
  ASSUME LexInv, NextToken, NEW x \in TokenRange, x.row = row, x.start = off,
         x.size > 0, off + x.size <= Len(line), IsLexeme(x)
  PROVE  Emit(x.kind, x.size)
<1> DEFINE c(i) == At(off + i)
           n == x.size
<1>0. /\ Len(line) \in Nat /\ off \in Nat /\ n \in Nat /\ c(0) = Here /\ off + 0 = off
      /\ line = lines[x.row] /\ \A i : Byte(lines[x.row], x.start + i) = c(i)
  BY LineRead DEF LexInv, TypeOK, TokenRange, At, Here, NextToken, line
<1>1. CASE x.kind = "symbol"
  <2>1. \/ n = 1 /\ Here \in Symbol
        \/ n = 2 /\ <<Here, c(1)>> = <<"-", ">">>
    BY <1>0, <1>1 DEF IsLexeme
  <2>2. get_symbol
    BY <2>1, OnlySymbol
  <2> QED BY <1>1, <2>1, <2>2 DEF get_symbol, Symbol
<1>2. CASE x.kind = "operator"
  <2>1. /\ <<Here, c(1)>> \notin {<<"-", ">">>, <<"/", "/">>, <<"/", "*">>}
        /\ \/ n = 1 /\ Here \in Operator /\ <<Here, c(1)>> \notin Double
           \/ n = 2 /\ <<Here, c(1)>> \in Double
    BY <1>0, <1>2 DEF IsLexeme
  <2>2. Here \in Operator /\ ~Skips
    BY <2>1 DEF Double, Operator, Skips
  <2>3. get_operator
    BY <2>1, <2>2, OnlyOperator
  <2> QED BY <1>2, <2>1, <2>3 DEF get_operator
<1>3. CASE x.kind = "number"
  <2>1. /\ c(n) \notin Digit
        /\ \E whole \in 1 .. n : /\ \A i \in 0 .. n - 1 : i # whole => c(i) \in Digit
                                 /\ c(whole) = "." <=> whole < n
    BY <1>0, <1>3 DEF IsLexeme
  <2>2. PICK w \in 1 .. n : /\ \A i \in 0 .. n - 1 : i # w => c(i) \in Digit
                            /\ c(w) = "." <=> w < n
    BY <2>1
  <2>3. n \in Nat /\ w \in Nat /\ 0 < w /\ w <= n /\ off \in Nat /\ Len(line) \in Nat /\ off + n <= Len(line)
    BY <1>0
  <2>4. /\ \A i \in 0 .. n - 1 : i # w => At(off + i) \in Digit
        /\ At(off + w) = "." <=> w < n
        /\ At(off + n) \notin Digit
    BY <2>1, <2>2
  <2> HIDE DEF n, c
  <2>5. Run(Digit, off) = w
    <3>1. w \in 0 .. Len(line) /\ \A i \in 0 .. w - 1 : At(off + i) \in Digit
      BY <2>3, <2>4
    <3>2. At(off + w) \notin Digit
      BY <2>3, <2>4 DEF Digit
    <3> QED BY <2>3, <3>1, <3>2, RunIs
  <2>6. get_number
    <3>1. Here \in Digit
      BY <2>3, <2>4 DEF Here
    <3> QED BY <3>1, OnlyNumber
  <2>7. CASE w = n
    <3>1. At(off + w) # "." /\ x.size = w
      BY <2>4, <2>7 DEF n
    <3> QED BY <1>3, <2>5, <2>6, <3>1 DEF get_number
  <2>8. CASE w < n
    <3> DEFINE rest == n - w - 1
               next == off + w + 1
    <3>1. rest \in 0 .. Len(line) /\ next \in Nat /\ next + rest = off + n /\ w + 1 + rest = n
      BY <2>3, <2>8
    <3>2. ASSUME NEW k \in 0 .. rest - 1 PROVE At(next + k) \in Digit
      <4>1. w + 1 + k \in 0 .. n - 1 /\ w + 1 + k # w /\ off + (w + 1 + k) = next + k
        BY <2>3, <2>8
      <4>2. At(off + (w + 1 + k)) \in Digit
        BY <4>1, <2>4
      <4> QED BY <4>1, <4>2
    <3>3. At(next + rest) \notin Digit
      BY <3>1, <2>4
    <3>4. Run(Digit, next) = rest
      <4> HIDE DEF rest, next
      <4> QED BY <2>3, <3>1, <3>2, <3>3, RunIs
    <3>5. At(off + w) = "."
      BY <2>4, <2>8
    <3>6. Emit("number", w + 1 + rest)
      BY <2>5, <2>6, <3>4, <3>5 DEF get_number
    <3> QED BY <1>3, <3>1, <3>6 DEF n
  <2> QED BY <2>3, <2>7, <2>8
<1>4. CASE x.kind = "string"
  <2>1. n > 1 /\ \A i \in 0 .. n - 1 : c(i) = Quote <=> i \in {0, n - 1}
    BY <1>0, <1>4 DEF IsLexeme
  <2>2. get_string
    BY <2>1, <1>0, OnlyString
  <2> DEFINE quotes == {i \in off + 1 .. Len(line) - 1 : At(i) = Quote}
  <2>3. off + n - 1 \in quotes
    <3>1. c(n - 1) = Quote /\ off + (n - 1) = off + n - 1
      BY <2>1, <1>0
    <3> QED BY <3>1, <2>1, <1>0
  <2>4. ASSUME NEW i \in quotes, \A k \in quotes : i <= k PROVE i = off + n - 1
    <3>1. i \in off + 1 .. off + n - 1
      BY <2>3, <2>4, <1>0
    <3>2. i - off \in 0 .. n - 1 /\ i - off # 0 /\ off + (i - off) = i
      BY <3>1, <1>0
    <3>3. c(i - off) = Quote
      BY <3>2
    <3>4. i - off = n - 1
      BY <3>2, <3>3, <2>1
    <3> QED BY <3>1, <3>4, <1>0
  <2>5. PICK i \in quotes : (\A k \in quotes : i <= k) /\ Emit("string", i + 1 - off)
    BY <2>2, <2>3 DEF get_string
  <2>6. i + 1 - off = n
    BY <2>4, <2>5, <1>0
  <2> QED BY <1>4, <2>5, <2>6
<1>5. CASE x.kind \in {"keyword", "identifier"}
  <2>1. /\ c(0) \in Letter /\ c(n) \notin Letter \cup Digit
        /\ \A i \in 0 .. n - 1 : c(i) \in Letter \cup Digit
        /\ x.kind = "keyword" <=> SubSeq(line, off + 1, off + n) \in Keyword
    BY <1>0, <1>5 DEF IsLexeme
  <2>2. get_word
    BY <2>1, <1>0, OnlyWord
  <2>3. Run(Letter \cup Digit, off) = n
    <3>1. n \in 0 .. Len(line) /\ \A i \in 0 .. n - 1 : At(off + i) \in Letter \cup Digit
      BY <1>0, <2>1
    <3>2. At(off + n) \notin Letter \cup Digit
      BY <2>1
    <3> HIDE DEF n
    <3> QED BY <1>0, <3>1, <3>2, RunIs
  <2> QED BY <1>5, <2>1, <2>2, <2>3 DEF get_word
<1> QED BY <1>1, <1>2, <1>3, <1>4, <1>5 DEF IsLexeme

\* What a file was written from stays.
LEMMA LayoutKept ==
  ASSUME UNCHANGED file
  PROVE  /\ lines' = lines /\ lexemes' = lexemes /\ comments' = comments /\ LaidOut' = LaidOut
         /\ \A c : IsBlock(c)' = IsBlock(c)
<1>1. lines' = lines /\ lexemes' = lexemes /\ comments' = comments
  BY DEF lines, lexemes, comments
<1>2. \A x : IsLexeme(x)' = IsLexeme(x)
  BY <1>1 DEF IsLexeme
<1>3. \A c : IsBlock(c)' = IsBlock(c) /\ IsComment(c)' = IsComment(c)
  BY <1>1 DEF IsBlock, IsComment
<1> QED BY <1>1, <1>2, <1>3 DEF LaidOut

\* Lexemes and comments begin with no space and no newline.
LEMMA NoBlank ==
  ASSUME NEW x \in TokenRange, IsLexeme(x)
  PROVE  Byte(lines[x.row], x.start) \notin Space \cup {Newline}
<1> DEFINE b == Byte(lines[x.row], x.start + 0)
<1>0. b = Byte(lines[x.row], x.start) /\ x.size \in Nat
  BY DEF TokenRange
<1>1. \/ b \in Symbol \cup Operator \cup Digit \cup Letter \cup {Quote}
  <2>1. x.kind = "symbol" \/ x.kind = "operator" => b \in Symbol \cup Operator
    BY DEF IsLexeme, Operator, Double
  <2>2. ASSUME x.kind = "number" PROVE b \in Digit
    <3>1. PICK w \in 1 .. x.size : \A i \in 0 .. x.size - 1 : i # w => Byte(lines[x.row], x.start + i) \in Digit
      BY <2>2 DEF IsLexeme
    <3>2. 0 \in 0 .. x.size - 1 /\ 0 # w
      BY <1>0
    <3> QED BY <3>1, <3>2
  <2>3. ASSUME x.kind = "string" PROVE b = Quote
    <3>1. x.size > 1 /\ \A i \in 0 .. x.size - 1 : Byte(lines[x.row], x.start + i) = Quote <=> i \in {0, x.size - 1}
      BY <2>3 DEF IsLexeme
    <3>2. 0 \in 0 .. x.size - 1
      BY <1>0, <3>1
    <3> QED BY <3>1, <3>2
  <2>4. x.kind \in {"keyword", "identifier"} => b \in Letter
    BY DEF IsLexeme
  <2> QED BY <2>1, <2>2, <2>3, <2>4 DEF IsLexeme
<1>2. b \in Letter => b \notin Space \cup {Newline}
  BY Letters
<1>3. b \in Symbol \cup Operator \cup Digit \cup {Quote} => b \notin Space \cup {Newline}
  BY DEF Symbol, Operator, Digit, Quote, Space, Newline
<1> QED BY <1>0, <1>1, <1>2, <1>3

\* The lexer is outside of comments, in a file that is laid out.
Between ==
  LexInv /\ LaidOut /\ status = "running" /\ ~errors /\ ~comment /\ Found /\ ToCome(row, off) /\ Clear

LEMMA BetweenTyped ==
  ASSUME Between
  PROVE  /\ Len(line) \in Nat /\ off \in 0 .. Len(line) /\ row \in 0 .. Len(lines) /\ Len(lines) \in Nat
         /\ Len(tokens) \in Nat /\ DOMAIN tokens = 1 .. Len(tokens) /\ tokens \in Seq(TokenRange)
         /\ Len(lexemes) \in Nat /\ DOMAIN lexemes = 1 .. Len(lexemes) /\ lexemes \in Seq(TokenRange)
         /\ row > 0 => line = lines[row]
         /\ DOMAIN lines = 1 .. Len(lines)
BY LineRead DEF Between, LexInv, TypeOK, LaidOut, line

LEMMA TokenRead ==
  ASSUME Between, UNCHANGED file, NextToken,
         NEW k \in DOMAIN lexemes, k = Len(tokens) + 1, lexemes[k].row = row, lexemes[k].start = off
  PROVE  ReadInv'
<1> DEFINE x == lexemes[k]
<1>0. /\ x \in TokenRange /\ x.row \in Nat /\ x.start \in Nat /\ x.size \in Nat /\ x.size > 0
      /\ off + x.size <= Len(lines[x.row]) /\ row > 0
  BY LexemeTyped DEF Between, LexInv
<1>1. Emit(x.kind, x.size)
  <2>1. IsLexeme(x)
    BY DEF Between, LaidOut
  <2> HIDE DEF x
  <2> QED BY <1>0, <2>1, BetweenTyped, ReadsLexeme DEF x, Between
<1>2. [kind |-> x.kind, row |-> row, start |-> off, size |-> x.size] = x
  BY <1>0 DEF TokenRange
<1>3. tokens' = Append(tokens, x) /\ off' = off + x.size /\ UNCHANGED <<row, comment, errors, status>>
  BY <1>1, <1>2 DEF Emit
<1>4. /\ Len(tokens') = k /\ DOMAIN tokens' = 1 .. k /\ tokens'[k] = x
      /\ \A i \in 1 .. Len(tokens) : tokens'[i] = tokens[i]
  <2> HIDE DEF x
  <2> QED BY <1>0, <1>3, BetweenTyped
<1>5. Found'
  <2>1. ASSUME NEW i \in 1 .. k PROVE tokens'[i] = lexemes[i]
    <3>1. i \in 1 .. Len(tokens) \/ i = k
      BY BetweenTyped
    <3> QED BY <3>1, <1>4, BetweenTyped DEF Between, Found
  <2> QED BY <2>1, <1>4, BetweenTyped, LayoutKept DEF Found
<1>6. ASSUME NEW j \in DOMAIN lexemes, j > k
      PROVE  NotAfter(row, off + x.size, lexemes[j].row, lexemes[j].start)
  <2>1. k \in 1 .. j - 1
    BY <1>6, BetweenTyped
  <2>2. Before(Span(x), Span(lexemes[j]))
    BY <2>1 DEF Between, LaidOut
  <2> QED BY <2>2 DEF Before, Span
<1>7. ToCome(row, off)'
  BY <1>3, <1>4, <1>6, LayoutKept DEF ToCome
<1>8. ASSUME NEW c \in comments
      PROVE  NotAfter(c.last, c.stop, row, off + x.size) \/ NotAfter(row, off + x.size, c.row, c.start)
  <2>1. c \in Comment /\ (Before(Span(x), c) \/ Before(c, Span(x)))
    BY DEF Between, LaidOut
  <2>2. Before(Span(x), c) => NotAfter(row, off + x.size, c.row, c.start)
    BY DEF Before, Span
  <2>3. Before(c, Span(x)) => NotAfter(c.last, c.stop, row, off)
    BY DEF Before, Span
  <2>4. NotAfter(c.last, c.stop, row, off) => NotAfter(c.last, c.stop, row, off + x.size)
    <3> HIDE DEF x
    <3> QED BY <1>0, <2>1, BetweenTyped DEF NotAfter, Comment
  <2> QED BY <2>1, <2>2, <2>3, <2>4
<1>9. Clear'
  BY <1>3, <1>8, LayoutKept DEF Clear
<1> QED BY <1>3, <1>5, <1>7, <1>9, LayoutKept DEF Between, ReadInv, ReadsAsWritten

\* Spaces and newlines are skipped: neither lexemes nor comments begin there.
LEMMA BlankRead ==
  ASSUME Between, UNCHANGED file, off < Len(line), NEW n \in Nat, off + n <= Len(line), Skip(n),
         \A i \in 0 .. n - 1 : At(off + i) \in Space \cup {Newline}
  PROVE  ReadInv'
<1>0. /\ Len(line) \in Nat /\ off \in Nat /\ row \in Nat /\ row > 0 /\ line = lines[row]
      /\ off' = off + n /\ UNCHANGED <<row, comment, tokens, errors, status>>
  BY BetweenTyped DEF Skip, line
<1>1. ASSUME NEW s \in Nat, NEW r \in Nat, NotAfter(row, off, r, s),
             Byte(lines[r], s) \notin Space \cup {Newline}
      PROVE  NotAfter(row, off + n, r, s)
  <2>1. SUFFICES ASSUME r = row, s < off + n PROVE FALSE
    BY <1>0, <1>1 DEF NotAfter
  <2>2. s - off \in 0 .. n - 1 /\ off + (s - off) = s
    BY <1>0, <1>1, <2>1 DEF NotAfter
  <2> QED BY <1>0, <1>1, <2>1, <2>2 DEF At
<1>2. ToCome(row, off)'
  <2>1. ASSUME NEW k \in DOMAIN lexemes, k > Len(tokens)
        PROVE  NotAfter(row, off + n, lexemes[k].row, lexemes[k].start)
    <3>1. lexemes[k] \in TokenRange /\ IsLexeme(lexemes[k])
      BY LexemeTyped DEF Between, LexInv, LaidOut
    <3>2. lexemes[k].row \in Nat /\ lexemes[k].start \in Nat
      BY <3>1 DEF TokenRange
    <3> QED BY <1>1, <2>1, <3>1, <3>2, NoBlank DEF Between, ToCome
  <2> QED BY <1>0, <2>1, LayoutKept DEF ToCome
<1>3. Clear'
  <2>1. ASSUME NEW c \in comments
        PROVE  NotAfter(c.last, c.stop, row, off + n) \/ NotAfter(row, off + n, c.row, c.start)
    <3>1. c \in Comment /\ Byte(lines[c.row], c.start) = "/"
      BY DEF Between, LaidOut, IsComment
    <3>2. Byte(lines[c.row], c.start) \notin Space \cup {Newline}
      BY <3>1 DEF Space, Newline
    <3>3. c.row \in Nat /\ c.start \in Nat /\ c.last \in Nat /\ c.stop \in Nat
      BY <3>1 DEF Comment
    <3>4. NotAfter(c.last, c.stop, row, off) => NotAfter(c.last, c.stop, row, off + n)
      BY <1>0, <3>3 DEF NotAfter
    <3> QED BY <1>1, <3>2, <3>3, <3>4 DEF Between, Clear
  <2> QED BY <1>0, <2>1, LayoutKept DEF Clear
<1>4. Found'
  BY <1>0, LayoutKept DEF Between, Found
<1> QED BY <1>0, <1>2, <1>3, <1>4, LayoutKept DEF Between, ReadInv, ReadsAsWritten

\* The parts of a comment.
LEMMA CommentTyped ==
  ASSUME TypeOK, LaidOut, NEW c \in comments
  PROVE  /\ c.row \in 1 .. Len(lines) /\ c.last \in 1 .. Len(lines) /\ c.start \in Nat /\ c.stop \in Nat
         /\ Len(lines) \in Nat /\ IsComment(c) /\ c \in Comment
         /\ Len(lines[c.row]) \in Nat /\ c.start < Len(lines[c.row])
<1>1. c \in Comment /\ IsComment(c) /\ lines \in Seq(Seq(Char))
  BY DEF LaidOut, TypeOK, IsFile
<1>2. c.row \in DOMAIN lines /\ c.last \in DOMAIN lines /\ Byte(lines[c.row], c.start) = "/"
  BY <1>1 DEF IsComment
<1>3. c.start < Len(lines[c.row])
  BY <1>2 DEF Byte, Zero
<1> QED BY <1>1, <1>2, <1>3 DEF Comment

\* What is not read yet is behind a comment that begins at the cursor.
LEMMA BehindComment ==
  ASSUME Between, NEW c \in comments, c.row = row, c.start = off
  PROVE  ToCome(c.last, c.stop)
<1>1. SUFFICES ASSUME NEW k \in DOMAIN lexemes, k > Len(tokens)
               PROVE  NotAfter(c.last, c.stop, lexemes[k].row, lexemes[k].start)
  BY DEF ToCome
<1> DEFINE x == lexemes[k]
<1>2. x.row \in Nat /\ x.start \in Nat /\ x.size \in Nat /\ x.size > 0 /\ row \in Nat /\ off \in Nat
  BY BetweenTyped, LexemeTyped DEF Between, LexInv
<1>3. NotAfter(row, off, x.row, x.start)
  BY <1>1 DEF Between, ToCome
<1>4. Before(Span(x), c) \/ Before(c, Span(x))
  BY DEF Between, LaidOut
<1>5. ~Before(Span(x), c)
  <2>1. SUFFICES ASSUME NotAfter(x.row, x.start + x.size, row, off) PROVE FALSE
    BY DEF Before, Span
  <2> HIDE DEF x
  <2> QED BY <1>2, <1>3, <2>1 DEF NotAfter
<1> QED BY <1>4, <1>5 DEF Before, Span

\* Behind the end of a comment the cursor is in no other.
LEMMA ClearBehind ==
  ASSUME TypeOK, LaidOut, NEW c \in comments, NotAfter(c.row, c.start, c.last, c.stop)
  PROVE  \A d \in comments : NotAfter(d.last, d.stop, c.last, c.stop) \/ NotAfter(c.last, c.stop, d.row, d.start)
<1>1. SUFFICES ASSUME NEW d \in comments
               PROVE  NotAfter(d.last, d.stop, c.last, c.stop) \/ NotAfter(c.last, c.stop, d.row, d.start)
  OBVIOUS
<1>2. c = d \/ Before(c, d) \/ Before(d, c)
  BY DEF LaidOut
<1> QED BY <1>2, CommentTyped DEF Before, NotAfter

\* The test for the end of a comment, somewhere inside of it or where it ends.
LEMMA TestInside ==
  ASSUME TypeOK, LaidOut, NEW c \in comments, IsBlock(c),
         NEW r \in 1 .. Len(lines), NEW p \in Nat, p < Len(lines[r]),
         NotAfter(c.row, c.start + 2, r, p), NotAfter(r, p + 2, c.last, c.stop),
         Byte(lines[r], p) # Newline, TestEnd(lines[r], p)
  PROVE  \/ comment' = FALSE /\ r = c.last /\ off' = c.stop
         \/ /\ comment' = TRUE /\ off' \in Nat /\ off' < Len(lines[r]) /\ Byte(lines[r], off') # Newline
            /\ NotAfter(c.row, c.start + 1, r, off') /\ NotAfter(r, off' + 3, c.last, c.stop)
<1> DEFINE l == lines[r]
<1>1. /\ c.row \in Nat /\ c.last \in 1 .. Len(lines) /\ c.start \in Nat /\ c.stop \in Nat /\ c.stop > 1
      /\ Byte(lines[c.last], c.stop - 2) = "*" /\ Byte(lines[c.last], c.stop - 1) = "/"
      /\ \A q \in c.row .. c.last : \A i \in 0 .. Len(lines[q]) - 1 :
           (/\ NotAfter(c.row, c.start + 2, q, i) /\ NotAfter(q, i + 3, c.last, c.stop)
            /\ lines[q][i + 1] = "*")
              => Byte(lines[q], i + 1) \notin {"*", "/", Newline}
  <2>1. c.row \in Nat /\ c.last \in 1 .. Len(lines) /\ c.start \in Nat /\ c.stop \in Nat /\ IsComment(c)
    BY CommentTyped
  <2>2. Byte(lines[c.row], c.start + 1) # "/"
    BY DEF IsBlock
  <2> QED BY <2>1, <2>2 DEF IsComment
<1>2. r \in Nat /\ Len(l) \in Nat /\ Len(lines) \in Nat /\ c.row <= r /\ r <= c.last
  <2>1. lines \in Seq(Seq(Char))
    BY DEF TypeOK, IsFile
  <2>2. c.row <= r /\ r <= c.last
    BY <1>1 DEF NotAfter
  <2> QED BY <2>1, <2>2
<1>3. /\ comment' = ~(Byte(l, p) = "*" /\ Byte(l, p + 1) = "/")
      /\ off' = IF Byte(l, p) = "*" /\ Byte(l, p + 1) = "/" THEN p + 2
                ELSE IF Byte(l, p) = "*" THEN p + 1 ELSE p
  BY DEF TestEnd
<1>4. CASE r = c.last /\ p + 2 = c.stop
  <2>1. c.stop - 2 = p /\ c.stop - 1 = p + 1
    BY <1>4, <1>1
  <2>2. Byte(l, p) = "*" /\ Byte(l, p + 1) = "/"
    <3>1. Byte(lines[c.last], c.stop - 2) = "*" /\ Byte(lines[c.last], c.stop - 1) = "/"
      BY <1>1
    <3>2. c.last = r
      BY <1>4
    <3> QED BY <2>1, <3>1, <3>2
  <2>3. comment' = FALSE /\ off' = p + 2
    BY <2>2, <1>3
  <2> QED BY <2>3, <1>4
<1>5. CASE ~(r = c.last /\ p + 2 = c.stop)
  <2>1. NotAfter(r, p + 3, c.last, c.stop)
    <3>1. r \in Nat /\ c.last \in Nat /\ c.stop \in Nat
      BY <1>1, <1>2
    <3>2. r < c.last \/ (r = c.last /\ p + 2 <= c.stop /\ p + 2 # c.stop)
      BY <1>5 DEF NotAfter
    <3> QED BY <3>1, <3>2 DEF NotAfter
  <2>2. CASE Byte(l, p) # "*"
    <3>1. comment' = TRUE /\ off' = p
      BY <1>3, <2>2
    <3>2. NotAfter(c.row, c.start + 1, r, p)
      BY <1>1, <1>2 DEF NotAfter
    <3> QED BY <3>1, <3>2, <2>1
  <2>3. CASE Byte(l, p) = "*"
    <3>1. Byte(l, p + 1) \notin {"*", "/", Newline}
      <4>1. r \in c.row .. c.last /\ p \in 0 .. Len(lines[r]) - 1 /\ lines[r][p + 1] = "*"
        BY <1>1, <1>2, <2>3 DEF Byte
      <4> QED BY <4>1, <2>1, <1>1
    <3>2. comment' = TRUE /\ off' = p + 1
      BY <1>3, <2>3, <3>1
    <3>3. p + 1 < Len(l)
      <4>1. CASE r < c.last
        <5>1. l[Len(l)] = Newline
          BY <4>1, <1>1, <1>2 DEF TypeOK, IsFile
        <5>2. l[p + 1] = "*"
          BY <2>3 DEF Byte
        <5> QED BY <5>1, <5>2, <1>2 DEF Newline
      <4>2. CASE r = c.last
        <5>1. c.stop - 1 < Len(l)
          BY <4>2, <1>1 DEF Byte, Zero
        <5> QED BY <5>1, <4>2, <2>1, <1>1, <1>2 DEF NotAfter
      <4> QED BY <4>1, <4>2, <1>2, <1>1
    <3>4. NotAfter(r, p + 4, c.last, c.stop)
      <4>1. r = c.last /\ p + 3 = c.stop => c.stop - 2 = p + 1
        BY <1>1
      <4> QED BY <4>1, <3>1, <2>1, <1>1, <1>2 DEF NotAfter
    <3>5. NotAfter(c.row, c.start + 1, r, p + 1)
      BY <1>1, <1>2 DEF NotAfter
    <3> QED BY <3>1, <3>2, <3>3, <3>4, <3>5
  <2> QED BY <2>2, <2>3
<1> QED BY <1>4, <1>5

\* A comment that begins at the cursor.
LEMMA CommentRead ==
  ASSUME Between, UNCHANGED file, NextToken, NEW c \in comments, c.row = row, c.start = off
  PROVE  ReadInv'
<1>0. /\ Len(line) \in Nat /\ off \in Nat /\ row \in Nat /\ row > 0 /\ line = lines[row]
      /\ IsComment(c) /\ c.last \in Nat /\ c.stop \in Nat /\ Here = "/" /\ TypeOK /\ LaidOut /\ off < Len(line)
  <2>1. TypeOK /\ LaidOut
    BY DEF Between, LexInv
  <2>2. /\ IsComment(c) /\ c.last \in Nat /\ c.stop \in Nat /\ row > 0
        /\ Byte(lines[row], off) = "/" /\ off < Len(lines[row])
    <3>1. /\ IsComment(c) /\ c.last \in 1 .. Len(lines) /\ c.stop \in Nat /\ c.row \in 1 .. Len(lines)
          /\ Len(lines) \in Nat /\ c.start < Len(lines[c.row])
      BY <2>1, CommentTyped
    <3>2. Byte(lines[c.row], c.start) = "/"
      BY <3>1 DEF IsComment
    <3> QED BY <3>1, <3>2
  <2> QED BY <2>1, <2>2, BetweenTyped DEF Here, At
<1>1. CASE At(off + 1) = "/"
  <2>1. c.last = row /\ c.stop > off + 1 /\ c.stop = Len(line) - 1 /\ At(c.stop) = Newline
    BY <1>0, <1>1 DEF IsComment, IsBlock, At
  <2>2. Skip(Len(line) - 1 - off)
    <3>1. LineComment
      BY <1>0, <1>1, OnlyComment DEF Skips, OpenComment
    <3> QED BY <2>1, <3>1 DEF LineComment
  <2>3. off' = c.stop /\ UNCHANGED <<row, comment, tokens, errors, status>>
    BY <1>0, <2>1, <2>2 DEF Skip
  <2>4. ToCome(row, off)'
    BY <2>1, <2>3, BehindComment, LayoutKept DEF ToCome
  <2>5. Clear'
    <3>1. NotAfter(c.row, c.start, c.last, c.stop)
      BY <1>0, <2>1 DEF NotAfter
    <3> QED BY <1>0, <2>1, <2>3, <3>1, ClearBehind, LayoutKept DEF Clear
  <2>6. Found'
    BY <2>3, LayoutKept DEF Between, Found
  <2> QED BY <2>3, <2>4, <2>5, <2>6, LayoutKept DEF Between, ReadInv, ReadsAsWritten
<1>2. CASE At(off + 1) = "*"
  <2>1. /\ IsBlock(c) /\ NotAfter(c.row, c.start + 4, c.last, c.stop) /\ off + 1 < Len(line)
    BY <1>0, <1>2 DEF IsComment, IsBlock, At, Byte, Zero
  <2>2. OpenComment
    BY <1>0, <1>2, OnlyComment DEF Skips, LineComment
  <2>3. comment' = TRUE /\ off' = off + 1 /\ UNCHANGED <<row, tokens, errors, status>>
    BY <2>2 DEF OpenComment
  <2>4. line' = line /\ Here' = "*"
    BY <1>2, <2>3, LayoutKept DEF line, Here, At
  <2>5. NotAfter(c.row, c.start + 1, row, off + 1) /\ NotAfter(row, off + 1 + 3, c.last, c.stop)
    BY <1>0, <2>1 DEF NotAfter
  <2>6. ToCome(c.last, c.stop)'
    BY <2>3, BehindComment, LayoutKept DEF ToCome
  <2>7. InsideOf(c)'
    BY <2>1, <2>3, <2>4, <2>5, <2>6, LayoutKept DEF InsideOf, Newline
  <2>8. Found'
    BY <2>3, LayoutKept DEF Between, Found
  <2> QED BY <2>3, <2>7, <2>8, LayoutKept DEF Between, ReadInv, ReadsAsWritten
<1> QED BY <1>0, <1>1, <1>2 DEF IsComment, IsBlock, At

\* After the test for its end the lexer is behind the comment or still in it.
LEMMA AfterTest ==
  ASSUME LexInv, LaidOut, status = "running", ~errors, Found, UNCHANGED <<file, tokens, errors, status>>,
         NEW c \in comments, IsBlock(c), ToCome(c.last, c.stop),
         row' \in 1 .. Len(lines),
         \/ comment' = FALSE /\ row' = c.last /\ off' = c.stop
         \/ /\ comment' = TRUE /\ off' \in Nat /\ off' < Len(lines[row']) /\ Byte(lines[row'], off') # Newline
            /\ NotAfter(c.row, c.start + 1, row', off') /\ NotAfter(row', off' + 3, c.last, c.stop)
  PROVE  ReadInv'
<1>0. line' = lines[row']
  BY LayoutKept DEF line
<1>1. Found' /\ ToCome(c.last, c.stop)'
  BY LayoutKept DEF Found, ToCome
<1>2. TypeOK
  BY DEF LexInv
<1>3. CASE comment' = FALSE /\ row' = c.last /\ off' = c.stop
  <2>1. ToCome(row, off)'
    BY <1>1, <1>3, LayoutKept DEF ToCome
  <2>2. NotAfter(c.row, c.start, c.last, c.stop)
    <3>1. NotAfter(c.row, c.start + 4, c.last, c.stop)
      BY <1>2, CommentTyped DEF IsComment, IsBlock
    <3> QED BY <3>1, <1>2, CommentTyped DEF NotAfter
  <2>3. Clear'
    BY <1>2, <1>3, <2>2, ClearBehind, LayoutKept DEF Clear
  <2> QED BY <1>1, <1>3, <2>1, <2>3, LayoutKept DEF ReadInv, ReadsAsWritten
<1>4. CASE /\ comment' = TRUE /\ off' \in Nat /\ off' < Len(lines[row']) /\ Byte(lines[row'], off') # Newline
           /\ NotAfter(c.row, c.start + 1, row', off') /\ NotAfter(row', off' + 3, c.last, c.stop)
  <2>1. InsideOf(c)'
    BY <1>0, <1>1, <1>4, LayoutKept DEF InsideOf, Here, At
  <2> QED BY <1>1, <1>4, <2>1, LayoutKept DEF ReadInv, ReadsAsWritten
<1> QED BY <1>3, <1>4

\* A line of the file holds something.
LEMMA LineOf ==
  ASSUME TypeOK, NEW r \in 1 .. Len(lines)
  PROVE  lines[r] # <<>> /\ lines[r] \in Seq(Char)
<1>1. lines \in Seq(Seq(Char)) /\ r \in DOMAIN lines
  BY DEF TypeOK, IsFile
<1> QED BY <1>1 DEF TypeOK, IsFile

\* A newline inside of a comment is not in its last line.
LEMMA NotLastLine ==
  ASSUME TypeOK, LaidOut, NEW c \in comments, IsBlock(c), NotAfter(row, off + 3, c.last, c.stop),
         row > 0, off < Len(line), At(off + 1) = Newline
  PROVE  row < c.last
<1>1. /\ c.last \in 1 .. Len(lines) /\ c.stop \in Nat /\ c.stop > 1 /\ Len(lines) \in Nat
      /\ Byte(lines[c.last], c.stop - 2) = "*" /\ Byte(lines[c.last], c.stop - 1) = "/"
  BY CommentTyped DEF IsComment, IsBlock
<1>2. Len(line) \in Nat /\ off \in Nat /\ row \in 1 .. Len(lines) /\ line = lines[row]
  BY LineRead DEF TypeOK, line
<1>3. SUFFICES ASSUME row = c.last PROVE FALSE
  BY <1>1, <1>2 DEF NotAfter
<1>4. off + 3 <= c.stop /\ c.stop - 1 < Len(line)
  BY <1>1, <1>2, <1>3 DEF NotAfter, Byte, Zero
<1>5. off + 1 < Len(line) /\ line[off + 2] = Newline
  BY <1>1, <1>2, <1>4 DEF At, Byte
<1>6. off + 2 = Len(line)
  BY <1>2, <1>5 DEF TypeOK, IsFile
<1>7. c.stop - 1 = off + 1 \/ c.stop - 1 > off + 1
  BY <1>1, <1>2, <1>4
<1>8. c.stop - 1 # off + 1
  BY <1>1, <1>3, <1>2, <1>5 DEF Byte, Newline
<1> QED BY <1>1, <1>2, <1>4, <1>6, <1>7, <1>8

LEMMA InsideRead ==
  ASSUME LexInv, LaidOut, status = "running", ~errors, Found, UNCHANGED file, InComment,
         NEW c \in comments, InsideOf(c)
  PROVE  ReadInv'
<1>0. /\ TypeOK /\ Len(line) \in Nat /\ off \in Nat /\ off < Len(line) /\ row \in 1 .. Len(lines) /\ line = lines[row]
      /\ Len(lines) \in Nat /\ row > 0 /\ IsBlock(c) /\ Here # Newline /\ DOMAIN lines = 1 .. Len(lines)
      /\ NotAfter(c.row, c.start + 1, row, off) /\ NotAfter(row, off + 3, c.last, c.stop)
      /\ ToCome(c.last, c.stop)
  BY LineRead DEF LexInv, TypeOK, InsideOf, line
<1>c. /\ c.row \in 1 .. Len(lines) /\ c.last \in 1 .. Len(lines) /\ c.start \in Nat /\ c.stop \in Nat /\ c.stop > 1
      /\ Byte(lines[c.last], c.stop - 1) = "/" /\ \A r \in c.row + 1 .. c.last : lines[r][1] # Newline
  BY <1>0, CommentTyped DEF IsComment, IsBlock
<1>1. CASE /\ At(off + 1) # Newline
           /\ TestEnd(line, off + 1) /\ UNCHANGED <<row, tokens, errors, status>>
  <2>1. off + 1 < Len(line)
    <3>1. CASE row < c.last
      <4>1. line[Len(line)] = Newline
        <5>0. c.last \in 1 .. Len(lines) /\ Len(lines) \in Nat /\ row \in 1 .. Len(lines)
          BY <1>0, <1>c
        <5>1. ~AtEnd
          BY <5>0, <3>1 DEF AtEnd
        <5> QED BY <1>0, <5>1, LineRead
      <4>2. line[off + 1] # Newline
        BY <1>0 DEF Here, At, Byte
      <4> QED BY <1>0, <4>1, <4>2
    <3>2. CASE row = c.last
      <4>1. c.stop - 1 < Len(line)
        BY <1>0, <1>c, <3>2 DEF Byte, Zero
      <4> QED BY <1>0, <1>c, <3>2, <4>1 DEF NotAfter
    <3> QED BY <1>0, <1>c, <3>1, <3>2 DEF NotAfter
  <2>2. NotAfter(c.row, c.start + 2, row, off + 1) /\ NotAfter(row, off + 1 + 2, c.last, c.stop)
    BY <1>0, <1>c DEF NotAfter
  <2>3. Byte(lines[row], off + 1) # Newline /\ TestEnd(lines[row], off + 1)
    <3>1. lines[row] = line
      BY <1>0
    <3> QED BY <1>1, <3>1 DEF At
  <2>4. \/ comment' = FALSE /\ row = c.last /\ off' = c.stop
        \/ /\ comment' = TRUE /\ off' \in Nat /\ off' < Len(lines[row]) /\ Byte(lines[row], off') # Newline
           /\ NotAfter(c.row, c.start + 1, row, off') /\ NotAfter(row, off' + 3, c.last, c.stop)
    <3> DEFINE p == off + 1
    <3>1. p \in Nat
      BY <1>0
    <3>2. /\ p < Len(lines[row]) /\ NotAfter(c.row, c.start + 2, row, p) /\ NotAfter(row, p + 2, c.last, c.stop)
          /\ Byte(lines[row], p) # Newline /\ TestEnd(lines[row], p)
      BY <1>0, <2>1, <2>2, <2>3
    <3> HIDE DEF p
    <3> QED BY <1>0, <3>1, <3>2, TestInside
  <2> QED BY <1>0, <1>1, <2>4, AfterTest
<1>2. CASE /\ At(off + 1) = Newline /\ ~AtEnd
           /\ row' = row + 1 /\ TestEnd(lines[row + 1], 0) /\ UNCHANGED <<tokens, errors, status>>
  <2>1. row < c.last
    BY <1>0, <1>2, NotLastLine
  <2> DEFINE r == row + 1
  <2>2. r \in 1 .. Len(lines) /\ c.row < r /\ r <= c.last
    BY <1>0, <1>c, <2>1 DEF NotAfter
  <2>3. lines[r][1] # Newline /\ lines[r] # <<>> /\ lines[r] \in Seq(Char)
    <3>1. c.row \in Nat /\ c.last \in Nat /\ r \in Nat
      BY <1>0, <1>c
    <3> HIDE DEF r
    <3>2. r \in c.row + 1 .. c.last
      BY <3>1, <2>2
    <3>3. lines[r][1] # Newline
      BY <3>2, <1>c
    <3> QED BY <3>3, <2>2, <1>0, LineOf
  <2>4. 0 < Len(lines[r]) /\ Byte(lines[r], 0) # Newline
    <3> HIDE DEF r
    <3> QED BY <2>3 DEF Byte
  <2>5. NotAfter(c.row, c.start + 2, r, 0) /\ NotAfter(r, 0 + 2, c.last, c.stop)
    BY <1>0, <1>c, <2>2 DEF NotAfter
  <2>6. \/ comment' = FALSE /\ r = c.last /\ off' = c.stop
        \/ /\ comment' = TRUE /\ off' \in Nat /\ off' < Len(lines[r]) /\ Byte(lines[r], off') # Newline
           /\ NotAfter(c.row, c.start + 1, r, off') /\ NotAfter(r, off' + 3, c.last, c.stop)
    <3>1. TestEnd(lines[r], 0)
      BY <1>2
    <3> HIDE DEF r
    <3> QED BY <1>0, <2>2, <2>4, <2>5, <3>1, TestInside
  <2>7. row' = r
    BY <1>2
  <2> HIDE DEF r
  <2> QED BY <1>0, <1>2, <2>2, <2>6, <2>7, AfterTest
<1>3. CASE At(off + 1) = Newline /\ AtEnd
  <2>1. row < c.last
    BY <1>0, <1>3, NotLastLine
  <2> QED BY <1>0, <1>c, <1>3, <2>1 DEF AtEnd
<1> QED BY <1>1, <1>2, <1>3 DEF InComment

\* At the end of a line what is to come is in later lines.
LEMMA LineDone ==
  ASSUME Between, off >= Len(line)
  PROVE  /\ \A k \in DOMAIN lexemes : k > Len(tokens) => lexemes[k].row > row
         /\ \A c \in comments : NotAfter(c.last, c.stop, row, off) \/ c.row > row
<1>1. ASSUME NEW k \in DOMAIN lexemes, k > Len(tokens) PROVE lexemes[k].row > row
  <2> DEFINE x == lexemes[k]
  <2>1. /\ x.row \in 1 .. Len(lines) /\ x.start \in Nat /\ x.size \in Nat \ {0}
        /\ x.start + x.size <= Len(lines[x.row]) /\ Len(lines[x.row]) \in Nat
    BY LexemeTyped DEF Between, LexInv
  <2>2. NotAfter(row, off, x.row, x.start)
    BY <1>1 DEF Between, ToCome
  <2> HIDE DEF x
  <2>3. SUFFICES ASSUME x.row = row PROVE FALSE
    BY <2>1, <2>2, BetweenTyped DEF NotAfter, x
  <2> QED BY <2>1, <2>2, <2>3, BetweenTyped DEF NotAfter
<1>2. ASSUME NEW c \in comments PROVE NotAfter(c.last, c.stop, row, off) \/ c.row > row
  <2>1. c.row \in 1 .. Len(lines) /\ c.start \in Nat /\ c.start < Len(lines[c.row])
    BY CommentTyped DEF Between, LexInv
  <2>2. SUFFICES ASSUME NotAfter(row, off, c.row, c.start), c.row = row PROVE FALSE
    BY <2>1, BetweenTyped DEF Between, Clear, NotAfter
  <2> QED BY <2>1, <2>2, BetweenTyped DEF NotAfter
<1> QED BY <1>1, <1>2

LEMMA NextLineRead ==
  ASSUME Between, UNCHANGED file, ReadLine
  PROVE  ReadInv'
<1>0. /\ row \in Nat /\ off \in Nat /\ row' = row + 1 /\ off' = 0 /\ UNCHANGED <<comment, tokens, errors, status>>
      /\ off >= Len(line)
  BY BetweenTyped DEF ReadLine
<1>1. Found'
  BY <1>0, LayoutKept DEF Between, Found
<1>2. ToCome(row, off)'
  <2>1. ASSUME NEW k \in DOMAIN lexemes, k > Len(tokens)
        PROVE  NotAfter(row + 1, 0, lexemes[k].row, lexemes[k].start)
    <3>1. lexemes[k].row > row /\ lexemes[k].row \in Nat /\ lexemes[k].start \in Nat
      BY <1>0, <2>1, LineDone, LexemeTyped DEF Between, LexInv
    <3> QED BY <1>0, <3>1 DEF NotAfter
  <2> QED BY <1>0, <2>1, LayoutKept DEF ToCome
<1>3. Clear'
  <2>1. ASSUME NEW c \in comments
        PROVE  NotAfter(c.last, c.stop, row + 1, 0) \/ NotAfter(row + 1, 0, c.row, c.start)
    <3>1. NotAfter(c.last, c.stop, row, off) \/ c.row > row
      BY <1>0, LineDone
    <3>2. c.row \in Nat /\ c.last \in Nat /\ c.start \in Nat /\ c.stop \in Nat
      BY CommentTyped DEF Between, LexInv
    <3> QED BY <1>0, <3>1, <3>2 DEF NotAfter
  <2> QED BY <1>0, <2>1, LayoutKept DEF Clear
<1> QED BY <1>0, <1>1, <1>2, <1>3, LayoutKept DEF Between, ReadInv, ReadsAsWritten

LEMMA FileRead ==
  ASSUME Between, UNCHANGED file, EndFile
  PROVE  ReadInv'
<1> DEFINE new == [kind |-> "EOF", row |-> row, start |-> off, size |-> 1]
<1>0. /\ off >= Len(line) /\ AtEnd /\ tokens' = Append(tokens, new) /\ status' = "done"
      /\ UNCHANGED <<row, off, comment, errors>>
  BY DEF EndFile
<1>1. Len(tokens) = Len(lexemes)
  <2>1. SUFFICES ASSUME Len(tokens) < Len(lexemes) PROVE FALSE
    BY BetweenTyped DEF Between, Found
  <2>2. Len(lexemes) \in DOMAIN lexemes /\ Len(lexemes) > Len(tokens)
    BY <2>1, BetweenTyped
  <2>3. lexemes[Len(lexemes)].row > row /\ lexemes[Len(lexemes)].row \in 1 .. Len(lines)
    BY <1>0, <2>2, LineDone, LexemeTyped DEF Between, LexInv
  <2> QED BY <1>0, <2>3, BetweenTyped DEF AtEnd
<1>2. tokens = lexemes
  <2>1. \A k \in 1 .. Len(lexemes) : tokens[k] = lexemes[k]
    BY <1>1, BetweenTyped DEF Between, Found
  <2> QED BY <1>1, <2>1, BetweenTyped
<1>3. off = Len(line)
  BY <1>0, BetweenTyped
<1>4. ReadsAsWritten'
  <2>1. line' = line /\ AtEnd'
    BY <1>0, LayoutKept DEF line, AtEnd
  <2>2. tokens' = Append(lexemes', [kind |-> "EOF", row |-> row', start |-> off', size |-> 1])
    BY <1>0, <1>2, LayoutKept
  <2> QED BY <1>0, <1>3, <2>1, <2>2 DEF ReadsAsWritten, Between
<1> QED BY <1>0, <1>4, LayoutKept DEF Between, ReadInv

LEMMA InitRead == Init => ReadInv
<1> SUFFICES ASSUME Init, LaidOut PROVE ReadInv
  BY DEF ReadInv
<1>0. /\ row = 0 /\ off = 0 /\ comment = FALSE /\ tokens = <<>> /\ errors = FALSE /\ status = "running"
      /\ TypeOK
  BY InitLexed DEF Init, LexInv
<1>1. Found
  <2>1. Len(lexemes) \in Nat
    BY DEF LaidOut
  <2> QED BY <1>0, <2>1 DEF Found
<1>2. ToCome(row, off)
  <2>1. ASSUME NEW k \in DOMAIN lexemes PROVE NotAfter(0, 0, lexemes[k].row, lexemes[k].start)
    BY <1>0, LexemeTyped DEF NotAfter
  <2> QED BY <1>0, <2>1 DEF ToCome
<1>3. Clear
  <2>1. ASSUME NEW c \in comments PROVE NotAfter(0, 0, c.row, c.start)
    BY <1>0, CommentTyped DEF NotAfter
  <2> QED BY <1>0, <2>1 DEF Clear
<1> QED BY <1>0, <1>1, <1>2, <1>3 DEF ReadInv, ReadsAsWritten

LEMMA NextTokenReads ==
  ASSUME Between, UNCHANGED file, NextToken
  PROVE  ReadInv'
<1>0. /\ off < Len(line) /\ TypeOK /\ Len(line) \in Nat /\ off \in Nat /\ Here = At(off) /\ off + 0 = off
  BY BetweenTyped DEF NextToken, Between, LexInv, Here
<1>1. \/ Here \in Space \cup {Newline}
      \/ LET k == Len(tokens) + 1
         IN  k \in DOMAIN lexemes /\ lexemes[k].row = row /\ lexemes[k].start = off
      \/ \E c \in comments : c.row = row /\ c.start = off
  BY <1>0, Standing DEF Between
<1>2. CASE Here \in Space \cup {Newline}
  <2>1. CASE SkipNewline
    <3>1. Skip(1)
      BY <2>1 DEF SkipNewline
    <3>2. ASSUME NEW i \in 0 .. 1 - 1 PROVE At(off + i) \in Space \cup {Newline}
      <4>1. i = 0
        OBVIOUS
      <4> QED BY <1>0, <1>2, <4>1
    <3> QED BY <1>0, <3>1, <3>2, BlankRead
  <2>2. CASE SkipSpaces
    <3> DEFINE n == Run(Space, off)
    <3>1. n \in Nat /\ off + n <= Len(line) /\ \A i \in 0 .. n - 1 : At(off + i) \in Space
      BY <1>0, NoZero, RunEnds, BetweenTyped
    <3>2. Skip(n)
      BY <2>2 DEF SkipSpaces
    <3> HIDE DEF n
    <3> QED BY <1>0, <3>1, <3>2, BlankRead
  <2> QED BY <1>2, <2>1, <2>2, OnlyBlank
<1>3. CASE LET k == Len(tokens) + 1
           IN  k \in DOMAIN lexemes /\ lexemes[k].row = row /\ lexemes[k].start = off
  BY <1>3, TokenRead
<1>4. CASE \E c \in comments : c.row = row /\ c.start = off
  BY <1>4, CommentRead
<1> QED BY <1>1, <1>2, <1>3, <1>4

LEMMA StepRead == LexInv /\ ReadInv /\ [Next]_vars => ReadInv'
<1> SUFFICES ASSUME LexInv, ReadInv, [Next]_vars PROVE ReadInv'
  OBVIOUS
<1>1. CASE UNCHANGED vars
  <2>1. UNCHANGED file /\ UNCHANGED <<row, off, comment, tokens, errors, status>>
    BY <1>1 DEF vars
  <2>2. line' = line /\ AtEnd' = AtEnd /\ Here' = Here
    BY <2>1, LayoutKept DEF line, AtEnd, Here, At
  <2>3. /\ Found' = Found /\ ToCome(row, off)' = ToCome(row, off) /\ Clear' = Clear
        /\ \A c : InsideOf(c)' = InsideOf(c)
    BY <2>1, <2>2, LayoutKept DEF Found, ToCome, Clear, InsideOf
  <2>4. ReadsAsWritten' = ReadsAsWritten
    BY <2>1, <2>2, LayoutKept DEF ReadsAsWritten
  <2> QED BY <2>1, <2>3, <2>4, LayoutKept DEF ReadInv
<1>2. CASE Next
  <2>1. status = "running" /\ UNCHANGED file
    BY <1>2 DEF Next
  <2>2. SUFFICES ASSUME LaidOut PROVE ReadInv'
    BY <2>1, LayoutKept DEF ReadInv
  <2>3. /\ ~errors /\ Found
        /\ ~comment => ToCome(row, off) /\ Clear
        /\ comment => \E c \in comments : InsideOf(c)
    BY <2>1, <2>2 DEF ReadInv
  <2>4. CASE ~comment
    <3>1. Between
      BY <2>1, <2>2, <2>3, <2>4 DEF Between
    <3> QED BY <1>2, <2>1, <2>4, <3>1, NextLineRead, FileRead, NextTokenReads DEF Next, InComment, PastLine
  <2>5. CASE comment
    <3>1. PICK c \in comments : InsideOf(c)
      BY <2>3, <2>5
    <3>2. InComment
      BY <1>2, <2>5, <3>1 DEF Next, NextToken, PastLine, InsideOf, LexInv, TypeOK
    <3> QED BY <2>1, <2>2, <2>3, <3>1, <3>2, InsideRead
  <2> QED BY <2>4, <2>5
<1> QED BY <1>1, <1>2

\* Every file that consists of lexemes, comments, spaces and newlines is read as its
\* lexemes, one after the other and each as far as it goes, to the end of the file.
THEOREM FileAsWritten == Spec => []ReadsAsWritten
<1>1. LexInv /\ ReadInv => ReadsAsWritten
  BY DEF ReadInv, ReadsAsWritten
<1>2. Init => LexInv /\ ReadInv
  BY InitLexed, InitRead
<1>3. (LexInv /\ ReadInv) /\ [Next]_vars => (LexInv /\ ReadInv)'
  BY StepLexed, StepRead
<1> QED BY <1>1, <1>2, <1>3, PTL DEF Spec
==============================================================================
