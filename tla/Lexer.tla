-------------------------------- MODULE Lexer --------------------------------
(***************************************************************************)
(* The lexer (Lexing/Lexer.cpp), reading a file line by line through a     *)
(* SourceManager.                                                          *)
(*                                                                         *)
(* A step is one turn of the loop of next_token, or of the loop in         *)
(* skip_comments.  The line buffer holds a line and the 0 behind it; what  *)
(* lies behind that is the rest of an earlier line or was never written,   *)
(* and a lexer that looks there has gone astray.  That the buffer is       *)
(* enlarged for a longer line is left out.                                 *)
(***************************************************************************)
EXTENDS Naturals, Sequences, FiniteSets

CONSTANTS Letter,  \* the characters of words that are no digits
          Keyword, \* the words of keyword_map
          File     \* the files: records whose field `lines' are the lines, `lexemes'
                   \* and `comments' where these were written

Digit    == {"1"}
Space    == {" "}
Symbol   == {"(", ")", "{", "}", "[", "]", ";", ",", ":", "?", "."}
Double   == { <<"+", "+">>, <<"-", "-">>, <<"=", "=">>, <<"!", "=">>, <<"<", "=">>, <<"<", "<">>,
              <<">", "=">>, <<">", ">">>, <<"&", "&">>, <<"|", "|">> }
Operator == {"+", "-", "*", "/", "=", "!", "<", ">", "&", "|", "~", "^"}
Newline  == "\n"
Quote    == "\""
Known    == Letter \cup Digit \cup Space \cup Symbol \cup Operator \cup {Newline, Quote}
Char     == Known \cup {"invalid"}
Zero     == "0"  \* the byte behind the line

\* Every line but the last one ends with its newline, which stands nowhere else.
IsFile(lines) ==
  /\ lines \in Seq(Seq(Char))
  /\ \A l \in DOMAIN lines :
       /\ lines[l] # <<>>
       /\ \A i \in DOMAIN lines[l] : lines[l][i] = Newline => i = Len(lines[l])
       /\ l < Len(lines) => lines[l][Len(lines[l])] = Newline

ASSUME LetterAssumption == Letter \cap (Digit \cup Space \cup Symbol \cup Operator
                                         \cup {Newline, Quote, "invalid", Zero}) = {}
ASSUME KeywordAssumption == Keyword \subseteq Seq(Letter \cup Digit)
ASSUME FileAssumption == \A f \in File : IsFile(f.lines)

VARIABLES
  file,    \* the file
  row,     \* how many lines have been read: line_off_
  off,     \* char_off_; inside a comment skip_comments' cursor
  comment, \* whether skip_comments is between /* and */
  tokens,  \* the tokens so far, as ranges of characters
  errors,  \* ErrorManager::error_ocurred
  status   \* how scan_file stands

vars == <<file, row, off, comment, tokens, errors, status>>

lines == file.lines
line  == IF row = 0 THEN <<>> ELSE lines[row]
AtEnd == row = Len(lines)  \* is_at_end

\* The character at an offset, from 0, of a line, and of the line read last.
Byte(l, i) == IF i < Len(l) THEN l[i + 1] ELSE Zero
At(i) == Byte(line, i)
Here  == At(off)

Kind == {"symbol", "operator", "number", "string", "keyword", "identifier", "EOF"}
TokenRange == [kind : Kind, row : Nat, start : Nat, size : Nat]

Init ==
  /\ file \in File
  /\ row = 0 /\ off = 0 /\ comment = FALSE /\ tokens = <<>> /\ errors = FALSE
  /\ status = "running"

-----------------------------------------------------------------------------

Error == errors' = TRUE

\* Mistake: the cursor is moved before the position is taken.
LateEmit(kind, n) ==
  /\ tokens' = Append(tokens, [kind |-> kind, row |-> row, start |-> off + n, size |-> n])
  /\ off' = off + n
  /\ UNCHANGED <<row, comment, errors, status>>

\* A token of n characters that begin here.
Emit(kind, n) ==
  /\ tokens' = Append(tokens, [kind |-> kind, row |-> row, start |-> off, size |-> n])
  /\ off' = off + n
  /\ UNCHANGED <<row, comment, errors, status>>

Skip(n) == off' = off + n /\ UNCHANGED <<row, comment, tokens, errors, status>>

GoAstray == status' = "astray" /\ UNCHANGED <<row, off, comment, tokens, errors>>

\* The length of the longest run of characters in C that begins at i.
Run(C, i) ==
  CHOOSE n \in 0 .. Len(line) : /\ \A k \in 0 .. n - 1 : At(i + k) \in C
                                /\ At(i + n) \notin C

\* read_required_line; without another line the file ends.
ReadLine ==
  /\ off >= Len(line) /\ ~AtEnd
  /\ row' = row + 1 /\ off' = 0
  /\ UNCHANGED <<comment, tokens, errors, status>>

EndFile ==
  /\ off >= Len(line) /\ AtEnd
  /\ tokens' = Append(tokens, [kind |-> "EOF", row |-> row, start |-> off, size |-> 1])
  /\ status' = "done"
  /\ UNCHANGED <<row, off, comment, errors>>

-----------------------------------------------------------------------------
(* skip_comments                                                           *)

\* Up to the newline, which the last line need not have.
LineComment ==
  /\ Here = "/" /\ At(off + 1) = "/"
  /\ \/ At(Len(line) - 1) = Newline /\ Skip(Len(line) - 1 - off)
     \/ At(Len(line) - 1) # Newline /\ GoAstray

OpenComment ==
  /\ Here = "/" /\ At(off + 1) = "*"
  /\ comment' = TRUE /\ off' = off + 1
  /\ UNCHANGED <<row, tokens, errors, status>>

\* Mistake: the character behind an asterisk is read twice over.
WideTest(text, i) ==
  LET ends == Byte(text, i) = "*" /\ Byte(text, i + 1) = "/"
  IN  /\ comment' = ~ends
      /\ off' = IF Byte(text, i) = "*" THEN i + 2 ELSE i

\* The test for the end of the comment, with the cursor at an offset of a line:
\* behind an asterisk the cursor moves on whether or not a slash is there.
TestEnd(text, i) ==
  LET ends == Byte(text, i) = "*" /\ Byte(text, i + 1) = "/"
  IN  /\ comment' = ~ends
      /\ off' = IF ends THEN i + 2 ELSE IF Byte(text, i) = "*" THEN i + 1 ELSE i

\* A turn of the loop, which begins with current++.
InComment ==
  /\ comment /\ off < Len(line)
  /\ \/ /\ At(off + 1) # Newline
        /\ TestEnd(line, off + 1) /\ UNCHANGED <<row, tokens, errors, status>>
     \/ /\ At(off + 1) = Newline /\ ~AtEnd
        /\ row' = row + 1 /\ TestEnd(lines[row + 1], 0) /\ UNCHANGED <<tokens, errors, status>>
     \/ /\ At(off + 1) = Newline /\ AtEnd
        /\ Error /\ comment' = FALSE /\ off' = Len(line) /\ UNCHANGED <<row, tokens, status>>

\* ... when the cursor is at the 0 already.
PastLine == comment /\ off = Len(line) /\ GoAstray

-----------------------------------------------------------------------------
(* skip_spaces and the get_* functions, in their order.                    *)

Skips == Here = "/" /\ At(off + 1) \in {"/", "*"}

SkipNewline == Here = Newline /\ Skip(1)
SkipSpaces  == Here \in Space /\ Skip(Run(Space, off))

\* Mistake: the second character of an arrow is left to be a token of its own.
HalfSymbol ==
  /\ Here \in Symbol \/ <<Here, At(off + 1)>> = <<"-", ">">>
  /\ Emit("symbol", 1)

get_symbol ==
  \/ Here \in Symbol /\ Emit("symbol", 1)
  \/ Here = "-" /\ At(off + 1) = ">" /\ Emit("symbol", 2)

get_operator ==
  /\ Here \in Operator /\ ~Skips /\ <<Here, At(off + 1)>> # <<"-", ">">>
  /\ Emit("operator", IF <<Here, At(off + 1)>> \in Double THEN 2 ELSE 1)

\* Mistake: the point is taken for granted.
PointedNumber ==
  LET whole == Run(Digit, off)
  IN  Here \in Digit /\ Emit("number", whole + 1 + Run(Digit, off + whole + 1))

\* A number may end with its point.
get_number ==
  LET whole == Run(Digit, off)
      point == At(off + whole) = "."
  IN  /\ Here \in Digit
      /\ Emit("number", IF point THEN whole + 1 + Run(Digit, off + whole + 1) ELSE whole)

\* Mistake: after the error of an unterminated string the cursor is still there.
StuckString ==
  LET quotes == {i \in off + 1 .. Len(line) - 1 : At(i) = Quote}
  IN  /\ Here = Quote
      /\ \/ \E i \in quotes : (\A k \in quotes : i <= k) /\ Emit("string", i + 1 - off)
         \/ quotes = {} /\ Error /\ UNCHANGED <<row, off, comment, tokens, status>>

\* A string ends in its line; otherwise the rest of the line is dropped.
get_string ==
  LET quotes == {i \in off + 1 .. Len(line) - 1 : At(i) = Quote}
  IN  /\ Here = Quote
      /\ \/ \E i \in quotes : (\A k \in quotes : i <= k) /\ Emit("string", i + 1 - off)
         \/ /\ quotes = {}
            /\ Error /\ off' = Len(line) /\ UNCHANGED <<row, comment, tokens, status>>

\* get_keyword and get_identifier; digits in front are a number.
get_word ==
  LET n == Run(Letter \cup Digit, off)
  IN  /\ Here \in Letter
      /\ Emit(IF SubSeq(line, off + 1, off + n) \in Keyword THEN "keyword" ELSE "identifier", n)

\* The error is thrown before char_off_++: the next token begins here again.
Invalid == Here \notin Known \cup {Zero}
RejectCharacter == Invalid /\ Error /\ UNCHANGED <<row, off, comment, tokens, status>>

-----------------------------------------------------------------------------

NextToken ==
  /\ ~comment /\ off < Len(line)
  /\ \/ LineComment \/ OpenComment \/ SkipNewline \/ SkipSpaces
     \/ get_symbol \/ get_operator \/ get_number \/ get_string \/ get_word
     \/ RejectCharacter

Next ==
  /\ status = "running" /\ UNCHANGED file
  /\ \/ ~comment /\ (ReadLine \/ EndFile)
     \/ InComment \/ PastLine \/ NextToken

\* One thread, which waits for nothing.
Spec == Init /\ [][Next]_vars /\ WF_vars(Next)

-----------------------------------------------------------------------------
(* Properties.                                                             *)

\* Types of the state; the cursor stays in the line or on the 0 behind it.
TypeOK ==
  /\ IsFile(lines) /\ row \in 0 .. Len(lines) /\ off \in 0 .. Len(line)
  /\ comment \in BOOLEAN /\ errors \in BOOLEAN
  /\ tokens \in Seq(TokenRange)
  /\ status \in {"running", "done", "astray"}

\* Errors are reported at the ranges of tokens: these lie in their line, and
\* each begins behind the one before.
RangesInOrder ==
  \A i \in DOMAIN tokens :
    LET t == tokens[i]
    IN  /\ t.kind # "EOF" => t.size > 0 /\ t.start + t.size <= Len(lines[t.row])
        /\ i > 1 => LET s == tokens[i - 1]
                    IN  s.row < t.row \/ (s.row = t.row /\ s.start + s.size <= t.start)

\* The lexer leaves its line in three cases only: in a comment of a line without
\* a newline; in one whose line has an asterisk before the newline, as the lines
\* of a framed comment have; and in one with an empty line, the newline of which
\* is never looked at.
StaysInLine ==
  status = "astray" =>
    \/ AtEnd /\ At(Len(line) - 1) # Newline
    \/ /\ comment /\ At(Len(line) - 1) = Newline
       /\ Len(line) = 1 \/ At(Len(line) - 2) = "*"

\* The lexemes of the language: what a range has to hold to be one of its kind, and
\* that it ends where no character behind it could belong to it.
IsLexeme(x) ==
  LET c(i)  == Byte(lines[x.row], x.start + i)
      first == <<c(0), c(1)>>
  IN  \/ /\ x.kind = "symbol"
         /\ (x.size = 1 /\ c(0) \in Symbol) \/ (x.size = 2 /\ first = <<"-", ">">>)
      \/ /\ x.kind = "operator" /\ first \notin {<<"-", ">">>, <<"/", "/">>, <<"/", "*">>}
         /\ (x.size = 1 /\ c(0) \in Operator /\ first \notin Double) \/ (x.size = 2 /\ first \in Double)
      \/ /\ x.kind = "number" /\ c(x.size) \notin Digit
         /\ \E whole \in 1 .. x.size :
              /\ \A i \in 0 .. x.size - 1 : i # whole => c(i) \in Digit
              /\ c(whole) = "." <=> whole < x.size
      \/ /\ x.kind = "string" /\ x.size > 1
         /\ \A i \in 0 .. x.size - 1 : c(i) = Quote <=> i \in {0, x.size - 1}
      \/ /\ x.kind \in {"keyword", "identifier"} /\ c(0) \in Letter /\ c(x.size) \notin Letter \cup Digit
         /\ \A i \in 0 .. x.size - 1 : c(i) \in Letter \cup Digit
         /\ x.kind = "keyword" <=> SubSeq(lines[x.row], x.start + 1, x.start + x.size) \in Keyword

\* A comment runs up to the newline of its line, or to the first asterisk before a
\* slash.  Of these the lexer reads the ones in which no asterisk stands before an
\* asterisk or a newline and no line is empty.
Comment == [row : Nat, start : Nat, last : Nat, stop : Nat]
IsBlock(c) == Byte(lines[c.row], c.start + 1) = "*"

NotAfter(r, i, s, j) == r < s \/ (r = s /\ i <= j)

IsComment(c) ==
  /\ c.row \in DOMAIN lines /\ c.last \in DOMAIN lines /\ Byte(lines[c.row], c.start) = "/"
  /\ \/ /\ Byte(lines[c.row], c.start + 1) = "/" /\ c.last = c.row /\ c.stop > c.start + 1
        /\ c.stop = Len(lines[c.row]) - 1 /\ Byte(lines[c.row], c.stop) = Newline
     \/ /\ IsBlock(c) /\ c.stop > 1 /\ NotAfter(c.row, c.start + 4, c.last, c.stop)
        /\ Byte(lines[c.last], c.stop - 2) = "*" /\ Byte(lines[c.last], c.stop - 1) = "/"
        /\ \A r \in c.row + 1 .. c.last : lines[r][1] # Newline
        /\ \A r \in c.row .. c.last : \A i \in 0 .. Len(lines[r]) - 1 :
             (/\ NotAfter(c.row, c.start + 2, r, i) /\ NotAfter(r, i + 3, c.last, c.stop)
              /\ lines[r][i + 1] = "*")
                => Byte(lines[r], i + 1) \notin {"*", "/", Newline}

\* A file is laid out if it consists of lexemes and comments, of which none begins
\* in another, and of spaces and newlines around them.
lexemes  == file.lexemes
comments == file.comments

Span(x) == [row |-> x.row, start |-> x.start, last |-> x.row, stop |-> x.start + x.size]
Before(a, b) == NotAfter(a.last, a.stop, b.row, b.start)
Holds(a, r, i) == NotAfter(a.row, a.start, r, i) /\ NotAfter(r, i + 1, a.last, a.stop)

LaidOut ==
  /\ lexemes \in Seq(TokenRange) /\ comments \subseteq Comment
  /\ \A k \in DOMAIN lexemes :
       LET x == lexemes[k]
       IN  /\ x.row \in DOMAIN lines /\ x.size > 0 /\ x.start + x.size <= Len(lines[x.row])
           /\ IsLexeme(x)
           /\ \A j \in 1 .. k - 1 : Before(Span(lexemes[j]), Span(x))
  /\ \A c \in comments :
       /\ IsComment(c)
       /\ \A k \in DOMAIN lexemes : Before(Span(lexemes[k]), c) \/ Before(c, Span(lexemes[k]))
       /\ \A d \in comments : c = d \/ Before(c, d) \/ Before(d, c)
  /\ \A r \in DOMAIN lines : \A i \in 0 .. Len(lines[r]) - 1 :
       \/ lines[r][i + 1] \in Space \cup {Newline}
       \/ \E k \in DOMAIN lexemes : Holds(Span(lexemes[k]), r, i)
       \/ \E c \in comments : Holds(c, r, i)

\* Such a file is read to its end as these lexemes and without an error, whatever
\* comments, quotes and line breaks stand between them or in them.
ReadsAsWritten ==
  status # "running" /\ LaidOut =>
    /\ status = "done" /\ ~errors
    /\ tokens = Append(lexemes, [kind |-> "EOF", row |-> row, start |-> off, size |-> 1])
    /\ AtEnd /\ off = Len(line)

\* A file comes to its end, unless the lexer goes astray or meets an invalid
\* character, at which it stays.
LexEnds == <>(status # "running" \/ (~comment /\ Invalid))
==============================================================================
