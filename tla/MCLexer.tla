------------------------------- MODULE MCLexer -------------------------------
(***************************************************************************)
(* Files for TLC: what a grammar of lexemes and separators writes, with    *)
(* the lexemes it means, and lines of arbitrary characters.                *)
(***************************************************************************)
EXTENDS Lexer, SequencesExt

CONSTANTS MaxLexeme, \* bound: lexemes of a file
          MaxLine    \* bound: characters of an arbitrary line

MCLetter  == {"a", "b"}
MCKeyword == {<<"a", "b">>}

Lexeme ==
  { <<"symbol", <<";">>>>, <<"symbol", <<".">>>>, <<"symbol", <<"-", ">">>>>,
    <<"operator", <<"-">>>>, <<"operator", <<"-", "-">>>>, <<"operator", <<">", "=">>>>,
    <<"operator", <<"/">>>>, <<"operator", <<"*">>>>,
    <<"number", <<"1">>>>, <<"number", <<"1", "1", ".", "1">>>>,
    <<"string", <<"\"", "\"">>>>, <<"string", <<"\"", "/", "*", "\"">>>>,
    <<"keyword", <<"a", "b">>>>, <<"identifier", <<"a", "1">>>>, <<"identifier", <<"a", "b", "a">>>> }

\* What may stand behind a lexeme: characters of its line, then a newline or not;
\* with the offsets where a comment begins and ends in it.
Separator ==
  { <<<<>>>>, <<<<" ">>>>, <<<<" ", " ", "\n">>>>, <<<<" ", "/", "/", "\"", "*", "\n">>, 1, 5>>,
    <<<<"/", "*", "\n", "a", "*", "a", "\n", " ", "*", "/">>, 0, 10>>,
    <<<<" ", "/", "*", "a", "*", "a", "/", "*", "/">>, 1, 9>>,
    <<<<" ", "/", "*", "/", "a", "\n", "*", "/", " ">>, 1, 8>> }

\* A line ends behind its newline.
Cut(text) ==
  FoldLeft(LAMBDA ls, c : IF (ls = <<>> \/ Last(Last(ls)) = "\n")
                          THEN Append(ls, <<c>>)
                          ELSE Append(Front(ls), Append(Last(ls), c)),
           <<>>, text)

\* The row and the offset of what stands behind n characters of a text.
RowAt(text, n) == 1 + Cardinality({i \in 1 .. n : text[i] = "\n"})
OffAt(text, n) == n - Max({0} \cup {i \in 1 .. n : text[i] = "\n"})

\* A lexeme and what stands behind it: nothing only if neither of the lexemes it
\* separates can go on with the other one.
Separated(pieces) ==
  \A i \in 1 .. Len(pieces) - 1 :
    pieces[i][2][1] = <<>> => \E k \in {i, i + 1} : pieces[k][1][2] = <<";">>

Written(pieces) ==
  LET size(i) == Len(pieces[i][1][2])
      from(i) == Len(FlattenSeq([k \in 1 .. i - 1 |-> pieces[k][1][2] \o pieces[k][2][1]]))
      text    == FlattenSeq([i \in DOMAIN pieces |-> pieces[i][1][2] \o pieces[i][2][1]])
      commented == {i \in DOMAIN pieces : Len(pieces[i][2]) > 1}
  IN  [lines    |-> Cut(text),
       lexemes  |-> [i \in DOMAIN pieces |->
                       [kind |-> pieces[i][1][1], row |-> RowAt(text, from(i)),
                        start |-> OffAt(text, from(i)), size |-> size(i)]],
       comments |-> {LET a == from(i) + size(i) + pieces[i][2][2]
                         b == from(i) + size(i) + pieces[i][2][3]
                     IN  [row |-> RowAt(text, a), start |-> OffAt(text, a),
                          last |-> RowAt(text, b), stop |-> OffAt(text, b)] : i \in commented}]

Garbled(length) ==
  UNION {[1 .. n -> {"/", "*", "\"", "a", "invalid"}] : n \in 0 .. length}

MCFile ==
  {Written(s) : s \in {p \in UNION {[1 .. n -> Lexeme \X Separator] : n \in 1 .. MaxLexeme} : Separated(p)}}
  \cup {[lines |-> Cut(Append(s, "\n") \o t), lexemes |-> <<>>, comments |-> {}] :
          s \in Garbled(MaxLine), t \in Garbled(MaxLine - 2)}
  \cup {[lines |-> Cut(s \o <<"\n", "\n">> \o t), lexemes |-> <<>>, comments |-> {}] :
          s, t \in Garbled(MaxLine - 2)}
==============================================================================
