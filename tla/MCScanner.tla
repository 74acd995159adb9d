------------------------------ MODULE MCScanner ------------------------------
(***************************************************************************)
(* Files for TLC: sequences of pieces, whole, cut off somewhere or with    *)
(* something broken in it, and what they mean.                             *)
(***************************************************************************)
EXTENDS Scanner, SequencesExt

CONSTANT MaxPiece \* bound: pieces of a file

MCFunc == {"f", "g"}
MCType == {"num"}

\* Heads of functions: their tokens, the offsets of what ends the parameters, and
\* that of the closing parenthesis.
Heads == { << <<"def", "f", "(", ")">>, <<>>, 3 >>,
           << <<"def", "f", "(", "const", "num", "g", ")", "->", "num">>, <<6>>, 6 >>,
           << <<"def", "f", "(", "num", "g", "=", "other", ",", "num", "f", ")">>, <<7, 10>>, 10 >>,
           << <<"def", "g", "(", "num", "f", ",", ")", "->", "const", "num">>, <<5>>, 6 >> }
Bodies == { <<";">>, <<"{", "}">>, <<"{", "f", ";", "{", "def", "}", "}">>, <<"f", ";">> }

\* A piece of a file: a head and a body, or tokens that are no function.
Pieces == (Heads \X Bodies) \cup { <<<<>>, <<"f", ";">>>>, <<<<>>, <<"{", "other", "}">>>> }

Broken ==
  { <<"def", "(">>, <<"def", "f", "num">>, <<"def", "f", "(", "num", "g", ";">>,
    <<"def", "f", "(", "f", "g", ")">>, <<"def", "f", "(", "num", "const", ")">>,
    <<"def", "f", "(", ")", "->", "f">>, <<"def", "f", "(", ")", "->", "const">>,
    <<"def", "f", "(", "num", "g", "=", ";">> }

PieceTokens(p) == IF p[1] = <<>> THEN p[2] ELSE p[1][1] \o p[2]
Tokens(pieces) == FlattenSeq([i \in DOMAIN pieces |-> PieceTokens(pieces[i])])

File(tokens, fs) == [code |-> Append(tokens, EOF), functions |-> fs]

\* The file that consists of some pieces.
Written(pieces) ==
  LET first(i) == Len(Tokens(SubSeq(pieces, 1, i - 1))) + 1
      open(i)  == first(i) + Len(pieces[i][1][1])
      heads    == SelectSeq([i \in DOMAIN pieces |-> i], LAMBDA i : pieces[i][1] # <<>>)
  IN  File(Tokens(pieces),
           [k \in DOMAIN heads |->
              LET i == heads[k]
                  h == pieces[i][1]
              IN  [name |-> h[1][2], first |-> first(i), ends |-> [j \in DOMAIN h[2] |-> first(i) + h[2][j]],
                   close |-> first(i) + h[3], open |-> open(i), last |-> open(i) + Len(pieces[i][2]) - 1]])

Programs == UNION {[1 .. n -> Pieces] : n \in 0 .. MaxPiece}
Short    == UNION {[1 .. n -> Pieces] : n \in 0 .. 1}
Cut      == UNION {{SubSeq(Tokens(p), 1, n) : n \in 0 .. Len(Tokens(p))} : p \in Short}
Garbled  == {Tokens(p) \o b \o c : p \in Short, b \in Broken, c \in {<<>>, <<",", "g", ")">>}}

MCText == {Written(p) : p \in Programs} \cup {File(t, <<>>) : t \in Cut \cup Garbled}
==============================================================================
