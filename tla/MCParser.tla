------------------------------ MODULE MCParser ------------------------------
(* The source texts of TLC's instances of Parser. *)
EXTENDS Parser

\* Every program over all kinds of tokens; bodies differ in their braces only.
Programs == [program |-> TokenKind \ {"def"}, body |-> {"id", "{", "}", ";"},
             tokens |-> 0, nesting |-> 3]

\* Programs that call functions, whose bodies hold nested functions, classes,
\* loops and what needs them.
Bodies == [program |-> {"id", "(", ")", "{", "}", ";"},
           body |-> {"def", "id", "type", "(", ")", "{", "}", ";", "while", "break",
                     "return", "if", "else", "class"},
           tokens |-> 6, nesting |-> 4]

AllTexts == {Programs, Bodies}

\* Programs that call functions of plain bodies.
CallingTexts == {[Programs EXCEPT !.program = Bodies.program]}
=============================================================================
