CONSTANTS
  Letter <- MCLetter
  Keyword <- MCKeyword
  File <- MCFile
  MaxLexeme = 2
  MaxLine = 4
SPECIFICATION Spec
CHECK_DEADLOCK FALSE
INVARIANTS
  TypeOK
  ReadsAsWritten
  RangesInOrder
  StaysInLine
PROPERTY LexEnds
