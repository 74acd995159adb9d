CONSTANTS
  Func <- MCFunc
  Type <- MCType
  Text <- MCText
  MaxPiece = 2
SPECIFICATION Spec
CHECK_DEADLOCK FALSE
INVARIANT DuplicatesAllowed
