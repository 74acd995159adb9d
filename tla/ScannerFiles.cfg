CONSTANTS
  Func <- MCFunc
  Type <- MCType
  Text <- MCText
  MaxPiece = 3
SPECIFICATION Spec
CHECK_DEADLOCK FALSE
INVARIANTS
  TypeOK
  ScansAsWritten
  FitForParser
PROPERTY ScanEnds
