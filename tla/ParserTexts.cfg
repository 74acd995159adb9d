CONSTANTS
  Func = {f}
  Source <- AllTexts
SPECIFICATION Spec
INVARIANTS
  TypeOK
  LevelsMatch
  ReadsOwnBody
PROPERTY ParseEnds
