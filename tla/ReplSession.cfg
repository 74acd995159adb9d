CONSTANTS
  Name <- MCName
  Builtin <- MCBuiltin
  ClassName <- MCClassName
  IdCount = 8
  MaxLine = 5
  MaxClass = 5
SPECIFICATION Spec
CHECK_DEADLOCK FALSE
INVARIANTS
  TypeOK
  NewLineOnly
  OwnLineShown
  DroppedOnce
  NothingSwallowed
  SupersDescend
