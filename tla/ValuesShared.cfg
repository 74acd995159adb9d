CONSTANTS
  Var = {x, y}
  Literal <- MCLiteral
  Nowhere = Nowhere
  Address = {1, 2, 3}
  Data <- MCData
  MaxOperand = 2
  MaxSize = 2
  MaxPlace = 2
  MaxObject = 1
SPECIFICATION Spec
SYMMETRY VarSymmetry
INVARIANTS
  TypeOK
  ElementsTyped
  ErrorsReported
PROPERTY RunsAsValues
