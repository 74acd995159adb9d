CONSTANTS
  FuncName = {f, g}
  ParamName = {a}
  Main = Main
  MaxOperand = 2
  MaxCall = 1
  MaxOpen = 2
  MaxCode = 3
SPECIFICATION Spec
SYMMETRY FuncSymmetry
INVARIANTS
  TypeOK
  CodeInPlace
  OperandsOwn
