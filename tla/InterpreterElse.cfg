CONSTANTS
  Var = {x}
  Func = {f}
  Program <- NestingPrograms
  MaxEnv = 4
  MaxObject = 1
SPECIFICATION Spec
INVARIANT ElseIsHandled
