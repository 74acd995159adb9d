CONSTANTS
  Var = {x}
  Func = {f, g}
  Program <- HelperPrograms
  MaxEnv = 4
  MaxObject = 1
SPECIFICATION SpecNoRecursion
INVARIANT BreakInsideLoop
