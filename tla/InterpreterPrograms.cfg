CONSTANTS
  Var = {x}
  Func = {f}
  Program <- AllPrograms
  MaxEnv = 4
  MaxObject = 1
SPECIFICATION Spec
INVARIANTS
  TypeOK
  GlobalNeverFreed
  NoDanglingScope
  ScopesBalanced
  OnlyBreakTerminates
  ObjectsAlive
  LookupsEnd
  ChainFollowsNesting
