SPECIFICATION Spec
CONSTANTS
  lbl = lbl
  subr = subr
  print = print
  Programs <- MCPrograms
  Names = {lbl, subr, print}
  NULL = NULL
  ChunkInitial = 20
  ChunkGrowth = 16
  Space = 100000
  Primitives <- MCPrimitives
  ProgramInitial = 32
  SymbolsInitial = 3
  PoolInitial = 1
  DebugInitial = 2
INVARIANT CallLabelsResolve
CHECK_DEADLOCK FALSE
