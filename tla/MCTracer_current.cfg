SPECIFICATION TSpec
CONSTANTS
  Programs <- TracedPrograms
  ConstPool <- MCConstPool
  SymbolTable <- MCSymbolTable
  LastAddr = 7
  NGen = 2
  NArgs = 2
  StackSize = 3
  Syms = {1, 2}
  Ints = {0}
  NULL = NULL
  MaxCalls = 5
  Threshold = 2
  HeatCap = 5
  HeatBits = 2
  InitialCapacity = 2
INVARIANT CurrentInSequence
CHECK_DEADLOCK FALSE
