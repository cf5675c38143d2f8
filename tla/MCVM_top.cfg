SPECIFICATION Spec
CONSTANTS
  Programs <- MCPrograms
  ConstPool <- MCConstPool
  SymbolTable <- MCSymbolTable
  LastAddr = 5
  NGen = 2
  NArgs = 2
  StackSize = 3
  Syms = {1, 2}
  Ints = {0, 1}
  NULL = NULL
  MaxCalls = 4
INVARIANT TopIsCodeFrame
CHECK_DEADLOCK FALSE
