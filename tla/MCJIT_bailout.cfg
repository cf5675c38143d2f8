SPECIFICATION Spec
CONSTANTS
  NULL = NULL
  NGen = 3
  NArgs = 2
  IntMod = 4
  MaxOut = 1
  Syms <- MCSyms
  ConstPool <- MCConstPool
  Answers <- MCAnswers
  Params <- MCParams
  Arrays <- MCArrays
  Programs <- MCPrograms
INVARIANT BailoutsCompile
CHECK_DEADLOCK FALSE
