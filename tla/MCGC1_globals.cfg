SPECIFICATION Spec
CONSTANTS
  Objs = {a, b, c}
  LowZero = {a}
  NULL = NULL
  Const = Const
  Regs = {r0, r1}
  StackSize = 2
  InitialSize = 1
  GrowthRate = 2
  Moves = {TRUE, FALSE}
  MaxOps = 5
SYMMETRY Symmetric
INVARIANT GlobalsAlive
CHECK_DEADLOCK FALSE
