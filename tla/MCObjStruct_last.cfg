SPECIFICATION Spec
CONSTANTS
  Ids = {1, 2, 3, 4}
  Objs = {cnull, a}
  ConstNull = cnull
  NULL = NULL
  InitialSize = 2
  GrowthRate = 2
  MaxLength = 4
PROPERTY GetAnswersLast
