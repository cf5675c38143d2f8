SPECIFICATION FairSpec
CONSTANTS
  Ids = {1, 2, 3}
  Objs = {cnull, a}
  ConstNull = cnull
  NULL = NULL
  InitialSize = 2
  GrowthRate = 2
  MaxLength = 5
INVARIANTS TypeOK HeapOrdered NoPairLost SearchInBounds
PROPERTIES ResultStored AscendingFindsKey OperationsReturn ImplementsStore
