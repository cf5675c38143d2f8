SPECIFICATION TSpec
CONSTANTS
  Programs <- AllPrograms
  ConstPool <- MCConstPool
  SymbolTable <- MCSymbolTable
  LastAddr = 7
  NGen = 2
  NArgs = 2
  StackSize = 3
  Syms = {1, 2}
  Ints = {0}
  NULL = NULL
  MaxCalls = 5
  Threshold = 2
  HeatCap = 5
  HeatBits = 2
  InitialCapacity = 2
INVARIANTS TypeOK ReturnSites BacktraceLinks OwnState
INVARIANTS TraceTypeOK RoomForItem RecordedOnce NotesCurrent OneRecorder IndexSound
PROPERTIES HandlerUsedOnce CompleteIsFinal
CHECK_DEADLOCK FALSE
