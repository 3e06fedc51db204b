SPECIFICATION Spec
CONSTANTS
  t1 = t1
  t2 = t2
  t3 = t3
  Turns = {t1, t2, t3}
  Streaming = {t2}
  Tools = {}
  Names = {"a"}
  NameOf <- OneName
  Global = {}
  Bound = {}
  Editable = {}
  MaxIterations = 1
  MaxCalls = 1
  StmCap = 5
  FailOpen = TRUE
  MemoryLossy = FALSE
INVARIANTS BufferBackedByRows
PROPERTIES ImplementsConversation HistoryKeepsDoneTurns
CHECK_DEADLOCK FALSE
SYMMETRY Symmetric
