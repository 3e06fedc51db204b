\* One turn of two rounds calls tools while administrators edit the registry.
SPECIFICATION FairSpec
CONSTANTS
  t1 = t1
  Turns = {t1}
  Streaming = {t1}
  Tools = {"ta", "ga"}
  Names = {"a", "b"}
  NameOf <- OneName
  Global = {"ga"}
  Bound = {"ta"}
  Editable = {"ta", "ga"}
  MaxIterations = 2
  MaxCalls = 2
  StmCap = 1
  FailOpen = FALSE
  MemoryLossy = TRUE
INVARIANTS OneTerminalEvent RunsAreGated RunsAtMostOnce DoneTurnReportsItsRuns
PROPERTIES TurnsEnd
CHECK_DEADLOCK FALSE
