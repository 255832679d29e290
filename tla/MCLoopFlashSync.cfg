SPECIFICATION Spec
CONSTANTS
  loop = loop
  browser = browser
  Loops <- MCLoops
  Loop <- loop
  BrowserLoop <- browser
  MaxTasks = 2
  MaxRuns = 2
  MaxTime = 3
  Delays = {0}
  MaxQuits = 0
  MaxSync = 1
  MaxFlash = 1
  MaxFlashQuits = 1
  UniqueStamps = TRUE
  AnyQuit = FALSE
  TeardownCalls = FALSE
  MixFlash = TRUE
INVARIANTS SyncReturnsAfterAnswer
CHECK_DEADLOCK FALSE
