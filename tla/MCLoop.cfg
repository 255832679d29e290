SPECIFICATION FairSpec
CONSTANTS
  loop = loop
  browser = browser
  Loops <- MCLoops
  Loop <- loop
  BrowserLoop <- browser
  MaxTasks = 3
  MaxRuns = 2
  MaxTime = 3
  Delays = {0, 1}
  MaxQuits = 1
  MaxSync = 1
  MaxFlash = 2
  MaxFlashQuits = 3
  UniqueStamps = TRUE
  AnyQuit = FALSE
  TeardownCalls = FALSE
  MixFlash = FALSE
INVARIANTS
  LoopIsConsistent
  AcceptedWorkIsKept
  RunsReturnInTurn
PROPERTIES
  WorkInOrder
  WorkIsServed
CHECK_DEADLOCK FALSE
