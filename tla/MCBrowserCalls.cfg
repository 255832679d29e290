SPECIFICATION FairSpec
CONSTANTS
  plugin = plugin
  browser = browser
  Loops <- MCLoops
  BrowserLoop <- browser
  PluginLoop <- plugin
  MaxCalls = 3
  MaxEvents = 2
  MaxPosts = 1
  MayDestroy = TRUE
INVARIANTS TypeOK
PROPERTIES CallsAreSynchronous CallsReturnWhileAlive
CHECK_DEADLOCK FALSE
