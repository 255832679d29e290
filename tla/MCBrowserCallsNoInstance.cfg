SPECIFICATION FairSpec
CONSTANTS
  plugin = plugin
  browser = browser
  Loops <- MCLoops
  BrowserLoop <- browser
  PluginLoop <- plugin
  MaxCalls = 2
  MaxEvents = 1
  MaxPosts = 0
  MayDestroy = TRUE
PROPERTIES EveryCallReturns
CHECK_DEADLOCK FALSE
