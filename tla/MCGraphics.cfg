SPECIFICATION FairSpec
CONSTANTS
  Devices2D = {g2d}
  Devices3D = {g3d}
  PluginThreads = {main}
  MaxRequests = 2
  MaxBinds = 2
  MaxRebinds = 0
  MaxDamage = 2
INVARIANTS
  CallbacksAreNeitherLostNorDoubled
  DevicesAreReleased
PROPERTIES
  EveryRequestCompletes
CHECK_DEADLOCK FALSE
