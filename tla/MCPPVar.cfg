SPECIFICATION Spec
CONSTANTS
  NPObjects = {o1}
  Proxies = {x1}
  MaxSlots = 1
  MaxCalls = 6
  IdSpace = 3
  CountSpace = 4
  MaxRefs = 2
  MaxFrames = 2
  LendObjects = FALSE
  NestedSets = FALSE
  OrphanCalls = FALSE
INVARIANTS
  HeldThingsExist
  CountsAreExact
PROPERTIES
  NewIdsAreUnused
CHECK_DEADLOCK FALSE
