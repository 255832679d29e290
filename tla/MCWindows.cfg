SPECIFICATION Spec
CONSTANTS
  Insts = {i1}
  Wins = {1, 2}
  MaxPending = 2
  XEvents <- MCXEvents
  TypesLate = FALSE
  FsInsts = {f1, f2}
  MaxX = 2
INVARIANTS
  CallsAreBetweenCreateAndDestroy
  EventThreadHasItsInstance
  InputIsDelivered
  FullscreenIsConsistent
PROPERTIES
  WindowCallsReturn
CHECK_DEADLOCK FALSE
