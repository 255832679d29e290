SPECIFICATION FairSpec
CONSTANTS
  MaxStreams = 2
  MaxBytes = 2
  ReadSize = 2
  MaxOps = 3
INVARIANTS
  BodyIsReadInOrder
  CallbacksAreNeitherLostNorDoubled
PROPERTIES
  EveryCallCompletes
CHECK_DEADLOCK FALSE
