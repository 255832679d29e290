SPECIFICATION FairSpec
CONSTANTS
  NoThread = NoThread
  URL_LOADER = URL_LOADER
  URL_REQUEST_INFO = URL_REQUEST_INFO
  Threads = {t1, t2}
  Types <- MCTypes
  NestOrder <- MCNestOrder
  MaxId = 2
  MaxRefs = 2
INVARIANTS
  TypeOK
  AcquiredIsAlive
  RefCountExact
  DestroyedOnce
PROPERTIES
  CallsAndDestructorsFinish
CHECK_DEADLOCK FALSE
