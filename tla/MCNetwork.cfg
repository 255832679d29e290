SPECIFICATION FairSpec
CONSTANTS
  TCP = {tcp}
  UDP = {udp}
  Resolvers = {resolver}
  MaxSock = 2
  MaxTasks = 3
  MaxAddrs = 2
  UsesClosed = FALSE
  ClosesInLookup = FALSE
INVARIANTS
  TasksAreSafe
  AnsweredOnce
  OpenSocketsAreClosable
PROPERTIES
  EveryTaskEnds
CHECK_DEADLOCK FALSE
