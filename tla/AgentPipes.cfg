SPECIFICATION FairSpec
CONSTANTS
  MayOverlap = FALSE
  MaxRequests = 3
  MaxConnections = 2
  MaxChunks = 1
INVARIANTS
  TypeOK
  ListIntact
  IdsStandForOnePipe
PROPERTIES
  ServesNextClient
CHECK_DEADLOCK FALSE
