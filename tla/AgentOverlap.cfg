SPECIFICATION Spec
CONSTANTS
  MayOverlap = TRUE
  MaxRequests = 2
  MaxConnections = 1
  MaxChunks = 0
INVARIANT
  ListIntact
CHECK_DEADLOCK FALSE
