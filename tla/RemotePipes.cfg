SPECIFICATION FairSpec
CONSTANTS
  NumPipes = 2
  MayOverlap = FALSE
  MaxChunks = 1
  MaxRuns = 3
INVARIANTS
  TypeOK
  
  LoggedUnlessDead
PROPERTY
  DataDelivered
CHECK_DEADLOCK FALSE
