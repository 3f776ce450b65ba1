SPECIFICATION Spec
CONSTANTS
  Threads = {t1}
  Builds = {TRUE}
  Places = {2, 12}
  Requests <- MCRequests
  Accesses <- MCAccesses
  MaxRuns = 1
  MaxCalls = 2
  MaxWrites = 1
  Limit = 5
INVARIANTS
  SmallestDistanceDecides
CHECK_DEADLOCK FALSE
