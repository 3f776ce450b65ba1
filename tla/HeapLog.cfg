SPECIFICATION Spec
CONSTANTS
  Threads = {t1, t2}
  Builds = {TRUE, FALSE}
  Places = {2, 5}
  Requests <- MCRequests
  Accesses <- MCAccesses
  MaxRuns = 2
  MaxCalls = 2
  MaxWrites = 1
  Limit = 3
SYMMETRY Symmetry
INVARIANTS
  TypeOK
  
  
  NearOverflowReported
  ThrowsOnlyOnCutLine
CHECK_DEADLOCK FALSE
