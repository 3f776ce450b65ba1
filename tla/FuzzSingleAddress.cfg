SPECIFICATION FairSpec
CONSTANTS
  Addr <- MCAddr
  SnapshotBreakpoint <- RegionStart
  RestoreBreakpoint <- RegionStart
  NumLocations = 2
  Kind <- OtherKind
  MaxRuns <- OtherMax
  NumTriggers = 3
  Owner <- OtherOwner
  TriggerType <- OtherType
  TriggerCount <- OtherCount
  TriggerFirst <- OtherFirst
  TriggerAddr <- OtherAddr
  Reentrant = FALSE
  MaxPrefix = 10
  MaxTrail = 2
INVARIANT LogBracketing
INVARIANT RestoredToSnapshot
INVARIANT FuzzedRunsFinished
PROPERTY FuzzEnds
