SPECIFICATION FairSpec
CONSTANTS
  Addr <- MCAddr
  SnapshotBreakpoint <- RegionStart
  RestoreBreakpoint <- RegionEnd
  NumLocations = 2
  Kind <- MixedKind
  MaxRuns <- MixedMax
  NumTriggers = 3
  Owner <- MixedOwner
  TriggerType <- MixedType
  TriggerCount <- MixedCount
  TriggerFirst <- MixedFirst
  TriggerAddr <- MixedAddr
  Reentrant = FALSE
  MaxPrefix = 8
  MaxTrail = 2
INVARIANT TypeOK
INVARIANT LogBracketing
INVARIANT CrashReported
INVARIANT FailureHasCause
INVARIANT RestoredToSnapshot
INVARIANT SnapshotAtRegionStart
PROPERTY FuzzEnds
