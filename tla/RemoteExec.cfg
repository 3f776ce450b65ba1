SPECIFICATION FairSpec
CONSTANTS
  Scripts <- MCScripts
  Tables <- MCTables
  ProcBuffer = 40
  MaxPid = 4
INVARIANTS
  TypeOK
  SuccessMeansStarted
  PidFresh
PROPERTIES
  ExecEnds
CHECK_DEADLOCK FALSE
