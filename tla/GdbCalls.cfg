SPECIFICATION FairSpec
CONSTANTS
  main = main
  other = other
  Callers <- One
  Uses <- AllUses
  Surprises <- NoSurprise
  MaxCommands = 4
  MaxNoise = 1
INVARIANTS
  TypeOK
  CallbacksAttributed
  StopIsOwn
  
PROPERTIES
  CallsReturn
CHECK_DEADLOCK FALSE
