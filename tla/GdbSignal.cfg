SPECIFICATION FairSpec
CONSTANTS
  main = main
  other = other
  Callers <- One
  Uses <- ContinueUses
  Surprises <- Signal
  MaxCommands = 3
  MaxNoise = 1
PROPERTIES
  ContinueReturns
CHECK_DEADLOCK FALSE
