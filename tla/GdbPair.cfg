SPECIFICATION Spec
CONSTANTS
  main = main
  other = other
  Callers <- Two
  Uses <- PairUses
  Surprises <- NoSurprise
  MaxCommands = 5
  MaxNoise = 1
INVARIANTS
  OneOutstanding
  WaitersServed
CHECK_DEADLOCK FALSE
