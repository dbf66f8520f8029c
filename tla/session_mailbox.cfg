SPECIFICATION LiveSpec
CONSTANTS
  Instructions = 2
  Turns = 2
  Rounds = 2
  Faults = 1
CHECK_DEADLOCK FALSE
INVARIANTS
  AcceptedIsKept
  RefusedIsNotHeard
  HeardOnce
PROPERTY
  TurnEnds
