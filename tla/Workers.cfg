SPECIFICATION Spec
CONSTANTS
  Channels = {c1, c2}
  Public = {c1}
  NWorkers = 2
  Callers = {k1, k2}
  MaxLookups = 3
  MaxChanges = 2
  MaxFaults = 1
  MaxRestarts = 1
INVARIANTS
  TypeOK
  OnlyOvertaken
  TakeTurns
PROPERTY Copied
CHECK_DEADLOCK FALSE
