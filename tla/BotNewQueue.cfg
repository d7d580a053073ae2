SPECIFICATION Spec
CONSTANTS
  MaxEvents = 2
  MaxQueues = 4
  MaxFaults = 0
  FaultKinds <- NoFault
  Kinds <- OnlyRestarts
  AckAhead = FALSE
INVARIANT NewQueueKept
CHECK_DEADLOCK FALSE
