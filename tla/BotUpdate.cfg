SPECIFICATION Spec
CONSTANTS
  MaxEvents = 2
  MaxQueues = 6
  MaxFaults = 1
  FaultKinds <- CrashesAndExpiry
  Kinds <- UpdateCommands
  AckAhead = FALSE
INVARIANT UpdateOnlyWhenAsked
CHECK_DEADLOCK FALSE
