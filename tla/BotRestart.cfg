SPECIFICATION Spec
CONSTANTS
  MaxEvents = 3
  MaxQueues = 6
  MaxFaults = 1
  FaultKinds <- NoDatabaseFault
  Kinds <- RestartCommands
  AckAhead = FALSE
INVARIANTS
  PlannedRestartResumes
  NoStaleRestartRequest
CHECK_DEADLOCK FALSE
