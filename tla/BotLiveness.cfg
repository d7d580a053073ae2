SPECIFICATION FairSpec
CONSTANTS
  MaxEvents = 2
  MaxQueues = 7
  MaxFaults = 2
  FaultKinds <- CrashesAndExpiry
  Kinds <- RestartCommands
  AckAhead = TRUE
PROPERTIES
  EventsSettle
  RestartsSettle
CHECK_DEADLOCK FALSE
