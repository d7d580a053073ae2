SPECIFICATION Spec
CONSTANTS
  MaxEvents = 2
  MaxQueues = 4
  MaxFaults = 2
  FaultKinds <- EveryFault
  Kinds <- EveryKind
  AckAhead = TRUE
INVARIANTS
  TypeOK
  NoSilentSkip
  AnsweredIsFinal
  RestartsOnce
  RestartIsRecorded
PROPERTY ImplementsDelivery
CHECK_DEADLOCK FALSE
