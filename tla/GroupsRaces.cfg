SPECIFICATION FairSpec
CONSTANTS
  Groups = {g1}
  Channels = {c1}
  Users = {u1}
  Callers = {k1, k2}
  Operations <- EveryOperation
  MaxOps = 3
  MaxFaults = 1
  FaultKinds <- EveryFault
INVARIANTS
  TypeOK
  NoLostSubscribe
  DeletedIsEmpty
PROPERTY EveryCallReturns
CHECK_DEADLOCK FALSE
