SPECIFICATION Spec
CONSTANTS
  Groups = {g1, g2}
  Channels = {c1, c2}
  Users = {u1}
  Callers = {k1}
  Operations <- EveryOperation
  MaxOps = 3
  MaxFaults = 1
  FaultKinds <- Failing
SYMMETRY Symmetry
INVARIANTS
  MaterializedUnlessUndone
  NoOrphans
CHECK_DEADLOCK FALSE
