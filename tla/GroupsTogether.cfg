SPECIFICATION Spec
CONSTANTS
  Groups = {g1}
  Channels = {c1, c2}
  Users = {u1, u2}
  Callers = {k1, k2, k3}
  Operations <- EveryOperation
  MaxOps = 3
  MaxFaults = 0
  FaultKinds <- NoFault
SYMMETRY Symmetry
INVARIANTS
  MaterializedTogether
  NoOrphansTogether
CHECK_DEADLOCK FALSE
