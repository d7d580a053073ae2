SPECIFICATION Spec
CONSTANTS
  Groups = {g1}
  Channels = {c1}
  MaxCalls = 2
  MaxChanges = 2
  MaxFaults = 1
  MaxCrashes = 1
  Nil = Nil
INVARIANTS
  TypeOK
  ActiveIsTracked
  FoldersAgree
PROPERTY DeadGoes
CHECK_DEADLOCK FALSE
