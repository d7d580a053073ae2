SPECIFICATION Spec
CONSTANTS
  Items = {i1}
  Parts = {p1, p2}
  Readers = {r1, r2}
  TTL = 1
  MaxLatency = 1
  MaxChanges = 2
  MaxFaults = 1
  Nil = Nil
INVARIANTS
  TypeOK
  NothingInvented
  CaughtUp
  StaleIsShort
  AnswersItsQuery
SYMMETRY ReaderSymmetry
