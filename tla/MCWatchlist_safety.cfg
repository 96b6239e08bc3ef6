SPECIFICATION Spec
CONSTANTS
  User = {u1, u2}
  Stock = {s1, s2, s3}
  Listed = {s1, s2}
  Add = {a1, a2, a3}
  Remove = {d1, d2}
  Cap = 1
  Serial = {u1}
SYMMETRY Symmetry
INVARIANTS
  NoStockTwice
  WithinCap
PROPERTIES
  RemovedByOwner
  AsIfAtomic
CHECK_DEADLOCK FALSE
