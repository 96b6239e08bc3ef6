SPECIFICATION Spec
CONSTANTS
  User = {u1, u2}
  Stock = {1, 2, 3, 4}
  Listed = {1, 2, 3}
  Global = 3
  CodeOf <- MCCodeOf
  Key = {"1", "2", "3", "4", "01", "02", "x"}
  IdOf <- MCIdOf
  Canonical = {"1", "2", "3", "4"}
  NaN = NaN
  Create = {c1, c2}
  Update = {p1, p2}
  Delete = {d1}
  Simulate = {m1}
  Body <- MCBody
  Patch <- MCPatch
  Plan <- MCPlan
  Unit = 10
SYMMETRY Symmetry
CONSTRAINT FewCalls
INVARIANTS
  TypeOK
  NoWaitCycle
  RowConsistent
  SimulationLinked
PROPERTIES
  AllOrNothing
CHECK_DEADLOCK FALSE
