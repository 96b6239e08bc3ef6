SPECIFICATION Spec
CONSTANTS
  User = {u1, u2}
  Call = {c1, c2, c3}
  Key = {good, bad}
  ValidKey = {good}
  Lifetimes = {3, 5}
  Margin = 2
  MinTtl = 2
  MaxDelay = 1
  MaxTime = 4
  None = None
SYMMETRY Symmetry
INVARIANTS
  InflightSound
  NoIssueWhileCached
  ServedTokenAlive
  ReissuedBeforeMargin
CHECK_DEADLOCK FALSE
