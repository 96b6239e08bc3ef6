SPECIFICATION Spec
CONSTANTS
  u1 = u1
  u2 = u2
  s1 = s1
  s2 = s2
  User = {u1, u2}
  Stock = {s1, s2}
  Watched <- MCWatched
  Held <- MCHeld
  MaxMonitored = 1
  Window <- MCWindow
  Percent <- MCPercent
  Quiet = 1
  Close <- MCClose
  p1 = p1
  p2 = p2
  Pass = {p1, p2}
  Socket = {c1}
  Nobody = Nobody
  MaxTime = 3
SYMMETRY MCSymmetry
INVARIANTS
  AlertsSpaced
  AlertJustified
PROPERTIES
  ChangeTold
CHECK_DEADLOCK FALSE
