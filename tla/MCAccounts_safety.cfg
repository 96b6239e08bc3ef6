SPECIFICATION Spec
CONSTANTS
  Email = {e1}
  Nickname = {n1, n2}
  Signup = {s1, s2}
  Visit = {v1}
  Reset = {r1, r2}
  Change = {c1}
  Serial = {e1}
  None = None
INVARIANTS
  KnownPassword
CHECK_DEADLOCK FALSE
