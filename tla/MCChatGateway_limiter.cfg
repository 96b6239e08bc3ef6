SPECIFICATION Spec
CONSTANTS
  User = {u1}
  Message = {m1, m2, m3, m4}
  Kinds = {"plain", "unlisted"}
  Window = 2
  Limit = 2
  Ban = 3
  MaxTime = 5
  None = None
SYMMETRY Symmetry
INVARIANTS
  RateLimited
  BanServed
CHECK_DEADLOCK FALSE
