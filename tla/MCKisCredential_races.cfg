SPECIFICATION CredFairSpec
CONSTANTS
  User = {u1}
  Call = {r1, r2, poll}
  Reg = {r1, r2}
  Key = {good, bad}
  ValidKey = {good}
  Lifetimes = {2}
  Margin = 1
  MinTtl = 1
  MaxDelay = 0
  MaxTime = 1
  None = None
INVARIANTS
  DuplicateRefused
  AcceptedKeyStays
PROPERTIES
  RegistrationAnswered
  CallerAnswered
CHECK_DEADLOCK FALSE
