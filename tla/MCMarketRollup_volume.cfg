SPECIFICATION RollupSpec
CONSTANTS
  KR = KR
  US = US
  Exchange = {KR, US}
  Sub = 2
  Length = 5
  Offset <- MCOffset
  Session <- MCSession
  RollAt = 4
  EnsureAt = 1
  RetainAt = 2
  Ahead = 3
  Keep = 0
  Late = 2
  Price <- MCPrice
  Volume <- MCVolume
  MaxTicks = 3
  MaxDay = 2
INVARIANTS
  DailyVolume
CHECK_DEADLOCK FALSE
