SPECIFICATION FairSpec
CONSTANTS
  u1 = u1
  u2 = u2
  s1 = s1
  s2 = s2
  User = {u1, u2}
  Stock = {s1, s2}
  Wanted <- MCWanted
  Chunk <- MCChunk
  Reads <- MCReads
  Tracked = {s1}
  Pass = {0, 1}
  TTL = 1
  Ago = 2
  Delay = 1
  Close = 3
  MaxTime = 3
INVARIANTS
  CacheBackedByTick
  CacheFresh
  ChangeForward
  DomesticWhole
PROPERTIES
  PassCompletes
CHECK_DEADLOCK FALSE
