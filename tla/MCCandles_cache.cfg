SPECIFICATION Spec
CONSTANTS
  kr = kr
  us = us
  ny = ny
  other = other
  crypto = crypto
  Unknown = Unknown
  r1 = r1
  r2 = r2
  u1 = u1
  u2 = u2
  User = {u1, u2}
  Stock = {kr, us, ny, other, crypto}
  Request = {r1, r2}
  Listing <- MCListing
  Excd = {"NASDAQ", "NYSE"}
  Query <- MCQuery
  Span <- MCSpan
  Life <- MCLife
  Closed <- MCClosed
  Least <- MCLeast
  Behind <- MCBehind
  KisRows = 3
  Delay = 1
  Start = 13
  MaxTime = 16
SYMMETRY MCSymmetry
CONSTRAINT FewCached
INVARIANTS
  TypeOK
  AnswerFits
  ChartFresh
CHECK_DEADLOCK FALSE
