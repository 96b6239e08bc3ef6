SPECIFICATION FairSpec
CONSTANTS
  Msg = {m1, m2}
  Reporter = {u1, u2}
  Req = {r1, r2, r3}
  Threshold = 2
INVARIANTS
  HiddenAtThreshold
  AnswersConsistent
PROPERTIES
  BoardSpec
  ReportAnswered
CHECK_DEADLOCK FALSE
