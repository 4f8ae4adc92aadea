SPECIFICATION FairSpec
CONSTANTS
  p1 = p1
  p2 = p2
  k1 = k1
  b1 = b1
  b2 = b2
  bad = bad
  None = None
  Handler = {h1, h2}
  TxId = {x1, x2}
  Request <- OneReversal
  BadBody <- BadBodies
  LeaseCanLapse = TRUE
  TtlCanPass = FALSE
  ClockSkew = FALSE
  Batch = 1
INVARIANTS
  RecordTellsOutcome
PROPERTIES
  NoKeyIsHeldForever
