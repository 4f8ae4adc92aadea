SPECIFICATION Spec
CONSTANTS
  p1 = p1
  p2 = p2
  k1 = k1
  b1 = b1
  b2 = b2
  bad = bad
  None = None
  Handler = {h1, h2}
  TxId = {x1, x2, x3}
  Request <- TtlRequests
  BadBody <- BadBodies
  LeaseCanLapse = TRUE
  TtlCanPass = TRUE
  ClockSkew = TRUE
  Batch = 1
SYMMETRY Symmetry
INVARIANTS
  KeyExecutesOnce
  AnswersAreCommitted
PROPERTIES
  TerminalIsFinal
