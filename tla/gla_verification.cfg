SPECIFICATION Spec
INVARIANT IgnoredIsReported
CONSTANTS
  p1 = p1
  p2 = p2
  Procs <- TwoProcs
CHECK_DEADLOCK FALSE
