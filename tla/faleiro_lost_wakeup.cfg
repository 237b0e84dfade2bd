SPECIFICATION FairSpec
PROPERTY StartReturns
CONSTANTS
  p1 = p1
  p2 = p2
  p3 = p3
  Procs <- ThreeProcs
  Proposers <- TwoProcs
  Links <- TwoLinks
  Correct <- TwoProcs
CHECK_DEADLOCK FALSE
