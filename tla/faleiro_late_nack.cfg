SPECIFICATION Spec
INVARIANT ResultsComparable
CONSTANTS
  p1 = p1
  p2 = p2
  p3 = p3
  Procs <- ThreeProcs
  Proposers <- ThreeProcs
  Links <- LateNackLinks
CHECK_DEADLOCK FALSE
