SPECIFICATION Spec
INVARIANT ResultsComplete
CONSTANTS
  p1 = p1
  p2 = p2
  p3 = p3
  Procs <- ThreeProcs
  MaxCrashes = 1
SYMMETRY ClientSymmetry
CHECK_DEADLOCK FALSE
