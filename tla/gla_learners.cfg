SPECIFICATION Spec
INVARIANTS LearntChain LearntIsHeld NothingReported
PROPERTY ImplementsGLA
CONSTANTS
  p1 = p1
  p2 = p2
  p3 = p3
  Procs <- TwoProcs
  Rounds <- OneEach
  Links <- NoSharingLinks
SYMMETRY ProcessSymmetry
CHECK_DEADLOCK FALSE
