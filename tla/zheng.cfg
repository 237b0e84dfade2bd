SPECIFICATION FairSpec
INVARIANTS TypeOK ResultsComparable ResultsLarge GroupsShrink ServedAreThrough ClassifierInv
PROPERTIES ServedReturn ImplementsLA
CONSTANTS
  p1 = p1
  p2 = p2
  p3 = p3
  p4 = p4
  p5 = p5
  p6 = p6
  p7 = p7
  p8 = p8
  p9 = p9
  Procs <- FiveProcs
  F = 2
  LogF = 1
  Networks <- LateAnswers
CHECK_DEADLOCK FALSE
