SPECIFICATION FairSpec
INVARIANTS
  TypeOK Validity DecidedIsHeld AcksFormChain CountsMatchAnswers IInv
  DecidedComparable CleanResultsComparable RefinementsBounded OnlyFirstStalls
PROPERTIES WaitingReturns ImplementsLA
CONSTANTS
  p1 = p1
  p2 = p2
  p3 = p3
  Procs <- ThreeProcs
  Proposers <- TwoProcs
  Links <- FlakyLinks
  Correct <- TwoProcs
CHECK_DEADLOCK FALSE
