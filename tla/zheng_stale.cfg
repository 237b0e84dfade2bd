SPECIFICATION ScheduledSpec
INVARIANT ResultsComparable
CONSTANTS
  p1 = p1
  p2 = p2
  p3 = p3
  p4 = p4
  p5 = p5
  p6 = p6
  p7 = p7
  p8 = p8
  p9 = p9
  Procs <- NineProcs
  F = 4
  LogF = 2
  Networks <- StaleAck
CHECK_DEADLOCK FALSE
