SPECIFICATION FairSpec
INVARIANTS TypeOK PeersComplete NobodyStopsEarly NoWrongMessage NoFalseAlarm SurvivorsHeard NoDeadlock
PROPERTIES TestEnds ImplementsTest
CONSTANTS
  p1 = p1
  p2 = p2
  p3 = p3
  Procs <- ThreeProcs
  MaxCrashes = 1
CHECK_DEADLOCK FALSE
