SPECIFICATION LiveSpec
CONSTANTS
  Characters = {"c1"}
  Shots = {"s1", "s2"}
  Cast <- MCCast
  MaxRounds = 1
  GuardLimit = 21
  MaxCrashes = 2
  MaxRedos = 1
INVARIANTS
  RedrawDropsDerived
  ReadyIsCurrent
  ResumesWhereShown
PROPERTIES
  ImplementsPipeline
  MadeFromApproved
  DrawnOnce
  ComesToRest
CHECK_DEADLOCK FALSE
