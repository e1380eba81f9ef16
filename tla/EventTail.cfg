SPECIFICATION TailLiveSpec
CONSTANTS
  BatchSize = 2
  MaxWrites = 4
  MaxDrops = 1
INVARIANTS NoneSkipped
PROPERTIES GateIsTakenDown
CHECK_DEADLOCK FALSE
