SPECIFICATION LiveSpec
CONSTANTS
  PlanSize = 2
  MaxRounds = 1
  MaxEvents = 2
  Replies <- MCReplies
INVARIANTS
  OneKeyPerDemand
PROPERTIES
  OwnWritesPass
  FrameReplacesItsRow
  GetsThrough
CHECK_DEADLOCK FALSE
