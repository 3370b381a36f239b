SPECIFICATION RRFairSpec
CONSTANTS
  TaskNbr = 3
  PrioNbr = 1
  e1 = e1
  Evt = {e1}
  RunMasks <- FullMask
  PauseMasks <- NoPause
  MaxNest = 1
PROPERTIES
  OvertakenAtMostTwice
  PendingTaskRuns
  WaitsEnd
