SPECIFICATION Spec
CONSTANTS
  TaskNbr = 2
  PrioNbr = 2
  e1 = e1
  e2 = e2
  Evt = {e1, e2}
  RunMasks <- AllMasks
  PauseMasks <- LowTask
  MaxNest = 2
INVARIANTS
  SearchInBounds
  SelectedIsPending
  CurrentTaskIsRunning
  WaitsForInnermost
  MaskNesting
