SPECIFICATION FairSpec
CONSTANTS
  MaxSize = 2
  MaxLines = 3
INVARIANTS
  SavedIsComplete
  PlotNeverBlocks
PROPERTY
  ReaderGoesOn
CHECK_DEADLOCK FALSE
