SPECIFICATION Spec
CONSTANTS
  Histograms <- Pairs
  NBlocks = 2
  NThreads = 2
  Beyond = {0, 1000}
PROPERTIES LeavesWithOneNode
CHECK_DEADLOCK FALSE
