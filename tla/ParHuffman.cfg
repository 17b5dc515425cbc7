SPECIFICATION Spec
CONSTANTS
  Histograms <- Small
  NBlocks = 3
  NThreads = 3
  Beyond = {0, 1000}
INVARIANTS TypeOK ForestSound CompleteCode FrequentNotLonger LeavesCopied MergedWhole RingHasRoom
PROPERTY Terminates
CHECK_DEADLOCK FALSE
