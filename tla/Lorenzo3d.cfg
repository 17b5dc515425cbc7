SPECIFICATION PredictedSpec
CONSTANTS
  Pairs <- None
  Tested <- Fused
  Fields <- Cube27
  WARP = 2
  num_SMs = 2
  MaxInts = 40
  UNIT = 4
  MAXBLOCK = 8
  BLOCK1 = 12
  SEQ = 2
  XSEQ = 6
  BLOCK2 = 4
  BLOCK3 = 3
  SEGS = 2
  RADIUS = 4
  EBX2 = 3
  Half = 64
  Undef = Undef
  Ghosts <- NoGhost
INVARIANT SameAsOrigin
CHECK_DEADLOCK FALSE
