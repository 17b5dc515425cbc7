SPECIFICATION Spec
CONSTANTS
  Field <- SmallField
  Extent <- SmallExtent
  Len <- SmallLen
  Hist <- SmallHist
  Unbuildable <- SmallFails
  BookLen = 3
  MaxInit = 2
  MaxFreq = 1
  Outputs = {TRUE}
  Nothing = Nothing
  Damaged = Damaged
INVARIANTS NoSymbolLost PrimaryFits DecodesInAnyState
CHECK_DEADLOCK FALSE
