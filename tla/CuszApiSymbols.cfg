SPECIFICATION ApiSpec
CONSTANTS
  Field <- MCField
  Extent <- MCExtent
  Len <- MCLen
  Hist <- MCHist
  Unbuildable <- FallbackBuilds
  BookLen = 5
  MaxInit = 3
  MaxFreq = 0
  Outputs = {TRUE}
  Nothing = Nothing
  Damaged = Damaged
INVARIANT EverySymbolCoded
CHECK_DEADLOCK FALSE
