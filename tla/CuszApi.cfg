SPECIFICATION ApiSpec
CONSTANTS
  Field <- MCField
  Extent <- MCExtent
  Len <- MCLen
  Hist <- MCHist
  Unbuildable <- FallbackBuilds
  BookLen = 5
  MaxInit = 4
  MaxFreq = 0
  Outputs = {TRUE}
  Nothing = Nothing
  Damaged = Damaged
INVARIANTS TypeOK HeaderNamesCodec FlagReset FirstTryExact
PROPERTIES ExposedKept KeepsPromise CallReturns
CHECK_DEADLOCK FALSE
