SPECIFICATION Spec
CONSTANTS
  Symbol = {"a", "b", "c", "d"}
  Books <- TwoBooks
  CellBits = 4
  MaxLen = 7
  ParDeg = 3
  Fields <- SomeFields
  HostJunk = {0}
  MaxCalls = 2
INVARIANTS TypeOK UnreadIntact ChunksTile RoundTrip
PROPERTY CallReturns
CHECK_DEADLOCK FALSE
