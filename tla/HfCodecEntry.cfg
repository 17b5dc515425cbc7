SPECIFICATION Spec
CONSTANTS
  Symbol = {"a", "b", "c", "d"}
  Books <- TwoBooks
  CellBits = 4
  MaxLen = 7
  ParDeg = 3
  Fields <- SomeFields
  HostJunk = {0, 1}
  MaxCalls = 1
INVARIANT RoundTrip
CHECK_DEADLOCK FALSE
