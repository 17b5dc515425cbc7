SPECIFICATION Spec
CONSTANTS
  UINT = 65536
  DemoSizes <- MCDemo
  Fields <- MCFields
  ReadOnly <- MCReadOnly
  Commands <- MCCommands
  ApiCalls <- MCApiCalls
  Spread <- MCSpread
  Yields <- MCYields
  NThread = 256
  MaxCommands = 3
INVARIANTS TypeOK Faithful Intact OrderIrrelevant
PROPERTIES WritesOnlyAsked
CHECK_DEADLOCK FALSE
