SPECIFICATION Spec
CONSTANTS
  DictSize = 6
  TypeBW = 7
  Lengths <- Complete
  Orders <- SomeOrders
  NWarps = 3
  MaxBuilds = 2
INVARIANTS TypeOK LengthsAssigned Decodable
PROPERTY Finishes
CHECK_DEADLOCK FALSE
