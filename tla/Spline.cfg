SPECIFICATION Spec
CONSTANTS
  Fields <- Several
  UNIT = 2
  SUBS = 2
  WARP = 8
  EB = 64
  RADIUS = 32
  CAP = 63
  Undef = Undef
INVARIANTS TypeOK ErrorBounded
CHECK_DEADLOCK FALSE
