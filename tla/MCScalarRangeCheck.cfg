CONSTANTS
  LimbBits = 3
  kOrder <- MCkOrder
  TopShift = 2

SPECIFICATION Spec

INVARIANTS
  TypeOK
  AcceptsExactlyBelowOrder

PROPERTY
  LoopTerminates

CHECK_DEADLOCK FALSE
