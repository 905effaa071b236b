CONSTANTS
  t1 = t1
  t2 = t2
  NoWriter = NoWriter
  Threads <- MCThreads
  Certs <- MCCerts
  Calls = 2
  MaxPathlen = 1
SPECIFICATION Spec
INVARIANTS
  TypeOK
  NoLeakedExtensions
  SelfSignedConsistent
  CrlDistPointsResolved
PROPERTIES
  AllCallsReturn
  ImplementsCacheSpec
CHECK_DEADLOCK FALSE
