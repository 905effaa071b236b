CONSTANTS
  t1 = t1
  NoWriter = NoWriter
  Threads <- MCThreads
  Certs <- MCCerts
  Calls = 1
  MaxPathlen = 1
SPECIFICATION Spec
INVARIANTS
  TimestampEKUOnlyTimeStamping
CHECK_DEADLOCK FALSE
