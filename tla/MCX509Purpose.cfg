CONSTANTS
  t1 = t1
  NoWriter = NoWriter
  Threads <- MCThreads
  Certs <- MCCerts
  Calls = 1
  MaxPathlen = 1
SPECIFICATION Spec
INVARIANTS
  CaPurposeRequiresCa
  CaCertificatesAreDeclaredCAs
  PathlenOnlyFromCA
  AccessorsMatchCertificate
  PurposeLookupsFollowTable
CHECK_DEADLOCK FALSE
