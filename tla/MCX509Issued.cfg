CONSTANTS
  t1 = t1
  t2 = t2
  NoWriter = NoWriter
  Threads <- MCThreads
  IssuerCerts <- MCIssuerCerts
  SubjectCerts <- MCSubjectCerts
  MaxPathlen = 1
SPECIFICATION Spec
INVARIANTS
  IssuedAgreesWithCertificates
CHECK_DEADLOCK FALSE
