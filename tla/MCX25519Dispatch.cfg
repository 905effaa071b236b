CONSTANTS
  t1 = t1
  t2 = t2
  Threads <- MCThreads
  Builds <- MCBuilds
  CPUs <- MCCPUs
SPECIFICATION Spec
INVARIANTS
  TypeOK
  NoAbort
PROPERTIES
  ImplementsBackendSpec
