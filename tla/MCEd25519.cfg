CONSTANTS
  Seeds <- MCSeeds
  Msgs <- MCMsgs
  LimbBits = 3
  kOrder <- MCkOrder
  TopShift = 2
  BadPoints <- MCBadPoints

SPECIFICATION Spec

INVARIANTS
  TypeOK
  VerifyAcceptsIssued
  NonMalleable
