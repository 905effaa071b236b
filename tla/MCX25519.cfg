CONSTANTS
  a = a
  b = b
  Parties <- MCParties
  RandKeys <- MCRandKeys
  Q = 5
  PeerPoints <- MCPeerPoints

SYMMETRY MCSymmetry

SPECIFICATION Spec

INVARIANTS
  StoredKeyNeverClamped
  EffectiveScalarUnchanged
  SharedSecretsAgree
  SmallOrderPeerRejected

CHECK_DEADLOCK FALSE
