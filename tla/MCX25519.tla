-------------------------------- MODULE MCX25519 --------------------------------
(***************************************************************************)
(* X25519 for TLC.  The random keys cover the cases the inverse mask is    *)
(* about: bytes already correctly clamped (0, 64), all bits set (255, 255) *)
(* and a mixed value (13, 130).  The group has Q = 5, order 40; the        *)
(* network can inject the identity 0, the small-order point 5 and the      *)
(* full-order point 1.                                                     *)
(***************************************************************************)
EXTENDS X25519, TLC

CONSTANTS a, b

MCParties == {a, b}
MCRandKeys == {Bytes(0, 64), Bytes(255, 255), Bytes(13, 130)}
MCPeerPoints == {0, 5, 1}
MCSymmetry == Permutations(MCParties)

=============================================================================
