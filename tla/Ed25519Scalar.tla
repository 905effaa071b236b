---------------------------- MODULE Ed25519Scalar ----------------------------
(***************************************************************************)
(* The 32-byte scalar S of an Ed25519 signature and the group order it is  *)
(* checked against in ED25519_verify (src/crypto/curve25519/curve25519.c,  *)
(* lines 305 and 323-342).  The code reads S as four little-endian 64-bit  *)
(* limbs; the model scales a limb down to LimbBits bits and keeps the      *)
(* order's shape: kOrder[] with a zero third limb and a top limb whose     *)
(* bits above the order's top bit are the ones (signature[63] & 224)       *)
(* tests.                                                                  *)
(***************************************************************************)
EXTENDS Integers

CONSTANTS
  LimbBits,   \* bits per limb of S (64 in the code)
  kOrder,     \* the group order as 4 little-endian limbs, as kOrder[] (line 327)
  TopShift    \* first bit of the top limb that (signature[63] & 224) tests

Order == kOrder[1] + kOrder[2] * 2^LimbBits + kOrder[3] * 2^(2 * LimbBits)
           + kOrder[4] * 2^(3 * LimbBits)

\* Every value the 32 bytes of S can hold.
ScalarSpace == 0..(2^(4 * LimbBits) - 1)

ASSUME /\ LimbBits \in Nat \ {0}
       /\ kOrder \in [1..4 -> 0..(2^LimbBits - 1)]
       /\ TopShift \in 0..(LimbBits - 1)
       /\ Order < 2^(3 * LimbBits + TopShift)

\* CRYPTO_load_u64_le(scopy + i * 8): limb i of S.
Limb(s, i) == (s \div 2^(LimbBits * i)) % 2^LimbBits

\* (signature[63] & 224) != 0: a bit above the order's top bit is set.
TopBitsSet(s) == Limb(s, 3) \div 2^TopShift # 0

=============================================================================
