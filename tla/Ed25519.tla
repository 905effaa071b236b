------------------------------- MODULE Ed25519 -------------------------------
(***************************************************************************)
(* Ed25519 key generation, signing and verification, as implemented by     *)
(* ED25519_keypair_from_seed, ED25519_keypair, ED25519_sign and            *)
(* ED25519_verify in src/crypto/curve25519/curve25519.c.                   *)
(*                                                                         *)
(* The group arithmetic and SHA-512 are external collaborators and are     *)
(* abstracted.  The prime-order group is Z_Order with base point 1, so a   *)
(* point is its own encoding and k x B is k mod Order; SHA-512 is a fixed  *)
(* deterministic mixing function.  A 32-byte scalar is abstracted to the   *)
(* two bytes the clamping touches, byte 0 and byte 31, as the number       *)
(* byte0 + 256 * byte31.  Kept exactly: the clamping masks, which buffers  *)
(* each hash covers, the negation of A, the early rejections of verify,    *)
(* and the limb-by-limb "S < order" loop, on a scalar scaled down from 4   *)
(* limbs of 64 bits to 4 limbs of LimbBits bits.                           *)
(***************************************************************************)
EXTENDS Integers, FiniteSets, SequencesExt, Bitwise, Ed25519Scalar

CONSTANTS
  Seeds,      \* 32-byte seeds a caller or RAND_bytes can supply
  Msgs,       \* messages (any length; abstracted to small naturals)
  BadPoints   \* 32-byte public keys that x25519_ge_frombytes_vartime rejects

ASSUME BadPoints \cap 0..(Order - 1) = {}

VARIABLES
  keys,      \* the 64-byte private keys (seed || public key) generated so far
  sigs,      \* the signatures ED25519_sign has produced, with their inputs
  verdict    \* the inputs and result of the last ED25519_verify call ({} or one)

vars == <<keys, sigs, verdict>>

-----------------------------------------------------------------------------
(* External collaborators (spec section 6), abstracted.                    *)

HashMod == 65521
HashStep(acc, x) == (acc * 257 + x + 1) % HashMod
\* SHA-512 of the concatenated buffers: the low half's bytes 0 and 31 and
\* the high half (the nonce prefix), each a deterministic mix of the input.
SHA512(bufs) == [lo |-> FoldLeft(HashStep, 1, bufs),
                 hi |-> FoldLeft(HashStep, 2, bufs)]

\* x25519_ge_scalarmult_base followed by ge_p3_tobytes.
ScalarMultBase(k) == k % Order
\* x25519_ge_frombytes_vartime: whether the 32 bytes decode to a point.
Decodes(p) == p < Order
\* x25519_sc_reduce of a 64-byte digest.
sc_reduce(d) == (d.lo + (d.hi % Order) * (65536 % Order)) % Order
\* sc_muladd(s, a, b, c): s = a * b + c mod order.
sc_muladd(a, b, c) == (a * b + c) % Order
\* ge_double_scalarmult_vartime(R, h, A, s) followed by x25519_ge_tobytes.
DoubleScalarMult(h, A, s) == (h * A + s) % Order

-----------------------------------------------------------------------------
(* The code's own logic.                                                   *)

Byte0(x) == x % 256
Byte31(x) == x \div 256
Bytes(b0, b31) == b0 + 256 * b31

\* az[0] &= 248; az[31] &= 127; az[31] |= 64;  in ED25519_keypair_from_seed.
KeygenClamp(x) == Bytes(Byte0(x) & 248, (Byte31(x) & 127) | 64)

\* az[0] &= 248; az[31] &= 63; az[31] |= 64;  in ED25519_sign.
SignClamp(x) == Bytes(Byte0(x) & 248, (Byte31(x) & 63) | 64)

\* The public key of a seed: clamp the low half of SHA512(seed), multiply
\* the base point, encode.
PublicOf(seed) == ScalarMultBase(KeygenClamp(SHA512(<<seed>>).lo))

\* The expanded private key: seed || encoded public key.
ED25519_keypair_from_seed(seed) == [seed |-> seed, pub |-> PublicOf(seed)]

\* Mutant of ED25519_sign: the challenge hashes the seed half of the
\* private key (private_key) instead of its public half (private_key + 32).
ED25519_sign_hram_seed(m, priv) ==
  LET az    == SHA512(<<priv.seed>>)
      nonce == sc_reduce(SHA512(<<az.hi, m>>))
      R     == ScalarMultBase(nonce)
      hram  == sc_reduce(SHA512(<<R, priv.seed, m>>))
  IN  [R |-> R, S |-> sc_muladd(hram, SignClamp(az.lo), nonce)]

\* Mutant of ED25519_sign: S written as hram * a + nonce without the
\* reduction sc_muladd performs.
ED25519_sign_unreduced(m, priv) ==
  LET az    == SHA512(<<priv.seed>>)
      nonce == sc_reduce(SHA512(<<az.hi, m>>))
      R     == ScalarMultBase(nonce)
      hram  == sc_reduce(SHA512(<<R, priv.pub, m>>))
  IN  [R |-> R, S |-> hram * SignClamp(az.lo) + nonce]

\* A signature R || S over m with private key priv.
ED25519_sign(m, priv) ==
  LET az    == SHA512(<<priv.seed>>)
      nonce == sc_reduce(SHA512(<<az.hi, m>>))
      R     == ScalarMultBase(nonce)
      hram  == sc_reduce(SHA512(<<R, priv.pub, m>>))
  IN  [R |-> R, S |-> sc_muladd(hram, SignClamp(az.lo), nonce)]

RECURSIVE OrderLoop(_, _)
OrderLoop(s, i) ==
  LET word == Limb(s, i) IN
  IF word > kOrder[i + 1] THEN FALSE
  ELSE IF word < kOrder[i + 1] THEN TRUE
  ELSE IF i = 0 THEN FALSE
  ELSE OrderLoop(s, i - 1)

ScalarBelowOrder(s) == OrderLoop(s, 3)

\* Mutant of ED25519_verify: no range check of S (the check RFC 8032 added
\* and many implementations omit).
ED25519_verify_no_order_check(m, sig, pk) ==
  /\ ~TopBitsSet(sig.S)
  /\ Decodes(pk)
  /\ LET h == sc_reduce(SHA512(<<sig.R, pk, m>>))
     IN  DoubleScalarMult(h, (Order - pk) % Order, sig.S) = sig.R

\* Whether ED25519_verify returns 1.  Its early returns are the conjuncts in
\* the order the code tests them; A is negated (fe_neg of X and T) before
\* the double scalar multiplication, and R is compared with the encoding of
\* h * (-A) + S * B.
ED25519_verify(m, sig, pk) ==
  /\ ~TopBitsSet(sig.S)
  /\ Decodes(pk)
  /\ ScalarBelowOrder(sig.S)
  /\ LET h == sc_reduce(SHA512(<<sig.R, pk, m>>))
     IN  DoubleScalarMult(h, (Order - pk) % Order, sig.S) = sig.R

-----------------------------------------------------------------------------
(* The caller's operations.                                                *)

\* ED25519_keypair_from_seed with a caller-supplied seed.
KeypairFromSeed(seed) ==
  /\ keys' = keys \cup {ED25519_keypair_from_seed(seed)}
  /\ UNCHANGED <<sigs, verdict>>

\* ED25519_keypair: RAND_bytes into seed, derive the key pair, then
\* OPENSSL_cleanse(seed).
Keypair ==
  \E seed \in Seeds :
    /\ keys' = keys \cup {ED25519_keypair_from_seed(seed)}
    /\ UNCHANGED <<sigs, verdict>>

\* ED25519_sign with one of the generated private keys.
Sign(priv, m) ==
  /\ sigs' = sigs \cup {[msg |-> m, pub |-> priv.pub,
                         sig |-> ED25519_sign(m, priv)]}
  /\ UNCHANGED <<keys, verdict>>

\* The signatures an adversary derives from an issued one: R changed, S
\* plus a multiple of the order (still within 32 bytes), S with a masked
\* top bit set.
Tampered(sig) ==
  {[R |-> r, S |-> s] : r \in {sig.R, sig.R + 1},
                        s \in {sig.S + j * Order : j \in 0..3} \cap ScalarSpace}
  \cup {[R |-> sig.R, S |-> sig.S + 2^(3 * LimbBits + TopShift)]}

\* ED25519_verify of an issued or tampered signature, over any message and
\* any generated or malformed public key.
Verify(m, pk, sig) ==
  /\ verdict' = {[msg |-> m, pub |-> pk, sig |-> sig,
                  ok |-> ED25519_verify(m, sig, pk)]}
  /\ UNCHANGED <<keys, sigs>>

Init ==
  /\ keys = {}
  /\ sigs = {}
  /\ verdict = {}

Next ==
  \/ \E seed \in Seeds : KeypairFromSeed(seed)
  \/ Keypair
  \/ \E priv \in keys, m \in Msgs : Sign(priv, m)
  \/ \E s \in sigs, m \in Msgs, pk \in {k.pub : k \in keys} \cup BadPoints :
       \E sig \in Tampered(s.sig) : Verify(m, pk, sig)

Spec == Init /\ [][Next]_vars

-----------------------------------------------------------------------------
(* Properties.                                                             *)

TypeOK ==
  /\ keys \subseteq [seed : Seeds, pub : 0..(Order - 1)]
  /\ sigs \subseteq [msg : Msgs, pub : 0..(Order - 1),
                     sig : [R : 0..(Order - 1), S : 0..(Order - 1)]]
  /\ Cardinality(verdict) <= 1

\* Round trip (spec section 8): ED25519_verify accepts every signature that
\* ED25519_sign produced, for the message and the public key it was made
\* with.  Sign and verify hash different buffers (the public half of the
\* 64-byte private key, the caller's public key) and clamp differently.
VerifyAcceptsIssued ==
  \A v \in verdict, s \in sigs :
    (v.msg = s.msg /\ v.pub = s.pub /\ v.sig = s.sig) => v.ok

\* Non-malleability (RFC 8032 5.1.7, the comment at line 323): once a
\* signature (R, S) is issued for a message and key, verify accepts no other
\* S with that R, message and key; in particular not S + k * order.
NonMalleable ==
  \A v \in verdict, s \in sigs :
    (v.ok /\ v.msg = s.msg /\ v.pub = s.pub /\ v.sig.R = s.sig.R)
      => v.sig.S = s.sig.S

=============================================================================
