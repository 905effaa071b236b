-------------------------------- MODULE X25519 --------------------------------
(***************************************************************************)
(* X25519 key agreement between two parties, as implemented by            *)
(* X25519_keypair, X25519_public_from_private and X25519 in                *)
(* src/crypto/curve25519/curve25519.c, with the clamping the s2n-bignum    *)
(* path applies (x25519_s2n_bignum, x25519_s2n_bignum_public_from_private) *)
(* before it calls the backend.                                            *)
(*                                                                         *)
(* The curve is abstracted to the cyclic group Z_(8 * Q): cofactor 8, a    *)
(* prime-order subgroup of order Q generated by the base point 8, and the  *)
(* points of small order (order dividing 8) the multiples of Q.  The u     *)
(* coordinate 0 (all-zero bytes) is the identity.  A 32-byte scalar is     *)
(* abstracted to the two bytes clamping touches, byte 0 and byte 31, as    *)
(* byte0 + 256 * byte31.  The network between the parties may replace a    *)
(* public value by any point of PeerPoints.                                *)
(***************************************************************************)
EXTENDS Integers, FiniteSets, Bitwise

CONSTANTS
  Parties,    \* the two parties of the exchange
  RandKeys,   \* 32-byte values RAND_bytes can return (byte0 + 256 * byte31)
  Q,          \* order of the prime-order subgroup
  PeerPoints  \* public values an attacker can substitute on the wire

N == 8 * Q
BasePoint == 8
SmallOrder == {p \in 0..(N - 1) : (8 * p) % N = 0}

ASSUME /\ Cardinality(Parties) = 2
       /\ RandKeys \subseteq 0..65535
       /\ Q \in Nat \ {0, 1}
       /\ PeerPoints \subseteq 0..(N - 1)

VARIABLES
  pc,       \* per party: "start", "keyed" (key pair made), "got" (peer value received), "done"
  raw,      \* per party: the bytes RAND_bytes wrote into out_private_key
  priv,     \* per party: the stored private key
  pub,      \* per party: its public value
  peer,     \* per party: the public value it received
  shared,   \* per party: out_shared_key
  ok        \* per party: the return value of X25519

vars == <<pc, raw, priv, pub, peer, shared, ok>>

-----------------------------------------------------------------------------
(* External collaborator: the backend scalar multiplication                *)
(* (curve25519_x25519_byte[_alt], curve25519_x25519base_byte[_alt]), the   *)
(* same function whichever backend the dispatch picks.                     *)

ScalarMult(k, p) == (k * p) % N

-----------------------------------------------------------------------------
(* The code's own logic.                                                   *)

Byte0(x) == x % 256
Byte31(x) == x \div 256
Bytes(b0, b31) == b0 + 256 * b31

\* Mutant of Demask: the low three bits of byte 0 are not cleared.
DemaskKeepLow(k) == Bytes(Byte0(k), (Byte31(k) & 127) | 64)

\* private_key_internal_demask[0] &= 248; [31] &= 127; [31] |= 64;  on a
\* local copy of the private key.
Demask(k) == Bytes(Byte0(k) & 248, (Byte31(k) & 127) | 64)

\* Mutant of InverseMask: byte 0 is or-ed with ~240 instead of ~248.
InverseMaskWide(k) == Bytes((Byte0(k) | 15) % 256, ((Byte31(k) & 191) | 128) % 256)

\* Mutant of InverseMask: the clamping lines pasted in place of their
\* inverse.
InverseMaskAsClamp(k) == Bytes(Byte0(k) & 248, (Byte31(k) & 127) | 64)

\* out_private_key[0] |= ~248; [31] &= ~64; [31] |= ~127;  in X25519_keypair:
\* ~248, ~64 and ~127 are ints, and the results are truncated to a byte.
InverseMask(k) == Bytes((Byte0(k) | 7) % 256, ((Byte31(k) & 191) | 128) % 256)

\* Mutant of X25519_public_from_private: the scalar is used unclamped.
X25519_public_from_private_raw(k) == ScalarMult(k, BasePoint)

\* X25519_public_from_private: demask a copy, multiply the base point.
X25519_public_from_private(k) == ScalarMult(Demask(k), BasePoint)

\* X25519: demask a copy, multiply the peer's point.
X25519_out(k, p) == ScalarMult(Demask(k), p)

\* Mutant of X25519_ok: the comparison with kZeros inverted.
X25519_ok_inverted(out) == out = 0

\* return CRYPTO_memcmp(kZeros, out_shared_key, 32) != 0;
X25519_ok(out) == out # 0

-----------------------------------------------------------------------------
(* The parties' steps.                                                     *)

Keyed(p) == pc[p] # "start"

\* X25519_keypair: RAND_bytes, the inverse mask, then the public value.
Keypair(p) ==
  /\ pc[p] = "start"
  /\ \E r \in RandKeys :
       LET k == InverseMask(r) IN
       /\ raw' = [raw EXCEPT ![p] = r]
       /\ priv' = [priv EXCEPT ![p] = k]
       /\ pub' = [pub EXCEPT ![p] = X25519_public_from_private(k)]
  /\ pc' = [pc EXCEPT ![p] = "keyed"]
  /\ UNCHANGED <<peer, shared, ok>>

\* p receives the other party's public value once it exists, or a value
\* the network substituted.
Receive(p) ==
  /\ pc[p] = "keyed"
  /\ \E v \in PeerPoints \cup {pub[o] : o \in {o \in Parties \ {p} : Keyed(o)}} :
       peer' = [peer EXCEPT ![p] = v]
  /\ pc' = [pc EXCEPT ![p] = "got"]
  /\ UNCHANGED <<raw, priv, pub, shared, ok>>

\* X25519(out_shared_key, private_key, peer_public_value).
Agree(p) ==
  /\ pc[p] = "got"
  /\ LET out == X25519_out(priv[p], peer[p]) IN
       /\ shared' = [shared EXCEPT ![p] = out]
       /\ ok' = [ok EXCEPT ![p] = X25519_ok(out)]
  /\ pc' = [pc EXCEPT ![p] = "done"]
  /\ UNCHANGED <<raw, priv, pub, peer>>

Init ==
  /\ pc = [p \in Parties |-> "start"]
  /\ raw = [p \in Parties |-> 0]
  /\ priv = [p \in Parties |-> 0]
  /\ pub = [p \in Parties |-> 0]
  /\ peer = [p \in Parties |-> 0]
  /\ shared = [p \in Parties |-> 0]
  /\ ok = [p \in Parties |-> FALSE]

Next == \E p \in Parties : Keypair(p) \/ Receive(p) \/ Agree(p)

Spec == Init /\ [][Next]_vars

-----------------------------------------------------------------------------
(* Properties.                                                             *)

\* The comment in X25519_keypair: generated private keys are never
\* correctly masked, so a peer implementation that skips clamping breaks
\* deterministically.
StoredKeyNeverClamped == \A p \in Parties : Keyed(p) => Demask(priv[p]) # priv[p]

\* The same comment: the inverse mask throws away only bits that clamping
\* throws away, so the scalar used is the one RAND_bytes produced.
EffectiveScalarUnchanged ==
  \A p \in Parties : Keyed(p) => Demask(priv[p]) = Demask(raw[p])

\* Diffie-Hellman agreement (spec section 8): when each party received the
\* other's genuine public value, both compute the same shared secret.
SharedSecretsAgree ==
  \A p, o \in Parties :
    (p # o /\ pc[p] = "done" /\ pc[o] = "done"
       /\ peer[p] = pub[o] /\ peer[o] = pub[p])
      => shared[p] = shared[o]

\* Contributory check (RFC 7748 6.1, the comment at line 408): a party that
\* received a point of small order gets the all-zero output and ok = 0.
SmallOrderPeerRejected ==
  \A p \in Parties :
    (pc[p] = "done" /\ peer[p] \in SmallOrder) => (shared[p] = 0 /\ ~ok[p])

=============================================================================
