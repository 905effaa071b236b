# TLA+ models of the Curve25519 core and the X.509 extension cache

This directory models two source files:

* `src/crypto/curve25519/curve25519.c`: Ed25519, X25519 and the dispatch
  to the s2n-bignum backends.
* `src/crypto/x509/v3_purp.c`: the certificate extension cache and the
  purpose checks.

Each module is translated from the code. Its comments give the lines it
models. `PROJECT.json` maps every definition to those lines.

## The system

| Part | Code | State and operations |
|---|---|---|
| Ed25519 engine | `ED25519_keypair_from_seed`, `ED25519_keypair`, `ED25519_sign`, `ED25519_verify` (238-361) | No state across calls. Keygen hashes the seed, clamps the digest and multiplies the base point. Sign derives a nonce from the digest's upper half and the message, hashes `R ‖ pub ‖ msg`, and computes `S = nonce + h·a mod ℓ`. Verify rejects masked top bits and undecodable keys, rejects `S ≥ ℓ` with a limb-by-limb loop, negates `A` and compares `R` with `h·(−A) + S·B`. |
| X25519 engine | `X25519_keypair`, `X25519_public_from_private`, `X25519` (364-411) | Keypair draws random bytes and applies the *inverse* mask, so stored keys are never clamped. The other two clamp a local copy and multiply. `X25519` returns 0 when the output is all zero (small-order peer). |
| Backend selector | `CURVE25519_S2N_BIGNUM_CAPABLE`, the stubs, `x25519_s2n_bignum_[no_]alt_capable`, `x25519_s2n_bignum[_public_from_private]` (34-235) | Chooses no-alt or alt from the architecture and CPU features, or the portable path when s2n-bignum is not compiled in. The chain and the stubs end in `abort()`. |
| Capability detector | CPU feature cache (not under `src/`; spec §4.1, §5) | A process-wide cache, initialised once, that the capability predicates read. |
| X.509 extension cache | `x509v3_cache_extensions` (234-410) and its helpers | Decodes a certificate's extensions into `ex_flags`, `ex_pathlen`, `ex_kusage`, `ex_xkusage`, `ex_nscert`, `skid`, `akid`, `altname`, `nc` and `crldp`, once, under double-checked locking on the X509's rwlock. |
| X.509 purpose checks | `X509_check_purpose`, `check_ca`, `check_purpose_*`, `X509_check_issued`, `X509_check_akid`, `X509_get_*` (121-200, 412-726) | Pure predicates over a filled cache. Each one first calls the cache. |

How the parts interact:
* Callers reach the Ed25519 or X25519 engine. X25519 goes through the selector, and the selector reads the capability cache.
* The arithmetic engine (`ge_*`, `fe_*`, `sc_*`, the nohw implementation, the s2n-bignum assembly), SHA-512, `RAND_bytes` and `CRYPTO_memcmp` are external collaborators. They are replaced by their contracts.
* Concurrency:
  * Threads share the capability cache, and a certificate's cache when they inspect the same certificate.
  * The capability cache is set up once.
  * The certificate cache is protected by its rwlock.

## Modules

| Module | Models | State ↔ code |
|---|---|---|
| `Ed25519Scalar` | `kOrder`, `CRYPTO_load_u64_le`, the `signature[63] & 224` test | Constants only. A 256-bit scalar becomes 4 limbs of `LimbBits` bits. The runs use `kOrder = <<5,3,0,2>>` with 3-bit limbs (order 1053). It keeps the code's shape: a low limb below its maximum, a zero third limb, and a top limb holding only the bit under the masked ones. |
| `ScalarRangeCheck` | The top-bit test and the `for (size_t i = 3;; i--)` loop of `ED25519_verify` | `scopy`, `i`, `pc`. One iteration per step, from every 8-bit `S`. |
| `Ed25519` | The four Ed25519 functions | `keys` (the 64-byte private keys), `sigs` (issued signatures), `verdict` (the last verify call). |
| `X25519` | Keypair, public value and agreement | Per party `pc`, `raw`, `priv`, `pub`, `peer`, `shared`, `ok`. Details below. |
| `X25519Dispatch` | Build and run-time capability, the stubs, the selection, concurrent callers | `build` and `cpu` are fixed in `Init` to every combination. `cap` is the once-cache. Per thread: `pc`, `op`, `impl`. `used` is the set of backends that ran, `aborted` whether `abort()` was reached. |
| `X25519BackendSpec` | The abstract selector of spec §4.1-4.2 | `build`, `cpu`, per-thread `active`, and `served` (the backends that served a call). The capability queries are constant operators. `Decision` applies the architecture's priority and falls back to the portable implementation when nothing is compiled in. `Serve` runs the decision atomically and never runs "none", so there is no abort. |
| `X509CacheSpec` | The abstract contract of the cache | `filled`, and per thread `res` and `calls`. `Fill` is atomic. Every return yields `Valid(cert)`. |
| `X509Purpose` | `X509_check_purpose`, the `xstandard` table and its `X509_PURPOSE_*` lookups, `check_ca`, every `check_purpose_*`, `X509_check_ca`, `X509_get_pathlen`, the `X509_get*` accessors | Extends `X509Cache` with no new state. Each function is an operator over the cache fields a returned call leaves (`x`) and that call's verdict, named as in the code. Purpose ids are the header's integers 1-9; the table is a sequence of records (id, trust, short name). `X509_PURPOSE_get_by_id` and `get_by_sname` are the code's loops, as `RECURSIVE` operators with 0-based indices; `get0` returns `{}` for NULL. The runs also pass the ids -1, 0 and 10. |
| `X509Issued` | `X509_check_issued` (601-621) | Composes two `X509Cache` instances, the issuer's (`icert`, `ix`, `iwriter`, ...) and the subject's (`scert`, `sx`, ...), each with its own lock. Per thread: `cpc` is the step of the call (name test, issuer cache call, subject cache call, akid and keyUsage decision), and `verdict` is the `X509_V_*` code returned. A step inside a cache call is that instance's `Thread` step; the other certificate's variables are unchanged. |
| `X509Cache` | `x509v3_cache_extensions` in full | `x` is the cache fields, `writer` the write lock. Per thread: `pc`, `isset`, `stage`, `res`, `calls`. `leaked` records a stored object overwritten. Details below. |

Detail for `X25519`:
* The group is Z_(8Q) with base point 8. The points of small order are the multiples of Q, and 0 is the all-zero output.
* A key is abstracted to its byte 0 and byte 31, which are the bytes the masks touch.
* `Receive` lets the network substitute any point of `PeerPoints`.

Detail for `X509Cache`:
* Each stage of the code (digest, basicConstraints, keyUsage, extKeyUsage, nsCertType, key ids, self-issued, names/CRLDP, critical, signature info) is one `Compute` step, in the code's order.
* A CRL distribution point is a record: its name form (none, full, or relative to the CRL issuer), its cRLIssuer names (directory names or another form), and whether `DIST_POINT_set_dpname` fails on it. `setup_crldp` walks the list in order and stops at the first failure (`CrlStop`). The stored list carries each point's dpname, or "none" where it is unset (`SetDpnames`).
* The certificate's extension list, with each extension's criticality, feeds the critical-extension loop and `X509_supported_extension`. `x509_init_signature_info` stores its result, and its errors do not affect validity.
* The read-locked `is_set` read is one step.
* The recheck, the publication of `EXFLAG_SET` with the unlock, and the return read after the unlock are separate steps.
* A certificate has subject and issuer names, a serial, and key ids taken from small sets of strings. An akid is a record of an optional key id, serial and directory name. A stored pointer is `{}` (NULL) or `{object}`.
* keyUsage and nsCertType are their DER bit strings (byte sequences). The cache folds them as the code does: `data[0] | data[1] << 8` and `data[0]`. They are tested against the `X509v3_KU_*`/`NS_*` masks of the public header (`KU`, `NS`), with `Bitwise`.
  * The properties read a certificate's usages from the bit positions of RFC 5280 (`KUPos`, `DerBit`), independently of the masks.
  * `UINT32_MAX` is represented by its low 16 bits. TLC's integers end below 2^31, `ex_kusage` holds 16 bits, and every mask tested lies in them.
* `X509_check_akid` compares these with a given issuer as the code does. The self-signed stage and `X509_check_issued` use that one operator.

In `Ed25519`:
* The group is Z_ℓ with base point 1, so a point is its own encoding.
* SHA-512 is a deterministic fold over the hashed buffers.
* Scalars are abstracted, as in `X25519`, to the two bytes the clamping touches.

Pure helpers are operators named after the code (`ED25519_sign`, `ED25519_verify`, `InverseMask`, `x25519_s2n_bignum_select`, `StageBasicConstraints`, ...). Each MC module only supplies the constants.

## Runs

| Run | Checks | Shows |
|---|---|---|
| `ed25519` | `TypeOK`, `VerifyAcceptsIssued`, `NonMalleable` | Issued signatures verify. No tampering is accepted: `S + k·ℓ`, a changed `R`, masked top bits, or a public key that does not decode. |
| `scalar_range` | `TypeOK`, `AcceptsExactlyBelowOrder`, `LoopTerminates` | The top-bit test plus the loop accept exactly `S < ℓ`, including `S = ℓ` and the zero limb. The loop always exits before `i` wraps. |
| `x25519` | `StoredKeyNeverClamped`, `EffectiveScalarUnchanged`, `SharedSecretsAgree`, `SmallOrderPeerRejected` | The inverse mask leaves every stored key unclamped without changing the scalar the clamped copy yields. Honest parties agree. A small-order peer yields zero and `ok = 0`. |
| `x25519_dispatch` | `TypeOK`, `NoAbort`, `ImplementsBackendSpec` | Across all 36 build configurations and all 8 CPU feature sets, two concurrent callers never abort. The selector refines `X25519BackendSpec`: every call runs the one backend the build and the CPU's features decide, by each architecture's priority, and every call returns. The mapping is: a call is active from `Call` to `Run`, the capability set-up and `Select` are stutters, and `no_alt`/`alt`/`nohw` are the standard, wide and portable backends. |
| `x509_purpose` | `CaPurposeRequiresCa`, `CaCertificatesAreDeclaredCAs`, `PathlenOnlyFromCA`, `AccessorsMatchCertificate`, `PurposeLookupsFollowTable` | For every purpose id and both values of `ca`: asked about a CA, each purpose other than "any" accepts only what `X509_check_ca` accepts. A CA either asserts cA in basicConstraints or is a self-issued version 1 certificate, and any keyUsage it has allows keyCertSign; this combines the V1, SS, BCONS and CA bits that separate stages set. `X509_get_pathlen` reports exactly a valid CA's own limit, and -1 otherwise. That includes a limit that overflows a long, which the TODO at line 273 accepts. The key-usage getters report an absent extension as every bit set and an invalid certificate as 0. The akid getters return the certificate's own skid and the akid's key id, serial and issuer name. `X509_get_extension_flags` shows `EXFLAG_INVALID` exactly for an invalid certificate. `X509_PURPOSE_set` accepts exactly the table's ids and leaves `*p` alone otherwise. For an accepted id, `X509_check_purpose` runs the check of the entry with that id, which catches a confusion of 1-based ids with 0-based indices. `get0` is NULL exactly outside the table, and each short name leads back to its index. |
| `x509_issued` | `IssuedAgreesWithCertificates` | Two threads run `X509_check_issued` on one pair while both caches fill concurrently. The verdict is `X509_V_OK` exactly when the parsed certificates allow it: names match, both are valid, the akid names the issuer, and the issuer's keyUsage allows keyCertSign. It never reflects a cache still being filled. |
| `x509_timestamp_eku` (violation) | `TimestampEKUOnlyTimeStamping` | A time-stamping leaf whose extendedKeyUsage also holds an unknown OID is accepted. See the findings below. |
| `x509_cache` | `TypeOK`, `NoLeakedExtensions`, `SelfSignedConsistent`, `CrlDistPointsResolved`, `AllCallsReturn`, `ImplementsCacheSpec` | Decoding happens once and stored objects are never overwritten. `EXFLAG_SS` agrees with the cached key usage and key ids. In a valid certificate, every distribution point relative to its CRL issuer has its dpname set to that issuer (RFC 5280 4.2.1.13), even though `setup_crldp` can fail after setting some points. Every call returns. The detailed cache refines `X509CacheSpec` under `filled <- "SET" \in x.flags`, so every call returns the certificate's validity and nothing reads a half-filled cache. |

Every property has a mutant in `PROJECT.json`: the mapped definition replaced by a plausible bug, which TLC must then catch. For example:
* the order check dropped;
* the challenge hashing the seed half of the private key;
* the inverse mask written as the clamp;
* `OPENSSL_NO_ASM` ignored;
* the capability cache read early;
* the recheck under the write lock dropped;
* the self-signed test moved before keyUsage;
* the early return keeping the lock;
* `|| !bs->ca` dropped;
* `check_ca` testing either bit of `V1_ROOT`;
* the server check's CA branch skipping `check_ca`;
* `X509_get_pathlen` ignoring the cache's verdict;
* `X509_get_key_usage` returning `ex_kusage` without testing `EXFLAG_KUSAGE`;
* the keyUsage decoding dropping the bit string's second byte;
* `X509_check_issued` reading the subject's akid without filling the subject's cache;
* `setup_crldp` ignoring `setup_dp`'s failure;
* `setup_dp` taking the last directoryName of cRLIssuer instead of the first;
* `X509_PURPOSE_get_by_id` returning the 1-based position;
* aarch64 given x86_64's backend priority, which still computes the right bytes and is caught only by `ImplementsBackendSpec`;
* an error of `x509_init_signature_info` failing the certificate, caught by `x509_issued`.

`X509_get_pathlen`'s own `EXFLAG_BCONS` test is redundant here. Without basicConstraints the cache leaves `ex_pathlen` at -1, so dropping the test changes nothing; that mutant was tried and survives.

Moving `EXFLAG_SET` to the start of the decoding is *not* a bug this model can show. Readers take the read lock, which excludes the writer, so no thread can see the early flag. The model confirms that the ordering is harmless.

## Findings

**Time-stamp extended key usage.** `TimestampEKUOnlyTimeStamping` fails. The comment in `check_purpose_timestamp_sign` (v3_purp.c:577) says "Only time stamp key usage is permitted", as RFC 3161 §2.3 requires. The code compares `ex_xkusage` with `XKU_TIMESTAMP`, but the cache sets no bit for an OID outside its switch (306-346). So `{timeStamping, <unknown OID>}` passes.

**Secret erasure (observed while modelling, not checked).** The spec (§3, §5) requires scratch buffers that held private scalars to be overwritten before return. These buffers are never cleansed:
* `az` in `ED25519_keypair_from_seed` (curve25519.c:241);
* `az` and `nonce` in `ED25519_sign` (270, 281);
* `private_key_internal_demask` in both s2n-bignum paths (162, 203).

Only `ED25519_keypair` cleanses its seed. The models track no memory, so this is read off the source; no run checks it.

## Bounds and why they suffice

* **Ed25519:** two seeds, two messages, one malformed key. Each issued signature has seven variants, which cover every early return of verify and `S + k·ℓ` within 32 bytes. The property needs each combination at least once, and TLC explores all of them (1,929 states). The order is the one `ScalarRangeCheck` uses.
* **ScalarRangeCheck:** every value of a 12-bit `S` (four 3-bit limbs) against the order 1053, limbs `5,3,0,2`, with the top two bits of the top limb masked. Like the code's `kOrder`, the low limb is below its maximum, the third is zero, and the top limb holds only the bit under the masked ones. So among the values that pass the top-bit test, the loop meets a greater, a smaller and an equal word at indices 0, 1 and 3. At index 2 it meets equal and greater; a smaller word is impossible there, as in the code. It also meets `S = ℓ`.
* **X25519:** Q = 5 and two parties. There are three random keys: all-zero, all-ones and a mixed one; together they set every bit the masks touch both ways. Three attacker points: identity, small order and generic. Symmetry is over the parties.
* **Dispatch:** the full product of build configurations (3 architectures × 3 operating systems × `OPENSSL_NO_ASM` × assembler too old for AVX) and CPU features (BMI2, ADX, wide multiplier). Two threads suffice: the hazard is one call racing the first one's capability set-up.
* **X509 purposes:** one thread, one call, and 6,050 certificates. They vary basicConstraints (absent; CA or not, with or without a limit; a CA limit that overflows a long), six keyUsage bit strings (including the empty one and decipherOnly alone in the second byte), extendedKeyUsage (absent, serverAuth, timeStamping, timeStamping plus an unknown OID) and its criticality, nsCertType, the version, the self-issued test, the key ids and the akid's serial and issuer name. The purpose ids are -1, 0, the nine of the table and 10. A version 1 certificate carries no extensions. Every purpose id is checked with `ca` 0 and 1 in every reachable state. Concurrency is left to `x509_cache`, which shows that every call sees the filled cache.
* **X509 check_issued:** two threads, 12 issuers × 64 subjects.
  * The issuer is a CA and varies keyUsage (absent, keyCertSign, digitalSignature only), skid (absent or K1) and validity.
  * The subject varies its issuer name (matching or not), validity, whether `x509_init_signature_info` fails, and its akid: absent, undecodable, a key id equal to or different from the issuer's skid, a serial equal or different, or a directory name equal or different.
  * Every return code of `X509_check_issued` and every short-circuit is reached.
  * Each thread calls each cache once. Two threads are enough for one to be mid-fill while the other reads.
* **X509 cache:** two threads, two calls each, and 8,064 certificates. These vary basicConstraints (absent, undecodable, CA with no limit or with a limit, a limit on a non-CA, negative, overflowing), keyUsage (absent, empty, keyCertSign), extKeyUsage, skid, akid (absent, key id mismatch, serial mismatch), subject = issuer, digest failure, and four CRL distribution point lists. The lists are: absent; undecodable; a relative point under two directory names (plus a URI) next to a full name; and three relative points of which the second fails to set up. Two extension lists are used: a supported critical extension, and an unsupported one. Two calls per thread let a thread wait on a lock held by a thread that already returned.

## Fairness

* `ScalarRangeCheck`: weak fairness on the loop. The loop is sequential code that runs to completion.
* `X25519Dispatch`, `X509Cache` and `X509Issued`: weak fairness per thread. A thread that can run eventually does; the OS scheduler and a free mutex guarantee no more.
* `X25519BackendSpec`: weak fairness on serving each call in progress. `X509CacheSpec`: weak fairness on `Fill` and on each thread's `Return`, so the cache is eventually filled and every thread makes its calls. Both refinements are checked as temporal properties against the per-thread fairness of the detailed modules. They fail if a thread can wait forever on the capability set-up or on a lock.
* Each X509 thread makes a bounded number of calls, so a waiting thread is not starved. The pthread rwlock is not itself fair, so the bound, and not the lock, is what rules starvation out.

## Not modelled, and why

* **Arithmetic engine, SHA-512, RAND and memcmp:** external, replaced by their contracts.
* **Constant-time behaviour:** not a state property.
* **CPU feature detection (`OPENSSL_cpuid_setup` behind `CRYPTO_once`):** not under src/. It is modelled from the spec as a once-initialised cache with a start and a finish step, which is why that component is only partly modelled. The CPUID probing itself is outside what TLC can say anything about.
* **DER parsing behind `X509_get_ext_d2i`:** abstracted to absent, bad or decoded.
* **`DIST_POINT_set_dpname`:** outside src/. It enters only through whether it fails on a point; the name it builds is represented by the issuer name it appends to.
* **`X509_PURPOSE_get0_name`:** returns a display string.

## Plan

Done so far, most important first:
1. The Ed25519 engine and its range check.
2. X25519.
3. The dispatch with the capability cache.
4. The X.509 cache with its refinement.
5. `X509Purpose`: the purpose checks, `check_ca` with the V1-root rule, and the path-length accessor.
6. `X509Issued`: `X509_check_issued` composed with two certificates' caches filled concurrently; the key-usage and key-id accessors.

7. The CRL distribution points point by point, the critical-extension loop, `x509_init_signature_info`, the purpose-table lookups and the remaining accessors.

8. The refinement of `X25519Dispatch` to the abstract selector `X25519BackendSpec`.

Next: nothing more of the code under src/ can be modelled faithfully. What remains is listed under "Not modelled".
