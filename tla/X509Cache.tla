------------------------------ MODULE X509Cache ------------------------------
(***************************************************************************)
(* x509v3_cache_extensions in src/crypto/x509/v3_purp.c (lines 234-410):   *)
(* threads inspecting one certificate decode its extensions into the      *)
(* X509's cache fields (ex_flags, ex_pathlen, ex_kusage, ex_xkusage,      *)
(* ex_nscert and the skid, akid, altname, nc and crldp pointers) once,     *)
(* under double-checked locking on the X509's read-write lock.            *)
(*                                                                         *)
(* A certificate is a record that says, per extension, what                *)
(* X509_get_ext_d2i returns: "absent" (NULL, j == -1), "bad" (NULL,        *)
(* j != -1: undecodable or repeated) or the decoded value, as a record     *)
(* [ext |-> "absent", "bad" or "ok", val |-> the decoded value]; a stored  *)
(* pointer is {} (NULL) or {object}; a basicConstraints path length is "none",*)
(* "neg" with magnitude n, "overflow" (beyond a long) or "value" n.  The   *)
(* CRL distribution point list holds records [dp: "none", "full" or       *)
(* "relative" (type 1), crlissuer: its cRLIssuer names, a directory name  *)
(* or "uri", setfails: DIST_POINT_set_dpname fails on it], and exts lists  *)
(* the certificate's extensions [nid, critical] in order.  The decoding    *)
(* runs as the stages of the code, one step each, under the write lock.    *)
(***************************************************************************)
EXTENDS Naturals, Integers, FiniteSets, Sequences, Bitwise
LOCAL INSTANCE SequencesExt

CONSTANTS
  Threads,   \* threads calling x509v3_cache_extensions on the same X509
  Certs,     \* certificates the X509 can hold
  Calls,     \* calls each thread makes
  NoWriter,  \* model value: the write lock is free
  MaxPathlen \* the largest path length a certificate carries

VARIABLES
  cert,      \* the parsed certificate (fixed)
  x,         \* the X509's cache fields
  leaked,    \* whether a cached object was overwritten without being freed
  writer,    \* the holder of the write lock, or NoWriter
  pc,        \* per thread: "idle", "check", "wlock", "recheck", "compute", "return"
  isset,     \* per thread: is_set, read under the read lock
  stage,     \* per thread: the next stage of the decoding
  res,       \* per thread: the result of its last call ("none" before any)
  calls      \* per thread: the calls that have returned

vars == <<cert, x, leaked, writer, pc, isset, stage, res, calls>>

Ptrs == {"skid", "akid", "altname", "nc", "crldp"}

\* The cache fields as a freshly parsed X509 holds them.
EmptyCache ==
  [flags |-> {}, pathlen |-> -1, kusage |-> 0, xkusage |-> {},
   nscert |-> 0, ptr |-> [p \in Ptrs |-> {}], siginfo |-> "unset"]

-----------------------------------------------------------------------------
(* The checks the decoding and its callers share.                          *)

\* The pointer X509_get_ext_d2i returns: {} for NULL.
Decoded(e) == IF e.ext = "ok" THEN {e.val} ELSE {}

\* The X509v3_KU_* and NS_* masks of the public headers: the first byte of
\* the DER bit string holds bits 0-7 from the top down, the second byte's
\* top bit is keyUsage bit 8.
KU ==
  [digitalSignature |-> 128, nonRepudiation |-> 64, keyEncipherment |-> 32,
   dataEncipherment |-> 16, keyAgreement |-> 8, keyCertSign |-> 4,
   cRLSign |-> 2, encipherOnly |-> 1, decipherOnly |-> 32768]
NS ==
  [SSL_CLIENT |-> 128, SSL_SERVER |-> 64, SMIME |-> 32, OBJSIGN |-> 16,
   SSL_CA |-> 4, SMIME_CA |-> 2, OBJSIGN_CA |-> 1]
\* UINT32_MAX, by its low 16 bits: ex_kusage holds 16 bits and every mask
\* tested against it lies in them (TLC's integers stop below 2^31).
UINT32_MAX == 2^16 - 1

\* ku_reject(x, usage): a keyUsage extension is present and grants none of
\* the usage bits.
KuReject(c, usage) == "KUSAGE" \in c.flags /\ (c.kusage & usage) = 0

\* X509_check_akid(issuer, akid) (lines 623-660), for the issuer's parsed
\* certificate ic and cache icx: a key id is compared with the issuer's
\* skid when both are present, a serial with the issuer's serial, the first
\* directory name of the akid's issuer names with the issuer's issuer name.
X509_check_akid(ic, icx, akid) ==
  IF akid = {} THEN "OK"
  ELSE LET a == CHOOSE a \in akid : TRUE IN
       CASE a.keyid # "none" /\ icx.ptr.skid # {} /\ {a.keyid} # icx.ptr.skid
              -> "AKID_SKID_MISMATCH"
         [] a.serial # "none" /\ a.serial # ic.serial
              -> "AKID_ISSUER_SERIAL_MISMATCH"
         [] a.dirname # "none" /\ a.dirname # ic.issuer
              -> "AKID_ISSUER_SERIAL_MISMATCH"
         [] OTHER -> "OK"

\* The switch over extendedKeyUsage OIDs (lines 306-346); other OIDs set
\* no bit.
XKUBit ==
  [server_auth |-> "SSL_SERVER", client_auth |-> "SSL_CLIENT",
   email_protect |-> "SMIME", code_sign |-> "CODE_SIGN", ms_sgc |-> "SGC",
   ns_sgc |-> "SGC", OCSP_sign |-> "OCSP_SIGN", time_stamp |-> "TIMESTAMP",
   dvcs |-> "DVCS", anyExtendedKeyUsage |-> "ANYEKU"]

AddFlags(c, fs) == [c EXCEPT !.flags = @ \cup fs]

\* INVALID when the extension is present but does not decode.
InvalidIfBad(v) == IF v = "bad" THEN {"INVALID"} ELSE {}

-----------------------------------------------------------------------------
(* The stages of the decoding, in the code's order.                        *)

\* X509_digest into cert_hash; the version 1 check.
StageDigest(c, cx) ==
  AddFlags(cx, (IF c.digest_ok THEN {} ELSE {"INVALID"})
                 \cup (IF c.version1 THEN {"V1"} ELSE {}))

\* Mutant of StageBasicConstraints: the V_ASN1_NEG_INTEGER test dropped,
\* so a negative path length is stored as ASN1_INTEGER_get returns it.
StageBasicConstraintsNoNegCheck(c, cx) ==
  IF c.bc.ext # "ok" THEN AddFlags(cx, InvalidIfBad(c.bc.ext))
  ELSE LET bs == c.bc.val
           rejected == bs.pl # "none" /\ ~bs.ca
       IN  [cx EXCEPT
              !.flags = @ \cup {"BCONS"} \cup (IF bs.ca THEN {"CA"} ELSE {})
                          \cup (IF rejected THEN {"INVALID"} ELSE {}),
              !.pathlen = IF bs.pl = "none" THEN -1
                          ELSE IF rejected THEN 0
                          ELSE IF bs.pl = "overflow" THEN -1
                          ELSE IF bs.pl = "neg" THEN -bs.n ELSE bs.n]

\* Mutant of StageBasicConstraints: the "|| !bs->ca" test dropped, so a
\* path length on a non-CA certificate is accepted.
StageBasicConstraintsAnyPathlen(c, cx) ==
  IF c.bc.ext # "ok" THEN AddFlags(cx, InvalidIfBad(c.bc.ext))
  ELSE LET bs == c.bc.val
           rejected == bs.pl = "neg"
       IN  [cx EXCEPT
              !.flags = @ \cup {"BCONS"} \cup (IF bs.ca THEN {"CA"} ELSE {})
                          \cup (IF rejected THEN {"INVALID"} ELSE {}),
              !.pathlen = IF bs.pl = "none" THEN -1
                          ELSE IF rejected THEN 0
                          ELSE IF bs.pl = "overflow" THEN -1 ELSE bs.n]

\* basicConstraints: CA; a path length on a non-CA or negative is invalid
\* (ex_pathlen 0), one that overflows a long reads as -1 (no limit).
StageBasicConstraints(c, cx) ==
  IF c.bc.ext # "ok" THEN AddFlags(cx, InvalidIfBad(c.bc.ext))
  ELSE LET bs == c.bc.val
           rejected == bs.pl # "none" /\ (bs.pl = "neg" \/ ~bs.ca)
       IN  [cx EXCEPT
              !.flags = @ \cup {"BCONS"} \cup (IF bs.ca THEN {"CA"} ELSE {})
                          \cup (IF rejected THEN {"INVALID"} ELSE {}),
              !.pathlen = IF bs.pl = "none" THEN -1
                          ELSE IF rejected THEN 0
                          ELSE IF bs.pl = "overflow" THEN -1 ELSE bs.n]

\* Mutant of StageKeyUsage: the second byte of the bit string dropped.
StageKeyUsageFirstByteOnly(c, cx) ==
  IF c.ku.ext # "ok" THEN AddFlags(cx, InvalidIfBad(c.ku.ext))
  ELSE LET d == c.ku.val IN
       [cx EXCEPT !.flags = @ \cup {"KUSAGE"},
                  !.kusage = IF Len(d) > 0 THEN d[1] ELSE 0]

\* keyUsage: data[0] | data[1] << 8 of the bit string's bytes, 0 if it has
\* none.
StageKeyUsage(c, cx) ==
  IF c.ku.ext # "ok" THEN AddFlags(cx, InvalidIfBad(c.ku.ext))
  ELSE LET d == c.ku.val IN
       [cx EXCEPT !.flags = @ \cup {"KUSAGE"},
                  !.kusage = CASE Len(d) > 1 -> d[1] | (d[2] * 256)
                               [] Len(d) > 0 -> d[1]
                               [] OTHER      -> 0]

\* extendedKeyUsage: ex_xkusage reset, then one bit per known OID.
StageExtKeyUsage(c, cx) ==
  IF c.xku.ext # "ok"
    THEN [AddFlags(cx, InvalidIfBad(c.xku.ext)) EXCEPT !.xkusage = {}]
    ELSE [cx EXCEPT !.flags = @ \cup {"XKUSAGE"},
                    !.xkusage = {XKUBit[n] : n \in c.xku.val \cap DOMAIN XKUBit}]

\* Netscape cert type: the first byte of the bit string, 0 if it has none.
StageNetscape(c, cx) ==
  IF c.ns.ext # "ok" THEN AddFlags(cx, InvalidIfBad(c.ns.ext))
  ELSE [cx EXCEPT !.flags = @ \cup {"NSCERT"},
                  !.nscert = IF Len(c.ns.val) > 0 THEN c.ns.val[1] ELSE 0]

\* The subject and authority key identifiers are stored.
StageKeyIds(c, cx) ==
  [AddFlags(cx, InvalidIfBad(c.skid.ext) \cup InvalidIfBad(c.akid.ext))
     EXCEPT !.ptr.skid = Decoded(c.skid), !.ptr.akid = Decoded(c.akid)]

\* Subject name equals issuer name: self-issued; self-signed too if the
\* certificate's akid matches the certificate itself and keyUsage, if
\* present, allows certificate signing.
StageSelfIssued(c, cx) ==
  IF c.subject # c.issuer THEN cx
  ELSE AddFlags(cx, {"SI"} \cup (IF /\ X509_check_akid(c, cx, cx.ptr.akid) = "OK"
                                     /\ ~KuReject(cx, KU.keyCertSign)
                                   THEN {"SS"} ELSE {}))

\* Mutant of DpIssuerName: the loop over cRLIssuer does not break, so the
\* last directoryName is taken.
DpIssuerNameLast(c, dp) ==
  LET i == SelectLastInSeq(dp.crlissuer, LAMBDA g : g # "uri") IN
  IF i = 0 THEN c.issuer ELSE dp.crlissuer[i]

\* setup_dp's iname: the first directoryName among the point's cRLIssuer
\* names (the loop breaks on it), else the certificate's issuer name.
DpIssuerName(c, dp) ==
  LET i == SelectInSeq(dp.crlissuer, LAMBDA g : g # "uri") IN
  IF i = 0 THEN c.issuer ELSE dp.crlissuer[i]

\* setup_dp fails only on a nameRelativeToCRLIssuer point (type 1) whose
\* DIST_POINT_set_dpname fails; other points are left as they are.
SetupDpFails(dp) == dp.dp = "relative" /\ dp.setfails

\* The first point setup_crldp's loop fails on, 0 if none.
CrlStop(c) == SelectInSeq(c.crldp.val, SetupDpFails)

\* Mutant of setup_crldp: the result of setup_dp ignored.
setup_crldp_ignores_dp(c) == c.crldp.ext # "bad"

\* setup_crldp: 0 if the extension does not decode, or at the first point
\* setup_dp fails on.
setup_crldp(c) == c.crldp.ext # "bad" /\ CrlStop(c) = 0

\* The dpname each point of the stored list is left with ("none": unset):
\* the points before the one the loop stopped on are set up.
SetDpnames(c) ==
  LET dps == c.crldp.val
      stop == IF CrlStop(c) = 0 THEN Len(dps) + 1 ELSE CrlStop(c)
  IN  [i \in DOMAIN dps |->
         IF i < stop /\ dps[i].dp = "relative" THEN DpIssuerName(c, dps[i])
         ELSE "none"]

\* subjectAltName, nameConstraints and the CRL distribution points are
\* stored; a failed setup_crldp still leaves its decoded list stored.
StageNames(c, cx) ==
  [AddFlags(cx, InvalidIfBad(c.altname.ext) \cup InvalidIfBad(c.nc.ext)
                  \cup (IF setup_crldp(c) THEN {} ELSE {"INVALID"}))
     EXCEPT !.ptr.altname = Decoded(c.altname), !.ptr.nc = Decoded(c.nc),
            !.ptr.crldp = IF c.crldp.ext = "ok" THEN {SetDpnames(c)} ELSE {}]

\* X509_supported_extension: the extensions whose critical form the
\* library processes.
SupportedExtensions ==
  {"netscape_cert_type", "key_usage", "subject_alt_name",
   "basic_constraints", "certificate_policies", "ext_key_usage",
   "policy_constraints", "name_constraints", "policy_mappings",
   "inhibit_any_policy"}

X509_supported_extension(ex) == ex.nid \in SupportedExtensions

\* The loop over the extensions: the first critical one that is not
\* supported sets EXFLAG_CRITICAL and ends it.
StageCritical(c, cx) ==
  AddFlags(cx, IF \E i \in DOMAIN c.exts :
                    c.exts[i].critical /\ ~X509_supported_extension(c.exts[i])
                 THEN {"CRITICAL"} ELSE {})

\* Mutant of StageSignatureInfo: an error of x509_init_signature_info
\* fails the certificate.
StageSignatureInfoFails(c, cx) ==
  [AddFlags(cx, IF c.sig_ok THEN {} ELSE {"INVALID"})
     EXCEPT !.siginfo = IF c.sig_ok THEN "ok" ELSE "error"]

\* x509_init_signature_info sets sig_info; its errors are ignored.
StageSignatureInfo(c, cx) ==
  [cx EXCEPT !.siginfo = IF c.sig_ok THEN "ok" ELSE "error"]

ApplyStage(s, c, cx) ==
  CASE s = "digest"   -> StageDigest(c, cx)
    [] s = "bcons"    -> StageBasicConstraints(c, cx)
    [] s = "kusage"   -> StageKeyUsage(c, cx)
    [] s = "xkusage"  -> StageExtKeyUsage(c, cx)
    [] s = "nscert"   -> StageNetscape(c, cx)
    [] s = "keyids"   -> StageKeyIds(c, cx)
    [] s = "self"     -> StageSelfIssued(c, cx)
    [] s = "names"    -> StageNames(c, cx)
    [] s = "critical" -> StageCritical(c, cx)
    [] s = "siginfo"  -> StageSignatureInfo(c, cx)

\* The pointers each stage assigns.
Assigns(s) ==
  CASE s = "keyids" -> {"skid", "akid"}
    [] s = "names"  -> {"altname", "nc", "crldp"}
    [] OTHER        -> {}

\* Mutant of Stages: the self-signed test placed before keyUsage is read.
StagesSelfIssuedEarly ==
  <<"digest", "bcons", "self", "kusage", "xkusage", "nscert", "keyids",
    "names", "critical", "siginfo">>

\* The order of the stages in x509v3_cache_extensions.
Stages ==
  <<"digest", "bcons", "kusage", "xkusage", "nscert", "keyids", "self",
    "names", "critical", "siginfo">>

-----------------------------------------------------------------------------
(* A thread's call of x509v3_cache_extensions.                             *)

\* return (x->ex_flags & EXFLAG_INVALID) == 0;
Verdict(cx) == IF "INVALID" \in cx.flags THEN "invalid" ELSE "valid"

Returned(t) == [res EXCEPT ![t] = Verdict(x)]

\* A call begins: under the read lock (taken when no writer holds the
\* lock), is_set = ex_flags & EXFLAG_SET, then the read lock is released.
ReadIsSet(t) ==
  /\ pc[t] = "idle"
  /\ calls[t] < Calls
  /\ writer = NoWriter
  /\ isset' = [isset EXCEPT ![t] = "SET" \in x.flags]
  /\ pc' = [pc EXCEPT ![t] = "check"]
  /\ UNCHANGED <<cert, x, leaked, writer, stage, res, calls>>

\* if (is_set) return (ex_flags & EXFLAG_INVALID) == 0, read without the
\* lock; otherwise go for the write lock.
Check(t) ==
  /\ pc[t] = "check"
  /\ IF isset[t]
       THEN /\ res' = Returned(t)
            /\ calls' = [calls EXCEPT ![t] = @ + 1]
            /\ pc' = [pc EXCEPT ![t] = "idle"]
       ELSE /\ pc' = [pc EXCEPT ![t] = "wlock"]
            /\ UNCHANGED <<res, calls>>
  /\ UNCHANGED <<cert, x, leaked, writer, isset, stage>>

\* CRYPTO_MUTEX_lock_write.
LockWrite(t) ==
  /\ pc[t] = "wlock"
  /\ writer = NoWriter
  /\ writer' = t
  /\ pc' = [pc EXCEPT ![t] = "recheck"]
  /\ UNCHANGED <<cert, x, leaked, isset, stage, res, calls>>

\* Mutant of Recheck: EXFLAG_SET is not tested again under the write lock.
RecheckNoTest(t) ==
  /\ pc[t] = "recheck"
  /\ pc' = [pc EXCEPT ![t] = "compute"]
  /\ stage' = [stage EXCEPT ![t] = 1]
  /\ UNCHANGED <<cert, x, leaked, writer, isset, res, calls>>

\* Mutant of Recheck: the early return keeps the write lock.
RecheckNoUnlock(t) ==
  /\ pc[t] = "recheck"
  /\ IF "SET" \in x.flags
       THEN /\ res' = Returned(t)
            /\ calls' = [calls EXCEPT ![t] = @ + 1]
            /\ pc' = [pc EXCEPT ![t] = "idle"]
            /\ UNCHANGED <<stage, writer>>
       ELSE /\ pc' = [pc EXCEPT ![t] = "compute"]
            /\ stage' = [stage EXCEPT ![t] = 1]
            /\ UNCHANGED <<res, calls, writer>>
  /\ UNCHANGED <<cert, x, leaked, isset>>

\* Under the write lock: if another thread set the cache meanwhile, unlock
\* and return its result; otherwise start decoding.
Recheck(t) ==
  /\ pc[t] = "recheck"
  /\ IF "SET" \in x.flags
       THEN /\ writer' = NoWriter
            /\ res' = Returned(t)
            /\ calls' = [calls EXCEPT ![t] = @ + 1]
            /\ pc' = [pc EXCEPT ![t] = "idle"]
            /\ UNCHANGED stage
       ELSE /\ pc' = [pc EXCEPT ![t] = "compute"]
            /\ stage' = [stage EXCEPT ![t] = 1]
            /\ UNCHANGED <<res, calls, writer>>
  /\ UNCHANGED <<cert, x, leaked, isset>>

\* One stage of the decoding.  Storing a pointer over one already stored
\* loses the old object.
Compute(t) ==
  /\ pc[t] = "compute"
  /\ stage[t] <= Len(Stages)
  /\ LET s == Stages[stage[t]] IN
       /\ x' = ApplyStage(s, cert, x)
       /\ leaked' = (leaked \/ \E p \in Assigns(s) : x.ptr[p] # {})
  /\ stage' = [stage EXCEPT ![t] = @ + 1]
  /\ UNCHANGED <<cert, writer, pc, isset, res, calls>>

\* ex_flags |= EXFLAG_SET; CRYPTO_MUTEX_unlock_write.
Publish(t) ==
  /\ pc[t] = "compute"
  /\ stage[t] = Len(Stages) + 1
  /\ x' = AddFlags(x, {"SET"})
  /\ writer' = NoWriter
  /\ pc' = [pc EXCEPT ![t] = "return"]
  /\ UNCHANGED <<cert, leaked, isset, stage, res, calls>>

\* return (x->ex_flags & EXFLAG_INVALID) == 0, read after the unlock.
Return(t) ==
  /\ pc[t] = "return"
  /\ res' = Returned(t)
  /\ calls' = [calls EXCEPT ![t] = @ + 1]
  /\ pc' = [pc EXCEPT ![t] = "idle"]
  /\ UNCHANGED <<cert, x, leaked, writer, isset, stage>>

Thread(t) ==
  \/ ReadIsSet(t) \/ Check(t) \/ LockWrite(t) \/ Recheck(t)
  \/ Compute(t) \/ Publish(t) \/ Return(t)

Init ==
  /\ cert \in Certs
  /\ x = EmptyCache
  /\ leaked = FALSE
  /\ writer = NoWriter
  /\ pc = [t \in Threads |-> "idle"]
  /\ isset = [t \in Threads |-> FALSE]
  /\ stage = [t \in Threads |-> 1]
  /\ res = [t \in Threads |-> "none"]
  /\ calls = [t \in Threads |-> 0]

Next == \E t \in Threads : Thread(t)

\* A thread that can take its next step eventually does; the write lock
\* is taken once it stays free.
Fairness == \A t \in Threads : WF_vars(Thread(t))

Spec == Init /\ [][Next]_vars /\ Fairness

-----------------------------------------------------------------------------
(* Properties.                                                             *)

\* RFC 5280 4.2.1.3: the named bits of keyUsage, by position in the BIT
\* STRING; bit n is bit 7 - n % 8 of byte n \div 8.  The properties read
\* a certificate's usages through these, independently of the masks.
KUPos ==
  [digitalSignature |-> 0, nonRepudiation |-> 1, keyEncipherment |-> 2,
   dataEncipherment |-> 3, keyAgreement |-> 4, keyCertSign |-> 5,
   cRLSign |-> 6, encipherOnly |-> 7, decipherOnly |-> 8]

DerBit(bytes, n) ==
  /\ n \div 8 < Len(bytes)
  /\ (bytes[n \div 8 + 1] \div 2^(7 - (n % 8))) % 2 = 1

\* The certificate carries keyUsage and it lists usage u.
KUListed(c, u) == c.ku.ext = "ok" /\ DerBit(c.ku.val, KUPos[u])

TypeOK ==
  /\ cert \in Certs
  /\ x.flags \subseteq {"INVALID", "V1", "CA", "BCONS", "KUSAGE", "XKUSAGE",
                        "NSCERT", "SI", "SS", "CRITICAL", "SET"}
  /\ x.pathlen \in -1..MaxPathlen
  /\ x.kusage \in 0..65535
  /\ x.nscert \in 0..255
  /\ x.siginfo \in {"unset", "ok", "error"}
  /\ x.xkusage \subseteq {XKUBit[n] : n \in DOMAIN XKUBit}
  /\ leaked \in BOOLEAN
  /\ writer \in Threads \cup {NoWriter}
  /\ pc \in [Threads -> {"idle", "check", "wlock", "recheck", "compute", "return"}]
  /\ isset \in [Threads -> BOOLEAN]
  /\ stage \in [Threads -> 1..(Len(Stages) + 1)]
  /\ res \in [Threads -> {"none", "valid", "invalid"}]
  /\ calls \in [Threads -> 0..Calls]

\* Two threads that both find the cache unset both queue for the write
\* lock; the second must not decode again, or the skid, akid, altname, nc
\* and crldp objects the first stored are overwritten and leak.
NoLeakedExtensions == ~leaked

\* EXFLAG_SS in a filled cache agrees with the cache's own key identifiers
\* and key usage: a self-issued certificate is self-signed exactly when its
\* akid matches and keyUsage, if present, allows certificate signing.  The
\* self-signed test reads fields earlier stages fill.
SelfSignedConsistent ==
  "SET" \in x.flags =>
    ("SS" \in x.flags <=> /\ "SI" \in x.flags
                          /\ X509_check_akid(cert, x, x.ptr.akid) = "OK"
                          /\ ~KuReject(x, KU.keyCertSign))

\* RFC 5280 4.2.1.13: a nameRelativeToCRLIssuer point names the CRL
\* issuer's directory name, the one in cRLIssuer if it has one (the
\* first), else the certificate's issuer.
RfcCrlIssuer(c, dp) ==
  LET dns == {i \in DOMAIN dp.crlissuer : dp.crlissuer[i] # "uri"} IN
  IF dns = {} THEN c.issuer
  ELSE dp.crlissuer[CHOOSE i \in dns : \A j \in dns : i <= j]

\* A valid filled cache holds every relative CRL distribution point with
\* its dpname set to that issuer: setup_crldp sets the points one by one
\* and may fail after setting some, and the CRL checks of a valid
\* certificate read dpname from the cache.
CrlDistPointsResolved ==
  "SET" \in x.flags /\ "INVALID" \notin x.flags =>
    \A d \in x.ptr.crldp : \A i \in DOMAIN cert.crldp.val :
      cert.crldp.val[i].dp = "relative" =>
        d[i] = RfcCrlIssuer(cert, cert.crldp.val[i])

\* Every call returns: the writer releases the lock on each path, and the
\* threads waiting for it then proceed.
AllCallsReturn == <>(\A t \in Threads : calls[t] = Calls)

\* The double-checked locking implements the compute-once cache of
\* X509CacheSpec: the cache counts as filled once EXFLAG_SET is visible,
\* and every call returns the validity of the certificate.
Abstract == INSTANCE X509CacheSpec WITH filled <- "SET" \in x.flags

ImplementsCacheSpec == Abstract!Spec

=============================================================================
