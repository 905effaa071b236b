----------------------------- MODULE X509Purpose -----------------------------
(***************************************************************************)
(* X509_check_purpose and the purpose checks of src/crypto/x509/           *)
(* v3_purp.c (lines 70-137, 412-599), evaluated on the extension cache     *)
(* that x509v3_cache_extensions fills (module X509Cache): a caller's       *)
(* X509_check_purpose(x, id, ca) is its cache call followed by the check   *)
(* of purpose id on the cache fields, read without the lock.               *)
(*                                                                         *)
(* Purpose ids are the header's integers; -1 only asks for the cache.     *)
(***************************************************************************)
EXTENDS X509Cache

\* The X509_PURPOSE_* ids of the public header x509v3.h.
PurposeId ==
  [sslclient |-> 1, sslserver |-> 2, nssslserver |-> 3, smimesign |-> 4,
   smimeencrypt |-> 5, crlsign |-> 6, any |-> 7, ocsphelper |-> 8,
   timestampsign |-> 9]

\* The xstandard table in order: each entry's purpose id, trust id and
\* short name; the short name also stands for its check function.
xstandard ==
  LET E(sn, tr) == [purpose |-> PurposeId[sn], trust |-> tr, sname |-> sn] IN
  <<E("sslclient", "SSL_CLIENT"), E("sslserver", "SSL_SERVER"),
    E("nssslserver", "SSL_SERVER"), E("smimesign", "EMAIL"),
    E("smimeencrypt", "EMAIL"), E("crlsign", "COMPAT"), E("any", "DEFAULT"),
    E("ocsphelper", "COMPAT"), E("timestampsign", "TSA")>>

\* The ids a caller may pass: the table's, -1, and ids next to the table.
PurposeIds == {-1, 0} \cup {PurposeId[n] : n \in DOMAIN PurposeId} \cup {10}

X509_PURPOSE_get_count == Len(xstandard)

\* X509_PURPOSE_get0: the entry at 0-based index idx, {} (NULL) out of range.
X509_PURPOSE_get0(idx) ==
  IF idx < 0 \/ idx >= Len(xstandard) THEN {} ELSE {xstandard[idx + 1]}

X509_PURPOSE_get_id(xp) == xp.purpose
X509_PURPOSE_get0_sname(xp) == xp.sname
X509_PURPOSE_get_trust(xp) == xp.trust

\* Mutant of FindById: the 1-based position returned for the 0-based index.
RECURSIVE FindByIdOneBased(_, _)
FindByIdOneBased(id, i) ==
  IF i >= Len(xstandard) THEN -1
  ELSE IF xstandard[i + 1].purpose = id THEN i + 1
  ELSE FindByIdOneBased(id, i + 1)

\* The loop of X509_PURPOSE_get_by_id from index i.
RECURSIVE FindById(_, _)
FindById(id, i) ==
  IF i >= Len(xstandard) THEN -1
  ELSE IF xstandard[i + 1].purpose = id THEN i
  ELSE FindById(id, i + 1)

\* X509_PURPOSE_get_by_id: the index of the entry with purpose id, or -1.
X509_PURPOSE_get_by_id(id) == FindById(id, 0)

\* The loop of X509_PURPOSE_get_by_sname from index i, through get0.
RECURSIVE FindBySname(_, _)
FindBySname(sname, i) ==
  IF i >= X509_PURPOSE_get_count THEN -1
  ELSE IF \E xp \in X509_PURPOSE_get0(i) : X509_PURPOSE_get0_sname(xp) = sname
    THEN i
  ELSE FindBySname(sname, i + 1)

X509_PURPOSE_get_by_sname(sname) == FindBySname(sname, 0)

\* X509_PURPOSE_set(p, purpose): its return value and *p after it.
X509_PURPOSE_set(p, purpose) ==
  IF X509_PURPOSE_get_by_id(purpose) = -1 THEN [ret |-> 0, p |-> p]
  ELSE [ret |-> 1, p |-> purpose]

\* The key usages X509v3_KU_TLS allows for a TLS server.
KU_TLS == KU.digitalSignature | KU.keyEncipherment | KU.keyAgreement

\* xku_reject and ns_reject: the extension is present and lacks the usage.
xku_reject(cx, usage) == "XKUSAGE" \in cx.flags /\ usage \notin cx.xkusage
ns_reject(cx, usage) == "NSCERT" \in cx.flags /\ (cx.nscert & usage) = 0

\* Mutant of check_ca: (ex_flags & V1_ROOT) tested for any bit, not both.
check_ca_v1_any_bit(cx) ==
  IF KuReject(cx, KU.keyCertSign) THEN FALSE
  ELSE IF {"V1", "SS"} \cap cx.flags # {} THEN TRUE
  ELSE {"BCONS", "CA"} \subseteq cx.flags

\* check_ca: keyUsage, if present, allows certificate signing, and either
\* a self-signed version 1 certificate or basicConstraints with cA.
check_ca(cx) ==
  IF KuReject(cx, KU.keyCertSign) THEN FALSE
  ELSE IF {"V1", "SS"} \subseteq cx.flags THEN TRUE
  ELSE {"BCONS", "CA"} \subseteq cx.flags

check_purpose_ssl_client(cx, ca) ==
  IF xku_reject(cx, "SSL_CLIENT") THEN FALSE
  ELSE IF ca THEN check_ca(cx)
  ELSE ~KuReject(cx, KU.digitalSignature | KU.keyAgreement)
       /\ ~ns_reject(cx, NS.SSL_CLIENT)

\* Mutant of check_purpose_ssl_server: the CA branch returns 1 without
\* check_ca.
check_purpose_ssl_server_no_ca_check(cx, ca) ==
  IF xku_reject(cx, "SSL_SERVER") THEN FALSE
  ELSE IF ca THEN TRUE
  ELSE ~ns_reject(cx, NS.SSL_SERVER) /\ ~KuReject(cx, KU_TLS)

check_purpose_ssl_server(cx, ca) ==
  IF xku_reject(cx, "SSL_SERVER") THEN FALSE
  ELSE IF ca THEN check_ca(cx)
  ELSE ~ns_reject(cx, NS.SSL_SERVER) /\ ~KuReject(cx, KU_TLS)

check_purpose_ns_ssl_server(cx, ca) ==
  LET ret == check_purpose_ssl_server(cx, ca) IN
  IF ~ret \/ ca THEN ret ELSE ~KuReject(cx, KU.keyEncipherment)

purpose_smime(cx, ca) ==
  IF xku_reject(cx, "SMIME") THEN FALSE
  ELSE IF ca THEN ~ns_reject(cx, NS.SMIME_CA) /\ check_ca(cx)
  ELSE "NSCERT" \in cx.flags => (cx.nscert & NS.SMIME) = NS.SMIME

check_purpose_smime_sign(cx, ca) ==
  LET ret == purpose_smime(cx, ca) IN
  IF ~ret \/ ca THEN ret
  ELSE ~KuReject(cx, KU.digitalSignature | KU.nonRepudiation)

check_purpose_smime_encrypt(cx, ca) ==
  LET ret == purpose_smime(cx, ca) IN
  IF ~ret \/ ca THEN ret ELSE ~KuReject(cx, KU.keyEncipherment)

check_purpose_crl_sign(cx, ca) ==
  IF ca THEN check_ca(cx) ELSE ~KuReject(cx, KU.cRLSign)

ocsp_helper(cx, ca) == IF ca THEN check_ca(cx) ELSE TRUE

\* keyUsage, if present, only digitalSignature and/or nonRepudiation;
\* extendedKeyUsage present, exactly timeStamping, and critical.
check_purpose_timestamp_sign(c, cx, ca) ==
  IF ca THEN check_ca(cx)
  ELSE /\ LET ds_nr == KU.nonRepudiation | KU.digitalSignature IN
            "KUSAGE" \in cx.flags =>
              /\ (cx.kusage & (UINT32_MAX - ds_nr)) = 0
              /\ (cx.kusage & ds_nr) # 0
       /\ "XKUSAGE" \in cx.flags
       /\ cx.xkusage = {"TIMESTAMP"}
       /\ c.xku_critical

\* pt->check_purpose(pt, x, ca): the check function of entry pt.
CheckByTable(c, cx, pt, ca) ==
  LET id == pt.sname IN
  CASE id = "sslclient"     -> check_purpose_ssl_client(cx, ca)
    [] id = "sslserver"     -> check_purpose_ssl_server(cx, ca)
    [] id = "nssslserver"   -> check_purpose_ns_ssl_server(cx, ca)
    [] id = "smimesign"     -> check_purpose_smime_sign(cx, ca)
    [] id = "smimeencrypt"  -> check_purpose_smime_encrypt(cx, ca)
    [] id = "crlsign"       -> check_purpose_crl_sign(cx, ca)
    [] id = "any"           -> TRUE
    [] id = "ocsphelper"    -> ocsp_helper(cx, ca)
    [] id = "timestampsign" -> check_purpose_timestamp_sign(c, cx, ca)

\* X509_check_purpose, given the verdict of its x509v3_cache_extensions
\* call.
X509_check_purpose(c, cx, verdict, id, ca) ==
  LET idx == X509_PURPOSE_get_by_id(id) IN
  CASE verdict = "invalid" -> FALSE
    [] id = -1             -> TRUE
    [] idx = -1            -> FALSE
    [] OTHER -> \E pt \in X509_PURPOSE_get0(idx) : CheckByTable(c, cx, pt, ca)

\* X509_check_ca (lines 427-432).
X509_check_ca(cx, verdict) == verdict = "valid" /\ check_ca(cx)

\* Mutant of X509_get_pathlen: the result of x509v3_cache_extensions
\* ignored, as X509_get_extension_flags does.
X509_get_pathlen_ignores_invalid(cx, verdict) ==
  IF "BCONS" \notin cx.flags THEN -1 ELSE cx.pathlen

\* X509_get_pathlen (lines 722-727): -1 for an invalid certificate or one
\* without basicConstraints, else ex_pathlen.
X509_get_pathlen(cx, verdict) ==
  IF verdict = "invalid" \/ "BCONS" \notin cx.flags THEN -1 ELSE cx.pathlen

\* All extendedKeyUsage bits: what UINT32_MAX stands for when the
\* extension is absent and the usage unconstrained.
AllXKU == {XKUBit[n] : n \in DOMAIN XKUBit}

\* Mutant of X509_get_key_usage: ex_kusage returned without the
\* EXFLAG_KUSAGE test.
X509_get_key_usage_no_flag_test(cx, verdict) ==
  IF verdict = "invalid" THEN 0 ELSE cx.kusage

\* X509_get_key_usage (lines 669-680): 0 for an invalid certificate,
\* ex_kusage if keyUsage is present, else every bit.
X509_get_key_usage(cx, verdict) ==
  CASE verdict = "invalid"     -> 0
    [] "KUSAGE" \in cx.flags  -> cx.kusage
    [] OTHER                  -> UINT32_MAX

\* X509_get_extended_key_usage (lines 682-692), likewise.
X509_get_extended_key_usage(cx, verdict) ==
  CASE verdict = "invalid"     -> {}
    [] "XKUSAGE" \in cx.flags -> cx.xkusage
    [] OTHER                  -> AllXKU

\* X509_get0_subject_key_id and X509_get0_authority_key_id (lines
\* 694-706): NULL ({}) for an invalid certificate; the stored skid; the
\* key id of the stored akid, if it has one.
X509_get0_subject_key_id(cx, verdict) ==
  IF verdict = "invalid" THEN {} ELSE cx.ptr.skid

X509_get0_authority_key_id(cx, verdict) ==
  IF verdict = "invalid" THEN {}
  ELSE {a.keyid : a \in {a \in cx.ptr.akid : a.keyid # "none"}}

\* X509_get0_authority_issuer and X509_get0_authority_serial (lines
\* 708-720): the stored akid's issuer names and serial, NULL ({}) for an
\* invalid certificate or one without them.
X509_get0_authority_issuer(cx, verdict) ==
  IF verdict = "invalid" THEN {}
  ELSE {a.dirname : a \in {a \in cx.ptr.akid : a.dirname # "none"}}

X509_get0_authority_serial(cx, verdict) ==
  IF verdict = "invalid" THEN {}
  ELSE {a.serial : a \in {a \in cx.ptr.akid : a.serial # "none"}}

\* X509_get_extension_flags (lines 662-667): ex_flags after the cache
\* call, whatever it returned.
X509_get_extension_flags(cx) == cx.flags

-----------------------------------------------------------------------------
(* Properties, over the cache a returned call leaves.                      *)

HasReturned(t) == res[t] # "none"

\* X509_check_purpose(x, id, 1) for any purpose of the table other than
\* "any" accepts only a certificate X509_check_ca accepts: a chain
\* builder asking whether x may issue for a purpose gets a CA.
CaPurposeRequiresCa ==
  \A t \in Threads : HasReturned(t) =>
    \A id \in PurposeIds \ {PurposeId.any, -1} :
      (X509_check_purpose(cert, x, res[t], id, TRUE) => X509_check_ca(x, res[t]))

\* RFC 5280 4.2.1.9: a certificate X509_check_ca accepts either asserts cA
\* in basicConstraints or is a version 1 certificate (no extensions) whose
\* subject is its issuer; and its keyUsage, if present, allows keyCertSign.
\* The cache's V1, SS, BCONS and CA bits, set in different stages, must
\* combine to exactly that.
CaCertificatesAreDeclaredCAs ==
  \A t \in Threads : HasReturned(t) /\ X509_check_ca(x, res[t]) =>
    /\ \/ cert.bc.ext = "ok" /\ cert.bc.val.ca
       \/ cert.version1 /\ cert.subject = cert.issuer
    /\ cert.ku.ext = "ok" => KUListed(cert, "keyCertSign")

\* X509_get_pathlen reports exactly the limit a valid CA certificate's
\* basicConstraints carries, and -1 (no limit) otherwise: no
\* basicConstraints, no limit, an invalid certificate, or, as the TODO at
\* the ASN1_INTEGER_get call accepts, a limit that overflows a long.  A
\* rejected limit, stored as ex_pathlen 0, is never reported.
PathlenOnlyFromCA ==
  \A t \in Threads : HasReturned(t) =>
    X509_get_pathlen(x, res[t])
      = IF /\ res[t] = "valid"
           /\ cert.bc.ext = "ok" /\ cert.bc.val.ca /\ cert.bc.val.pl = "value"
          THEN cert.bc.val.n ELSE -1

\* Field f of the certificate's akid, {} if it has none.
AkidField(c, f) ==
  IF c.akid.ext = "ok" /\ c.akid.val[f] # "none" THEN {c.akid.val[f]} ELSE {}

\* The accessors report the parsed certificate: for a valid certificate,
\* X509_get_key_usage grants a usage exactly when the certificate has no
\* keyUsage or lists it, X509_get_extended_key_usage grants a purpose bit
\* exactly when it has no extendedKeyUsage or lists an OID with that bit,
\* and the akid getters return its skid and its akid's key id, serial and
\* issuer name; for an invalid one they all return 0 or NULL, and
\* X509_get_extension_flags, which ignores the result, shows EXFLAG_INVALID.  Callers (the TLS stack, the
\* verifier) read "no extension" as "unconstrained" from these alone.
AccessorsMatchCertificate ==
  \A t \in Threads : HasReturned(t) =>
    /\ "SET" \in X509_get_extension_flags(x)
    /\ ("INVALID" \in X509_get_extension_flags(x) <=> res[t] = "invalid")
    /\ IF res[t] = "invalid"
      THEN /\ X509_get_key_usage(x, res[t]) = 0
           /\ X509_get_extended_key_usage(x, res[t]) = {}
           /\ X509_get0_subject_key_id(x, res[t]) = {}
           /\ X509_get0_authority_key_id(x, res[t]) = {}
           /\ X509_get0_authority_issuer(x, res[t]) = {}
           /\ X509_get0_authority_serial(x, res[t]) = {}
      ELSE /\ \A u \in DOMAIN KUPos :
                (X509_get_key_usage(x, res[t]) & KU[u]) # 0
                  <=> cert.ku.ext = "absent" \/ KUListed(cert, u)
           /\ \A b \in AllXKU :
                b \in X509_get_extended_key_usage(x, res[t])
                  <=> \/ cert.xku.ext = "absent"
                      \/ \E n \in cert.xku.val \cap DOMAIN XKUBit : XKUBit[n] = b
           /\ X509_get0_subject_key_id(x, res[t])
                = IF cert.skid.ext = "ok" THEN {cert.skid.val} ELSE {}
           /\ X509_get0_authority_key_id(x, res[t])
                = IF cert.akid.ext = "ok" /\ cert.akid.val.keyid # "none"
                    THEN {cert.akid.val.keyid} ELSE {}
           /\ X509_get0_authority_serial(x, res[t]) = AkidField(cert, "serial")
           /\ X509_get0_authority_issuer(x, res[t]) = AkidField(cert, "dirname")

\* The entry of the table whose purpose id is id, read off the table.
EntryWithId(id) == {xstandard[k] : k \in {k \in 1..Len(xstandard) : xstandard[k].purpose = id}}

\* The table lookups agree with the table itself.  X509_PURPOSE_set
\* accepts exactly the table's ids and leaves *p alone otherwise; for an
\* accepted id, X509_check_purpose runs the check of the entry with that
\* id (get_by_id returns a 0-based index and the ids start at 1: mixing
\* the two runs the next purpose's check, or none); get0 is NULL exactly
\* outside the table, and each entry's short name leads back to it.
PurposeLookupsFollowTable ==
  /\ \A id, p \in PurposeIds :
       X509_PURPOSE_set(p, id)
         = IF EntryWithId(id) # {} THEN [ret |-> 1, p |-> id]
           ELSE [ret |-> 0, p |-> p]
  /\ \A t \in Threads : HasReturned(t) =>
       \A id \in PurposeIds \ {-1}, ca \in BOOLEAN :
         X509_check_purpose(cert, x, res[t], id, ca)
           <=> res[t] = "valid" /\ \E pt \in EntryWithId(id) : CheckByTable(cert, x, pt, ca)
  /\ \A i \in -1..X509_PURPOSE_get_count :
       IF i \in 0..(X509_PURPOSE_get_count - 1)
         THEN \E pt \in X509_PURPOSE_get0(i) :
                X509_PURPOSE_get_by_sname(X509_PURPOSE_get0_sname(pt)) = i
         ELSE X509_PURPOSE_get0(i) = {}

\* The comment in check_purpose_timestamp_sign: "Only time stamp key usage
\* is permitted and it's required" (RFC 3161 2.3: the extendedKeyUsage
\* holds exactly id-kp-timeStamping).
TimestampEKUOnlyTimeStamping ==
  \A t \in Threads : HasReturned(t) =>
    (X509_check_purpose(cert, x, res[t], PurposeId.timestampsign, FALSE)
      => cert.xku.ext = "ok" /\ cert.xku.val = {"time_stamp"})

=============================================================================
