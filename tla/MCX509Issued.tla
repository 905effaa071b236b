------------------------------ MODULE MCX509Issued ----------------------------
(* Two threads each asking whether a CA certificate issued a leaf.  The    *)
(* issuer varies its keyUsage, skid and validity; the subject its issuer   *)
(* name, its akid (absent, undecodable, a key id, a serial or a directory  *)
(* name that does or does not match the issuer), its validity and whether *)
(* its signature algorithm is understood (x509_init_signature_info).       *)
EXTENDS X509Issued

CONSTANTS t1, t2

MCThreads == {t1, t2}

Ext(e, v) == [ext |-> e, val |-> v]
Akid(k, sn, d) == [keyid |-> k, serial |-> sn, dirname |-> d]
NoAkid == Akid("none", "none", "none")
Absent == Ext("absent", "none")
NoExt == Ext("absent", {})
NoBits == Ext("absent", <<>>)

\* The fields the checks do not read, fixed.
Common ==
  [version1 |-> FALSE, xku |-> NoExt, ns |-> NoBits, altname |-> Absent,
   nc |-> Absent, crldp |-> Ext("absent", <<>>), exts |-> <<>>]

MCIssuerCerts ==
  { [f \in DOMAIN Common \cup {"digest_ok", "bc", "ku", "skid", "akid",
                               "subject", "issuer", "serial", "sig_ok"} |->
       IF f \in DOMAIN Common THEN Common[f]
       ELSE CASE f = "digest_ok" -> ok
              [] f = "sig_ok" -> TRUE
              [] f = "bc" -> Ext("ok", [ca |-> TRUE, pl |-> "none", n |-> 0])
              [] f = "ku" -> ku
              [] f = "skid" -> skid
              [] f = "akid" -> Ext("absent", NoAkid)
              [] f = "subject" -> "N1"
              [] f = "issuer" -> "N0"
              [] f = "serial" -> "S1"] :
    ok \in BOOLEAN,
    ku \in {NoBits, Ext("ok", <<4>>), Ext("ok", <<128>>)},
    skid \in {Absent, Ext("ok", "K1")} }

MCSubjectCerts ==
  { [f \in DOMAIN Common \cup {"digest_ok", "bc", "ku", "skid", "akid",
                               "subject", "issuer", "serial", "sig_ok"} |->
       IF f \in DOMAIN Common THEN Common[f]
       ELSE CASE f = "digest_ok" -> ok
              [] f = "sig_ok" -> sig
              [] f = "bc" -> Ext("absent", [ca |-> FALSE, pl |-> "none", n |-> 0])
              [] f = "ku" -> NoBits
              [] f = "skid" -> Absent
              [] f = "akid" -> akid
              [] f = "subject" -> "N2"
              [] f = "issuer" -> iss
              [] f = "serial" -> "S2"] :
    ok \in BOOLEAN, sig \in BOOLEAN, iss \in {"N1", "N3"},
    akid \in {Ext("absent", NoAkid), Ext("bad", NoAkid),
              Ext("ok", Akid("K1", "none", "none")), Ext("ok", Akid("K2", "none", "none")),
              Ext("ok", Akid("none", "S1", "none")), Ext("ok", Akid("none", "S3", "none")),
              Ext("ok", Akid("none", "none", "N0")), Ext("ok", Akid("none", "none", "N4"))} }

=============================================================================
