----------------------------- MODULE MCX509Purpose ----------------------------
(* One thread's call on one certificate, then every purpose query on the   *)
(* cache it leaves.  The certificates vary the extensions the purpose      *)
(* checks read: basicConstraints, keyUsage, extendedKeyUsage and its       *)
(* criticality, nsCertType, the version and the self-issued test.  A       *)
(* version 1 certificate carries no extensions.                            *)
EXTENDS X509Purpose

CONSTANTS t1

MCThreads == {t1}

Ext(e, v) == [ext |-> e, val |-> v]
BC(ca, pl, n) == [ca |-> ca, pl |-> pl, n |-> n]

NoExt == Ext("absent", {})
NoBits == Ext("absent", <<>>)
NoBC == Ext("absent", BC(FALSE, "none", 0))
NoSkid == Ext("absent", "none")
Akid(k, sn, d) == [keyid |-> k, serial |-> sn, dirname |-> d]
NoAkid == Ext("absent", Akid("none", "none", "none"))

AllCerts ==
  [digest_ok : {TRUE}, version1 : BOOLEAN,
   bc : {NoBC, Ext("ok", BC(TRUE, "none", 0)), Ext("ok", BC(TRUE, "value", 1)),
         Ext("ok", BC(FALSE, "none", 0)), Ext("ok", BC(FALSE, "value", 0)),
         Ext("ok", BC(TRUE, "overflow", 0))},
   \* DER bytes: none; keyCertSign; digitalSignature; keyEncipherment and
   \* keyCertSign; decipherOnly alone, in the second byte.
   ku : {NoBits, Ext("ok", <<>>), Ext("ok", <<4>>), Ext("ok", <<128>>),
         Ext("ok", <<36>>), Ext("ok", <<0, 128>>)},
   xku : {NoExt, Ext("ok", {"server_auth"}), Ext("ok", {"time_stamp"}),
          Ext("ok", {"time_stamp", "other"})},
   xku_critical : BOOLEAN,
   \* sslServer; S/MIME CA.
   ns : {NoBits, Ext("ok", <<64>>), Ext("ok", <<2>>)},
   subject : {"N1"}, issuer : {"N1", "N2"}, serial : {"S1"},
   skid : {NoSkid, Ext("ok", "K1")},
   akid : {NoAkid, Ext("ok", Akid("K2", "S1", "N1"))},
   altname : {NoSkid}, nc : {NoSkid}, crldp : {Ext("absent", <<>>)},
   exts : {<<>>}, sig_ok : {TRUE}]

MCCerts ==
  {c \in AllCerts :
     /\ c.xku.ext = "absent" => ~c.xku_critical
     /\ c.version1 => /\ c.bc = NoBC
                      /\ c.ku = NoBits /\ c.xku = NoExt /\ c.ns = NoBits
                      /\ c.skid = NoSkid /\ c.akid = NoAkid}

=============================================================================
