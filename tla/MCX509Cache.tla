------------------------------ MODULE MCX509Cache -----------------------------
(* Two threads calling twice each on one certificate.  The certificates   *)
(* vary the extensions the properties read (basicConstraints, keyUsage,   *)
(* the key identifiers against the certificate's own, the names) across   *)
(* their absent, undecodable and decoded forms; the others are fixed or   *)
(* absent.                                                                 *)
EXTENDS X509Cache

CONSTANTS t1, t2

MCThreads == {t1, t2}

Ext(e, v) == [ext |-> e, val |-> v]
BC(ca, pl, n) == [ca |-> ca, pl |-> pl, n |-> n]
Akid(k, s, d) == [keyid |-> k, serial |-> s, dirname |-> d]
NoAkid == Ext("absent", Akid("none", "none", "none"))
DP(d, iss, f) == [dp |-> d, crlissuer |-> iss, setfails |-> f]
NoCrldp == Ext("absent", <<>>)
Ex(n, cr) == [nid |-> n, critical |-> cr]

MCCerts ==
  [digest_ok : BOOLEAN, version1 : {FALSE},
   bc : {Ext("absent", BC(FALSE, "none", 0)), Ext("bad", BC(FALSE, "none", 0)),
         Ext("ok", BC(TRUE, "none", 0)), Ext("ok", BC(TRUE, "value", 1)),
         Ext("ok", BC(FALSE, "value", 0)), Ext("ok", BC(TRUE, "neg", 2)),
         Ext("ok", BC(TRUE, "overflow", 0))},
   ku : {Ext("absent", <<>>), Ext("ok", <<>>), Ext("ok", <<4>>)},
   xku : {Ext("bad", {}), Ext("ok", {"server_auth", "ns_sgc", "other"})},
   ns : {Ext("absent", <<>>)},
   subject : {"N1"}, issuer : {"N1", "N2"}, serial : {"S1"},
   skid : {Ext("absent", "none"), Ext("ok", "K1")},
   akid : {NoAkid, Ext("ok", Akid("K2", "none", "none")),
           Ext("ok", Akid("none", "S2", "none"))},
   altname : {Ext("absent", "none")}, nc : {Ext("absent", "none")},
   crldp : {NoCrldp, Ext("bad", <<>>),
            \* a relative point under two directory names; a full name
            Ext("ok", <<DP("relative", <<"uri", "N3", "N4">>, FALSE),
                        DP("full", <<>>, TRUE)>>),
            \* the second of three relative points fails to set up
            Ext("ok", <<DP("relative", <<>>, FALSE),
                        DP("relative", <<"N3">>, TRUE),
                        DP("relative", <<>>, FALSE)>>)},
   exts : {<<Ex("certificate_policies", TRUE), Ex("ct_precert_scts", FALSE)>>,
           <<Ex("ct_precert_scts", TRUE)>>},
   sig_ok : {TRUE}]

=============================================================================
