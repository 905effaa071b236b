---------------------------- MODULE X509CacheSpec ----------------------------
(***************************************************************************)
(* What x509v3_cache_extensions promises its callers (X509_check_purpose,  *)
(* X509_check_ca, X509_check_issued, X509_get_key_usage, ...): the         *)
(* certificate's extensions are decoded once, and every call, from any     *)
(* thread, returns whether the certificate is valid, a function of the     *)
(* certificate alone.  The decoding is one atomic step, Fill, taken before *)
(* any call returns.                                                       *)
(***************************************************************************)
EXTENDS Naturals

CONSTANTS Threads, Certs, Calls

VARIABLES
  cert,      \* the certificate being inspected (fixed)
  filled,    \* whether its extension cache has been filled
  res,       \* per thread: "valid" or "invalid", its last call's result ("none" before any)
  calls      \* per thread: the calls that have returned

\* A certificate is valid when every extension it carries decodes, its
\* digest can be computed, and a basicConstraints path length, if present,
\* is non-negative and on a CA; the CRL distribution points' issuer names
\* can be set up.  An unsupported critical extension does
\* not make it invalid.
Valid(c) ==
  /\ c.digest_ok
  /\ \A f \in {"bc", "ku", "xku", "ns", "skid", "akid", "altname", "nc"} :
       c[f].ext # "bad"
  /\ c.crldp.ext # "bad"
  /\ \A i \in DOMAIN c.crldp.val :
       ~(c.crldp.val[i].dp = "relative" /\ c.crldp.val[i].setfails)
  /\ c.bc.ext = "ok" /\ c.bc.val.pl # "none"
       => c.bc.val.ca /\ c.bc.val.pl # "neg"

Init ==
  /\ cert \in Certs
  /\ filled = FALSE
  /\ res = [t \in Threads |-> "none"]
  /\ calls = [t \in Threads |-> 0]

Fill ==
  /\ ~filled
  /\ filled' = TRUE
  /\ UNCHANGED <<cert, res, calls>>

Return(t) ==
  /\ filled
  /\ calls[t] < Calls
  /\ res' = [res EXCEPT ![t] = IF Valid(cert) THEN "valid" ELSE "invalid"]
  /\ calls' = [calls EXCEPT ![t] = @ + 1]
  /\ UNCHANGED <<cert, filled>>

Next == Fill \/ \E t \in Threads : Return(t)

\* Every thread makes its calls: the cache is eventually filled, and each
\* call, once the cache is filled, eventually returns.
Fairness ==
  /\ WF_<<cert, filled, res, calls>>(Fill)
  /\ \A t \in Threads : WF_<<cert, filled, res, calls>>(Return(t))

Spec == Init /\ [][Next]_<<cert, filled, res, calls>> /\ Fairness

=============================================================================
