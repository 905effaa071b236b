------------------------------ MODULE X509Issued ------------------------------
(***************************************************************************)
(* X509_check_issued(issuer, subject) of src/crypto/x509/v3_purp.c (lines  *)
(* 601-621): threads ask concurrently whether one certificate issued       *)
(* another.  Each call compares the names, then fills the issuer's and the *)
(* subject's extension caches (x509v3_cache_extensions, module X509Cache,  *)
(* one instance per certificate, each with its own lock), then reads the   *)
(* subject's akid and the issuer's skid and keyUsage from them without a   *)
(* lock.  A thread's step inside a cache call is that instance's step; the *)
(* other certificate's variables are unchanged.                            *)
(***************************************************************************)
EXTENDS Naturals

CONSTANTS
  Threads,       \* threads calling X509_check_issued(issuer, subject)
  IssuerCerts,   \* certificates the issuer X509 can hold
  SubjectCerts,  \* certificates the subject X509 can hold
  NoWriter,      \* model value: a write lock is free
  MaxPathlen     \* the largest path length a certificate carries

VARIABLES
  icert, ix, ileaked, iwriter, ipc, iisset, istage, ires, icalls,  \* issuer
  scert, sx, sleaked, swriter, spc, sisset, sstage, sres, scalls,  \* subject
  cpc,       \* per thread: "start", "issuer", "subject", "decide", "done"
  verdict    \* per thread: the X509_V_* code its call returned, or "none"

ivars == <<icert, ix, ileaked, iwriter, ipc, iisset, istage, ires, icalls>>
svars == <<scert, sx, sleaked, swriter, spc, sisset, sstage, sres, scalls>>
vars == <<ivars, svars, cpc, verdict>>

\* Each thread makes one cache call on each certificate.
Issuer == INSTANCE X509Cache
  WITH Certs <- IssuerCerts, Calls <- 1, cert <- icert, x <- ix,
       leaked <- ileaked, writer <- iwriter, pc <- ipc, isset <- iisset,
       stage <- istage, res <- ires, calls <- icalls
Subject == INSTANCE X509Cache
  WITH Certs <- SubjectCerts, Calls <- 1, cert <- scert, x <- sx,
       leaked <- sleaked, writer <- swriter, pc <- spc, isset <- sisset,
       stage <- sstage, res <- sres, calls <- scalls

\* What x509v3_cache_extensions promises of one certificate.
Contract == INSTANCE X509CacheSpec
  WITH Certs <- IssuerCerts, Calls <- 1, cert <- icert, filled <- FALSE,
       res <- ires, calls <- icalls

Finish(t, code) ==
  /\ verdict' = [verdict EXCEPT ![t] = code]
  /\ cpc' = [cpc EXCEPT ![t] = "done"]

\* X509_NAME_cmp(subject name of issuer, issuer name of subject).
Start(t) ==
  /\ cpc[t] = "start"
  /\ IF icert.subject # scert.issuer
       THEN Finish(t, "SUBJECT_ISSUER_MISMATCH")
       ELSE cpc' = [cpc EXCEPT ![t] = "issuer"] /\ verdict' = verdict
  /\ UNCHANGED <<ivars, svars>>

\* A step of x509v3_cache_extensions(issuer).
IssuerStep(t) ==
  /\ cpc[t] = "issuer"
  /\ Issuer!Thread(t)
  /\ UNCHANGED <<svars, cpc, verdict>>

\* Mutant of AfterIssuer: the subject's cache is read without calling
\* x509v3_cache_extensions(subject).
AfterIssuerSkipSubject(t) ==
  /\ cpc[t] = "issuer"
  /\ icalls[t] = 1
  /\ IF ires[t] = "invalid"
       THEN Finish(t, "UNSPECIFIED")
       ELSE cpc' = [cpc EXCEPT ![t] = "decide"] /\ verdict' = verdict
  /\ UNCHANGED <<ivars, svars>>

\* The issuer's cache call returned: 0 ends the call (the || does not
\* evaluate the subject's).
AfterIssuer(t) ==
  /\ cpc[t] = "issuer"
  /\ icalls[t] = 1
  /\ IF ires[t] = "invalid"
       THEN Finish(t, "UNSPECIFIED")
       ELSE cpc' = [cpc EXCEPT ![t] = "subject"] /\ verdict' = verdict
  /\ UNCHANGED <<ivars, svars>>

\* A step of x509v3_cache_extensions(subject).
SubjectStep(t) ==
  /\ cpc[t] = "subject"
  /\ Subject!Thread(t)
  /\ UNCHANGED <<ivars, cpc, verdict>>

AfterSubject(t) ==
  /\ cpc[t] = "subject"
  /\ scalls[t] = 1
  /\ IF sres[t] = "invalid"
       THEN Finish(t, "UNSPECIFIED")
       ELSE cpc' = [cpc EXCEPT ![t] = "decide"] /\ verdict' = verdict
  /\ UNCHANGED <<ivars, svars>>

\* The subject's akid against the issuer, then the issuer's keyUsage, read
\* from the caches without a lock.
Decide(t) ==
  /\ cpc[t] = "decide"
  /\ LET akid == Issuer!X509_check_akid(icert, ix, sx.ptr.akid) IN
       Finish(t, IF akid # "OK" THEN akid
                 ELSE IF Issuer!KuReject(ix, Issuer!KU.keyCertSign)
                   THEN "KEYUSAGE_NO_CERTSIGN" ELSE "OK")
  /\ UNCHANGED <<ivars, svars>>

Thread(t) ==
  \/ Start(t) \/ IssuerStep(t) \/ AfterIssuer(t)
  \/ SubjectStep(t) \/ AfterSubject(t) \/ Decide(t)

Init ==
  /\ Issuer!Init
  /\ Subject!Init
  /\ cpc = [t \in Threads |-> "start"]
  /\ verdict = [t \in Threads |-> "none"]

Next == \E t \in Threads : Thread(t)

\* A thread that can take its next step eventually does.
Fairness == \A t \in Threads : WF_vars(Thread(t))

Spec == Init /\ [][Next]_vars /\ Fairness

-----------------------------------------------------------------------------
(* Properties.                                                             *)

\* RFC 5280 6.1 and 4.2.1.1, on the parsed certificates: the issuer's
\* subject is the subject's issuer, both certificates are valid, the
\* subject's akid names the issuer (its key id the issuer's skid when both
\* exist, its serial the issuer's serial, its directory name the issuer's
\* issuer), and the issuer's keyUsage, if present, allows keyCertSign.
MayIssue(ic, sc) ==
  /\ ic.subject = sc.issuer
  /\ Contract!Valid(ic) /\ Contract!Valid(sc)
  /\ sc.akid.ext = "ok" =>
       LET a == sc.akid.val IN
       /\ a.keyid # "none" /\ ic.skid.ext = "ok" => a.keyid = ic.skid.val
       /\ a.serial # "none" => a.serial = ic.serial
       /\ a.dirname # "none" => a.dirname = ic.issuer
  /\ ic.ku.ext = "ok" => Issuer!KUListed(ic, "keyCertSign")

\* X509_check_issued returns X509_V_OK exactly when the parsed
\* certificates allow it, whatever the other threads are doing to the two
\* caches: the akid and keyUsage it reads without a lock are those of
\* filled caches.
IssuedAgreesWithCertificates ==
  \A t \in Threads :
    verdict[t] # "none" => (verdict[t] = "OK" <=> MayIssue(icert, scert))

=============================================================================
