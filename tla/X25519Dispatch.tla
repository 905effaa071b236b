---------------------------- MODULE X25519Dispatch ----------------------------
(***************************************************************************)
(* The choice of X25519 implementation in                                  *)
(* src/crypto/curve25519/curve25519.c: the compile-time s2n-bignum         *)
(* capability (lines 34-52), the aborting stubs compiled without it        *)
(* (54-82), the run-time capability predicates (85-134) and the selection  *)
(* in x25519_s2n_bignum and x25519_s2n_bignum_public_from_private         *)
(* (159-235), reached from X25519 and X25519_public_from_private           *)
(* (364-411).  Threads call concurrently; the only state they share is the *)
(* process-wide CPU capability cache, set up once on first use (spec       *)
(* sections 4.1 and 5; that code is not under src/).                       *)
(*                                                                         *)
(* One initial state per build configuration and CPU: the run covers       *)
(* every combination at once.                                              *)
(***************************************************************************)
EXTENDS Naturals, FiniteSets

CONSTANTS
  Threads,   \* threads calling X25519 / X25519_public_from_private
  Builds,    \* build configurations: [arch, os, no_asm, avx_too_old]
  CPUs       \* CPU features: [bmi2, adx, wide]

NoCaps == [bmi2 |-> FALSE, adx |-> FALSE, wide |-> FALSE]

VARIABLES
  build,     \* the build configuration (fixed)
  cpu,       \* the CPU's features (fixed)
  cap,       \* the capability cache: "uninit", "ready", or the thread setting it up
  pc,        \* per thread: "idle", "select", "init", "call"
  op,        \* per thread: "x25519" or "base" (X25519_public_from_private)
  impl,      \* per thread: the implementation selected for the current call
  used,      \* the implementation variants every completed call ran
  aborted    \* whether some call reached abort()

vars == <<build, cpu, cap, pc, op, impl, used, aborted>>

-----------------------------------------------------------------------------
(* The capability cache (spec_modelled: CPU feature detection).            *)

\* Mutant of CapReady: the cache is read without waiting for the set-up.
CapReadyRacy == TRUE

\* CRYPTO_once's guarantee: the cache is read only after it is set up.
CapReady == cap = "ready"

\* What CRYPTO_is_BMI2_capable and friends read: the CPU's features once
\* set up, zeros before.
CapsView == IF cap = "ready" THEN cpu ELSE NoCaps

-----------------------------------------------------------------------------
(* Build-time and run-time capability, and the selection.                  *)

\* #define CURVE25519_S2N_BIGNUM_CAPABLE (lines 36-43): the s2n-bignum
\* assembly is compiled in; otherwise the aborting stubs are.
CURVE25519_S2N_BIGNUM_CAPABLE(b) ==
  /\ \/ b.arch = "x86_64" /\ ~b.avx_too_old
     \/ b.arch = "aarch64"
  /\ b.os \in {"linux", "apple"}
  /\ ~b.no_asm

\* Mutant of x25519_s2n_bignum_capable: its own test forgets OPENSSL_NO_ASM.
x25519_s2n_bignum_capable_no_asm_ignored(b) ==
  /\ \/ b.arch = "x86_64" /\ ~b.avx_too_old
     \/ b.arch = "aarch64"
  /\ b.os \in {"linux", "apple"}

\* x25519_s2n_bignum_capable: 1 exactly when the macro is defined.
x25519_s2n_bignum_capable(b) == CURVE25519_S2N_BIGNUM_CAPABLE(b)

\* x25519_s2n_bignum_alt_capable (lines 100-112).
x25519_s2n_bignum_alt_capable(b, c) ==
  CASE b.arch = "x86_64"  -> TRUE
    [] b.arch = "aarch64" -> c.wide
    [] OTHER              -> FALSE

\* x25519_s2n_bignum_no_alt_capable (lines 122-134).
x25519_s2n_bignum_no_alt_capable(b, c) ==
  CASE b.arch = "x86_64"  -> c.bmi2 /\ c.adx
    [] b.arch = "aarch64" -> TRUE
    [] OTHER              -> FALSE

\* Mutant of x25519_s2n_bignum_select: aarch64 given x86_64's priority.
x25519_s2n_bignum_select_one_priority(b, c) ==
  LET alt == x25519_s2n_bignum_alt_capable(b, c)
      noalt == x25519_s2n_bignum_no_alt_capable(b, c)
  IN  IF b.arch \in {"x86_64", "aarch64"}
        THEN IF noalt THEN "no_alt" ELSE IF alt THEN "alt" ELSE "abort"
        ELSE "abort"

\* The selection in x25519_s2n_bignum and, identically,
\* x25519_s2n_bignum_public_from_private: x86_64 prefers no-alt, aarch64
\* prefers alt, any other architecture aborts.
x25519_s2n_bignum_select(b, c) ==
  LET alt == x25519_s2n_bignum_alt_capable(b, c)
      noalt == x25519_s2n_bignum_no_alt_capable(b, c)
  IN  CASE b.arch = "x86_64"  -> IF noalt THEN "no_alt" ELSE IF alt THEN "alt" ELSE "abort"
        [] b.arch = "aarch64" -> IF alt THEN "alt" ELSE IF noalt THEN "no_alt" ELSE "abort"
        [] OTHER              -> "abort"

\* Calling curve25519_x25519[base]_byte[_alt]: the stubs of lines 58-82
\* abort when the assembly is not compiled in.
BackendOutcome(b, v) ==
  IF v \in {"no_alt", "alt"} /\ ~CURVE25519_S2N_BIGNUM_CAPABLE(b) THEN "abort" ELSE v

-----------------------------------------------------------------------------
(* A thread's call.                                                        *)

\* Mutant of Call: the portable implementation is not selected when the
\* s2n-bignum path is not compiled in.
CallNoFallback(t) ==
  /\ pc[t] = "idle"
  /\ \E o \in {"x25519", "base"} : op' = [op EXCEPT ![t] = o]
  /\ pc' = [pc EXCEPT ![t] = IF x25519_s2n_bignum_capable(build) THEN "select" ELSE "call"]
  /\ UNCHANGED <<build, cpu, cap, impl, used, aborted>>

\* X25519 or X25519_public_from_private: the s2n-bignum path (which first
\* demasks a local copy of the key) when capable, else the portable nohw
\* implementation.
Call(t) ==
  /\ pc[t] = "idle"
  /\ \E o \in {"x25519", "base"} : op' = [op EXCEPT ![t] = o]
  /\ IF x25519_s2n_bignum_capable(build)
       THEN pc' = [pc EXCEPT ![t] = "select"] /\ impl' = impl
       ELSE pc' = [pc EXCEPT ![t] = "call"] /\ impl' = [impl EXCEPT ![t] = "nohw"]
  /\ UNCHANGED <<build, cpu, cap, used, aborted>>

\* First use of the capability cache: this thread sets it up.
StartCapInit(t) ==
  /\ pc[t] = "select"
  /\ cap = "uninit"
  /\ cap' = t
  /\ pc' = [pc EXCEPT ![t] = "init"]
  /\ UNCHANGED <<build, cpu, op, impl, used, aborted>>

\* The set-up completes; waiting threads may now read the cache.
FinishCapInit(t) ==
  /\ pc[t] = "init"
  /\ cap' = "ready"
  /\ pc' = [pc EXCEPT ![t] = "select"]
  /\ UNCHANGED <<build, cpu, op, impl, used, aborted>>

\* The if/else-if chain of x25519_s2n_bignum[_public_from_private],
\* reading the capability predicates.
Select(t) ==
  /\ pc[t] = "select"
  /\ CapReady
  /\ impl' = [impl EXCEPT ![t] = x25519_s2n_bignum_select(build, CapsView)]
  /\ pc' = [pc EXCEPT ![t] = "call"]
  /\ UNCHANGED <<build, cpu, cap, op, used, aborted>>

\* The selected implementation runs, or abort() ends the process.
Run(t) ==
  /\ pc[t] = "call"
  /\ LET v == BackendOutcome(build, impl[t]) IN
       /\ aborted' = (v = "abort")
       /\ used' = IF v = "abort" THEN used ELSE used \cup {v}
  /\ pc' = [pc EXCEPT ![t] = "idle"]
  /\ UNCHANGED <<build, cpu, cap, op, impl>>

\* abort() ends the process: no thread takes another step.
Thread(t) ==
  /\ ~aborted
  /\ \/ Call(t) \/ StartCapInit(t) \/ FinishCapInit(t) \/ Select(t) \/ Run(t)

Init ==
  /\ build \in Builds
  /\ cpu \in CPUs
  /\ cap = "uninit"
  /\ pc = [t \in Threads |-> "idle"]
  /\ op = [t \in Threads |-> "x25519"]
  /\ impl = [t \in Threads |-> "none"]
  /\ used = {}
  /\ aborted = FALSE

Next == \E t \in Threads : Thread(t)

Fairness == \A t \in Threads : WF_vars(Thread(t))

Spec == Init /\ [][Next]_vars /\ Fairness

-----------------------------------------------------------------------------
(* Properties.                                                             *)

Impls == {"none", "no_alt", "alt", "nohw", "abort"}

TypeOK ==
  /\ build \in Builds
  /\ cpu \in CPUs
  /\ cap \in {"uninit", "ready"} \cup Threads
  /\ pc \in [Threads -> {"idle", "select", "init", "call"}]
  /\ op \in [Threads -> {"x25519", "base"}]
  /\ impl \in [Threads -> Impls]
  /\ used \subseteq Impls \ {"none", "abort"}
  /\ aborted \in BOOLEAN

\* The abort() calls of the selection and of the stubs are unreachable:
\* on every build and every CPU some implementation serves each call
\* (the stubs' comment: abort rather than silently do nothing).
NoAbort == ~aborted

\* The selector implements X25519BackendSpec: a call is in progress from
\* Call to Run; the capability set-up and the selection are stutters; Run
\* serves the abstract decision under the names s2n-bignum gives the
\* variants (no-alt is the standard-instruction one, alt the
\* wide-multiplier one, nohw the portable fallback).  Every call must run
\* the backend the build and the CPU's features decide, whichever thread
\* set up the capability cache and when, and none may abort.
BackendName == [no_alt |-> "standard", alt |-> "wide", nohw |-> "portable"]

Abstract == INSTANCE X25519BackendSpec
  WITH Compiled <- x25519_s2n_bignum_capable,
       StandardCapable <- x25519_s2n_bignum_no_alt_capable,
       WideCapable <- x25519_s2n_bignum_alt_capable,
       PrefersStandard <- LAMBDA b : b.arch = "x86_64",
       active <- [t \in Threads |-> pc[t] # "idle"],
       served <- {BackendName[v] : v \in used}

ImplementsBackendSpec == Abstract!Spec

=============================================================================
