--------------------------- MODULE X25519BackendSpec --------------------------
(***************************************************************************)
(* What the backend selector promises X25519's callers (spec sections 4.1  *)
(* and 4.2): the capability queries are fixed by the compilation target   *)
(* and the CPU; the selector turns them into one decision, by a fixed     *)
(* architecture-specific priority, routed to the portable fallback when   *)
(* no accelerated backend is compiled in; and no call ends in abort.  A   *)
(* call runs its backend in one atomic step, whenever it happens and       *)
(* whatever other threads are doing.                                       *)
(***************************************************************************)
CONSTANTS
  Threads,
  Builds,
  CPUs,
  Compiled(_),         \* an accelerated backend is compiled into build b
  StandardCapable(_, _), \* the standard-instruction variant runs on (b, c)
  WideCapable(_, _),   \* the wide-multiplier variant runs on (b, c)
  PrefersStandard(_)   \* b's architecture family tries the standard variant first

VARIABLES
  build,    \* the build configuration (fixed)
  cpu,      \* the CPU's features (fixed)
  active,   \* per thread: a call is in progress
  served    \* the backends that have served a call

avars == <<build, cpu, active, served>>

\* Section 4.2: the dispatch decision.
Decision(b, c) ==
  LET std == StandardCapable(b, c)
      wide == WideCapable(b, c)
  IN  CASE ~Compiled(b)                    -> "portable"
        [] PrefersStandard(b) /\ std       -> "standard"
        [] PrefersStandard(b) /\ wide      -> "wide"
        [] ~PrefersStandard(b) /\ wide     -> "wide"
        [] ~PrefersStandard(b) /\ std      -> "standard"
        [] OTHER                           -> "none"

Init ==
  /\ build \in Builds
  /\ cpu \in CPUs
  /\ active = [t \in Threads |-> FALSE]
  /\ served = {}

Begin(t) ==
  /\ ~active[t]
  /\ active' = [active EXCEPT ![t] = TRUE]
  /\ UNCHANGED <<build, cpu, served>>

\* The call runs the decided backend; "none" is never run (no abort).
Serve(t) ==
  /\ active[t]
  /\ Decision(build, cpu) # "none"
  /\ active' = [active EXCEPT ![t] = FALSE]
  /\ served' = served \cup {Decision(build, cpu)}
  /\ UNCHANGED <<build, cpu>>

Next == \E t \in Threads : Begin(t) \/ Serve(t)

\* A call in progress eventually returns.
Spec == Init /\ [][Next]_avars /\ \A t \in Threads : WF_avars(Serve(t))

=============================================================================
