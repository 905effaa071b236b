--------------------------- MODULE ScalarRangeCheck ---------------------------
(***************************************************************************)
(* The rejection of out-of-range S in ED25519_verify                       *)
(* (src/crypto/curve25519/curve25519.c, lines 305 and 333-342), one        *)
(* iteration of the loop per step, started from every value the 32 bytes   *)
(* of S can hold.  The loop counts a size_t down from 3 and must leave at  *)
(* i = 0 by a return, never by decrementing past zero.                     *)
(***************************************************************************)
EXTENDS Integers, Ed25519Scalar

VARIABLES
  scopy,   \* the copy of S the loop reads
  i,       \* the loop index (size_t)
  pc       \* "top", "loop", or the outcome: "break" (S accepted) or "return0"

vars == <<scopy, i, pc>>

Done == pc \in {"break", "return0"}

\* if ((signature[63] & 224) != 0 || ...) return 0;  at the top of verify.
TopCheck ==
  /\ pc = "top"
  /\ pc' = IF TopBitsSet(scopy) THEN "return0" ELSE "loop"
  /\ UNCHANGED <<scopy, i>>

\* Mutant of LoopStep: exact equality with the order breaks out of the loop
\* (accepted) instead of returning 0.
LoopStepAcceptEq ==
  /\ pc = "loop"
  /\ LET word == Limb(scopy, i) IN
       CASE word > kOrder[i + 1] -> pc' = "return0" /\ i' = i
         [] word < kOrder[i + 1] -> pc' = "break" /\ i' = i
         [] i = 0                -> pc' = "break" /\ i' = i
         [] OTHER                -> pc' = "loop" /\ i' = i - 1
  /\ UNCHANGED scopy

\* Mutant of LoopStep: the index is never decremented.
LoopStepNoDecrement ==
  /\ pc = "loop"
  /\ LET word == Limb(scopy, i) IN
       CASE word > kOrder[i + 1] -> pc' = "return0" /\ i' = i
         [] word < kOrder[i + 1] -> pc' = "break" /\ i' = i
         [] i = 0                -> pc' = "return0" /\ i' = i
         [] OTHER                -> pc' = "loop" /\ i' = i
  /\ UNCHANGED scopy

\* Mutant of LoopStep: no exit at i == 0, so equal limbs all the way down
\* decrement the size_t index past zero.
LoopStepNoZeroExit ==
  /\ pc = "loop"
  /\ LET word == Limb(scopy, i) IN
       CASE word > kOrder[i + 1] -> pc' = "return0" /\ i' = i
         [] word < kOrder[i + 1] -> pc' = "break" /\ i' = i
         [] OTHER                -> pc' = "loop" /\ i' = i - 1
  /\ UNCHANGED scopy

\* One iteration of  for (size_t i = 3;; i--) { word = limb i; ... }.
LoopStep ==
  /\ pc = "loop"
  /\ LET word == Limb(scopy, i) IN
       CASE word > kOrder[i + 1] -> pc' = "return0" /\ i' = i
         [] word < kOrder[i + 1] -> pc' = "break" /\ i' = i
         [] i = 0                -> pc' = "return0" /\ i' = i
         [] OTHER                -> pc' = "loop" /\ i' = i - 1
  /\ UNCHANGED scopy

Init ==
  /\ scopy \in ScalarSpace
  /\ i = 3
  /\ pc = "top"

Next == TopCheck \/ LoopStep

Spec == Init /\ [][Next]_vars /\ WF_vars(Next)

TypeOK ==
  /\ scopy \in ScalarSpace
  /\ i \in 0..3
  /\ pc \in {"top", "loop", "break", "return0"}

\* The top-bit test and the limb loop together accept exactly the S below
\* the group order (RFC 8032 5.1.7), at every boundary: a limb equal to the
\* order's, the order's zero limb, S equal to the order.
AcceptsExactlyBelowOrder == Done => (pc = "break" <=> scopy < Order)

\* The loop always ends, by a break or a return, without the size_t index
\* wrapping below zero.
LoopTerminates == <>Done

=============================================================================
