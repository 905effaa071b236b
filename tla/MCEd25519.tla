------------------------------ MODULE MCEd25519 ------------------------------
(***************************************************************************)
(* Ed25519 for TLC: two seeds, two messages, and an order of 1053 written *)
(* as four 3-bit limbs <<5, 3, 0, 2>>, shaped like the code's kOrder: a   *)
(* zero third limb and a top limb holding only the bit under the masked   *)
(* bits.                                                                   *)
(***************************************************************************)
EXTENDS Ed25519

MCSeeds == {3, 11}
MCMsgs == {0, 1}
MCkOrder == <<5, 3, 0, 2>>
MCBadPoints == {Order}

=============================================================================
