-------------------------- MODULE MCScalarRangeCheck --------------------------
(* The order 1053 as four 3-bit limbs <<5, 3, 0, 2>>, the shape of the    *)
(* code's kOrder: a low limb below its maximum, a zero third limb, and a  *)
(* top limb holding only the bit under the masked bits (TopShift = 2).    *)
EXTENDS ScalarRangeCheck

MCkOrder == <<5, 3, 0, 2>>

=============================================================================
