-------------------------- MODULE MCIdempotentRoute --------------------------
(***************************************************************************)
(* Three requests of one key, the third with another body, in both modes.  *)
(* One fault and two expiries meet them at any point.  The first two are   *)
(* interchangeable.                                                        *)
(***************************************************************************)
EXTENDS IdempotentRoute, TLC

CONSTANTS r1, r2, r3, f1, f2

MCFingerprintOf == [r \in {r1, r2, r3} |-> IF r = r3 THEN f2 ELSE f1]

MCSymmetry == Permutations({r1, r2})
=============================================================================
