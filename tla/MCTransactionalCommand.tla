------------------------ MODULE MCTransactionalCommand ------------------------
(***************************************************************************)
(* Three requests under one key: two send the same command, the third      *)
(* another one.  A response lives one second of a clock that reaches two,  *)
(* so that it expires before, during and after the wait of another          *)
(* request.                                                                *)
(***************************************************************************)
EXTENDS TransactionalCommand

CONSTANTS k1, f1, f2, r1, r2, r3

MCKeyOf == [r \in {r1, r2, r3} |-> k1]
MCFingerprintOf == [r \in {r1, r2, r3} |-> IF r = r3 THEN f2 ELSE f1]
=============================================================================
