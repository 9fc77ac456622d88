--------------------------- MODULE MCOutboxCutover ---------------------------
(* Small instances of OutboxCutover for TLC. *)
EXTENDS OutboxCutover

CONSTANTS a1, a2, d1, p1, p2, k1
=============================================================================
