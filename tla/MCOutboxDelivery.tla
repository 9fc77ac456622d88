-------------------------- MODULE MCOutboxDelivery --------------------------
(* Small instances of OutboxDelivery for TLC. *)
EXTENDS OutboxDelivery, TLC

CONSTANTS a1, a2, a3, d1, d2, k1, k2

Symmetry == Permutations({a1, a2}) \cup Permutations({k1, k2})
=============================================================================
