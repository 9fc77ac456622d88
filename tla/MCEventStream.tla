---------------------------- MODULE MCEventStream ----------------------------
(* Small instances of EventStream for TLC. *)
EXTENDS EventStream, TLC

CONSTANTS t1, t2, c1, c2, k1, k2, k3

Symmetry == Permutations({t1, t2}) \cup Permutations({k1, k2, k3}) \cup Permutations({c1, c2})
=============================================================================
