-------------------------- MODULE MCRevocationList --------------------------
(***************************************************************************)
(* One session, revoked any number of times, and two processes.  A list    *)
(* is stale in the tick after its refresh began, an access token lives two *)
(* ticks, and the clock runs past the end of the retention, so that        *)
(* entries are dropped from the sorted set.                                *)
(***************************************************************************)
EXTENDS RevocationList, TLC

CONSTANTS s1, i1, i2

\* The processes are interchangeable.
Symmetry == Permutations(Instances)
=============================================================================
