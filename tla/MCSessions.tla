----------------------------- MODULE MCSessions -----------------------------
(***************************************************************************)
(* Three sessions of one user in two tenants and three refresh tokens,     *)
(* with two calls in flight, in mode revoke-existing.  The clock runs long *)
(* enough for a session to become idle and to be extended by a touch.      *)
(***************************************************************************)
EXTENDS Sessions, TLC

CONSTANTS s1, s2, s3, t1, t2, h1, h2, h3, c1, c2

\* Model values of one kind are interchangeable.
Symmetry == Permutations(Calls) \cup Permutations(Tokens)
              \cup Permutations(Sids) \cup Permutations(Tenants)
=============================================================================
