----------------------------- MODULE MCOfflineBatch -----------------------------
(***************************************************************************)
(* Two requests for three batches: two of one device that carry the same   *)
(* key, and one of another device with an item of its own, which a         *)
(* detector may pair with the first one, and a changed copy of the first.  *)
(* The range has one number, which both devices can reserve in turn.       *)
(***************************************************************************)
EXTENDS OfflineBatch, TLC

CONSTANTS d1, d2, s1, s2, r1, r2, q1, q2, k1, k2, h1, h2

MCDeviceOf == (s1 :> d1) @@ (s2 :> d2)

item(k, h, n) == [key |-> k, hash |-> h, number |-> n]

MCBatches ==
  {[device |-> d1, sequence |-> 1, items |-> <<item(k1, h1, 1)>>],
   [device |-> d1, sequence |-> 2, items |-> <<item(k1, h1, 1)>>],
   [device |-> d2, sequence |-> 0, items |-> <<item(k2, h1, 1), item(k1, h2, 0)>>]}

Symmetry == Permutations(Requests) \cup Permutations(Reservations)
=============================================================================
