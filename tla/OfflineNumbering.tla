---------------------------- MODULE OfflineNumbering ----------------------------
(***************************************************************************)
(* The official numbers of one numbering range: the range, the intervals   *)
(* that devices reserve of it, and the consumption of each number          *)
(* (packages/offline-sync: postgres-reservations.ts, postgres-ranges.ts,   *)
(* postgres-reconciliation.ts and the transitions of postgres-durable.ts,  *)
(* in the durable mode).                                                   *)
(*                                                                         *)
(* Each operation is one transaction that locks the rows it decides on, so *)
(* it is one action.  A reservation stands for its idempotency key: a      *)
(* repeated request finds the reservation and changes nothing.             *)
(***************************************************************************)
EXTENDS Naturals, FiniteSets, FiniteSetsExt

CONSTANTS Devices,
          Scopes,        \* pairs of a device and a shift
          DeviceOf,      \* the device of each scope
          Reservations,  \* reservation requests
          Sizes,         \* requestedSize
          Last,          \* end_number of the range, which starts at 1
          MaxChanges,    \* bound on the changes to what is reserved
          None

Numbers == 1 .. Last

ASSUME NumberingAssumption ==
  /\ DeviceOf \in [Scopes -> Devices]
  /\ Sizes \subseteq Nat \ {0}
  /\ Last \in Nat /\ MaxChanges \in Nat
  /\ None \notin Scopes \cup Numbers

VARIABLES
  range,  \* the row of numbering_ranges
  res,    \* the rows of numbering_reservations
  used,   \* used[r][n]: the row of numbering_consumption, "none" without one
  changes \* the changes so far

numbering == <<range, res, used, changes>>

NoReservation ==
  [status |-> "absent", scope |-> None, start |-> 0, end |-> 0, valid |-> FALSE]

NumberingTypeOK ==
  /\ range \in [next : 1 .. Last + 1, status : {"active", "exhausted", "cancelled"}]
  /\ res \in [Reservations ->
       [status : {"absent", "reserved", "blocked", "consumed", "cancelled"},
        scope : Scopes \cup {None}, start : 0 .. Last, end : 0 .. Last, valid : BOOLEAN]]
  /\ used \in [Reservations -> [Numbers -> {"none", "claimed", "applied"}]]
  /\ changes \in 0 .. MaxChanges

NumberingInit ==
  /\ range = [next |-> 1, status |-> "active"]
  /\ res = [r \in Reservations |-> NoReservation]
  /\ used = [r \in Reservations |-> [n \in Numbers |-> "none"]]
  /\ changes = 0

-----------------------------------------------------------------------------
Interval(r) == {n \in Numbers : res[r].start <= n /\ n <= res[r].end}

\* Held by its device: neither closed nor past valid_until.
Active(r) == res[r].status \in {"reserved", "blocked"} /\ res[r].valid

\* A device has one active reservation per shift.
Reserve(r, s, size) ==
  LET end == range.next + size - 1 IN
  /\ res[r].status = "absent"
  /\ \A q \in Reservations : Active(q) => res[q].scope # s
  /\ range.status = "active"
  /\ end <= Last
  /\ range' = [next |-> end + 1, status |-> IF end = Last THEN "exhausted" ELSE "active"]
  /\ res' = [res EXCEPT ![r] = [status |-> "reserved", scope |-> s, start |-> range.next,
                                end |-> end, valid |-> TRUE]]
  /\ UNCHANGED used

\* Time passes valid_until.
Lapse(r) ==
  /\ Active(r)
  /\ res' = [res EXCEPT ![r].valid = FALSE]
  /\ UNCHANGED <<range, used>>

\* A mutant of Unused: what the device claimed is not counted.
UnusedByServer(r) ==
  LET applied == {n \in Interval(r) : used[r][n] = "applied"}
  IN  IF applied = {} THEN res[r].start ELSE Max(applied) + 1

\* The first number of the tail that neither the server nor the device used.
Unused(r) ==
  LET taken == {n \in Interval(r) : used[r][n] # "none"}
  IN  IF taken = {} THEN res[r].start ELSE Max(taken) + 1

\* The tail goes back to the range if nothing was reserved after it.
Cancel(r) ==
  /\ res[r].status = "reserved"
  /\ res' = [res EXCEPT ![r].status = "cancelled"]
  /\ range' = IF range.next = res[r].end + 1 /\ range.status # "cancelled"
                THEN [next |-> Unused(r), status |-> "active"]
                ELSE range
  /\ UNCHANGED used

\* block, and close or settle.
Transition(r, status) ==
  /\ res[r].status = "reserved"
  /\ res' = [res EXCEPT ![r].status = status]
  /\ UNCHANGED <<range, used>>

\* The device reports the numbers it gave out.
Reconcile(r, claims) ==
  /\ res[r].status = "reserved"
  /\ used' = [used EXCEPT ![r] = [n \in Numbers |->
                IF n \in claims /\ @[n] = "none" THEN "claimed" ELSE @[n]]]
  /\ UNCHANGED <<range, res>>

CancelRange ==
  /\ range.status = "active"
  /\ range' = [range EXCEPT !.status = "cancelled"]
  /\ UNCHANGED <<res, used>>

Change ==
  \/ \E r \in Reservations :
       \/ Lapse(r)
       \/ Cancel(r)
       \/ \E status \in {"blocked", "consumed"} : Transition(r, status)
       \/ \E claims \in SUBSET Interval(r) : claims # {} /\ Reconcile(r, claims)
  \/ CancelRange

NumberingNext ==
  \/ /\ \E r \in Reservations, s \in Scopes, size \in Sizes : Reserve(r, s, size)
     /\ UNCHANGED changes
  \/ /\ Change
     /\ changes < MaxChanges
     /\ changes' = changes + 1

-----------------------------------------------------------------------------
(***************************************************************************)
(* The use of a number by a synchronized item                              *)
(***************************************************************************)

\* A cancelled reservation still covers the numbers it used.
Covering(d, n) ==
  {r \in Reservations :
     /\ res[r].status # "absent"
     /\ DeviceOf[res[r].scope] = d
     /\ n \in Interval(r)
     /\ res[r].status # "cancelled" \/ used[r][n] # "none"}

\* What the item transaction finds: the number is free to use in the one
\* reservation that covers it, or the item is rejected or a conflict.  The item
\* is late if its device made it after valid_until.
NumberVerdict(d, n, late) ==
  LET covering == Covering(d, n) IN
  IF Cardinality(covering) # 1 THEN "rejected"
  ELSE LET r == CHOOSE r \in covering : TRUE IN
       IF used[r][n] = "applied" THEN "rejected"
       ELSE IF res[r].status # "reserved" \/ late THEN "conflict"
       ELSE "free"

UseNumber(d, n) ==
  used' = [used EXCEPT ![CHOOSE r \in Covering(d, n) : TRUE][n] = "applied"]

-----------------------------------------------------------------------------
(***************************************************************************)
(* An official number belongs to one reservation and is applied at most    *)
(* once: returning the tail of a cancelled reservation never hands out a   *)
(* number that was applied, or that a device says it gave out.             *)
(***************************************************************************)
OfficialNumberOnce ==
  \A n \in Numbers :
    /\ \A q, r \in Reservations :
         (used[q][n] # "none" /\ used[r][n] # "none") => q = r
    /\ \A d \in Devices : Cardinality(Covering(d, n)) <= 1
=============================================================================
