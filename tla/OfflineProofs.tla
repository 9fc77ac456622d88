----------------------------- MODULE OfflineProofs -----------------------------
(***************************************************************************)
(* Proofs about OfflineNumbering and OfflineBatch, for every value of      *)
(* their constants: an official number belongs to one reservation and is   *)
(* applied once, an item takes effect once, and a closed batch left        *)
(* nothing to be done.                                                     *)
(***************************************************************************)
EXTENDS OfflineBatch, FiniteSetTheorems, TLAPS

(***************************************************************************)
(* The numbers                                                             *)
(***************************************************************************)

\* The numbers a reservation stands for: its interval, or what it used of it
\* once it is cancelled.
Owned(r, n) ==
  /\ res[r].status # "absent"
  /\ n \in Interval(r)
  /\ res[r].status # "cancelled" \/ used[r][n] # "none"

\* A number is used within its reservation, no number that a reservation stands
\* for will be handed out again, and no two reservations stand for one number.
Numbered ==
  /\ \A r \in Reservations : res[r].status # "absent" => res[r].start >= 1
  /\ \A r \in Reservations, n \in Numbers :
       used[r][n] # "none" => res[r].status # "absent" /\ n \in Interval(r)
  /\ \A r \in Reservations, n \in Numbers : Owned(r, n) => n < range.next
  /\ \A q, r \in Reservations, n \in Numbers : Owned(q, n) /\ Owned(r, n) => q = r

NumberingInv == NumberingTypeOK /\ Numbered

(***************************************************************************)
(* The items                                                               *)
(***************************************************************************)
Steps == {"idle", "wait", "preflight", "apply", "record", "close", "done"}

BatchType == [status : {"absent", "open", "closed"}, holder : Requests \cup {None},
              response : Seq(Statuses)]

RowType == [status : Statuses \cup {"absent"}, batch : Batches \cup {None},
            hash : Hashes \cup {None}, number : 0 .. Last, applied : BOOLEAN, final : BOOLEAN]

ReqType == [pc : Steps, batch : Batches \cup {None}, i : Nat \ {0},
            again : BOOLEAN, said : Seq(Statuses), retry : BOOLEAN,
            refusal : [status : Statuses \cup {"none"}, conflict : BOOLEAN, retry : BOOLEAN]]

EffectType == [key : Keys, number : 0 .. Last, by : Requests]

\* The types of the rows and requests that the properties are about.
Typed ==
  /\ batch \in [Batches -> BatchType]
  /\ receipt \in [Keys -> RowType]
  /\ queue \in [Keys -> Statuses \cup {"absent"}]
  /\ req \in [Requests -> ReqType]
  /\ initial \in {"received", "pending"}
  /\ effects \subseteq EffectType

\* The receipt waits for a submission of its own batch.
Waiting(k) == receipt[k].status = "received" /\ ~receipt[k].final

\* Receipts and queue rows exist together, a receipt is that of the first item
\* of its batch with its key, and one that waits is in the initial status.
Received ==
  /\ \A k \in Keys : receipt[k].status = "absent" <=> queue[k] = "absent"
  /\ \A k \in Keys : receipt[k].status # "absent" =>
       /\ receipt[k].batch \in Batches
       /\ \E j \in DOMAIN receipt[k].batch.items :
            /\ receipt[k].batch.items[j].key = k
            /\ receipt[k].batch.items[j].hash = receipt[k].hash
            /\ \A f \in 1 .. (j - 1) : receipt[k].batch.items[f].key # k
  /\ \A k \in Keys : Waiting(k) => initial = "received"

\* What the receipt and the numbers say of the effects.
Effective ==
  /\ \A e \in effects :
       /\ receipt[e.key].status \in {"applied", "conflict"} /\ receipt[e.key].applied
       /\ e.number # 0 => \E r \in Reservations : used[r][e.number] = "applied"
  /\ \A k \in Keys : receipt[k].status = "applied" => \E e \in effects : e.key = k

\* The place of a working request in its batch, and what it answered so far. A
\* request that does not reapply an item is at a receipt of its own batch.
Progress(q) ==
  /\ req[q].pc = "wait" => req[q].batch \in Batches
  /\ Working(q) =>
       /\ req[q].batch \in Batches /\ req[q].i \in 1 .. Len(req[q].batch.items)
       /\ Len(req[q].said) = IF req[q].pc = "close" THEN Len(req[q].batch.items) ELSE req[q].i - 1
       /\ \A j \in 1 .. Len(req[q].said) :
            /\ receipt[req[q].batch.items[j].key].status # "absent"
            /\ req[q].said[j] = "applied" =>
                 \E e \in effects : e.key = req[q].batch.items[j].key
  /\ req[q].pc \in {"apply", "record"} =>
       /\ receipt[Item(q).key].status # "absent"
       /\ req[q].again <=> receipt[Item(q).key].batch # req[q].batch
  /\ req[q].pc = "record" =>
       /\ req[q].refusal.status \in {"received", "pending", "conflict", "rejected"}
       /\ req[q].refusal.retry => req[q].refusal.status = Expected(q)

\* The holder of a batch knows of every item it is done with and left waiting.
Swept(q) ==
  Working(q) /\ Holds(q) /\ ~req[q].retry =>
    \A j \in 1 .. Len(req[q].said) :
      LET k == req[q].batch.items[j].key IN
      receipt[k].batch = req[q].batch => ~Waiting(k)

IInv ==
  /\ NumberingInv
  /\ Typed
  /\ Received
  /\ Effective
  /\ \A q \in Requests : Progress(q) /\ Swept(q)
  /\ AppliedOnce
  /\ ClosedBatchSettled

-----------------------------------------------------------------------------
\* A nonempty set of numbers up to N has a greatest one: it is the number with
\* the fewest numbers above it.
LEMMA MaxIn ==
  ASSUME NEW N \in Nat, NEW S \in SUBSET (1 .. N), S # {}
  PROVE  Max(S) \in S /\ \A x \in S : x <= Max(S)
  <1> DEFINE above(x) == {y \in S : y > x}
             T == {above(x) : x \in S}
  <1>1. IsFiniteSet(S)
    <2>1. IsFiniteSet(1 .. N)
      BY FS_Interval
    <2> QED
      BY <2>1, FS_Subset
  <1>2. T \subseteq SUBSET S /\ T # {}
    OBVIOUS
  <1>3. IsWellFoundedOn(StrictSubsetOrdering(S), SUBSET S)
    BY <1>1, FS_StrictSubsetOrderingWellFounded, FS_FiniteSubsetsOfFinite
  <1>4. PICK m \in S : \A x \in S : ~(<<above(x), above(m)>> \in StrictSubsetOrdering(S))
    <2>1. \E t \in T : \A y \in T : ~(<<y, t>> \in StrictSubsetOrdering(S))
      <3> HIDE DEF T
      <3> QED
        BY <1>2, <1>3, WFMin
    <2> QED
      BY <2>1
  <1>5. ASSUME NEW x \in S, x > m PROVE FALSE
    <2>1. \A y \in S : y > x => y > m
      BY <1>5
    <2>2. above(x) \subseteq above(m) /\ above(x) \in SUBSET S /\ above(m) \in SUBSET S
      BY <2>1
    <2>3. x \in above(m) /\ x \notin above(x)
      BY <1>5
    <2> HIDE DEF above
    <2>4. <<above(x), above(m)>> \in StrictSubsetOrdering(S)
      BY <2>2, <2>3 DEF StrictSubsetOrdering
    <2> QED
      BY <1>4, <2>4
  <1>6. \A x \in S : m >= x
    BY <1>5
  <1> QED
    BY <1>6 DEF Max

\* The first unused number of a reservation lies behind everything it used, and
\* not before its start.
LEMMA UnusedBounds ==
  ASSUME NumberingInv, NEW r \in Reservations, res[r].status # "absent"
  PROVE  /\ Unused(r) \in 1 .. Last + 1 /\ res[r].start <= Unused(r)
         /\ \A n \in Interval(r) : used[r][n] # "none" => n < Unused(r)
  <1> DEFINE taken == {n \in Interval(r) : used[r][n] # "none"}
  <1>1. Last \in Nat /\ Numbers = 1 .. Last
    BY NumberingAssumption DEF Numbers
  <1>2. res[r].start \in 1 .. Last
    BY <1>1 DEF NumberingInv, NumberingTypeOK, Numbered
  <1>3. taken \in SUBSET (1 .. Last) /\ \A n \in taken : res[r].start <= n
    BY <1>1 DEF Interval
  <1>4. CASE taken = {}
    <2>1. Unused(r) = res[r].start /\ \A n \in Interval(r) : used[r][n] = "none"
      BY <1>4 DEF Unused
    <2> QED
      BY <1>1, <1>2, <2>1
  <1>5. CASE taken # {}
    <2> HIDE DEF taken
    <2>1. Max(taken) \in taken /\ \A n \in taken : n <= Max(taken)
      BY <1>1, <1>3, <1>5, MaxIn
    <2>2. Unused(r) = Max(taken) + 1
      BY <1>5 DEF Unused, taken
    <2>3. Max(taken) \in 1 .. Last /\ res[r].start <= Max(taken)
      BY <1>3, <2>1
    <2>4. \A n \in taken : n < Unused(r)
      BY <1>3, <2>1, <2>2, <2>3
    <2>5. \A n \in Interval(r) : used[r][n] # "none" => n \in taken
      BY DEF taken
    <2> QED
      BY <1>1, <1>2, <2>2, <2>3, <2>4, <2>5
  <1> QED
    BY <1>4, <1>5

\* Initially no number is handed out.
LEMMA NumberingInitInv == NumberingInit => NumberingInv
  <1> SUFFICES ASSUME NumberingInit PROVE NumberingInv
    OBVIOUS
  <1>1. NumberingTypeOK
    BY NumberingAssumption DEF NumberingInit, NumberingTypeOK, NoReservation
  <1>2. Numbered
    BY DEF NumberingInit, Numbered, Owned, NoReservation
  <1> QED
    BY <1>1, <1>2 DEF NumberingInv

\* A reservation takes the next numbers of the range, which nobody stands for.
LEMMA ReserveInv ==
  ASSUME NumberingInv, NEW r \in Reservations, NEW s \in Scopes, NEW size \in Sizes,
         Reserve(r, s, size), UNCHANGED changes
  PROVE  NumberingInv'
  <1> DEFINE end == range.next + size - 1
             row == [status |-> "reserved", scope |-> s, start |-> range.next,
                     end |-> end, valid |-> TRUE]
  <1>1. /\ range.next \in 1 .. Last + 1 /\ size \in Nat \ {0} /\ Last \in Nat /\ end <= Last
        /\ res[r].status = "absent" /\ UNCHANGED used
        /\ range' = [next |-> end + 1, status |-> IF end = Last THEN "exhausted" ELSE "active"]
        /\ res' = [res EXCEPT ![r] = row]
    BY NumberingAssumption DEF Reserve, NumberingInv, NumberingTypeOK
  <1>2. /\ range.next \in 1 .. Last /\ end \in 1 .. Last /\ range.next <= end
        /\ end + 1 \in 1 .. Last + 1
    BY <1>1
  <1>3. NumberingTypeOK'
    BY <1>1, <1>2 DEF NumberingInv, NumberingTypeOK
  <1>4. /\ res'[r] = row /\ \A q \in Reservations \ {r} : res'[q] = res[q]
    BY <1>1 DEF NumberingInv, NumberingTypeOK
  <1>5. /\ res'[r].status = "reserved" /\ res'[r].start = range.next /\ res'[r].end = end
        /\ range'.next = end + 1
    BY <1>1, <1>4
  <1>6. \A n \in Numbers : used[r][n] = "none"
    BY <1>1 DEF NumberingInv, Numbered
  <1> HIDE DEF row, end
  <1>7. \A n \in Numbers : Owned(r, n)' => range.next <= n /\ n <= end
    BY <1>5 DEF Owned, Interval
  <1>8. \A q \in Reservations \ {r} : \A n \in Numbers : Owned(q, n)' <=> Owned(q, n)
    BY <1>1, <1>4 DEF Owned, Interval
  <1>9. \A q \in Reservations, n \in Numbers : Owned(q, n) => n < range.next
    BY DEF NumberingInv, Numbered
  <1>10. Numbers \subseteq Nat
    BY <1>1 DEF Numbers
  <1>11. Numbered'
    <2>1. \A q \in Reservations : res'[q].status # "absent" => res'[q].start >= 1
      BY <1>2, <1>4, <1>5 DEF NumberingInv, Numbered
    <2>2. \A q \in Reservations, n \in Numbers :
            used'[q][n] # "none" => res'[q].status # "absent" /\ (n \in Interval(q))'
      BY <1>1, <1>4, <1>6 DEF NumberingInv, Numbered, Interval
    <2>3. \A q \in Reservations, n \in Numbers : Owned(q, n)' => n < range'.next
      BY <1>2, <1>5, <1>7, <1>8, <1>9, <1>10
    <2>4. \A p, q \in Reservations, n \in Numbers : Owned(p, n)' /\ Owned(q, n)' => p = q
      <3>1. \A q \in Reservations \ {r} : \A n \in Numbers : ~(Owned(r, n)' /\ Owned(q, n)')
        BY <1>2, <1>7, <1>8, <1>9, <1>10
      <3> QED
        BY <1>8, <3>1 DEF NumberingInv, Numbered
    <2> QED
      BY <2>1, <2>2, <2>3, <2>4 DEF Numbered
  <1> QED
    BY <1>3, <1>11 DEF NumberingInv

\* A step that changes neither the intervals nor the uses, reserves nothing and
\* hands no number back preserves the invariant.
LEMMA StatusInv ==
  ASSUME NumberingInv, NumberingTypeOK', UNCHANGED used, range'.next = range.next,
         \A r \in Reservations :
           /\ res'[r].start = res[r].start /\ res'[r].end = res[r].end
           /\ res[r].status = "absent" <=> res'[r].status = "absent"
           /\ res[r].status = "cancelled" => res'[r].status = "cancelled"
  PROVE  NumberingInv'
  <1>1. \A r \in Reservations, n \in Numbers : Owned(r, n)' => Owned(r, n)
    BY DEF Owned, Interval
  <1>2. Numbered'
    BY <1>1 DEF NumberingInv, Numbered, Interval
  <1> QED
    BY <1>2 DEF NumberingInv

\* A cancelled reservation gives back the tail that nobody used and that nothing
\* was reserved behind.
LEMMA CancelInv ==
  ASSUME NumberingInv, NEW r \in Reservations, Cancel(r), changes' \in 0 .. MaxChanges
  PROVE  NumberingInv'
  <1>1. /\ res[r].status = "reserved" /\ UNCHANGED used
        /\ res' = [res EXCEPT ![r].status = "cancelled"]
    BY DEF Cancel
  <1>2. \A q \in Reservations :
          /\ res'[q].start = res[q].start /\ res'[q].end = res[q].end
          /\ q # r => res'[q].status = res[q].status
    BY <1>1 DEF NumberingInv, NumberingTypeOK
  <1>3. res'[r].status = "cancelled"
    BY <1>1 DEF NumberingInv, NumberingTypeOK
  <1>4. /\ Unused(r) \in 1 .. Last + 1 /\ res[r].start <= Unused(r)
        /\ \A n \in Interval(r) : used[r][n] # "none" => n < Unused(r)
    BY <1>1, UnusedBounds
  <1>5. /\ range' \in [next : 1 .. Last + 1, status : {"active", "exhausted", "cancelled"}]
        /\ \/ range'.next = range.next
           \/ range.next = res[r].end + 1 /\ range'.next = Unused(r)
    BY <1>4 DEF Cancel, NumberingInv, NumberingTypeOK
  <1>6. NumberingTypeOK'
    <2>1. res' \in [Reservations ->
             [status : {"absent", "reserved", "blocked", "consumed", "cancelled"},
              scope : Scopes \cup {None}, start : 0 .. Last, end : 0 .. Last, valid : BOOLEAN]]
      BY <1>1 DEF NumberingInv, NumberingTypeOK
    <2> QED
      BY <1>1, <1>5, <2>1 DEF NumberingInv, NumberingTypeOK
  <1>7. CASE range'.next = range.next
    BY <1>1, <1>2, <1>3, <1>6, <1>7, StatusInv
  <1>8. CASE range.next = res[r].end + 1 /\ range'.next = Unused(r)
    <2>1. /\ \A q \in Reservations, n \in Numbers : Owned(q, n)' => Owned(q, n)
          /\ \A n \in Numbers : Owned(r, n)' => n \in Interval(r) /\ used[r][n] # "none"
          /\ \A n \in Interval(r) : Owned(r, n)
      BY <1>1, <1>2, <1>3 DEF Owned, Interval
    <2>2. /\ Numbers \subseteq Nat /\ res[r].start \in Nat /\ res[r].end \in Nat
          /\ Unused(r) \in Nat
      BY <1>4, NumberingAssumption DEF NumberingInv, NumberingTypeOK, Numbers
    <2>3. ASSUME NEW q \in Reservations, NEW n \in Numbers, Owned(q, n)'
          PROVE  n < Unused(r)
      <3>1. CASE q = r
        BY <1>4, <2>1, <2>3, <3>1
      <3>2. CASE q # r
        <4>1. Owned(q, n) /\ n < range.next
          BY <2>1, <2>3 DEF NumberingInv, Numbered
        <4>2. n \notin Interval(r)
          BY <2>1, <3>2, <4>1 DEF NumberingInv, Numbered
        <4>3. n < res[r].start
          BY <1>8, <2>2, <4>1, <4>2 DEF Interval
        <4> QED
          BY <1>4, <2>2, <4>3
      <3> QED
        BY <3>1, <3>2
    <2>4. /\ \A q \in Reservations : res'[q].status # "absent" => res'[q].start >= 1
          /\ \A q \in Reservations, n \in Numbers :
               used'[q][n] # "none" => res'[q].status # "absent" /\ (n \in Interval(q))'
      BY <1>1, <1>2, <1>3 DEF NumberingInv, Numbered, Interval
    <2> QED
      BY <1>6, <1>8, <2>1, <2>3, <2>4 DEF NumberingInv, Numbered
  <1> QED
    BY <1>5, <1>7, <1>8

\* Numbers that are marked as used within a reservation that stands for them
\* preserve the invariant.
LEMMA UsedInv ==
  ASSUME NumberingInv, UNCHANGED <<range, res>>, changes' \in 0 .. MaxChanges,
         used' \in [Reservations -> [Numbers -> {"none", "claimed", "applied"}]],
         \A r \in Reservations, n \in Numbers :
           /\ used[r][n] # "none" => used'[r][n] # "none"
           /\ used'[r][n] # "none" => used[r][n] # "none" \/ Owned(r, n)
  PROVE  NumberingInv'
  <1>1. NumberingTypeOK'
    BY DEF NumberingInv, NumberingTypeOK
  <1>2. \A r \in Reservations, n \in Numbers : Owned(r, n)' <=> Owned(r, n)
    BY DEF Owned, Interval, NumberingInv, Numbered
  <1>3. \A r \in Reservations, n \in Numbers :
          used'[r][n] # "none" => res[r].status # "absent" /\ n \in Interval(r)
    BY DEF Owned, NumberingInv, Numbered
  <1>4. Numbered'
    BY <1>2, <1>3 DEF NumberingInv, Numbered, Interval
  <1> QED
    BY <1>1, <1>4 DEF NumberingInv

\* Every step of the numbering preserves its invariant.
LEMMA NumberingStepInv ==
  ASSUME NumberingInv, NumberingNext
  PROVE  NumberingInv'
  <1>0. /\ res \in [Reservations ->
             [status : {"absent", "reserved", "blocked", "consumed", "cancelled"},
              scope : Scopes \cup {None}, start : 0 .. Last, end : 0 .. Last, valid : BOOLEAN]]
        /\ range \in [next : 1 .. Last + 1, status : {"active", "exhausted", "cancelled"}]
        /\ used \in [Reservations -> [Numbers -> {"none", "claimed", "applied"}]]
    BY DEF NumberingInv, NumberingTypeOK
  <1>1. CASE Change /\ changes < MaxChanges /\ changes' = changes + 1
    <2>1. changes' \in 0 .. MaxChanges
      BY <1>1, NumberingAssumption DEF NumberingInv, NumberingTypeOK
    <2>2. ASSUME NEW r \in Reservations, Lapse(r) PROVE NumberingInv'
      <3>1. res' = [res EXCEPT ![r].valid = FALSE] /\ UNCHANGED <<range, used>>
        BY <2>2 DEF Lapse
      <3>2. NumberingTypeOK'
        BY <1>0, <2>1, <3>1 DEF NumberingTypeOK
      <3> QED
        BY <1>0, <3>1, <3>2, StatusInv
    <2>3. ASSUME NEW r \in Reservations, NEW s \in {"blocked", "consumed"}, Transition(r, s)
          PROVE  NumberingInv'
      <3>1. /\ res' = [res EXCEPT ![r].status = s] /\ UNCHANGED <<range, used>>
            /\ res[r].status = "reserved"
        BY <2>3 DEF Transition
      <3>2. NumberingTypeOK'
        BY <1>0, <2>1, <3>1 DEF NumberingTypeOK
      <3> QED
        BY <1>0, <3>1, <3>2, StatusInv
    <2>4. ASSUME NEW r \in Reservations, NEW claims \in SUBSET Interval(r), Reconcile(r, claims)
          PROVE  NumberingInv'
      <3>1. /\ res[r].status = "reserved" /\ UNCHANGED <<range, res>>
            /\ used' = [used EXCEPT ![r] = [n \in Numbers |->
                          IF n \in claims /\ used[r][n] = "none" THEN "claimed" ELSE used[r][n]]]
        BY <2>4 DEF Reconcile
      <3>2. used' \in [Reservations -> [Numbers -> {"none", "claimed", "applied"}]]
        BY <1>0, <3>1
      <3>3. \A n \in claims : n \in Numbers /\ Owned(r, n)
        BY <3>1 DEF Owned, Interval
      <3>4. \A q \in Reservations, n \in Numbers :
              /\ used[q][n] # "none" => used'[q][n] # "none"
              /\ used'[q][n] # "none" => used[q][n] # "none" \/ Owned(q, n)
        BY <1>0, <3>1, <3>3
      <3> QED
        BY <2>1, <3>1, <3>2, <3>4, UsedInv
    <2>5. CASE CancelRange
      <3>1. /\ UNCHANGED <<res, used>> /\ range'.next = range.next
            /\ range' \in [next : 1 .. Last + 1, status : {"active", "exhausted", "cancelled"}]
        BY <1>0, <2>5 DEF CancelRange
      <3>2. NumberingTypeOK'
        BY <1>0, <2>1, <3>1 DEF NumberingTypeOK
      <3> QED
        BY <3>1, <3>2, StatusInv
    <2> QED
      BY <1>1, <2>1, <2>2, <2>3, <2>4, <2>5, CancelInv DEF Change
  <1> QED
    BY <1>1, ReserveInv DEF NumberingNext

\* At most one reservation covers a number, so the item transaction finds it.
LEMMA CoveringOne ==
  ASSUME NumberingInv, NEW d, NEW n \in Numbers
  PROVE  /\ Cardinality(Covering(d, n)) <= 1
         /\ \A r \in Covering(d, n) : r \in Reservations /\ Owned(r, n)
         /\ Cardinality(Covering(d, n)) = 1 => (CHOOSE r \in Covering(d, n) : TRUE) \in Covering(d, n)
  <1>1. \A r \in Covering(d, n) : r \in Reservations /\ Owned(r, n)
    BY DEF Covering, Owned
  <1>2. \A q, r \in Covering(d, n) : q = r
    BY <1>1 DEF NumberingInv, Numbered
  <1>3. CASE Covering(d, n) = {}
    <2>1. Cardinality(Covering(d, n)) = 0
      BY <1>3, FS_EmptySet
    <2> QED
      BY <1>1, <2>1
  <1>4. CASE Covering(d, n) # {}
    <2>1. PICK r \in Covering(d, n) : Covering(d, n) = {r}
      BY <1>2, <1>4
    <2>2. Cardinality({r}) = 1
      BY FS_Singleton
    <2> QED
      BY <1>1, <2>1, <2>2
  <1> QED
    BY <1>3, <1>4

\* The invariant says that numbers are used once.
LEMMA NumberedOnce ==
  ASSUME NumberingInv
  PROVE  OfficialNumberOnce
  <1>1. \A n \in Numbers, q, r \in Reservations :
          used[q][n] # "none" /\ used[r][n] # "none" => q = r
    BY DEF NumberingInv, Numbered, Owned
  <1> QED
    BY <1>1, CoveringOne DEF OfficialNumberOnce

-----------------------------------------------------------------------------
\* The item of a working request.
LEMMA Place ==
  ASSUME IInv, NEW q \in Requests, Working(q)
  PROVE  /\ req[q].batch \in Batches /\ req[q].batch # None
         /\ req[q].batch.device \in Devices
         /\ Len(req[q].batch.items) \in Nat
         /\ req[q].i \in 1 .. Len(req[q].batch.items)
         /\ \A j \in 1 .. Len(req[q].batch.items) :
              req[q].batch.items[j].key \in Keys /\ req[q].batch.items[j].hash \in Hashes
         /\ Item(q) = req[q].batch.items[req[q].i]
         /\ Item(q).key \in Keys /\ Item(q).hash \in Hashes /\ Item(q).number \in 0 .. Last
  <1>1. /\ req[q].batch \in Batches /\ req[q].i \in 1 .. Len(req[q].batch.items)
    BY DEF IInv, Progress
  <1>2. req[q].batch.items \in Seq(Items) /\ req[q].batch.device \in Devices /\ req[q].batch # None
    BY <1>1, BatchAssumption
  <1>3. \A j \in 1 .. Len(req[q].batch.items) : req[q].batch.items[j] \in Items
    BY <1>2
  <1> QED
    BY <1>1, <1>2, <1>3 DEF Item, Items

\* A request that answers an item moves to the next one or to the end.
LEMMA AnsweredEffect ==
  ASSUME IInv, NEW q \in Requests, req[q].pc \in {"preflight", "apply", "record"},
         NEW s \in Statuses, NEW retry \in BOOLEAN, Answered(q, s, retry)
  PROVE  /\ req' \in [Requests -> ReqType]
         /\ \A o \in Requests \ {q} : req'[o] = req[o]
         /\ req'[q].batch = req[q].batch /\ req'[q].pc \in {"preflight", "close"}
         /\ req'[q].i \in 1 .. Len(req[q].batch.items)
         /\ req'[q].retry <=> req[q].retry \/ retry
         /\ Len(req'[q].said) = req[q].i
         /\ Len(req'[q].said) = IF req'[q].pc = "close" THEN Len(req[q].batch.items) ELSE req'[q].i - 1
         /\ req'[q].said[req[q].i] = s
         /\ \A j \in 1 .. req[q].i - 1 : req'[q].said[j] = req[q].said[j]
  <1> DEFINE last == req[q].i = Len(req[q].batch.items)
             old == req[q]
             new == [pc |-> IF last THEN "close" ELSE "preflight", batch |-> old.batch,
                     i |-> IF last THEN old.i ELSE old.i + 1, again |-> FALSE,
                     said |-> Append(old.said, s), retry |-> (old.retry \/ retry),
                     refusal |-> NoRefusal]
  <1>1. Working(q)
    BY DEF Working
  <1>2. /\ req \in [Requests -> ReqType] /\ old \in ReqType
        /\ old.i \in Nat /\ old.i \in 1 .. Len(old.batch.items) /\ Len(old.batch.items) \in Nat
        /\ old.said \in Seq(Statuses) /\ Len(old.said) = old.i - 1
    BY <1>1, Place DEF IInv, Typed, ReqType, Progress
  <1>3. /\ req'[q] = new /\ \A o \in Requests \ {q} : req'[o] = req[o]
        /\ req' = [req EXCEPT ![q] = req'[q]]
    BY <1>2 DEF Answered, ReqType
  <1>4. /\ new.pc = IF last THEN "close" ELSE "preflight"
        /\ new.i = IF last THEN old.i ELSE old.i + 1
        /\ new.batch = old.batch /\ new.said = Append(old.said, s)
        /\ new.retry <=> old.retry \/ retry
    OBVIOUS
  <1>5. NoRefusal \in [status : Statuses \cup {"none"}, conflict : BOOLEAN, retry : BOOLEAN]
    BY DEF NoRefusal
  <1>6. /\ Append(old.said, s) \in Seq(Statuses) /\ Len(Append(old.said, s)) = old.i
        /\ Append(old.said, s)[old.i] = s
        /\ \A j \in 1 .. old.i - 1 : Append(old.said, s)[j] = old.said[j]
    BY <1>2
  <1>7. new \in ReqType
    <2>1. /\ old.batch \in Batches \cup {None} /\ old.retry \in BOOLEAN
          /\ (old.retry \/ retry) \in BOOLEAN
      BY <1>2 DEF ReqType
    <2>2. (IF last THEN "close" ELSE "preflight") \in Steps
      BY DEF Steps
    <2>3. (IF last THEN old.i ELSE old.i + 1) \in Nat \ {0}
      BY <1>2
    <2> QED
      BY <1>5, <1>6, <2>1, <2>2, <2>3 DEF ReqType
  <1> HIDE DEF new
  <1>8. req' \in [Requests -> ReqType]
    BY <1>2, <1>3, <1>7
  <1> QED
    BY <1>2, <1>3, <1>4, <1>6, <1>8

\* What a step made in the name of a batch does to the receipts of others: it
\* takes none away, moves none to another batch, and makes none wait.
Kept(b) ==
  /\ \A k \in Keys : receipt[k].status # "absent" =>
       receipt'[k].status # "absent" /\ receipt'[k].batch = receipt[k].batch
  /\ \A k \in Keys : Waiting(k)' => Waiting(k) \/ receipt'[k].batch = b
  /\ effects \subseteq effects'

\* A request that does not move keeps its place and its knowledge, unless the
\* step is made in the name of a batch that it holds.
LEMMA OtherKept ==
  ASSUME IInv, NEW o \in Requests, NEW b, req'[o] = req[o], Kept(b), UNCHANGED initial,
         Working(o) /\ Holds(o)' => Holds(o) /\ req[o].batch # b
  PROVE  Progress(o)' /\ Swept(o)'
  <1>1. /\ Working(o)' <=> Working(o)
        /\ Item(o)' = Item(o) /\ Expected(o)' = Expected(o)
    BY DEF Working, Item, Expected
  <1>2. req[o].pc \in {"apply", "record"} => Working(o)
    BY DEF Working
  <1>3. ASSUME Working(o)
        PROVE  \A j \in 1 .. Len(req[o].said) : req[o].batch.items[j].key \in Keys
    <2>1. Len(req[o].said) <= Len(req[o].batch.items)
      BY <1>3, Place DEF IInv, Progress
    <2>2. Len(req[o].said) \in Nat
      BY DEF IInv, Typed
    <2> QED
      BY <1>3, <2>1, <2>2, Place
  <1>4. Progress(o)
    BY DEF IInv
  <1>5. ASSUME Working(o)
        PROVE  \A j \in 1 .. Len(req[o].said) :
                 /\ receipt'[req[o].batch.items[j].key].status # "absent"
                 /\ req[o].said[j] = "applied" =>
                      \E e \in effects' : e.key = req[o].batch.items[j].key
    BY <1>3, <1>4, <1>5 DEF Progress, Kept
  <1>6. ASSUME req[o].pc \in {"apply", "record"}
        PROVE  /\ receipt'[Item(o).key].status # "absent"
               /\ receipt'[Item(o).key].batch = receipt[Item(o).key].batch
    BY <1>2, <1>4, <1>6, Place DEF Progress, Kept
  <1>7. Progress(o)'
    BY <1>1, <1>4, <1>5, <1>6 DEF Progress
  <1>8. Swept(o)'
    <2> SUFFICES ASSUME Working(o), Holds(o)', ~req[o].retry, NEW j \in 1 .. Len(req[o].said),
                        receipt'[req[o].batch.items[j].key].batch = req[o].batch,
                        Waiting(req[o].batch.items[j].key)'
                 PROVE  FALSE
      BY <1>1 DEF Swept
    <2>1. Holds(o) /\ req[o].batch # b /\ req[o].batch.items[j].key \in Keys
      BY <1>3
    <2>2. Waiting(req[o].batch.items[j].key)
      BY <2>1 DEF Kept
    <2>3. receipt[req[o].batch.items[j].key].batch = req[o].batch
      BY <2>1, <2>2 DEF Kept, Waiting
    <2> QED
      BY <2>1, <2>2, <2>3 DEF IInv, Swept
  <1> QED
    BY <1>7, <1>8

\* A closed batch stays settled in a step made in the name of another one.
LEMMA SettledKept ==
  ASSUME IInv, NEW b, UNCHANGED batch, Kept(b),
         \A c \in Batches : batch[c].status = "closed" => c # b
  PROVE  ClosedBatchSettled'
  <1> SUFFICES ASSUME NEW c \in Batches, batch[c].status = "closed"
               PROVE  /\ \A i \in DOMAIN c.items : batch[c].response[i] = "applied" =>
                           \E e \in effects' : e.key = c.items[i].key
                      /\ \A k \in Keys : (receipt'[k].batch = c /\ receipt'[k].status = "received")
                                           => receipt'[k].final
    BY DEF ClosedBatchSettled
  <1>1. \A i \in DOMAIN c.items : batch[c].response[i] = "applied" =>
          \E e \in effects' : e.key = c.items[i].key
    BY DEF IInv, ClosedBatchSettled, Kept
  <1>2. ASSUME NEW k \in Keys, receipt'[k].batch = c, receipt'[k].status = "received",
               ~receipt'[k].final
        PROVE  FALSE
    <2>1. Waiting(k)
      BY <1>2 DEF Kept, Waiting
    <2> QED
      BY <1>2, <2>1 DEF Kept, Waiting, IInv, ClosedBatchSettled
  <1> QED
    BY <1>1, <1>2

\* A step of the holder of a batch, in the name of the batch, is invisible to the
\* other requests and to the closed batches.
LEMMA ItemStep ==
  ASSUME IInv, NEW q \in Requests, Working(q), Holds(q), Kept(req[q].batch),
         UNCHANGED <<batch, initial>>, \A o \in Requests \ {q} : req'[o] = req[o],
         NumberingInv', Typed', Received', Effective', AppliedOnce', Progress(q)', Swept(q)'
  PROVE  IInv'
  <1>1. ASSUME NEW o \in Requests \ {q} PROVE Progress(o)' /\ Swept(o)'
    <2>1. req'[o] = req[o]
      OBVIOUS
    <2>2. Holds(o)' => Holds(o) /\ req[o].batch # req[q].batch
      BY <2>1 DEF Holds
    <2> QED
      BY <2>1, <2>2, OtherKept
  <1>2. \A c \in Batches : batch[c].status = "closed" => c # req[q].batch
    BY DEF Holds
  <1>3. ClosedBatchSettled'
    BY <1>2, SettledKept
  <1> QED
    BY <1>1, <1>3 DEF IInv

\* A step that moves no request and no batch.
LEMMA StillStep ==
  ASSUME IInv, UNCHANGED <<batch, initial, req>>, Kept(None),
         NumberingInv', Typed', Received', Effective', AppliedOnce'
  PROVE  IInv'
  <1>1. ASSUME NEW o \in Requests PROVE Progress(o)' /\ Swept(o)'
    <2>1. Working(o) => req[o].batch # None
      BY Place
    <2>2. Holds(o)' => Holds(o)
      BY DEF Holds
    <2> QED
      BY <2>1, <2>2, OtherKept
  <1>2. ClosedBatchSettled'
    BY BatchAssumption, SettledKept
  <1> QED
    BY <1>1, <1>2 DEF IInv

\* A step that changes no item moves one request and, for each batch, leaves the
\* row alone or leaves it to that request or to nobody.
LEMMA LeaseStep ==
  ASSUME IInv, NEW q \in Requests, UNCHANGED <<numbering, items>>,
         batch' \in [Batches -> BatchType], req' \in [Requests -> ReqType],
         \A o \in Requests \ {q} : req'[o] = req[o],
         \A c \in Batches : batch'[c] = batch[c] \/ batch'[c].holder \in {q, None},
         Progress(q)', Swept(q)', ClosedBatchSettled'
  PROVE  IInv'
  <1>1. Kept(None)
    BY DEF Kept, items, Waiting
  <1>2. ASSUME NEW o \in Requests \ {q} PROVE Progress(o)' /\ Swept(o)'
    <2>1. Working(o) => req[o].batch # None /\ req[o].batch \in Batches
      BY Place
    <2>2. req'[o] = req[o] /\ o # None
      BY BatchAssumption
    <2>3. Working(o) /\ Holds(o)' => Holds(o)
      BY <2>1, <2>2 DEF Holds
    <2> QED
      BY <1>1, <2>1, <2>2, <2>3, OtherKept DEF items
  <1>3. NumberingInv'
    BY DEF IInv, NumberingInv, NumberingTypeOK, Numbered, Owned, Interval, numbering
  <1>4. Typed' /\ AppliedOnce'
    BY DEF IInv, Typed, AppliedOnce, items
  <1>5. Received'
    BY DEF IInv, Received, Waiting, items
  <1>6. Effective'
    BY DEF IInv, Effective, items, numbering
  <1> QED
    BY <1>2, <1>3, <1>4, <1>5, <1>6 DEF IInv

\* The closed batches are the same, and so are the items.
LEMMA NoneClosed ==
  ASSUME IInv, UNCHANGED items,
         \A c \in Batches : batch'[c].status = "closed" => batch'[c] = batch[c]
  PROVE  ClosedBatchSettled'
  BY DEF IInv, ClosedBatchSettled, items

\* A request that has not begun, is at the beginning of a batch, or is done.
LEMMA FreshType ==
  ASSUME NEW pc \in Steps, NEW b \in Batches \cup {None}
  PROVE  /\ Idle \in ReqType
         /\ [Idle EXCEPT !.pc = pc, !.batch = b] \in ReqType
         /\ [Idle EXCEPT !.pc = pc] \in ReqType
  <1>1. NoRefusal \in [status : Statuses \cup {"none"}, conflict : BOOLEAN, retry : BOOLEAN]
    BY DEF NoRefusal
  <1>2. <<>> \in Seq(Statuses)
    OBVIOUS
  <1>3. Idle \in ReqType
    BY <1>1, <1>2 DEF Idle, ReqType, Steps
  <1> QED
    BY <1>3 DEF ReqType

\* What a request is that ended, waits for b, or acquired the lease of b.
LEMMA EndedStep ==
  ASSUME IInv, NEW q \in Requests, Done(q)
  PROVE  /\ req' \in [Requests -> ReqType] /\ \A o \in Requests \ {q} : req'[o] = req[o]
         /\ Progress(q)' /\ Swept(q)'
  <1>1. req' = [req EXCEPT ![q] = [Idle EXCEPT !.pc = "done"]]
    BY DEF Done
  <1>2. [Idle EXCEPT !.pc = "done"] \in ReqType
    BY FreshType DEF Steps
  <1>3. req \in [Requests -> ReqType]
    BY DEF IInv, Typed
  <1>4. req' \in [Requests -> ReqType] /\ \A o \in Requests \ {q} : req'[o] = req[o]
    BY <1>1, <1>2, <1>3
  <1>5. req'[q].pc = "done"
    BY <1>1, <1>3 DEF Idle
  <1> QED
    BY <1>4, <1>5 DEF Progress, Swept, Working

LEMMA WaitingStep ==
  ASSUME IInv, NEW q \in Requests, NEW b \in Batches,
         req' = [req EXCEPT ![q].pc = "wait", ![q].batch = b]
  PROVE  /\ req' \in [Requests -> ReqType] /\ \A o \in Requests \ {q} : req'[o] = req[o]
         /\ Progress(q)' /\ Swept(q)'
  <1>1. req \in [Requests -> ReqType]
    BY DEF IInv, Typed
  <1>2. /\ req' = [req EXCEPT ![q] = [req[q] EXCEPT !.pc = "wait", !.batch = b]]
        /\ [req[q] EXCEPT !.pc = "wait", !.batch = b] \in ReqType
    BY <1>1 DEF ReqType, Steps
  <1>3. req' \in [Requests -> ReqType] /\ \A o \in Requests \ {q} : req'[o] = req[o]
    BY <1>1, <1>2
  <1>4. req'[q].pc = "wait" /\ req'[q].batch = b
    BY <1>1 DEF ReqType
  <1> QED
    BY <1>3, <1>4 DEF Progress, Swept, Working

LEMMA AcquiredStep ==
  ASSUME IInv, NEW q \in Requests, NEW b \in Batches, Acquired(q, b)
  PROVE  /\ req' \in [Requests -> ReqType] /\ \A o \in Requests \ {q} : req'[o] = req[o]
         /\ batch' \in [Batches -> BatchType]
         /\ \A c \in Batches : batch'[c] = batch[c] \/ batch'[c].holder \in {q, None}
         /\ \A c \in Batches : batch'[c].status = "closed" => batch'[c] = batch[c]
         /\ Progress(q)' /\ Swept(q)'
  <1> DEFINE new == [Idle EXCEPT !.pc = "preflight", !.batch = b]
  <1>1. /\ req' = [req EXCEPT ![q] = new]
        /\ batch' = [batch EXCEPT ![b] = [batch[b] EXCEPT !.status = "open", !.holder = q]]
        /\ req \in [Requests -> ReqType] /\ batch \in [Batches -> BatchType]
    BY DEF Acquired, IInv, Typed
  <1>2. new \in ReqType
    BY FreshType DEF Steps
  <1>3. /\ new.pc = "preflight" /\ new.batch = b /\ new.i = 1 /\ new.said = <<>>
    BY DEF Idle
  <1> HIDE DEF new
  <1>4. /\ req' \in [Requests -> ReqType] /\ \A o \in Requests \ {q} : req'[o] = req[o]
        /\ req'[q] = new
    BY <1>1, <1>2
  <1>5. /\ batch' \in [Batches -> BatchType]
        /\ \A c \in Batches : batch'[c] # batch[c] =>
             batch'[c].holder = q /\ batch'[c].status = "open"
    <2>1. [batch[b] EXCEPT !.status = "open", !.holder = q] \in BatchType
      BY <1>1 DEF BatchType
    <2>2. batch'[b].holder = q /\ batch'[b].status = "open"
      BY <1>1 DEF BatchType
    <2>3. \A c \in Batches \ {b} : batch'[c] = batch[c]
      BY <1>1
    <2>4. batch' \in [Batches -> BatchType]
      BY <1>1, <2>1
    <2> QED
      BY <2>2, <2>3, <2>4
  <1>6. Len(b.items) \in Nat /\ Len(b.items) # 0
    BY BatchAssumption
  <1>7. Progress(q)' /\ Swept(q)'
    BY <1>3, <1>4, <1>6 DEF Progress, Swept, Working
  <1> QED
    BY <1>4, <1>5, <1>7

-----------------------------------------------------------------------------
(***************************************************************************)
(* The steps that change no item                                           *)
(***************************************************************************)
LEMMA OpenInv ==
  ASSUME IInv, NEW q \in Requests, NEW b \in Batches, Open(q, b) \/ Contended(q, b),
         UNCHANGED numbering
  PROVE  IInv'
  <1>1. UNCHANGED items
    BY DEF Open, Contended
  <1>2. batch \in [Batches -> BatchType]
    BY DEF IInv, Typed
  <1>3. CASE Acquired(q, b)
    BY <1>1, <1>3, AcquiredStep, NoneClosed, LeaseStep
  <1>4. CASE Ended(q)
    <2>1. Done(q) /\ UNCHANGED batch
      BY <1>4 DEF Ended
    <2> QED
      BY <1>1, <1>2, <2>1, EndedStep, NoneClosed, LeaseStep
  <1>5. CASE req' = [req EXCEPT ![q].pc = "wait", ![q].batch = b] /\ UNCHANGED batch
    BY <1>1, <1>2, <1>5, WaitingStep, NoneClosed, LeaseStep
  <1> QED
    BY <1>3, <1>4, <1>5 DEF Open, Contended

LEMMA WaitInv ==
  ASSUME IInv, NEW q \in Requests, Wait(q), UNCHANGED numbering
  PROVE  IInv'
  <1>1. UNCHANGED items /\ req[q].batch \in Batches
    BY DEF Wait, IInv, Progress
  <1>2. batch \in [Batches -> BatchType]
    BY DEF IInv, Typed
  <1>3. CASE Acquired(q, req[q].batch)
    BY <1>1, <1>3, AcquiredStep, NoneClosed, LeaseStep
  <1>4. CASE Ended(q)
    <2>1. Done(q) /\ UNCHANGED batch
      BY <1>4 DEF Ended
    <2> QED
      BY <1>1, <1>2, <2>1, EndedStep, NoneClosed, LeaseStep
  <1> QED
    BY <1>3, <1>4 DEF Wait

\* A request that ends may release its lease; it closes nothing.
LEMMA AbortInv ==
  ASSUME IInv, NEW q \in Requests, Abort(q) \/ Die(q), UNCHANGED numbering
  PROVE  IInv'
  <1>1. UNCHANGED items /\ Done(q) /\ Working(q)
    BY DEF Abort, Die, Ended
  <1>2. batch \in [Batches -> BatchType] /\ req[q].batch \in Batches
    BY <1>1, Place DEF IInv, Typed
  <1>3. CASE UNCHANGED batch
    BY <1>1, <1>2, <1>3, EndedStep, NoneClosed, LeaseStep
  <1>4. CASE Holds(q) /\ batch' = [batch EXCEPT ![req[q].batch].holder = None]
    <2>1. /\ batch' \in [Batches -> BatchType]
          /\ \A c \in Batches \ {req[q].batch} : batch'[c] = batch[c]
          /\ batch'[req[q].batch].holder = None
          /\ batch'[req[q].batch].status = batch[req[q].batch].status
      BY <1>2, <1>4 DEF BatchType
    <2>2. \A c \in Batches : batch'[c].status = "closed" => batch'[c] = batch[c]
      BY <1>4, <2>1 DEF Holds
    <2>3. \A c \in Batches : batch'[c] = batch[c] \/ batch'[c].holder \in {q, None}
      BY <2>1
    <2> QED
      BY <1>1, <2>1, <2>2, <2>3, EndedStep, NoneClosed, LeaseStep
  <1> QED
    BY <1>3, <1>4 DEF Abort, Die, Ended

\* A batch is closed by its holder, who went through all its items and left none
\* of them waiting.
LEMMA CloseInv ==
  ASSUME IInv, NEW q \in Requests, Close(q), UNCHANGED numbering
  PROVE  IInv'
  <1> DEFINE b == req[q].batch
  <1>1. /\ UNCHANGED items /\ Done(q) /\ Working(q) /\ Holds(q) /\ req[q].pc = "close"
    BY DEF Close, Working
  <1>2. /\ batch \in [Batches -> BatchType] /\ b \in Batches /\ req \in [Requests -> ReqType]
        /\ batch[b] \in BatchType
    BY <1>1, Place DEF IInv, Typed
  <1>3. /\ Len(req[q].said) = Len(b.items)
        /\ \A j \in 1 .. Len(req[q].said) : req[q].said[j] = "applied" =>
             \E e \in effects : e.key = b.items[j].key
    BY <1>1 DEF IInv, Progress
  <1>4. DOMAIN b.items = 1 .. Len(b.items)
    BY <1>2, BatchAssumption
  <1>5. CASE req[q].retry
    <2>1. batch' = [batch EXCEPT ![b] = [batch[b] EXCEPT !.holder = None]]
      BY <1>5 DEF Close
    <2>2. /\ [batch[b] EXCEPT !.holder = None] \in BatchType
          /\ [batch[b] EXCEPT !.holder = None].status = batch[b].status
          /\ [batch[b] EXCEPT !.holder = None].holder = None
      BY <1>2 DEF BatchType
    <2>3. /\ batch' \in [Batches -> BatchType]
          /\ \A c \in Batches \ {b} : batch'[c] = batch[c]
          /\ batch'[b].holder = None /\ batch'[b].status = batch[b].status
      BY <1>2, <2>1, <2>2
    <2>4. /\ \A c \in Batches : batch'[c].status = "closed" => batch'[c] = batch[c]
          /\ \A c \in Batches : batch'[c] = batch[c] \/ batch'[c].holder \in {q, None}
      BY <1>1, <2>3 DEF Holds
    <2> QED
      BY <1>1, <2>3, <2>4, EndedStep, NoneClosed, LeaseStep
  <1>6. CASE ~req[q].retry
    <2> DEFINE new == [status |-> "closed", holder |-> None, response |-> req[q].said]
    <2>1. batch' = [batch EXCEPT ![b] = new]
      BY <1>6 DEF Close
    <2>2. new \in BatchType
      BY <1>2 DEF BatchType, ReqType
    <2>3. new.holder = None /\ new.response = req[q].said
      OBVIOUS
    <2> HIDE DEF new
    <2>4. /\ batch' \in [Batches -> BatchType]
          /\ \A c \in Batches \ {b} : batch'[c] = batch[c]
          /\ batch'[b] = new
      BY <1>2, <2>1, <2>2
    <2>5. \A c \in Batches : batch'[c] = batch[c] \/ batch'[c].holder \in {q, None}
      BY <2>3, <2>4
    <2>6. \A i \in DOMAIN b.items :
            batch'[b].response[i] = "applied" => \E e \in effects' : e.key = b.items[i].key
      BY <1>1, <1>3, <1>4, <2>3, <2>4 DEF items
    <2>7. ASSUME NEW k \in Keys, receipt[k].batch = b, receipt[k].status = "received",
                 ~receipt[k].final
          PROVE  FALSE
      <3>1. \E j \in DOMAIN b.items : b.items[j].key = k
        BY <2>7 DEF IInv, Received
      <3>2. Swept(q)
        BY DEF IInv
      <3> QED
        BY <1>1, <1>3, <1>4, <1>6, <2>7, <3>1, <3>2 DEF Swept, Waiting
    <2>8. ClosedBatchSettled'
      <3>1. ASSUME NEW c \in Batches \ {b}, batch'[c].status = "closed"
            PROVE  /\ \A i \in DOMAIN c.items : batch'[c].response[i] = "applied" =>
                        \E e \in effects' : e.key = c.items[i].key
                   /\ \A k \in Keys : receipt'[k].batch = c /\ receipt'[k].status = "received"
                        => receipt'[k].final
        BY <1>1, <2>4, <3>1 DEF IInv, ClosedBatchSettled, items
      <3>2. \A k \in Keys : receipt'[k].batch = b /\ receipt'[k].status = "received"
              => receipt'[k].final
        BY <1>1, <2>7 DEF items
      <3> QED
        BY <2>6, <3>1, <3>2 DEF ClosedBatchSettled
    <2> QED
      BY <1>1, <2>4, <2>5, <2>8, EndedStep, LeaseStep
  <1> QED
    BY <1>5, <1>6

-----------------------------------------------------------------------------
(***************************************************************************)
(* The transactions of an item                                             *)
(***************************************************************************)

\* The rows and the effects have their types, and say the same of the items.
Rows ==
  /\ receipt \in [Keys -> RowType] /\ queue \in [Keys -> Statuses \cup {"absent"}]
  /\ effects \subseteq EffectType
  /\ Received /\ Effective /\ AppliedOnce

\* The holder of a batch answers its item: the item has a receipt, took effect if
\* the answer says so, and is to retry if its own receipt still waits.
LEMMA AnswerStep ==
  ASSUME IInv, NEW q \in Requests, req[q].pc \in {"preflight", "apply", "record"}, Holds(q),
         NEW s \in Statuses, NEW retry \in BOOLEAN, Answered(q, s, retry),
         UNCHANGED <<batch, initial>>, Kept(req[q].batch), NumberingInv', Rows',
         NEW k \in Keys, k = Item(q).key, receipt'[k].status # "absent",
         s = "applied" => \E e \in effects' : e.key = k,
         Waiting(k)' /\ receipt'[k].batch = req[q].batch => retry \/ req[q].retry,
         \A j \in Keys \ {k} : Waiting(j)' => Waiting(j)
  PROVE  IInv'
  <1> DEFINE b == req[q].batch
  <1>1. Working(q) /\ Working(q)'
    BY AnsweredEffect DEF Working
  <1>2. /\ b \in Batches /\ Len(b.items) \in Nat /\ req[q].i \in 1 .. Len(b.items)
        /\ \A j \in 1 .. Len(b.items) : b.items[j].key \in Keys
        /\ b.items[req[q].i].key = k
    BY <1>1, Place
  <1>3. /\ req' \in [Requests -> ReqType] /\ \A o \in Requests \ {q} : req'[o] = req[o]
        /\ req'[q].batch = b /\ req'[q].pc \in {"preflight", "close"}
        /\ req'[q].i \in 1 .. Len(b.items)
        /\ req'[q].retry <=> req[q].retry \/ retry
        /\ Len(req'[q].said) = req[q].i
        /\ Len(req'[q].said) = IF req'[q].pc = "close" THEN Len(b.items) ELSE req'[q].i - 1
        /\ req'[q].said[req[q].i] = s
        /\ \A j \in 1 .. req[q].i - 1 : req'[q].said[j] = req[q].said[j]
    BY AnsweredEffect
  <1>4. /\ Len(req[q].said) = req[q].i - 1
        /\ \A j \in 1 .. req[q].i - 1 :
             /\ receipt[b.items[j].key].status # "absent"
             /\ req[q].said[j] = "applied" => \E e \in effects : e.key = b.items[j].key
    BY <1>1 DEF IInv, Progress
  <1>5. Typed'
    BY <1>3 DEF IInv, Typed, Rows
  <1>6. ASSUME NEW j \in 1 .. req[q].i
        PROVE  /\ receipt'[b.items[j].key].status # "absent"
               /\ req'[q].said[j] = "applied" => \E e \in effects' : e.key = b.items[j].key
    <2>1. CASE j = req[q].i
      BY <1>2, <1>3, <2>1
    <2>2. CASE j # req[q].i
      <3>1. j \in 1 .. req[q].i - 1 /\ b.items[j].key \in Keys
        BY <1>2, <2>2
      <3> QED
        BY <1>3, <1>4, <3>1 DEF Kept
    <2> QED
      BY <2>1, <2>2
  <1>7. Progress(q)'
    BY <1>1, <1>2, <1>3, <1>6 DEF Progress
  <1>8. Swept(q)'
    <2> SUFFICES ASSUME ~req[q].retry, ~retry, NEW j \in 1 .. req[q].i,
                        receipt'[b.items[j].key].batch = b,
                        receipt'[b.items[j].key].status = "received",
                        ~receipt'[b.items[j].key].final
                 PROVE  FALSE
      BY <1>3 DEF Swept, Waiting
    <2>1. b.items[j].key # k
      BY DEF Waiting
    <2>2. j \in 1 .. req[q].i - 1 /\ b.items[j].key \in Keys
      BY <1>2, <2>1
    <2>3. Waiting(b.items[j].key)
      BY <2>1, <2>2 DEF Waiting
    <2>4. receipt[b.items[j].key].batch = b
      BY <2>2, <2>3 DEF Kept, Waiting
    <2> QED
      BY <1>1, <1>4, <2>2, <2>3, <2>4 DEF IInv, Swept
  <1> QED
    BY <1>1, <1>3, <1>5, <1>7, <1>8, ItemStep DEF Rows

\* The holder of a batch goes to the next transaction of its item.
LEMMA MoveStep ==
  ASSUME IInv, NEW q \in Requests, req[q].pc \in {"preflight", "apply"}, Holds(q),
         req' \in [Requests -> ReqType], \A o \in Requests \ {q} : req'[o] = req[o],
         req'[q].pc \in {"apply", "record"}, req'[q].batch = req[q].batch,
         req'[q].i = req[q].i, req'[q].said = req[q].said, req'[q].retry = req[q].retry,
         UNCHANGED <<batch, initial>>, Kept(req[q].batch), NumberingInv', Rows',
         NEW k \in Keys, k = Item(q).key, receipt'[k].status # "absent",
         req'[q].again <=> receipt'[k].batch # req[q].batch,
         req'[q].pc = "record" =>
           /\ req'[q].refusal.status \in {"received", "pending", "conflict", "rejected"}
           /\ req'[q].refusal.retry => req'[q].refusal.status = Expected(q)',
         \A j \in Keys : Waiting(j)' => Waiting(j) \/ receipt[j].status = "absent"
  PROVE  IInv'
  <1> DEFINE b == req[q].batch
  <1>1. Working(q) /\ Working(q)'
    BY DEF Working
  <1>2. /\ b \in Batches /\ Len(b.items) \in Nat /\ req[q].i \in 1 .. Len(b.items)
        /\ \A j \in 1 .. Len(b.items) : b.items[j].key \in Keys
    BY <1>1, Place
  <1>3. Item(q)' = Item(q)
    BY DEF Item
  <1>4. /\ Len(req[q].said) = req[q].i - 1
        /\ \A j \in 1 .. req[q].i - 1 :
             /\ receipt[b.items[j].key].status # "absent"
             /\ req[q].said[j] = "applied" => \E e \in effects : e.key = b.items[j].key
    BY <1>1 DEF IInv, Progress
  <1>5. \A j \in 1 .. req[q].i - 1 : b.items[j].key \in Keys
    BY <1>2
  <1>6. Typed'
    BY DEF IInv, Typed, Rows
  <1>7. \A j \in 1 .. req[q].i - 1 :
          /\ receipt'[b.items[j].key].status # "absent"
          /\ req'[q].said[j] = "applied" => \E e \in effects' : e.key = b.items[j].key
    BY <1>4, <1>5 DEF Kept
  <1>8. Progress(q)'
    <2>1. /\ req'[q].batch \in Batches /\ req'[q].i \in 1 .. Len(req'[q].batch.items)
          /\ Len(req'[q].said) = req'[q].i - 1
          /\ req'[q].pc # "close" /\ req'[q].pc # "wait"
      BY <1>2, <1>4
    <2> QED
      BY <1>1, <1>3, <1>7, <2>1 DEF Progress
  <1>9. Swept(q)'
    <2> SUFFICES ASSUME ~req[q].retry, NEW j \in 1 .. req[q].i - 1,
                        receipt'[b.items[j].key].batch = b, Waiting(b.items[j].key)'
                 PROVE  FALSE
      BY <1>4 DEF Swept
    <2>1. Waiting(b.items[j].key) /\ b.items[j].key \in Keys
      BY <1>4, <1>5
    <2>2. receipt[b.items[j].key].batch = b
      BY <2>1 DEF Kept, Waiting
    <2> QED
      BY <1>1, <1>4, <2>1, <2>2 DEF IInv, Swept
  <1> QED
    BY <1>1, <1>6, <1>8, <1>9, ItemStep DEF Rows

\* Without a change to the items, what is said of them stays.
LEMMA SameRows ==
  ASSUME IInv, UNCHANGED <<items, used>>, NEW b
  PROVE  Rows' /\ Kept(b)
  BY DEF IInv, Typed, Rows, Received, Effective, AppliedOnce, Waiting, Kept, items

LEMMA SameNumbers ==
  ASSUME IInv, UNCHANGED numbering
  PROVE  NumberingInv'
  BY DEF IInv, NumberingInv, NumberingTypeOK, Numbered, Owned, Interval, numbering

\* An item that is applied again, or for the first time, took no effect yet.
LEMMA NotApplied ==
  ASSUME IInv, NEW k \in Keys, receipt[k].status \notin {"applied", "conflict"}
  PROVE  \A e \in effects : e.key # k
  BY DEF IInv, Effective

\* The preflight stores an item that nobody stored, or finds the stored one.
LEMMA PreflightInv ==
  ASSUME IInv, NEW q \in Requests, Preflight(q), UNCHANGED numbering
  PROVE  IInv'
  <1>0. PICK b, item, k : b = req[q].batch /\ item = Item(q) /\ k = item.key
    OBVIOUS
  <1> DEFINE fresh == [NoReceipt EXCEPT !.status = initial, !.batch = b,
                                        !.hash = item.hash, !.number = item.number]
             row == IF receipt[k].status # "absent" THEN receipt[k] ELSE fresh
  <1>1. /\ req[q].pc = "preflight" /\ Holds(q) /\ Working(q)
        /\ receipt' = [receipt EXCEPT ![k] = row]
        /\ queue' = [queue EXCEPT ![k] = IF queue[k] = "absent" THEN initial ELSE queue[k]]
        /\ UNCHANGED <<batch, initial, effects>>
    BY <1>0 DEF Preflight, Working
  <1>2. /\ receipt \in [Keys -> RowType] /\ queue \in [Keys -> Statuses \cup {"absent"}]
        /\ req \in [Requests -> ReqType] /\ initial \in {"received", "pending"}
        /\ effects \subseteq EffectType /\ UNCHANGED used
    BY DEF IInv, Typed, numbering
  <1>3. /\ b \in Batches /\ b # None /\ b.items \in Seq(Items)
        /\ Len(b.items) \in Nat /\ req[q].i \in 1 .. Len(b.items)
        /\ item = b.items[req[q].i] /\ k \in Keys /\ item.hash \in Hashes
        /\ item.number \in 0 .. Last
    BY <1>0, <1>1, Place, BatchAssumption
  <1>4. /\ fresh.status = initial /\ fresh.batch = b /\ fresh.hash = item.hash
        /\ ~fresh.final
    BY DEF NoReceipt
  <1>5. fresh \in RowType
    BY <1>2, <1>3 DEF NoReceipt, RowType, Statuses
  <1>6. /\ row \in RowType /\ row.status # "absent"
        /\ receipt[k].status # "absent" => row = receipt[k]
        /\ receipt[k].status = "absent" => row = fresh
    BY <1>2, <1>3, <1>4, <1>5
  <1>7. /\ receipt' \in [Keys -> RowType] /\ receipt'[k] = row
        /\ \A j \in Keys \ {k} : receipt'[j] = receipt[j]
    BY <1>1, <1>2, <1>3, <1>6
  <1>8. /\ queue' \in [Keys -> Statuses \cup {"absent"}] /\ queue'[k] # "absent"
        /\ \A j \in Keys \ {k} : queue'[j] = queue[j]
    BY <1>1, <1>2, <1>3 DEF Statuses
  <1>9. \A f \in 1 .. req[q].i - 1 : receipt[b.items[f].key].status # "absent"
    BY <1>0, <1>1 DEF IInv, Progress
  <1> HIDE DEF row, fresh
  <1>10. Kept(b)
    BY <1>1, <1>4, <1>6, <1>7 DEF Kept, Waiting
  <1>11. Received'
    <2>1. \A j \in Keys : receipt'[j].status = "absent" <=> queue'[j] = "absent"
      BY <1>6, <1>7, <1>8 DEF IInv, Received
    <2>2. ASSUME NEW j \in Keys, receipt'[j].status # "absent"
          PROVE  /\ receipt'[j].batch \in Batches
                 /\ \E f \in DOMAIN receipt'[j].batch.items :
                      /\ receipt'[j].batch.items[f].key = j
                      /\ receipt'[j].batch.items[f].hash = receipt'[j].hash
                      /\ \A g \in 1 .. (f - 1) : receipt'[j].batch.items[g].key # j
      <3>1. CASE receipt[j].status # "absent"
        BY <1>6, <1>7, <3>1 DEF IInv, Received
      <3>2. CASE receipt[j].status = "absent"
        <4>1. j = k /\ receipt'[j] = fresh
          BY <1>6, <1>7, <2>2, <3>2
        <4>2. /\ req[q].i \in DOMAIN b.items /\ b.items[req[q].i].key = j
              /\ \A g \in 1 .. (req[q].i - 1) : b.items[g].key # j
          <5>1. req[q].i \in DOMAIN b.items /\ b.items[req[q].i].key = j
            <6>1. DOMAIN b.items = 1 .. Len(b.items)
              BY <1>3
            <6>2. b.items[req[q].i] = item
              BY <1>3
            <6>3. b.items[req[q].i].key = j
              BY <1>0, <4>1, <6>2
            <6> QED
              BY <1>3, <6>1, <6>3
          <5>2. \A g \in 1 .. (req[q].i - 1) : b.items[g].key # j
            BY <1>9, <3>2
          <5> QED
            BY <5>1, <5>2
        <4> QED
          BY <1>3, <1>4, <4>1, <4>2
      <3> QED
        BY <3>1, <3>2
    <2>3. \A j \in Keys : Waiting(j)' => initial' = "received"
      BY <1>1, <1>4, <1>6, <1>7 DEF IInv, Received, Waiting
    <2> QED
      BY <2>1, <2>2, <2>3 DEF Received
  <1>12. Effective'
    <2>1. \A e \in effects : e.key \in Keys /\ receipt'[e.key] = receipt[e.key]
      <3>1. \A e \in effects : e.key \in Keys /\ receipt[e.key].status # "absent"
        BY <1>2 DEF IInv, Effective, EffectType
      <3> QED
        BY <1>6, <1>7, <3>1
    <2>2. \A j \in Keys : receipt'[j].status = "applied" => receipt[j].status = "applied"
      BY <1>2, <1>4, <1>6, <1>7
    <2> QED
      BY <1>1, <1>2, <2>1, <2>2 DEF IInv, Effective
  <1>13. Rows'
    BY <1>1, <1>2, <1>7, <1>8, <1>11, <1>12 DEF IInv, AppliedOnce, Rows
  <1>14. NumberingInv'
    BY SameNumbers
  <1>15. \A j \in Keys : Waiting(j)' => Waiting(j) \/ receipt[j].status = "absent"
    BY <1>6, <1>7 DEF Waiting
  <1>16. \A j \in Keys \ {k} : Waiting(j)' => Waiting(j)
    BY <1>7 DEF Waiting
  <1>17. k = Item(q).key /\ b = req[q].batch
    BY <1>0
  <1>18. row.status \in Statuses
    BY <1>6 DEF RowType
  <1>19. row.status = "applied" => \E e \in effects' : e.key = k
    BY <1>1, <1>2, <1>3, <1>4, <1>6 DEF IInv, Effective
  <1>20. CASE row.hash # item.hash /\ Answered(q, "rejected", FALSE)
    <2>1. receipt[k].status # "absent" /\ row = receipt[k]
      BY <1>4, <1>6, <1>20
    <2>2. Waiting(k)' /\ row.batch = b => req[q].retry
      <3> SUFFICES ASSUME Waiting(k)', row.batch = b, ~req[q].retry PROVE FALSE
        OBVIOUS
      <3>1. PICK j \in DOMAIN b.items : /\ b.items[j].key = k
                                        /\ b.items[j].hash = row.hash
                                        /\ \A f \in 1 .. (j - 1) : b.items[f].key # k
        BY <1>3, <2>1 DEF IInv, Received
      <3>2. j \in 1 .. Len(b.items) /\ b.items[req[q].i].key = k /\ j # req[q].i
        BY <1>0, <1>3, <1>20, <3>1
      <3>3. j \in 1 .. req[q].i - 1
        BY <1>3, <3>1, <3>2
      <3>4. Len(req[q].said) = req[q].i - 1
        BY <1>1 DEF IInv, Progress
      <3>5. receipt[k].status = "received" /\ ~receipt[k].final
        BY <1>7, <2>1 DEF Waiting
      <3> QED
        BY <1>1, <1>17, <2>1, <3>1, <3>3, <3>4, <3>5 DEF IInv, Swept, Waiting
    <2> QED
      BY <1>1, <1>3, <1>6, <1>7, <1>10, <1>13, <1>14, <1>16, <1>17, <1>20, <2>2, AnswerStep
         DEF Statuses
  <1>21. CASE /\ row.hash = item.hash
              /\ ~(Reapplies(row, b) \/ (row.batch = b /\ row.status = initial /\ ~row.final))
              /\ Answered(q, row.status, row.status = initial /\ ~row.final)
    <2>1. PICK retry \in BOOLEAN : retry = (row.status = initial /\ ~row.final)
      OBVIOUS
    <2>2. Waiting(k)' => retry
      BY <1>1, <1>3, <1>7, <1>11, <2>1 DEF Received, Waiting
    <2>3. Answered(q, row.status, retry)
      BY <1>21, <2>1
    <2> QED
      BY <1>1, <1>3, <1>6, <1>7, <1>10, <1>13, <1>14, <1>16, <1>17, <1>18, <1>19,
         <2>2, <2>3, AnswerStep
  <1>22. CASE /\ row.hash = item.hash
              /\ Reapplies(row, b) \/ (row.batch = b /\ row.status = initial /\ ~row.final)
              /\ req' = [req EXCEPT ![q].pc = "apply", ![q].again = Reapplies(row, b)]
    <2>1. PICK again \in BOOLEAN : again = Reapplies(row, b)
      BY DEF Reapplies
    <2>2. again <=> row.batch # b
      BY <1>22, <2>1 DEF Reapplies
    <2>3. /\ req' \in [Requests -> ReqType] /\ \A o \in Requests \ {q} : req'[o] = req[o]
          /\ req'[q].pc = "apply" /\ req'[q].batch = req[q].batch
          /\ req'[q].i = req[q].i /\ req'[q].said = req[q].said
          /\ req'[q].retry = req[q].retry /\ req'[q].again = again
      <3> DEFINE new == [req[q] EXCEPT !.pc = "apply", !.again = again]
      <3>1. req' = [req EXCEPT ![q] = new]
        BY <1>2, <1>22, <2>1 DEF ReqType
      <3>2. new \in ReqType
        BY <1>2 DEF ReqType, Steps
      <3>3. /\ new.pc = "apply" /\ new.batch = req[q].batch /\ new.i = req[q].i
            /\ new.said = req[q].said /\ new.retry = req[q].retry /\ new.again = again
        BY <1>2 DEF ReqType
      <3> HIDE DEF new
      <3> QED
        BY <1>2, <3>1, <3>2, <3>3
    <2> QED
      BY <1>1, <1>3, <1>6, <1>7, <1>10, <1>13, <1>14, <1>15, <1>17, <2>2, <2>3, MoveStep
  <1> QED
    BY <1>0, <1>20, <1>21, <1>22 DEF Preflight, row, fresh

\* Another submission decided the item: its receipt is the answer.
LEMMA DuplicateInv ==
  ASSUME IInv, NEW q \in Requests, ApplyDuplicate(q), UNCHANGED numbering
  PROVE  IInv'
  <1>1. /\ req[q].pc = "apply" /\ Holds(q) /\ Working(q)
        /\ Answered(q, receipt[Item(q).key].status, receipt[Item(q).key].status = initial)
        /\ UNCHANGED <<batch, items>> /\ UNCHANGED used
    BY DEF ApplyDuplicate, Applying, Working, numbering
  <1>2. PICK k \in Keys : k = Item(q).key
    BY <1>1, Place
  <1>3. /\ receipt[k].status # "absent" /\ receipt[k].status \in Statuses
        /\ receipt[k].status = "applied" => \E e \in effects : e.key = k
    BY <1>1, <1>2 DEF IInv, Progress, Typed, RowType, Effective
  <1>4. PICK retry \in BOOLEAN : retry = (receipt[k].status = initial)
    OBVIOUS
  <1>5. Answered(q, receipt[k].status, retry)
    BY <1>1, <1>2, <1>4
  <1>6. Rows' /\ Kept(req[q].batch) /\ NumberingInv'
    BY <1>1, SameRows, SameNumbers
  <1>7. UNCHANGED <<receipt, effects, initial>>
    BY <1>1 DEF items
  <1>8. Waiting(k)' => retry
    BY <1>4, <1>7 DEF IInv, Received, Waiting
  <1>9. \A j \in Keys \ {k} : Waiting(j)' => Waiting(j)
    BY <1>7 DEF Waiting
  <1> QED
    BY <1>1, <1>2, <1>3, <1>5, <1>6, <1>7, <1>8, <1>9, AnswerStep

\* An item that is about to be applied took no effect yet.
LEMMA CurrentItem ==
  ASSUME IInv, NEW q \in Requests, Applying(q), Current(q), NEW k, k = Item(q).key
  PROVE  /\ Working(q) /\ Holds(q) /\ req[q].pc = "apply" /\ k \in Keys
         /\ receipt[k].status \in {"received", "pending"} /\ receipt[k].status = Expected(q)
         /\ queue[k] # "absent"
         /\ \A e \in effects : e.key # k
  <1>1. Working(q) /\ Holds(q) /\ req[q].pc = "apply"
    BY DEF Applying, Working
  <1>2. k \in Keys
    BY <1>1, Place
  <1>3. Expected(q) \in {"received", "pending"} /\ receipt[k].status = Expected(q)
    BY DEF Expected, Current, IInv, Typed
  <1>4. queue[k] # "absent"
    BY <1>2, <1>3 DEF IInv, Received
  <1> QED
    BY <1>1, <1>2, <1>3, <1>4, NotApplied

\* The items of suspected pairs are stored.
LEMMA PairsStored ==
  ASSUME NEW pairs \in SUBSET Pairs
  PROVE  UNION pairs \in SUBSET Stored
  BY DEF Pairs

\* The rows of suspects that became conflicts are those of stored items.
LEMMA PairFacts ==
  ASSUME IInv, NEW pair \in SUBSET Stored
  PROVE  /\ pair \subseteq Keys /\ \A j \in pair : receipt[j].status # "absent"
         /\ Suspected(receipt, pair) \in [Keys -> RowType]
         /\ \A j \in Keys :
              /\ Suspected(receipt, pair)[j].status =
                   IF j \in pair THEN "conflict" ELSE receipt[j].status
              /\ Suspected(receipt, pair)[j].batch = receipt[j].batch
              /\ Suspected(receipt, pair)[j].hash = receipt[j].hash
              /\ Suspected(receipt, pair)[j].applied = receipt[j].applied
              /\ Suspected(receipt, pair)[j].final = receipt[j].final
  <1>1. receipt \in [Keys -> RowType]
    BY DEF IInv, Typed
  <1>2. pair \subseteq Keys /\ \A j \in pair : queue[j] # "absent"
    BY DEF Stored
  <1>3. \A j \in pair : receipt[j].status # "absent"
    BY <1>2 DEF IInv, Received
  <1>4. ASSUME NEW j \in Keys
        PROVE  /\ [receipt[j] EXCEPT !.status = "conflict"] \in RowType
               /\ [receipt[j] EXCEPT !.status = "conflict"].status = "conflict"
               /\ [receipt[j] EXCEPT !.status = "conflict"].batch = receipt[j].batch
               /\ [receipt[j] EXCEPT !.status = "conflict"].hash = receipt[j].hash
               /\ [receipt[j] EXCEPT !.status = "conflict"].applied = receipt[j].applied
               /\ [receipt[j] EXCEPT !.status = "conflict"].final = receipt[j].final
    BY <1>1 DEF RowType, Statuses
  <1>5. \A j \in Keys : Suspected(receipt, pair)[j] =
          IF j \in pair THEN [receipt[j] EXCEPT !.status = "conflict"] ELSE receipt[j]
    BY DEF Suspected
  <1>6. Suspected(receipt, pair) \in [Keys -> RowType]
    BY <1>1, <1>4 DEF Suspected
  <1> QED
    BY <1>2, <1>3, <1>4, <1>5, <1>6

\* The receipts and the queue after a transaction that decided the item k and
\* suspected some items.
Decided(k, pair, row) ==
  /\ receipt' = [Suspected(receipt, pair) EXCEPT ![k] = row]
  /\ queue' \in [Keys -> Statuses \cup {"absent"}]
  /\ \A j \in Keys : queue'[j] = "absent" <=> queue[j] = "absent"
  /\ UNCHANGED initial

\* The items that the transaction of one item changes: that item, whose receipt
\* becomes the given row, and the suspects that became conflicts.
LEMMA ItemRows ==
  ASSUME IInv, NEW k \in Keys, receipt[k].status \in {"received", "pending"},
         NEW pair \in SUBSET Stored, NEW row \in RowType,
         row.status \in {"applied", "conflict"},
         row.batch = receipt[k].batch, row.hash = receipt[k].hash,
         Decided(k, pair, row)
  PROVE  /\ receipt' \in [Keys -> RowType] /\ Received'
         /\ receipt'[k] = row
         /\ \A j \in Keys \ {k} :
              /\ receipt'[j].status = IF j \in pair THEN "conflict" ELSE receipt[j].status
              /\ receipt'[j].applied = receipt[j].applied
         /\ \A j \in Keys : receipt[j].status # "absent" =>
              receipt'[j].status # "absent" /\ receipt'[j].batch = receipt[j].batch
         /\ \A j \in Keys : Waiting(j)' => Waiting(j) /\ j # k
  <1> DEFINE rows == Suspected(receipt, pair)
  <1>1. /\ rows \in [Keys -> RowType] /\ \A j \in pair : receipt[j].status # "absent"
        /\ \A j \in Keys :
              /\ rows[j].status = IF j \in pair THEN "conflict" ELSE receipt[j].status
              /\ rows[j].batch = receipt[j].batch
              /\ rows[j].hash = receipt[j].hash
              /\ rows[j].applied = receipt[j].applied
              /\ rows[j].final = receipt[j].final
    BY PairFacts
  <1> HIDE DEF rows
  <1>2. /\ receipt' \in [Keys -> RowType] /\ receipt'[k] = row
        /\ \A j \in Keys \ {k} : receipt'[j] = rows[j]
    <2>1. rows \in [Keys -> RowType] /\ receipt' = [rows EXCEPT ![k] = row]
      BY <1>1 DEF Decided, rows
    <2> QED
      BY <2>1
  <1>3. \A j \in Keys :
          /\ receipt'[j].batch = receipt[j].batch /\ receipt'[j].hash = receipt[j].hash
          /\ receipt'[j].status = "absent" <=> receipt[j].status = "absent"
    <2>1. /\ receipt'[k].batch = receipt[k].batch /\ receipt'[k].hash = receipt[k].hash
          /\ receipt'[k].status # "absent"
      BY <1>1, <1>2
    <2>2. ASSUME NEW j \in Keys \ {k}
          PROVE  /\ receipt'[j].batch = receipt[j].batch /\ receipt'[j].hash = receipt[j].hash
                 /\ receipt'[j].status = "absent" <=> receipt[j].status = "absent"
      BY <1>1, <1>2
    <2> QED
      BY <2>1, <2>2
  <1>4. \A j \in Keys : Waiting(j)' => Waiting(j) /\ j # k
    BY <1>1, <1>2 DEF Waiting
  <1>5. Received'
    <2>1. \A j \in Keys : receipt'[j].status = "absent" <=> queue'[j] = "absent"
      BY <1>3 DEF IInv, Received, Decided
    <2>2. ASSUME NEW j \in Keys, receipt'[j].status # "absent"
          PROVE  /\ receipt'[j].batch \in Batches
                 /\ \E i \in DOMAIN receipt'[j].batch.items :
                      /\ receipt'[j].batch.items[i].key = j
                      /\ receipt'[j].batch.items[i].hash = receipt'[j].hash
                      /\ \A f \in 1 .. (i - 1) : receipt'[j].batch.items[f].key # j
      <3>1. /\ receipt'[j].batch = receipt[j].batch /\ receipt'[j].hash = receipt[j].hash
            /\ receipt[j].status # "absent"
        BY <1>3, <2>2
      <3>2. /\ receipt[j].batch \in Batches
            /\ \E i \in DOMAIN receipt[j].batch.items :
                 /\ receipt[j].batch.items[i].key = j
                 /\ receipt[j].batch.items[i].hash = receipt[j].hash
                 /\ \A f \in 1 .. (i - 1) : receipt[j].batch.items[f].key # j
        BY <3>1 DEF IInv, Received
      <3> QED
        BY <3>1, <3>2
    <2>3. \A j \in Keys : Waiting(j)' => initial' = "received"
      BY <1>4 DEF IInv, Received, Decided
    <2> QED
      BY <2>1, <2>2, <2>3 DEF Received
  <1> QED
    BY <1>1, <1>2, <1>3, <1>4, <1>5

\* The committed deferral: the item and those it is suspected with are conflicts.
LEMMA DeferRows ==
  ASSUME IInv, NEW q \in Requests, Applying(q), Current(q), NEW k, k = Item(q).key,
         NEW pairs \in SUBSET Pairs, Deferred(q, pairs), UNCHANGED numbering, NEW b
  PROVE  /\ NumberingInv' /\ Rows' /\ Kept(b) /\ UNCHANGED initial
         /\ receipt'[k].status = "conflict" /\ receipt'[k].batch = receipt[k].batch
         /\ \A j \in Keys : Waiting(j)' => Waiting(j) /\ j # k
  <1>1. /\ Working(q) /\ k \in Keys /\ receipt[k].status \in {"received", "pending"}
        /\ \A e \in effects : e.key # k
    BY CurrentItem
  <1>2. PICK pair \in SUBSET Stored : pair = UNION pairs
    BY PairsStored
  <1>3. /\ k \in pair
        /\ receipt' = [Suspected(receipt, pair) EXCEPT ![k].applied = FALSE, ![k].final = FALSE]
        /\ queue' = [j \in Keys |-> IF j \in pair THEN "conflict" ELSE queue[j]]
        /\ UNCHANGED <<initial, effects>> /\ UNCHANGED used
    BY <1>2 DEF Deferred, numbering
  <1>4. PICK row \in RowType :
          /\ row.status = "conflict"
          /\ row.batch = receipt[k].batch /\ row.hash = receipt[k].hash
          /\ receipt' = [Suspected(receipt, pair) EXCEPT ![k] = row]
    <2> DEFINE rows == Suspected(receipt, pair)
               row == [rows[k] EXCEPT !.applied = FALSE, !.final = FALSE]
    <2>1. /\ rows \in [Keys -> RowType] /\ rows[k].status = "conflict"
          /\ rows[k].batch = receipt[k].batch /\ rows[k].hash = receipt[k].hash
      BY <1>1, <1>3, PairFacts
    <2>2. receipt' = [rows EXCEPT ![k].applied = FALSE, ![k].final = FALSE]
      BY <1>3
    <2> HIDE DEF rows
    <2>3. receipt' = [rows EXCEPT ![k] = row]
      BY <1>1, <2>1, <2>2 DEF RowType
    <2>4. /\ row \in RowType /\ row.status = "conflict"
          /\ row.batch = receipt[k].batch /\ row.hash = receipt[k].hash
      BY <1>1, <2>1 DEF RowType
    <2> HIDE DEF row
    <2> QED
      BY <2>3, <2>4 DEF rows
  <1>5. /\ queue' \in [Keys -> Statuses \cup {"absent"}]
        /\ \A j \in Keys : queue'[j] = "absent" <=> queue[j] = "absent"
    BY <1>3 DEF IInv, Typed, Statuses, Stored
  <1>6. /\ receipt' \in [Keys -> RowType] /\ Received'
        /\ receipt'[k] = row
        /\ \A j \in Keys \ {k} :
             /\ receipt'[j].status = IF j \in pair THEN "conflict" ELSE receipt[j].status
             /\ receipt'[j].applied = receipt[j].applied
        /\ \A j \in Keys : receipt[j].status # "absent" =>
             receipt'[j].status # "absent" /\ receipt'[j].batch = receipt[j].batch
        /\ \A j \in Keys : Waiting(j)' => Waiting(j) /\ j # k
    <2>1. Decided(k, pair, row)
      BY <1>3, <1>4, <1>5 DEF Decided
    <2>2. row.status \in {"applied", "conflict"}
      BY <1>4
    <2> QED
      BY <1>1, <1>4, <2>1, <2>2, ItemRows
  <1>7. Effective'
    <2>1. \A e \in effects : e.key \in Keys \ {k}
      BY <1>1 DEF IInv, Typed, EffectType
    <2>2. \A e \in effects :
            receipt'[e.key].status \in {"applied", "conflict"} /\ receipt'[e.key].applied
      BY <1>6, <2>1 DEF IInv, Effective
    <2>3. \A j \in Keys : receipt'[j].status = "applied" => receipt[j].status = "applied"
      BY <1>4, <1>6
    <2> QED
      BY <1>3, <2>2, <2>3 DEF IInv, Effective
  <1>8. Rows'
    BY <1>3, <1>5, <1>6, <1>7 DEF IInv, Typed, AppliedOnce, Rows
  <1>9. Kept(b)
    BY <1>3, <1>6 DEF Kept
  <1> QED
    BY <1>1, <1>3, <1>4, <1>6, <1>8, <1>9, SameNumbers

\* The detector suspects the item before it is applied.
LEMMA DeferInv ==
  ASSUME IInv, NEW q \in Requests, Defer(q), UNCHANGED numbering
  PROVE  IInv'
  <1>1. PICK k, b : k = Item(q).key /\ b = req[q].batch
    OBVIOUS
  <1>2. /\ Applying(q) /\ Current(q) /\ Answered(q, "conflict", FALSE)
        /\ UNCHANGED batch
    BY DEF Defer
  <1>3. /\ Working(q) /\ Holds(q) /\ req[q].pc = "apply" /\ k \in Keys
        /\ receipt[k].status \in {"received", "pending"}
    BY <1>1, <1>2, CurrentItem
  <1>4. PICK pairs \in SUBSET Pairs : Deferred(q, pairs)
    BY DEF Defer
  <1>5. /\ NumberingInv' /\ Rows' /\ Kept(b) /\ UNCHANGED initial
        /\ receipt'[k].status = "conflict" /\ receipt'[k].batch = receipt[k].batch
        /\ \A j \in Keys : Waiting(j)' => Waiting(j) /\ j # k
    BY <1>1, <1>2, <1>4, DeferRows
  <1>6. receipt'[k].status # "absent" /\ "conflict" \in Statuses
    BY <1>5 DEF Statuses
  <1>7. ~Waiting(k)' /\ \A j \in Keys \ {k} : Waiting(j)' => Waiting(j)
    BY <1>3, <1>5
  <1>8. Kept(req[q].batch) /\ UNCHANGED <<batch, initial>>
    BY <1>1, <1>2, <1>5
  <1> QED
    BY <1>1, <1>2, <1>3, <1>5, <1>6, <1>7, <1>8, AnswerStep

\* The application is refused, and only the request remembers it.
LEMMA RefuseInv ==
  ASSUME IInv, NEW q \in Requests, Refuse(q), UNCHANGED numbering
  PROVE  IInv'
  <1>1. PICK k, b : k = Item(q).key /\ b = req[q].batch
    OBVIOUS
  <1>2. /\ Applying(q) /\ Current(q) /\ UNCHANGED <<batch, items>> /\ UNCHANGED used
    BY DEF Refuse, numbering
  <1>3. /\ Working(q) /\ Holds(q) /\ req[q].pc = "apply" /\ k \in Keys
        /\ receipt[k].status \in {"received", "pending"}
    BY <1>1, <1>2, CurrentItem
  <1>4. PICK r : /\ r.status \in {"received", "pending", "conflict", "rejected"} /\ ~r.retry
                 /\ r \in [status : Statuses \cup {"none"}, conflict : BOOLEAN, retry : BOOLEAN]
                 /\ req' = [req EXCEPT ![q].pc = "record", ![q].refusal = r]
    <2>1. \A late \in BOOLEAN : Verdict(q, late) # "free" => Verdict(q, late) \in {"rejected", "conflict"}
      BY DEF Verdict, NumberVerdict
    <2>2. ASSUME NEW v \in {"rejected", "conflict"}
          PROVE  LET r == [status |-> v, conflict |-> TRUE, retry |-> FALSE] IN
                 /\ r.status \in {"received", "pending", "conflict", "rejected"} /\ ~r.retry
                 /\ r \in [status : Statuses \cup {"none"}, conflict : BOOLEAN, retry : BOOLEAN]
      BY DEF Statuses
    <2>3. ASSUME NEW r \in [status : {"rejected", "conflict"}, conflict : BOOLEAN, retry : {FALSE}]
                             \cup [status : {"received"}, conflict : {FALSE}, retry : {FALSE}]
          PROVE  /\ r.status \in {"received", "pending", "conflict", "rejected"} /\ ~r.retry
                 /\ r \in [status : Statuses \cup {"none"}, conflict : BOOLEAN, retry : BOOLEAN]
      BY DEF Statuses
    <2>4. PICK late \in BOOLEAN :
            \E r \in IF Verdict(q, late) # "free"
                  THEN {[status |-> Verdict(q, late), conflict |-> TRUE, retry |-> FALSE]}
                  ELSE [status : {"rejected", "conflict"}, conflict : BOOLEAN, retry : {FALSE}]
                         \cup [status : {"received"}, conflict : {FALSE}, retry : {FALSE}] :
              req' = [req EXCEPT ![q].pc = "record", ![q].refusal = r]
      BY DEF Refuse
    <2>5. CASE Verdict(q, late) # "free"
      BY <2>1, <2>2, <2>4, <2>5
    <2>6. CASE Verdict(q, late) = "free"
      BY <2>3, <2>4, <2>6
    <2> QED
      BY <2>5, <2>6
  <1>5. req \in [Requests -> ReqType]
    BY DEF IInv, Typed
  <1> DEFINE new == [req[q] EXCEPT !.pc = "record", !.refusal = r]
  <1>6. req' = [req EXCEPT ![q] = new]
    BY <1>4, <1>5 DEF ReqType
  <1>7. new \in ReqType
    BY <1>4, <1>5 DEF ReqType, Steps
  <1>8. /\ new.pc = "record" /\ new.batch = req[q].batch /\ new.i = req[q].i
        /\ new.said = req[q].said /\ new.retry = req[q].retry /\ new.again = req[q].again
        /\ new.refusal = r
    BY <1>5 DEF ReqType
  <1> HIDE DEF new
  <1>9. /\ req' \in [Requests -> ReqType] /\ \A o \in Requests \ {q} : req'[o] = req[o]
        /\ req'[q] = new
    BY <1>5, <1>6, <1>7
  <1>10. Rows' /\ Kept(b) /\ NumberingInv'
    BY <1>2, SameRows, SameNumbers
  <1>11. UNCHANGED <<receipt, initial>>
    BY <1>2 DEF items
  <1>12. req[q].again <=> receipt[k].batch # b
    BY <1>1, <1>3 DEF IInv, Progress
  <1>13. \A j \in Keys : Waiting(j)' => Waiting(j)
    BY <1>11 DEF Waiting
  <1> QED
    BY <1>1, <1>2, <1>3, <1>4, <1>8, <1>9, <1>10, <1>11, <1>12, <1>13, MoveStep

\* The number of an item that is free to use was never applied; applying it keeps
\* the numbering in order.
LEMMA NumberUsed ==
  ASSUME IInv, NEW q \in Requests, Working(q), NEW n, n = Item(q).number,
         Verdict(q, FALSE) = "free",
         IF n = 0 THEN UNCHANGED used ELSE UseNumber(req[q].batch.device, n),
         UNCHANGED <<range, res, changes>>
  PROVE  /\ NumberingInv'
         /\ n # 0 => \A r \in Reservations : used[r][n] # "applied"
         /\ n # 0 => \E r \in Reservations : used'[r][n] = "applied"
         /\ \A r \in Reservations, m \in Numbers : used[r][m] = "applied" => used'[r][m] = "applied"
  <1>1. CASE n = 0
    <2>1. UNCHANGED numbering
      BY <1>1 DEF numbering
    <2> QED
      BY <1>1, <2>1, SameNumbers DEF numbering
  <1>2. CASE n # 0
    <2> DEFINE d == req[q].batch.device
    <2>1. n \in Numbers
      BY <1>2, Place, NumberingAssumption DEF Numbers
    <2>2. NumberVerdict(d, n, FALSE) = "free"
      BY <1>2 DEF Verdict
    <2>3. Cardinality(Covering(d, n)) = 1
      BY <2>2 DEF NumberVerdict
    <2>4. PICK r : r = CHOOSE x \in Covering(d, n) : TRUE
      OBVIOUS
    <2>5. /\ used[r][n] # "applied"
      BY <2>2, <2>3, <2>4 DEF NumberVerdict
    <2>6. r \in Reservations /\ Owned(r, n)
      BY <2>1, <2>3, <2>4, CoveringOne DEF IInv
    <2>7. used' = [used EXCEPT ![r][n] = "applied"]
      BY <1>2, <2>4 DEF UseNumber
    <2>8. /\ used \in [Reservations -> [Numbers -> {"none", "claimed", "applied"}]]
          /\ changes \in 0 .. MaxChanges
      BY DEF IInv, NumberingInv, NumberingTypeOK
    <2>9. /\ used' \in [Reservations -> [Numbers -> {"none", "claimed", "applied"}]]
          /\ used'[r][n] = "applied"
          /\ \A p \in Reservations, m \in Numbers :
               used'[p][m] = used[p][m] \/ (p = r /\ m = n /\ used'[p][m] = "applied")
      BY <2>1, <2>6, <2>7, <2>8
    <2>10. NumberingInv'
      BY <2>6, <2>8, <2>9, UsedInv DEF IInv
    <2>11. \A p \in Reservations : used[p][n] # "applied"
      <3>1. ASSUME NEW p \in Reservations, used[p][n] = "applied" PROVE FALSE
        <4>1. Owned(p, n)
          BY <2>1, <3>1 DEF IInv, NumberingInv, Numbered, Owned
        <4>2. p = r
          BY <2>1, <2>6, <4>1 DEF IInv, NumberingInv, Numbered
        <4> QED
          BY <2>5, <3>1, <4>2
      <3> QED
        BY <3>1
    <2> QED
      BY <2>6, <2>9, <2>10, <2>11
  <1> QED
    BY <1>1, <1>2

\* The committed application: the first effect of its item, and of its number.
LEMMA ApplyRows ==
  ASSUME IInv, NEW q \in Requests, Applying(q), Current(q), NEW k, k = Item(q).key,
         NEW pairs \in SUBSET Pairs, Apply(q, pairs), UNCHANGED <<range, res, changes>>, NEW b
  PROVE  /\ NumberingInv' /\ Rows' /\ Kept(b) /\ UNCHANGED initial
         /\ receipt'[k].status = IF k \in UNION pairs THEN "conflict" ELSE "applied"
         /\ receipt'[k].batch = receipt[k].batch
         /\ \E e \in effects' : e.key = k
         /\ \A j \in Keys : Waiting(j)' => Waiting(j) /\ j # k
  <1>1. /\ Working(q) /\ k \in Keys /\ receipt[k].status \in {"received", "pending"}
        /\ queue[k] # "absent" /\ \A e \in effects : e.key # k
    BY CurrentItem
  <1>2. PICK pair \in SUBSET Stored : pair = UNION pairs
    BY PairsStored
  <1>3. PICK n, s : /\ n = Item(q).number
                    /\ s = IF k \in pair THEN "conflict" ELSE "applied"
    OBVIOUS
  <1> DEFINE new == [key |-> k, number |-> n, by |-> q]
  <1>4. /\ Verdict(q, FALSE) = "free"
        /\ IF n = 0 THEN UNCHANGED used ELSE UseNumber(req[q].batch.device, n)
        /\ effects' = effects \cup {new}
        /\ receipt' = [Suspected(receipt, pair) EXCEPT
                         ![k].status = s, ![k].applied = TRUE, ![k].final = FALSE]
        /\ queue' = [j \in Keys |-> IF j \in pair THEN "conflict"
                                    ELSE IF j = k THEN "applied" ELSE queue[j]]
        /\ UNCHANGED initial
    BY <1>2, <1>3 DEF Apply
  <1>5. /\ NumberingInv'
        /\ n # 0 => \A r \in Reservations : used[r][n] # "applied"
        /\ n # 0 => \E r \in Reservations : used'[r][n] = "applied"
        /\ \A r \in Reservations, m \in Numbers : used[r][m] = "applied" => used'[r][m] = "applied"
    BY <1>1, <1>3, <1>4, NumberUsed
  <1>6. n \in 0 .. Last
    BY <1>1, <1>3, Place
  <1>7. new \in EffectType /\ new.key = k /\ new.number = n
    BY <1>1, <1>6 DEF EffectType
  <1>8. /\ queue' \in [Keys -> Statuses \cup {"absent"}]
        /\ \A j \in Keys : queue'[j] = "absent" <=> queue[j] = "absent"
    BY <1>1, <1>4, <1>2 DEF IInv, Typed, Statuses, Stored
  <1>9. s \in {"applied", "conflict"} /\ (k \in pair => s = "conflict")
    BY <1>3
  <1> HIDE DEF new
  <1>10. PICK row \in RowType :
          /\ row.status = s /\ row.status \in {"applied", "conflict"} /\ row.applied
          /\ row.batch = receipt[k].batch /\ row.hash = receipt[k].hash
          /\ receipt' = [Suspected(receipt, pair) EXCEPT ![k] = row]
    <2> DEFINE rows == Suspected(receipt, pair)
               row == [rows[k] EXCEPT !.status = s, !.applied = TRUE, !.final = FALSE]
    <2>1. /\ rows \in [Keys -> RowType]
          /\ rows[k].batch = receipt[k].batch /\ rows[k].hash = receipt[k].hash
      BY <1>1, <1>2, PairFacts
    <2>2. receipt' = [rows EXCEPT ![k].status = s, ![k].applied = TRUE, ![k].final = FALSE]
      BY <1>4
    <2> HIDE DEF rows
    <2>3. receipt' = [rows EXCEPT ![k] = row]
      BY <1>1, <2>1, <2>2 DEF RowType
    <2>4. /\ row \in RowType /\ row.status = s /\ row.applied
          /\ row.batch = receipt[k].batch /\ row.hash = receipt[k].hash
      BY <1>1, <1>9, <2>1 DEF RowType, Statuses
    <2> HIDE DEF row
    <2> QED
      BY <1>9, <2>3, <2>4 DEF rows
  <1>11. /\ receipt' \in [Keys -> RowType] /\ Received'
         /\ receipt'[k] = row
         /\ \A j \in Keys \ {k} :
              /\ receipt'[j].status = IF j \in pair THEN "conflict" ELSE receipt[j].status
              /\ receipt'[j].applied = receipt[j].applied
         /\ \A j \in Keys : receipt[j].status # "absent" =>
              receipt'[j].status # "absent" /\ receipt'[j].batch = receipt[j].batch
         /\ \A j \in Keys : Waiting(j)' => Waiting(j) /\ j # k
    <2>1. Decided(k, pair, row)
      BY <1>4, <1>8, <1>10 DEF Decided
    <2> QED
      BY <1>1, <1>10, <2>1, ItemRows
  <1>12. \A e \in effects : e.key \in Keys \ {k} /\ e.number \in 0 .. Last
    BY <1>1 DEF IInv, Typed, EffectType
  <1>13. Effective'
    <2>1. \A e \in effects :
            receipt'[e.key].status \in {"applied", "conflict"} /\ receipt'[e.key].applied
      BY <1>11, <1>12 DEF IInv, Effective
    <2>2. \A e \in effects : e.number # 0 => \E r \in Reservations : used'[r][e.number] = "applied"
      <3>1. \A e \in effects : e.number # 0 => e.number \in Numbers
        BY <1>12, NumberingAssumption DEF Numbers
      <3> QED
        BY <1>5, <3>1 DEF IInv, Effective
    <2>3. /\ receipt'[new.key].status \in {"applied", "conflict"} /\ receipt'[new.key].applied
          /\ new.number # 0 => \E r \in Reservations : used'[r][new.number] = "applied"
      <3>1. receipt'[new.key] = row
        BY <1>7, <1>11
      <3>2. receipt'[new.key].status \in {"applied", "conflict"} /\ receipt'[new.key].applied
        BY <1>10, <3>1
      <3>3. new.number # 0 => \E r \in Reservations : used'[r][new.number] = "applied"
        BY <1>5, <1>7
      <3> QED
        BY <3>2, <3>3
    <2>4. \A j \in Keys : receipt'[j].status = "applied" => \E e \in effects' : e.key = j
      <3>1. \A j \in Keys \ {k} : receipt'[j].status = "applied" => receipt[j].status = "applied"
        BY <1>11
      <3>2. new \in effects' /\ effects \subseteq effects'
        BY <1>4
      <3> QED
        BY <1>7, <3>1, <3>2 DEF IInv, Effective
    <2> QED
      BY <1>4, <2>1, <2>2, <2>3, <2>4 DEF Effective
  <1>14. AppliedOnce'
    <2>1. \A e \in effects : ~(e.key = new.key \/ (e.number = new.number /\ e.number # 0))
      BY <1>5, <1>7, <1>12 DEF IInv, Effective
    <2> QED
      BY <1>4, <2>1 DEF IInv, AppliedOnce
  <1>15. Rows'
    BY <1>4, <1>7, <1>8, <1>11, <1>13, <1>14 DEF IInv, Typed, Rows
  <1>16. Kept(b)
    BY <1>4, <1>11 DEF Kept
  <1> QED
    BY <1>1, <1>3, <1>4, <1>2, <1>5, <1>7, <1>10, <1>11, <1>15, <1>16

LEMMA ApplyItemInv ==
  ASSUME IInv, NEW q \in Requests, ApplyItem(q), UNCHANGED <<range, res, changes>>
  PROVE  IInv'
  <1>1. PICK k, b : k = Item(q).key /\ b = req[q].batch
    OBVIOUS
  <1>2. Applying(q) /\ Current(q) /\ UNCHANGED batch
    BY DEF ApplyItem
  <1>3. PICK pairs \in SUBSET Pairs :
          Apply(q, pairs) /\ Answered(q, IF k \in UNION pairs THEN "conflict" ELSE "applied", FALSE)
    BY <1>1 DEF ApplyItem
  <1>4. /\ Working(q) /\ Holds(q) /\ req[q].pc = "apply" /\ k \in Keys
    BY <1>1, <1>2, CurrentItem
  <1>5. /\ NumberingInv' /\ Rows' /\ Kept(b) /\ UNCHANGED initial
        /\ receipt'[k].status = IF k \in UNION pairs THEN "conflict" ELSE "applied"
        /\ \E e \in effects' : e.key = k
        /\ \A j \in Keys : Waiting(j)' => Waiting(j) /\ j # k
    BY <1>1, <1>2, <1>3, ApplyRows
  <1>6. PICK s \in Statuses : s = IF k \in UNION pairs THEN "conflict" ELSE "applied"
    BY DEF Statuses
  <1>7. receipt'[k].status # "absent" /\ Answered(q, s, FALSE)
    BY <1>3, <1>5, <1>6
  <1>8. ~Waiting(k)' /\ \A j \in Keys \ {k} : Waiting(j)' => Waiting(j)
    BY <1>4, <1>5
  <1>9. Kept(req[q].batch) /\ UNCHANGED <<batch, initial>>
    BY <1>1, <1>2, <1>5
  <1>10. NumberingInv' /\ Rows' /\ (s = "applied" => \E e \in effects' : e.key = k)
    BY <1>5
  <1> QED
    BY <1>1, <1>4, <1>7, <1>8, <1>9, <1>10, AnswerStep

\* A failure after the commit leaves the item applied or deferred; the request does
\* not know.
LEMMA FailInv ==
  ASSUME IInv, NEW q \in Requests, Fail(q), UNCHANGED <<range, res, changes>>
  PROVE  IInv'
  <1>1. PICK k, b : k = Item(q).key /\ b = req[q].batch
    OBVIOUS
  <1>2. Applying(q) /\ Current(q) /\ UNCHANGED batch
    BY DEF Fail
  <1>3. /\ Working(q) /\ Holds(q) /\ req[q].pc = "apply" /\ k \in Keys
        /\ receipt[k].status \in {"received", "pending"} /\ receipt[k].status = Expected(q)
    BY <1>1, <1>2, CurrentItem
  <1>4. /\ NumberingInv' /\ Rows' /\ Kept(b) /\ UNCHANGED initial
        /\ receipt'[k].status # "absent" /\ receipt'[k].batch = receipt[k].batch
        /\ \A j \in Keys : Waiting(j)' => Waiting(j)
    <2>1. CASE UNCHANGED <<items, used>>
      <3>1. UNCHANGED numbering
        BY <2>1 DEF numbering
      <3> QED
        BY <1>3, <2>1, <3>1, SameRows, SameNumbers DEF items, Waiting
    <2>2. CASE \E pairs \in SUBSET Pairs : Deferred(q, pairs) /\ UNCHANGED used
      <3>1. UNCHANGED numbering
        BY <2>2 DEF numbering
      <3> QED
        BY <1>1, <1>2, <2>2, <3>1, DeferRows
    <2>3. CASE \E pairs \in SUBSET Pairs : Apply(q, pairs)
      BY <1>1, <1>2, <2>3, ApplyRows
    <2> QED
      BY <2>1, <2>2, <2>3 DEF Fail
  <1>5. req \in [Requests -> ReqType]
    BY DEF IInv, Typed
  <1>6. PICK r \in [status : Statuses \cup {"none"}, conflict : BOOLEAN, retry : BOOLEAN] :
          r = [status |-> receipt[k].status, conflict |-> FALSE, retry |-> TRUE]
    BY <1>3 DEF Statuses
  <1>7. r.status \in {"received", "pending"} /\ r.status = receipt[k].status
    BY <1>3, <1>6
  <1> DEFINE new == [req[q] EXCEPT !.pc = "record", !.refusal = r]
  <1>8. req' = [req EXCEPT ![q] = new]
    <2>1. req' = [req EXCEPT ![q].pc = "record", ![q].refusal = r]
      BY <1>3, <1>6 DEF Fail
    <2> QED
      BY <1>5, <2>1 DEF ReqType
  <1>9. new \in ReqType
    BY <1>5 DEF ReqType, Steps
  <1>10. /\ new.pc = "record" /\ new.batch = req[q].batch /\ new.i = req[q].i
         /\ new.said = req[q].said /\ new.retry = req[q].retry /\ new.again = req[q].again
         /\ new.refusal = r
    BY <1>5 DEF ReqType
  <1> HIDE DEF new
  <1>11. /\ req' \in [Requests -> ReqType] /\ \A o \in Requests \ {q} : req'[o] = req[o]
         /\ req'[q] = new
    BY <1>5, <1>8, <1>9
  <1>12. Expected(q)' = Expected(q)
    BY <1>4, <1>10, <1>11 DEF Expected
  <1>13. req[q].again <=> receipt[k].batch # b
    BY <1>1, <1>3 DEF IInv, Progress
  <1> QED
    BY <1>1, <1>2, <1>3, <1>4, <1>7, <1>10, <1>11, <1>12, <1>13, MoveStep

\* The record of a failure: the receipt is written if it is as the request left it.
\* An item to retry waits only if its receipt is one of the batch of the request.
LEMMA RecordInv ==
  ASSUME IInv, NEW q \in Requests, Record(q), UNCHANGED numbering
  PROVE  IInv'
  <1>1. PICK k, b, r : k = Item(q).key /\ b = req[q].batch /\ r = req[q].refusal
    OBVIOUS
  <1> DEFINE stands == receipt[k].batch.device = b.device /\ receipt[k].status = Expected(q)
             written == [receipt[k] EXCEPT !.status = r.status, !.applied = FALSE,
                                           !.final = r.status = "received" /\ ~r.retry]
  <1>2. /\ req[q].pc = "record" /\ Holds(q) /\ Working(q)
        /\ receipt' = [receipt EXCEPT ![k] = IF stands THEN written ELSE receipt[k]]
        /\ queue' = [queue EXCEPT ![k] = IF r.retry THEN queue[k] ELSE r.status]
        /\ Answered(q, r.status, r.retry)
        /\ UNCHANGED <<batch, initial, effects>> /\ UNCHANGED used
    BY <1>1 DEF Record, Working, numbering
  <1>3. /\ receipt \in [Keys -> RowType] /\ queue \in [Keys -> Statuses \cup {"absent"}]
        /\ initial \in {"received", "pending"} /\ effects \subseteq EffectType
        /\ r \in [status : Statuses \cup {"none"}, conflict : BOOLEAN, retry : BOOLEAN]
    BY <1>1 DEF IInv, Typed, ReqType
  <1>4. k \in Keys /\ b \in Batches
    BY <1>1, <1>2, Place
  <1>5. /\ receipt[k].status # "absent"
        /\ req[q].again <=> receipt[k].batch # b
        /\ r.status \in {"received", "pending", "conflict", "rejected"}
        /\ r.retry => r.status = Expected(q)
    BY <1>1, <1>2 DEF IInv, Progress
  <1>6. /\ Expected(q) \in {"received", "pending"}
        /\ Expected(q) = "received" => ~req[q].again
        /\ ~req[q].again => Expected(q) = initial
    BY <1>3 DEF Expected
  <1>7. /\ written \in RowType /\ written.status = r.status /\ written.batch = receipt[k].batch
        /\ written.hash = receipt[k].hash
        /\ written.final <=> r.status = "received" /\ ~r.retry
    <2>1. PICK final \in BOOLEAN : final = (r.status = "received" /\ ~r.retry)
      OBVIOUS
    <2>2. written = [receipt[k] EXCEPT !.status = r.status, !.applied = FALSE, !.final = final]
      BY <2>1
    <2>3. receipt[k] \in RowType /\ r.status \in Statuses
      BY <1>3, <1>4, <1>5 DEF Statuses
    <2> QED
      BY <2>1, <2>2, <2>3 DEF RowType
  <1> HIDE DEF written
  <1>8. /\ receipt' \in [Keys -> RowType]
        /\ receipt'[k] = IF stands THEN written ELSE receipt[k]
        /\ \A j \in Keys \ {k} : receipt'[j] = receipt[j]
    BY <1>2, <1>3, <1>4, <1>7
  <1>9. /\ queue' \in [Keys -> Statuses \cup {"absent"}]
        /\ \A j \in Keys : queue'[j] = "absent" <=> queue[j] = "absent"
    <2>1. queue[k] # "absent"
      BY <1>4, <1>5 DEF IInv, Received
    <2> QED
      BY <1>2, <1>3, <1>4, <1>5, <2>1 DEF Statuses
  <1>10. \A j \in Keys :
           /\ receipt'[j].batch = receipt[j].batch /\ receipt'[j].hash = receipt[j].hash
           /\ receipt'[j].status = "absent" <=> receipt[j].status = "absent"
    <2>1. /\ receipt'[k].batch = receipt[k].batch /\ receipt'[k].hash = receipt[k].hash
          /\ receipt'[k].status # "absent"
      BY <1>5, <1>7, <1>8
    <2>2. ASSUME NEW j \in Keys \ {k}
          PROVE  /\ receipt'[j].batch = receipt[j].batch /\ receipt'[j].hash = receipt[j].hash
                 /\ receipt'[j].status = "absent" <=> receipt[j].status = "absent"
      BY <1>8
    <2> QED
      BY <1>5, <2>1, <2>2
  <1>11. \A j \in Keys \ {k} : Waiting(j)' => Waiting(j)
    BY <1>8 DEF Waiting
  <1>12. stands /\ Waiting(k)' => r.retry /\ initial = "received" /\ receipt[k].batch = b
    BY <1>4, <1>5, <1>6, <1>7, <1>8 DEF Waiting
  <1>13. ~stands /\ Waiting(k)' => Waiting(k) /\ receipt[k].batch # b
    <2> SUFFICES ASSUME ~stands, Waiting(k)' PROVE Waiting(k) /\ receipt[k].batch # b
      OBVIOUS
    <2>1. Waiting(k) /\ initial = "received"
      BY <1>4, <1>8 DEF Waiting, IInv, Received
    <2>2. receipt[k].batch = b => receipt[k].status = Expected(q)
      BY <1>5, <1>6, <2>1 DEF Waiting
    <2> QED
      BY <2>1, <2>2
  <1>14. Received'
    <2>1. \A j \in Keys : receipt'[j].status = "absent" <=> queue'[j] = "absent"
      BY <1>9, <1>10 DEF IInv, Received
    <2>2. ASSUME NEW j \in Keys, receipt'[j].status # "absent"
          PROVE  /\ receipt'[j].batch \in Batches
                 /\ \E i \in DOMAIN receipt'[j].batch.items :
                      /\ receipt'[j].batch.items[i].key = j
                      /\ receipt'[j].batch.items[i].hash = receipt'[j].hash
                      /\ \A f \in 1 .. (i - 1) : receipt'[j].batch.items[f].key # j
      <3>1. /\ receipt'[j].batch = receipt[j].batch /\ receipt'[j].hash = receipt[j].hash
            /\ receipt[j].status # "absent"
        BY <1>10, <2>2
      <3>2. /\ receipt[j].batch \in Batches
            /\ \E i \in DOMAIN receipt[j].batch.items :
                 /\ receipt[j].batch.items[i].key = j
                 /\ receipt[j].batch.items[i].hash = receipt[j].hash
                 /\ \A f \in 1 .. (i - 1) : receipt[j].batch.items[f].key # j
        BY <3>1 DEF IInv, Received
      <3> QED
        BY <3>1, <3>2
    <2>3. \A j \in Keys : Waiting(j)' => initial' = "received"
      BY <1>2, <1>4, <1>11, <1>12, <1>13 DEF IInv, Received
    <2> QED
      BY <2>1, <2>2, <2>3 DEF Received
  <1>15. Effective'
    <2>1. ASSUME stands PROVE \A e \in effects : e.key # k
      <3>1. receipt[k].status \notin {"applied", "conflict"}
        BY <1>6, <2>1
      <3> QED
        BY <1>4, <3>1, NotApplied
    <2>2. \A e \in effects : e.key \in Keys /\ receipt'[e.key] = receipt[e.key]
      <3>1. \A e \in effects : e.key \in Keys
        BY <1>3 DEF EffectType
      <3> QED
        BY <1>8, <2>1, <3>1
    <2>3. \A j \in Keys : receipt'[j].status = "applied" => receipt[j].status = "applied"
      BY <1>5, <1>7, <1>8
    <2> QED
      BY <1>2, <2>2, <2>3 DEF IInv, Effective
  <1>16. Rows'
    BY <1>2, <1>3, <1>8, <1>9, <1>14, <1>15 DEF IInv, AppliedOnce, Rows
  <1>17. Kept(b)
    <2>1. \A j \in Keys : Waiting(j)' => Waiting(j) \/ receipt'[j].batch = b
      BY <1>4, <1>10, <1>11, <1>12, <1>13
    <2> QED
      BY <1>2, <1>10, <2>1 DEF Kept
  <1>18. Waiting(k)' /\ receipt'[k].batch = b => r.retry
    BY <1>4, <1>10, <1>12, <1>13
  <1>19. r.status \in Statuses /\ r.status # "applied" /\ r.retry \in BOOLEAN
    BY <1>3, <1>5 DEF Statuses
  <1>20. receipt'[k].status # "absent"
    BY <1>4, <1>5, <1>10
  <1> QED
    BY <1>1, <1>2, <1>4, <1>11, <1>16, <1>17, <1>18, <1>19, <1>20, SameNumbers, AnswerStep

-----------------------------------------------------------------------------
(***************************************************************************)
(* The resolution of conflicts, the numbering, and the theorems            *)
(***************************************************************************)

\* An item returns to the queue only if it took no effect.
LEMMA ReturnInv ==
  ASSUME IInv, NEW k \in Keys, RetryAfterCorrection(k), UNCHANGED numbering
  PROVE  IInv'
  <1>1. /\ receipt' = [receipt EXCEPT ![k].status = "pending"]
        /\ queue' = [queue EXCEPT ![k] = "pending"]
        /\ UNCHANGED <<batch, req, initial, effects>> /\ UNCHANGED used
        /\ queue[k] = "conflict" /\ receipt[k].status = "conflict" /\ ~receipt[k].applied
    BY DEF RetryAfterCorrection, Returnable, resolution, numbering
  <1>2. /\ receipt \in [Keys -> RowType] /\ queue \in [Keys -> Statuses \cup {"absent"}]
        /\ effects \subseteq EffectType
    BY DEF IInv, Typed
  <1>3. /\ receipt' \in [Keys -> RowType] /\ queue' \in [Keys -> Statuses \cup {"absent"}]
    BY <1>1, <1>2 DEF RowType, Statuses
  <1>4. /\ receipt'[k].status = "pending" /\ receipt'[k].batch = receipt[k].batch
        /\ receipt'[k].hash = receipt[k].hash /\ queue'[k] = "pending"
        /\ \A j \in Keys \ {k} : receipt'[j] = receipt[j] /\ queue'[j] = queue[j]
    BY <1>1, <1>2 DEF RowType
  <1>5. \A e \in effects : e.key \in Keys \ {k}
    BY <1>1, <1>2 DEF IInv, Effective, EffectType
  <1>6. \A j \in Keys : Waiting(j)' => Waiting(j)
    BY <1>4 DEF Waiting
  <1>7. \A j \in Keys :
          /\ receipt'[j].batch = receipt[j].batch /\ receipt'[j].hash = receipt[j].hash
          /\ receipt'[j].status = "absent" <=> receipt[j].status = "absent"
    BY <1>1, <1>4
  <1>8. Received'
    <2>1. \A j \in Keys : receipt'[j].status = "absent" <=> queue'[j] = "absent"
      BY <1>4 DEF IInv, Received
    <2>2. ASSUME NEW j \in Keys, receipt'[j].status # "absent"
          PROVE  /\ receipt'[j].batch \in Batches
                 /\ \E i \in DOMAIN receipt'[j].batch.items :
                      /\ receipt'[j].batch.items[i].key = j
                      /\ receipt'[j].batch.items[i].hash = receipt'[j].hash
                      /\ \A f \in 1 .. (i - 1) : receipt'[j].batch.items[f].key # j
      <3>1. /\ receipt'[j].batch = receipt[j].batch /\ receipt'[j].hash = receipt[j].hash
            /\ receipt[j].status # "absent"
        BY <1>7, <2>2
      <3>2. /\ receipt[j].batch \in Batches
            /\ \E i \in DOMAIN receipt[j].batch.items :
                 /\ receipt[j].batch.items[i].key = j
                 /\ receipt[j].batch.items[i].hash = receipt[j].hash
                 /\ \A f \in 1 .. (i - 1) : receipt[j].batch.items[f].key # j
        BY <3>1 DEF IInv, Received
      <3> QED
        BY <3>1, <3>2
    <2>3. \A j \in Keys : Waiting(j)' => initial' = "received"
      BY <1>1, <1>6 DEF IInv, Received
    <2> QED
      BY <2>1, <2>2, <2>3 DEF Received
  <1>9. Effective'
    <2>1. \A j \in Keys : receipt'[j].status = "applied" => receipt[j].status = "applied"
      BY <1>4
    <2>2. \A e \in effects : receipt'[e.key] = receipt[e.key]
      BY <1>4, <1>5
    <2> QED
      BY <1>1, <2>1, <2>2 DEF IInv, Effective
  <1>10. Typed' /\ AppliedOnce'
    BY <1>1, <1>3 DEF IInv, Typed, AppliedOnce
  <1>11. Kept(None)
    BY <1>1, <1>6, <1>7 DEF Kept
  <1> QED
    BY <1>1, <1>8, <1>9, <1>10, <1>11, SameNumbers, StillStep

\* What was applied stays applied, whatever happens to the reservations.
LEMMA AppliedStays ==
  ASSUME IInv, NumberingNext
  PROVE  \A r \in Reservations, n \in Numbers : used[r][n] = "applied" => used'[r][n] = "applied"
  <1>1. used \in [Reservations -> [Numbers -> {"none", "claimed", "applied"}]]
    BY DEF IInv, NumberingInv, NumberingTypeOK
  <1>2. ASSUME NEW r \in Reservations, NEW claims \in SUBSET Interval(r), Reconcile(r, claims)
        PROVE  \A p \in Reservations, n \in Numbers :
                 used[p][n] = "applied" => used'[p][n] = "applied"
    <2>1. used' = [used EXCEPT ![r] = [n \in Numbers |->
                     IF n \in claims /\ used[r][n] = "none" THEN "claimed" ELSE used[r][n]]]
      BY <1>2 DEF Reconcile
    <2> QED
      BY <1>1, <2>1
  <1>3. CASE UNCHANGED used
    BY <1>3
  <1> QED
    BY <1>2, <1>3 DEF NumberingNext, Change, Reserve, Lapse, Cancel, Transition, CancelRange

LEMMA NumberingKeeps ==
  ASSUME IInv, NumberingNext, UNCHANGED submission
  PROVE  IInv'
  <1>1. UNCHANGED <<batch, receipt, queue, req, initial, effects>>
    BY DEF submission
  <1>2. \A e \in effects : e.number # 0 => e.number \in Numbers
    BY NumberingAssumption DEF IInv, Typed, EffectType, Numbers
  <1>3. Effective'
    BY <1>1, <1>2, AppliedStays DEF IInv, Effective
  <1>4. Typed' /\ AppliedOnce' /\ Received' /\ Kept(None)
    BY <1>1 DEF IInv, Typed, AppliedOnce, Received, Waiting, Kept
  <1>5. NumberingInv'
    BY NumberingStepInv DEF IInv
  <1> QED
    BY <1>1, <1>3, <1>4, <1>5, StillStep

\* A step that changes nothing the invariant speaks of.
LEMMA StutterInv ==
  ASSUME IInv, UNCHANGED numbering, UNCHANGED <<batch, receipt, queue, req, initial, effects>>
  PROVE  IInv'
  <1>1. Typed' /\ AppliedOnce' /\ Received' /\ Kept(None)
    BY DEF IInv, Typed, AppliedOnce, Received, Waiting, Kept
  <1>2. Effective'
    BY DEF IInv, Effective, numbering
  <1> QED
    BY <1>1, <1>2, SameNumbers, StillStep

LEMMA InitInv == Init => IInv
  <1> SUFFICES ASSUME Init PROVE IInv
    OBVIOUS
  <1>1. NumberingInv
    BY NumberingInitInv DEF Init
  <1>2. NoBatch \in BatchType
    BY DEF NoBatch, BatchType
  <1>3. NoReceipt \in RowType
    BY NumberingAssumption DEF NoReceipt, RowType
  <1>4. Idle \in ReqType
    BY FreshType DEF Steps
  <1>5. Typed
    BY <1>2, <1>3, <1>4 DEF Init, Typed
  <1>6. \A k \in Keys : receipt[k].status = "absent" /\ queue[k] = "absent"
    BY DEF Init, NoReceipt
  <1>7. Received /\ Effective /\ AppliedOnce
    BY <1>6 DEF Init, Received, Waiting, Effective, AppliedOnce
  <1>8. \A q \in Requests : req[q].pc = "idle"
    BY DEF Init, Idle
  <1>9. \A q \in Requests : Progress(q) /\ Swept(q)
    BY <1>8 DEF Progress, Swept, Working
  <1>10. \A b \in Batches : batch[b].status = "absent"
    BY DEF Init, NoBatch
  <1>11. ClosedBatchSettled
    BY <1>10 DEF ClosedBatchSettled
  <1> QED
    BY <1>1, <1>5, <1>7, <1>9, <1>11 DEF IInv

(***************************************************************************)
(* The inductive invariant holds in every state: no crash, takeover of a   *)
(* lease, failed or lost commit, resolution of a conflict or change of a   *)
(* reservation leads out of it.                                            *)
(***************************************************************************)
THEOREM Invariance == Spec => []IInv
  <1>1. IInv /\ [Next]_vars => IInv'
    <2> SUFFICES ASSUME IInv, [Next]_vars PROVE IInv'
      OBVIOUS
    <2>1. CASE NumberingNext /\ UNCHANGED submission
      BY <2>1, NumberingKeeps
    <2>2. ASSUME NEW q \in Requests, SubmissionStep(q), UNCHANGED numbering PROVE IInv'
      BY <2>2, OpenInv, WaitInv, PreflightInv, DuplicateInv, DeferInv, RefuseInv, RecordInv,
         CloseInv, AbortInv DEF SubmissionStep
    <2>3. ASSUME NEW k \in Keys, RetryAfterCorrection(k), UNCHANGED numbering PROVE IInv'
      BY <2>3, ReturnInv
    <2>4. ASSUME NEW k \in Keys, Resolve(k), UNCHANGED numbering PROVE IInv'
      BY <2>4, StutterInv DEF Resolve, resolution
    <2>5. ASSUME NEW q \in Requests, ApplyItem(q) \/ Fail(q), UNCHANGED <<range, res, changes>>
          PROVE  IInv'
      BY <2>5, ApplyItemInv, FailInv
    <2>6. CASE UNCHANGED vars
      BY <2>6, StutterInv DEF vars, submission
    <2> QED
      BY <2>1, <2>2, <2>3, <2>4, <2>5, <2>6 DEF Next
  <1> QED
    BY InitInv, <1>1, PTL DEF Spec

(***************************************************************************)
(* An official number belongs to one reservation and is applied at most    *)
(* once, however reservations are cancelled and their tails handed out     *)
(* again.                                                                  *)
(***************************************************************************)
THEOREM NumberCorrect == Spec => []OfficialNumberOnce
  <1>1. IInv => OfficialNumberOnce
    BY NumberedOnce DEF IInv
  <1> QED
    BY <1>1, Invariance, PTL

(***************************************************************************)
(* An item takes effect once, whatever batches carry its key, whoever      *)
(* takes a lease over and whatever a failed transaction left.              *)
(***************************************************************************)
THEOREM AppliedCorrect == Spec => []AppliedOnce
  <1>1. IInv => AppliedOnce
    BY DEF IInv
  <1> QED
    BY <1>1, Invariance, PTL

(***************************************************************************)
(* A closed batch left nothing to be done: what it answers as applied took *)
(* effect, and no item it stored waits for a submission.                   *)
(***************************************************************************)
THEOREM SettledCorrect == Spec => []ClosedBatchSettled
  <1>1. IInv => ClosedBatchSettled
    BY DEF IInv
  <1> QED
    BY <1>1, Invariance, PTL
=============================================================================
