---------------------------- MODULE OutboxProofs ----------------------------
(***************************************************************************)
(* Proofs about the outbox, for every value of its constants.  Of          *)
(* OutboxDelivery: the safety properties of the delivery projection and    *)
(* its ledgers, from one inductive invariant, and that the component       *)
(* implements AggregateQueue.  Of OutboxCutover: the properties of the     *)
(* migration, from an inductive invariant of its own, because the ledgers  *)
(* of migrated events do not satisfy the first one.                        *)
(***************************************************************************)
EXTENDS OutboxCutover, TLAPS

\* Only events of the log have a delivery row, only delivery rows have been
\* attempted, a held claim is one of the attempts made, and a finished row has
\* no schedule: what the other parts need to be preserved by each step.
Shape ==
  /\ \A e \in Event : status[e] # "NONE" => e <= Len(events)
  /\ \A e \in Event : attempts[e] > 0 => status[e] # "NONE"
  /\ \A d \in Dispatchers : \A c \in batch[d] : c[2] <= attempts[c[1]]
  /\ \A e \in Event : status[e] \in Finished => next[e] = NULL

IInv ==
  /\ TypeOK
  /\ Shape
  /\ AggregateOrder
  /\ AttemptOwnership
  /\ LedgerComplete
  /\ SentHasLease
  /\ AckNotLost
  /\ ErrorExplained
  /\ RetirementReceipts

USE DEF NextOrdinal, Finished, Open, Statuses, AckStatuses, Results

\* The initial state satisfies the inductive invariant.
LEMMA InitIInv == Init => IInv
  <1> SUFFICES ASSUME Init PROVE IInv
    OBVIOUS
  <1> USE OutboxAssumption DEF Init, Event, Ordinal
  <1>1. TypeOK
    BY DEF TypeOK
  <1>2. Shape
    BY DEF Shape
  <1>3. AggregateOrder
    BY DEF AggregateOrder
  <1>4. AttemptOwnership
    BY DEF AttemptOwnership
  <1>5. LedgerComplete
    BY DEF LedgerComplete
  <1>6. SentHasLease /\ AckNotLost /\ ErrorExplained
    BY DEF SentHasLease, AckNotLost, ErrorExplained
  <1>7. RetirementReceipts
    BY DEF RetirementReceipts
  <1> QED
    BY <1>1, <1>2, <1>3, <1>4, <1>5, <1>6, <1>7 DEF IInv

\* Appending an event preserves the inductive invariant: the new event is the
\* last of its aggregate and has no attempt.
LEMMA AppendIInv ==
  ASSUME IInv, NEW a \in Aggregates, AppendInTransaction(a)
  PROVE  IInv'
  <1> DEFINE new == Len(events) + 1
  <1>1. /\ events' \in Seq(Aggregates)
        /\ Len(events) \in Nat /\ Len(events') = Len(events) + 1
        /\ new \in Event /\ new = Len(events) + 1
        /\ \A e \in 1 .. Len(events) : events'[e] = events[e]
    BY OutboxAssumption DEF IInv, TypeOK, AppendInTransaction, Event
  <1>2. status[new] = "NONE" /\ attempts[new] = 0
    BY <1>1, OutboxAssumption DEF IInv, TypeOK, Shape, Event
  <1>3. /\ status' \in [Event -> Statuses]
        /\ status'[new] \in {"NONE", "PENDING"}
        /\ \A e \in Event : e # new => status'[e] = status[e]
    BY <1>1, <1>2 DEF IInv, TypeOK, AppendInTransaction
  <1>4. UNCHANGED <<attempts, lease, next, ledger, acks, receipts, quarantine, batch, stage>>
    BY DEF AppendInTransaction, sweep
  <1>5. Event \subseteq Int /\ \A e \in Event : e >= 1 /\ e <= MaxEvents
    BY OutboxAssumption DEF Event
  <1> HIDE DEF new
  <1>6. TypeOK'
    BY <1>1, <1>3, <1>4, <1>5, OutboxAssumption DEF IInv, TypeOK
  <1>7. Shape'
    <2>1. ASSUME NEW e \in Event, status'[e] # "NONE" PROVE e <= Len(events')
      BY <2>1, <1>1, <1>3, <1>5 DEF IInv, Shape
    <2>2. ASSUME NEW e \in Event, attempts'[e] > 0 PROVE status'[e] # "NONE"
      BY <2>2, <1>2, <1>3, <1>4 DEF IInv, Shape
    <2>3. ASSUME NEW e \in Event, status'[e] \in Finished PROVE next'[e] = NULL
      BY <2>3, <1>3, <1>4 DEF IInv, Shape
    <2> QED
      BY <1>4, <2>1, <2>2, <2>3 DEF IInv, Shape
  <1>8. AggregateOrder'
    <2> SUFFICES ASSUME NEW e \in 1 .. Len(events'), attempts'[e] > 0,
                        NEW p \in 1 .. (e - 1), events'[p] = events'[e]
                 PROVE  status'[p] \notin Open
      BY DEF AggregateOrder, Earlier
    <2>1. e # new
      BY <1>2, <1>4
    <2>2. e \in 1 .. Len(events) /\ p \in 1 .. Len(events) /\ p \in Event /\ p # new
      BY <1>1, <2>1, OutboxAssumption DEF Event
    <2> QED
      BY <1>1, <1>3, <1>4, <2>2 DEF IInv, AggregateOrder, Earlier
  <1>9. AttemptOwnership' /\ LedgerComplete'
    BY <1>4 DEF IInv, AttemptOwnership, LedgerComplete
  <1>10. SentHasLease' /\ AckNotLost' /\ ErrorExplained'
    BY <1>1, <1>2, <1>3, <1>4 DEF IInv, SentHasLease, AckNotLost, ErrorExplained
  <1>11. RetirementReceipts'
    BY <1>1, <1>2, <1>3, <1>4 DEF IInv, RetirementReceipts
  <1> QED
    BY <1>6, <1>7, <1>8, <1>9, <1>10, <1>11 DEF IInv

\* Events and ordinals are integers, and every event of the log is a slot.
LEMMA Indices ==
  ASSUME TypeOK
  PROVE  /\ Event \subseteq Int /\ Ordinal \subseteq Int
         /\ Len(events) \in Nat /\ 1 .. Len(events) \subseteq Event
         /\ \A e \in 1 .. Len(events) : Earlier(e) \subseteq Event
  BY OutboxAssumption DEF TypeOK, Event, Ordinal, Earlier

\* A held claim names an attempt made.
LEMMA HeldClaims ==
  ASSUME IInv, NEW d \in Dispatchers, NEW c \in batch[d]
  PROVE  c[1] \in Event /\ c[2] \in Ordinal /\ c[2] <= attempts[c[1]]
  BY DEF IInv, TypeOK, Shape, Claims

\* Aggregate order survives any step that adds no attempt and opens nothing.
LEMMA OrderPreserved ==
  ASSUME IInv, UNCHANGED <<events, attempts>>,
         \A e \in Event : status'[e] \in Open => status[e] \in Open
  PROVE  AggregateOrder'
  BY Indices DEF IInv, AggregateOrder, Earlier

\* A claim preserves the inductive invariant: the rows it takes are heads of
\* their aggregates, and the ordinals it hands out were never used.
LEMMA ClaimIInv ==
  ASSUME IInv, NEW d \in Dispatchers, NEW S \in SUBSET Event, ClaimDue(d, S)
  PROVE  IInv'
  <1>1. /\ Event \subseteq Int /\ Ordinal \subseteq Int
        /\ \A e \in S : /\ Due(e) /\ status[e] \in Open
                        /\ attempts[e] + 1 \in Ordinal
    BY Indices, OutboxAssumption DEF IInv, TypeOK, ClaimDue, Due, Ordinal
  <1>2. /\ status' = [e \in Event |-> IF e \in S THEN "SENT" ELSE status[e]]
        /\ attempts' = [e \in Event |-> IF e \in S THEN attempts[e] + 1 ELSE attempts[e]]
        /\ lease' = [e \in Event |-> IF e \in S THEN Lease ELSE lease[e]]
        /\ next' = [e \in Event |-> IF e \in S THEN NULL ELSE next[e]]
    BY DEF ClaimDue
  <1>3. ledger' = [e \in Event |-> [n \in Ordinal |->
                    IF e \in S /\ n = attempts[e] + 1 /\ ledger[e][n] = "NONE"
                    THEN "CLAIMED" ELSE ledger[e][n]]]
    BY DEF ClaimDue
  <1>4. /\ batch[d] = {}
        /\ batch' = [batch EXCEPT ![d] = {<<e, attempts[e] + 1>> : e \in S}]
        /\ UNCHANGED <<events, acks, receipts, quarantine, stage>>
    BY DEF ClaimDue
  <1>5. /\ batch'[d] = {<<e, attempts[e] + 1>> : e \in S}
        /\ \A o \in Dispatchers \ {d} : batch'[o] = batch[o]
    BY <1>4 DEF IInv, TypeOK
  <1>6. \A e \in Event : attempts[e] \in Nat
    BY DEF IInv, TypeOK
  <1>7. TypeOK'
    <2>1. attempts' \in [Event -> 0 .. MaxAttempts]
      BY <1>1, <1>2, OutboxAssumption DEF IInv, TypeOK, Ordinal
    <2>2. ledger' \in [Event -> [Ordinal -> Results]]
      BY <1>3 DEF IInv, TypeOK
    <2>3. batch' \in [Dispatchers -> SUBSET Claims]
      BY <1>1, <1>4 DEF IInv, TypeOK, Claims
    <2>4. /\ status' \in [Event -> Statuses]
          /\ lease' \in [Event -> Int \cup {NULL}]
          /\ next' \in [Event -> Nat \cup {NULL}]
      BY <1>2, OutboxAssumption DEF IInv, TypeOK
    <2> QED
      BY <1>4, <2>1, <2>2, <2>3, <2>4 DEF IInv, TypeOK
  <1>8. Shape'
    <2>1. ASSUME NEW o \in Dispatchers, NEW c \in batch'[o]
          PROVE  c[2] <= attempts'[c[1]]
      <3>1. CASE o = d
        <4>1. PICK e \in S : c = <<e, attempts[e] + 1>>
          BY <1>5, <3>1, <2>1
        <4> QED
          BY <1>2, <1>6, <4>1
      <3>2. CASE o # d
        <4>1. c[1] \in Event /\ c[2] \in Int /\ c[2] <= attempts[c[1]]
          BY <1>1, <1>5, <3>2, <2>1, HeldClaims
        <4> QED
          BY <1>2, <1>6, <4>1
      <3> QED
        BY <3>1, <3>2
    <2> QED
      BY <1>1, <1>2, <1>4, <1>6, <2>1 DEF IInv, Shape
  <1>9. AggregateOrder'
    <2> SUFFICES ASSUME NEW e \in 1 .. Len(events), attempts'[e] > 0, NEW p \in Earlier(e)
                 PROVE  status'[p] \notin Open
      BY <1>4 DEF AggregateOrder, Earlier
    <2>1. e \in Event /\ p \in Event
      BY Indices DEF IInv
    <2>2. status[p] \notin Open
      BY <1>1, <1>2, <2>1 DEF IInv, AggregateOrder, Due
    <2> QED
      BY <1>1, <1>2, <2>1, <2>2
  <1>10. AttemptOwnership'
    <2> SUFFICES ASSUME NEW o \in Dispatchers, NEW c \in batch'[o]
                 PROVE  /\ ledger'[c[1]][c[2]] = "CLAIMED"
                        /\ \A q \in Dispatchers \ {o} : c \notin batch'[q]
      BY DEF AttemptOwnership
    <2>1. \A q \in Dispatchers : \A b \in batch[q] :
            b[1] \in Event /\ b[2] \in Ordinal /\ b[2] <= attempts[b[1]]
      BY HeldClaims
    <2>2. CASE o = d
      <3>1. PICK e \in S : c = <<e, attempts[e] + 1>>
        BY <1>5, <2>2
      <3>2. ledger[e][attempts[e] + 1] = "NONE"
        BY <1>1, <1>6 DEF IInv, LedgerComplete
      <3>3. ledger'[c[1]][c[2]] = "CLAIMED"
        BY <1>1, <1>3, <3>1, <3>2
      <3>4. \A q \in Dispatchers \ {d} : c \notin batch[q]
        BY <1>6, <2>1, <3>1
      <3> QED
        BY <1>5, <2>2, <3>3, <3>4
    <2>3. CASE o # d
      <3>1. c \in batch[o] /\ c[1] \in Event /\ c[2] \in Ordinal /\ c[2] <= attempts[c[1]]
        BY <1>5, <2>1, <2>3
      <3>2. ledger[c[1]][c[2]] = "CLAIMED" /\ \A q \in Dispatchers \ {o} : c \notin batch[q]
        BY <3>1 DEF IInv, AttemptOwnership
      <3>3. c \notin batch'[d]
        BY <1>1, <1>5, <1>6, <3>1
      <3> QED
        BY <1>3, <1>5, <3>1, <3>2, <3>3
    <2> QED
      BY <2>2, <2>3
  <1>11. LedgerComplete'
    BY <1>1, <1>2, <1>3, <1>6 DEF IInv, LedgerComplete
  <1>12. SentHasLease' /\ AckNotLost'
    BY <1>1, <1>2, <1>4, OutboxAssumption DEF IInv, SentHasLease, AckNotLost
  <1>13. ErrorExplained'
    <2> SUFFICES ASSUME NEW e \in Event, status'[e] = "ERROR", "ERROR" \notin acks[e]
                 PROVE  attempts'[e] > 0 /\ ledger'[e][attempts'[e]] = "ERROR"
      BY <1>4 DEF ErrorExplained
    <2>1. e \notin S /\ status[e] = "ERROR" /\ attempts'[e] = attempts[e]
      BY <1>2
    <2>2. attempts[e] > 0 /\ ledger[e][attempts[e]] = "ERROR" /\ attempts[e] \in Ordinal
      BY <2>1, OutboxAssumption DEF IInv, TypeOK, ErrorExplained, Ordinal
    <2> QED
      BY <1>3, <2>1, <2>2
  <1>14. RetirementReceipts'
    BY <1>1, <1>2, <1>4 DEF IInv, RetirementReceipts
  <1> QED
    BY <1>7, <1>8, <1>9, <1>10, <1>11, <1>12, <1>13, <1>14 DEF IInv

\* A step of a sweep that only drops claims and touches no table preserves the
\* inductive invariant.
LEMMA SweepOnlyIInv ==
  ASSUME IInv, UNCHANGED <<events, delivery, ledger, acks, receipts, quarantine>>,
         stage' \in [Dispatchers -> {"ready", "sent", "failed"}],
         batch' \in [Dispatchers -> SUBSET Claims],
         \A o \in Dispatchers : batch'[o] \subseteq batch[o]
  PROVE  IInv'
  <1> USE DEF delivery
  <1>1. TypeOK'
    BY DEF IInv, TypeOK
  <1>2. Shape'
    BY DEF IInv, Shape
  <1>3. AggregateOrder'
    BY OrderPreserved
  <1>4. AttemptOwnership'
    BY DEF IInv, AttemptOwnership
  <1>5. LedgerComplete' /\ SentHasLease' /\ AckNotLost' /\ ErrorExplained' /\ RetirementReceipts'
    BY DEF IInv, LedgerComplete, SentHasLease, AckNotLost, ErrorExplained, RetirementReceipts
  <1> QED
    BY <1>1, <1>2, <1>3, <1>4, <1>5 DEF IInv

\* What Drop leaves of the sweeps.
LEMMA DropEffect ==
  ASSUME IInv, NEW d \in Dispatchers, NEW c \in batch[d], Drop(d, c)
  PROVE  /\ stage' \in [Dispatchers -> {"ready", "sent", "failed"}]
         /\ batch' \in [Dispatchers -> SUBSET Claims]
         /\ \A o \in Dispatchers : batch'[o] \subseteq batch[o]
         /\ c \notin batch'[d]
  BY DEF IInv, TypeOK, Drop

\* Skipping an entity without port, sending, giving up after a failed
\* persistence and crashing preserve the inductive invariant.
LEMMA SweepStepsIInv ==
  ASSUME IInv, NEW d \in Dispatchers,
         \/ Crash(d)
         \/ \E c \in batch[d] : \/ SkipWithoutPort(d, c)
                                \/ Transport(d, c, "sent")
                                \/ Transport(d, c, "failed")
                                \/ LeaveUnresolved(d, c)
  PROVE  IInv'
  <1>1. CASE Crash(d)
    BY <1>1, SweepOnlyIInv DEF Crash, IInv, TypeOK
  <1>2. ASSUME NEW c \in batch[d], SkipWithoutPort(d, c) \/ LeaveUnresolved(d, c)
        PROVE  IInv'
    BY <1>2, DropEffect, SweepOnlyIInv DEF SkipWithoutPort, LeaveUnresolved
  <1>3. ASSUME NEW c \in batch[d], Transport(d, c, "sent") \/ Transport(d, c, "failed")
        PROVE  IInv'
    BY <1>3, SweepOnlyIInv DEF Transport, IInv, TypeOK
  <1> QED
    BY <1>1, <1>2, <1>3

\* Completing the attempt a sweep holds disturbs no other held attempt and
\* keeps the ledger complete.
LEMMA CompleteAttempt ==
  ASSUME IInv, NEW d \in Dispatchers, NEW c \in batch[d], NEW r \in {"SENT", "ERROR"},
         Drop(d, c), UNCHANGED attempts,
         ledger' = [ledger EXCEPT ![c[1]][c[2]] = r]
  PROVE  /\ ledger' \in [Event -> [Ordinal -> Results]]
         /\ ledger'[c[1]][c[2]] = r
         /\ \A e \in Event, n \in Ordinal : <<e, n>> # c => ledger'[e][n] = ledger[e][n]
         /\ AttemptOwnership' /\ LedgerComplete'
  <1>1. c[1] \in Event /\ c[2] \in Ordinal /\ c[2] <= attempts[c[1]] /\ c = <<c[1], c[2]>>
    BY HeldClaims DEF IInv, TypeOK, Claims
  <1>2. ledger' \in [Event -> [Ordinal -> Results]] /\ ledger'[c[1]][c[2]] = r
    BY <1>1 DEF IInv, TypeOK
  <1>3. \A e \in Event, n \in Ordinal : e # c[1] \/ n # c[2] => ledger'[e][n] = ledger[e][n]
    BY <1>1 DEF IInv, TypeOK
  <1>4. LedgerComplete'
    BY <1>1, <1>2, <1>3 DEF IInv, LedgerComplete
  <1>5. AttemptOwnership'
    <2> SUFFICES ASSUME NEW o \in Dispatchers, NEW b \in batch'[o]
                 PROVE  /\ ledger'[b[1]][b[2]] = "CLAIMED"
                        /\ \A q \in Dispatchers \ {o} : b \notin batch'[q]
      BY DEF AttemptOwnership
    <2>1. b \in batch[o]
      BY DropEffect
    <2>2. b # c
      BY <2>1, DropEffect DEF IInv, AttemptOwnership
    <2>3. b[1] \in Event /\ b[2] \in Ordinal /\ b = <<b[1], b[2]>>
      BY <2>1, HeldClaims DEF IInv, TypeOK, Claims
    <2>4. ledger'[b[1]][b[2]] = ledger[b[1]][b[2]]
      BY <1>1, <1>3, <2>2, <2>3
    <2> QED
      BY <2>1, <2>4, DropEffect DEF IInv, AttemptOwnership
  <1> QED
    BY <1>1, <1>2, <1>3, <1>4, <1>5

\* Persisting a successful send preserves the inductive invariant: only the
\* owner of a SENT projection renews its lease.
LEMMA RecordSentIInv ==
  ASSUME IInv, NEW d \in Dispatchers, NEW c \in batch[d], RecordSent(d, c)
  PROVE  IInv'
  <1>1. /\ UNCHANGED <<events, status, attempts, next, acks, receipts, quarantine>>
        /\ Drop(d, c)
        /\ ledger' = [ledger EXCEPT ![c[1]][c[2]] = "SENT"]
        /\ c[1] \in Event /\ c[2] \in Ordinal
    BY HeldClaims DEF RecordSent
  <1>2. /\ lease' \in [Event -> Int \cup {NULL}]
        /\ \A e \in Event : lease'[e] = lease[e] \/ (status[e] = "SENT" /\ lease'[e] # NULL)
    <2>1. /\ lease \in [Event -> Int \cup {NULL}] /\ Lease \in Int /\ Lease # NULL
          /\ lease' = IF Owns(c) THEN [lease EXCEPT ![c[1]] = Lease] ELSE lease
      BY OutboxAssumption DEF RecordSent, IInv, TypeOK
    <2>2. CASE status[c[1]] = "SENT" /\ lease' = [lease EXCEPT ![c[1]] = Lease]
      BY <1>1, <2>1, <2>2
    <2>3. CASE lease' = lease
      BY <2>1, <2>3
    <2> QED
      BY <2>1, <2>2, <2>3 DEF Owns
  <1>3. /\ ledger' \in [Event -> [Ordinal -> Results]]
        /\ \A e \in Event, n \in Ordinal : <<e, n>> # c => ledger'[e][n] = ledger[e][n]
        /\ AttemptOwnership' /\ LedgerComplete'
    BY <1>1, CompleteAttempt
  <1>4. TypeOK'
    BY <1>1, <1>2, <1>3, DropEffect DEF IInv, TypeOK
  <1>5. Shape'
    BY <1>1, DropEffect DEF IInv, Shape
  <1>6. AggregateOrder'
    BY <1>1, OrderPreserved
  <1>7. SentHasLease' /\ AckNotLost' /\ RetirementReceipts'
    BY <1>1, <1>2 DEF IInv, SentHasLease, AckNotLost, RetirementReceipts
  <1>8. ErrorExplained'
    <2> SUFFICES ASSUME NEW e \in Event, status[e] = "ERROR", "ERROR" \notin acks[e]
                 PROVE  attempts[e] > 0 /\ ledger'[e][attempts[e]] = "ERROR"
      BY <1>1 DEF ErrorExplained
    <2>1. attempts[e] > 0 /\ ledger[e][attempts[e]] = "ERROR" /\ attempts[e] \in Ordinal
      BY OutboxAssumption DEF IInv, TypeOK, ErrorExplained, Ordinal
    <2>2. <<e, attempts[e]>> # c
      BY <2>1 DEF IInv, AttemptOwnership
    <2> QED
      BY <1>3, <2>1, <2>2
  <1> QED
    BY <1>3, <1>4, <1>5, <1>6, <1>7, <1>8 DEF IInv

\* Persisting a failed send preserves the inductive invariant: a superseded
\* attempt leaves the projection alone.
LEMMA RecordFailureIInv ==
  ASSUME IInv, NEW d \in Dispatchers, NEW c \in batch[d], NEW delay \in Backoffs,
         RecordFailure(d, c, delay)
  PROVE  IInv'
  <1>1. /\ UNCHANGED <<events, attempts, acks, receipts, quarantine>>
        /\ Drop(d, c)
        /\ ledger' = [ledger EXCEPT ![c[1]][c[2]] = "ERROR"]
        /\ c[1] \in Event /\ c[2] \in Ordinal
    BY HeldClaims DEF RecordFailure
  <1>2. /\ status' \in [Event -> Statuses]
        /\ lease' \in [Event -> Int \cup {NULL}]
        /\ next' \in [Event -> Nat \cup {NULL}]
    <2>1. /\ status \in [Event -> Statuses] /\ lease \in [Event -> Int \cup {NULL}]
          /\ next \in [Event -> Nat \cup {NULL}] /\ delay \in Nat
      BY OutboxAssumption DEF IInv, TypeOK
    <2>2. CASE Owns(c)
      BY <1>1, <2>1, <2>2 DEF RecordFailure
    <2>3. CASE ~Owns(c)
      BY <2>1, <2>3 DEF RecordFailure
    <2> QED
      BY <2>2, <2>3
  <1>3. \A e \in Event :
          \/ status'[e] = status[e] /\ lease'[e] = lease[e] /\ next'[e] = next[e]
          \/ /\ e = c[1] /\ attempts[e] = c[2] /\ status[e] = "SENT"
             /\ status'[e] = "ERROR" /\ lease'[e] = NULL
    BY <1>1 DEF RecordFailure, Owns, IInv, TypeOK
  <1>4. /\ ledger' \in [Event -> [Ordinal -> Results]]
        /\ ledger'[c[1]][c[2]] = "ERROR"
        /\ \A e \in Event, n \in Ordinal : <<e, n>> # c => ledger'[e][n] = ledger[e][n]
        /\ AttemptOwnership' /\ LedgerComplete'
    BY <1>1, CompleteAttempt
  <1>5. TypeOK'
    BY <1>1, <1>2, <1>4, DropEffect DEF IInv, TypeOK
  <1>6. Shape'
    BY <1>1, <1>3, DropEffect DEF IInv, Shape
  <1>7. AggregateOrder'
    BY <1>1, <1>3, OrderPreserved
  <1>8. SentHasLease' /\ AckNotLost' /\ RetirementReceipts'
    BY <1>1, <1>3 DEF IInv, SentHasLease, AckNotLost, RetirementReceipts
  <1>9. ErrorExplained'
    <2> SUFFICES ASSUME NEW e \in Event, status'[e] = "ERROR", "ERROR" \notin acks[e]
                 PROVE  attempts[e] > 0 /\ ledger'[e][attempts[e]] = "ERROR"
      BY <1>1 DEF ErrorExplained
    <2>1. CASE e = c[1] /\ attempts[e] = c[2]
      BY <1>1, <1>4, <2>1, OutboxAssumption DEF Ordinal
    <2>2. CASE ~(e = c[1] /\ attempts[e] = c[2])
      <3>1. status[e] = "ERROR" /\ <<e, attempts[e]>> # c
        BY <1>3, <2>2
      <3>2. attempts[e] > 0 /\ ledger[e][attempts[e]] = "ERROR" /\ attempts[e] \in Ordinal
        BY <3>1, OutboxAssumption DEF IInv, TypeOK, ErrorExplained, Ordinal
      <3> QED
        BY <1>4, <3>1, <3>2
    <2> QED
      BY <2>1, <2>2
  <1> QED
    BY <1>4, <1>5, <1>6, <1>7, <1>8, <1>9 DEF IInv

\* A verified ACK preserves the inductive invariant.
LEMMA AckIInv ==
  ASSUME IInv, NEW e \in Event, NEW s \in AckStatuses, NEW delay \in Backoffs,
         status[e] # "NONE", ApplyAck(e, s, delay)
  PROVE  IInv'
  <1>1. UNCHANGED <<events, attempts, ledger, receipts, quarantine, batch, stage>>
    BY DEF ApplyAck, sweep
  <1>2. /\ status' \in [Event -> Statuses]
        /\ lease' \in [Event -> Int \cup {NULL}]
        /\ next' \in [Event -> Nat \cup {NULL}]
        /\ acks' \in [Event -> SUBSET AckStatuses]
    <2>1. /\ status \in [Event -> Statuses] /\ lease \in [Event -> Int \cup {NULL}]
          /\ next \in [Event -> Nat \cup {NULL}] /\ acks \in [Event -> SUBSET AckStatuses]
          /\ delay \in Nat
      BY OutboxAssumption DEF IInv, TypeOK
    <2>2. acks' \in [Event -> SUBSET AckStatuses]
      BY <2>1 DEF ApplyAck
    <2>3. CASE status[e] \in Finished
      BY <2>1, <2>2, <2>3 DEF ApplyAck
    <2>4. CASE status[e] \notin Finished
      BY <2>1, <2>2, <2>4 DEF ApplyAck
    <2> QED
      BY <2>3, <2>4
  <1>3. /\ \A f \in Event \ {e} : /\ status'[f] = status[f] /\ lease'[f] = lease[f]
                                  /\ next'[f] = next[f] /\ acks'[f] = acks[f]
        /\ acks'[e] = acks[e] \cup {s}
        /\ \/ /\ status[e] \in Finished /\ status'[e] = status[e]
              /\ lease'[e] = lease[e] /\ next'[e] = next[e]
           \/ /\ status[e] \in Open /\ status'[e] = s /\ lease'[e] = NULL
              /\ s = "ACKED" => next'[e] = NULL
    BY DEF ApplyAck, IInv, TypeOK
  <1>4. TypeOK'
    BY <1>1, <1>2 DEF IInv, TypeOK
  <1>5. Shape'
    BY <1>1, <1>3 DEF IInv, Shape
  <1>6. AggregateOrder'
    BY <1>1, <1>3, OrderPreserved
  <1>7. AttemptOwnership' /\ LedgerComplete'
    BY <1>1 DEF IInv, AttemptOwnership, LedgerComplete
  <1>8. SentHasLease' /\ AckNotLost' /\ ErrorExplained' /\ RetirementReceipts'
    BY <1>1, <1>3 DEF IInv, SentHasLease, AckNotLost, ErrorExplained, RetirementReceipts
  <1> QED
    BY <1>4, <1>5, <1>6, <1>7, <1>8 DEF IInv

\* An operator retry preserves the inductive invariant.
LEMMA RetryIInv ==
  ASSUME IInv, NEW e \in Event, NEW immediate \in BOOLEAN, NEW delay \in Backoffs,
         RetryEvent(e, immediate, delay)
  PROVE  IInv'
  <1>1. UNCHANGED <<events, attempts, ledger, acks, receipts, quarantine, batch, stage>>
    BY DEF RetryEvent, sweep
  <1>2. next' \in [Event -> Nat \cup {NULL}]
    BY OutboxAssumption DEF RetryEvent, IInv, TypeOK
  <1>3. /\ status' \in [Event -> Statuses]
        /\ lease' \in [Event -> Int \cup {NULL}]
        /\ \A f \in Event \ {e} : /\ status'[f] = status[f] /\ lease'[f] = lease[f]
                                  /\ next'[f] = next[f]
        /\ status[e] = "ERROR" /\ status'[e] = "PENDING" /\ lease'[e] = NULL
    BY DEF RetryEvent, IInv, TypeOK
  <1>4. TypeOK'
    BY <1>1, <1>2, <1>3 DEF IInv, TypeOK
  <1>5. Shape'
    BY <1>1, <1>3 DEF IInv, Shape
  <1>6. AggregateOrder'
    BY <1>1, <1>3, OrderPreserved
  <1>7. AttemptOwnership' /\ LedgerComplete'
    BY <1>1 DEF IInv, AttemptOwnership, LedgerComplete
  <1>8. SentHasLease' /\ AckNotLost' /\ ErrorExplained' /\ RetirementReceipts'
    BY <1>1, <1>3 DEF IInv, SentHasLease, AckNotLost, ErrorExplained, RetirementReceipts
  <1> QED
    BY <1>4, <1>5, <1>6, <1>7, <1>8 DEF IInv

\* A retirement preserves the inductive invariant: its key and its event had
\* no receipt.
LEMMA RetireIInv ==
  ASSUME IInv, NEW e \in Event, NEW k \in RetireKeys, RetireEvent(e, k)
  PROVE  IInv'
  <1> DEFINE r == [event |-> e, key |-> k, previous |-> status[e]]
  <1>1. /\ UNCHANGED <<events, attempts, ledger, acks, quarantine, batch, stage>>
        /\ receipts' = receipts \cup {r} /\ status[e] \in Open
        /\ \A q \in receipts : q.event # e /\ q.key # k
    BY DEF RetireEvent, sweep
  <1>2. r \in Receipt /\ r.event = e /\ r.key = k
    BY <1>1 DEF Receipt
  <1>3. /\ status' \in [Event -> Statuses]
        /\ lease' \in [Event -> Int \cup {NULL}]
        /\ next' \in [Event -> Nat \cup {NULL}]
        /\ \A f \in Event \ {e} : /\ status'[f] = status[f] /\ lease'[f] = lease[f]
                                  /\ next'[f] = next[f]
        /\ status'[e] = "RETIRED" /\ lease'[e] = NULL /\ next'[e] = NULL
    BY DEF RetireEvent, IInv, TypeOK
  <1> HIDE DEF r
  <1>4. TypeOK'
    BY <1>1, <1>2, <1>3 DEF IInv, TypeOK
  <1>5. Shape'
    BY <1>1, <1>3 DEF IInv, Shape
  <1>6. AggregateOrder'
    BY <1>1, <1>3, OrderPreserved
  <1>7. AttemptOwnership' /\ LedgerComplete'
    BY <1>1 DEF IInv, AttemptOwnership, LedgerComplete
  <1>8. SentHasLease' /\ AckNotLost' /\ ErrorExplained'
    BY <1>1, <1>3 DEF IInv, SentHasLease, AckNotLost, ErrorExplained
  <1>9. RetirementReceipts'
    BY <1>1, <1>2, <1>3 DEF IInv, RetirementReceipts
  <1> QED
    BY <1>4, <1>5, <1>6, <1>7, <1>8, <1>9 DEF IInv

\* The passage of time preserves the inductive invariant.
LEMMA TickIInv ==
  ASSUME IInv, Tick
  PROVE  IInv'
  <1>1. UNCHANGED <<events, status, attempts, ledger, acks, receipts, quarantine, batch, stage>>
    BY DEF Tick, sweep
  <1>2. /\ lease' \in [Event -> Int \cup {NULL}]
        /\ next' \in [Event -> Nat \cup {NULL}]
        /\ \A e \in Event : (lease'[e] = NULL <=> lease[e] = NULL) /\ (next[e] = NULL => next'[e] = NULL)
    BY OutboxAssumption DEF Tick, IInv, TypeOK
  <1>3. TypeOK'
    BY <1>1, <1>2 DEF IInv, TypeOK
  <1>4. Shape'
    BY <1>1, <1>2 DEF IInv, Shape
  <1>5. AggregateOrder'
    BY <1>1, OrderPreserved
  <1>6. AttemptOwnership' /\ LedgerComplete'
    BY <1>1 DEF IInv, AttemptOwnership, LedgerComplete
  <1>7. SentHasLease' /\ AckNotLost' /\ ErrorExplained' /\ RetirementReceipts'
    BY <1>1, <1>2 DEF IInv, SentHasLease, AckNotLost, ErrorExplained, RetirementReceipts
  <1> QED
    BY <1>3, <1>4, <1>5, <1>6, <1>7 DEF IInv

\* Every step preserves the inductive invariant.
LEMMA NextIInv ==
  ASSUME IInv, [Next]_vars
  PROVE  IInv'
  <1>1. ASSUME NEW a \in Aggregates, AppendInTransaction(a) PROVE IInv'
    BY <1>1, AppendIInv
  <1>2. ASSUME NEW d \in Dispatchers, DispatchStep(d) PROVE IInv'
    BY <1>2, ClaimIInv, SweepStepsIInv, RecordSentIInv, RecordFailureIInv DEF DispatchStep
  <1>3. ASSUME NEW e \in Event, NEW s \in AckStatuses, NEW delay \in Backoffs,
               AckTenantEvent(e, s, delay) \/ AckEvent(e, s, delay)
        PROVE  IInv'
    BY <1>3, AckIInv DEF AckTenantEvent, AckEvent
  <1>4. ASSUME NEW reason \in UnboundReasons, RecordUnboundAck(reason) PROVE IInv'
    <2>1. /\ UNCHANGED <<events, status, attempts, lease, next, ledger, acks, receipts, batch, stage>>
          /\ quarantine' \subseteq UnboundReasons
      BY <1>4 DEF RecordUnboundAck, delivery, sweep, IInv, TypeOK
    <2>2. TypeOK' /\ Shape' /\ AggregateOrder'
      BY <2>1, OrderPreserved DEF IInv, TypeOK, Shape
    <2>3. AttemptOwnership' /\ LedgerComplete' /\ SentHasLease'
      BY <2>1 DEF IInv, AttemptOwnership, LedgerComplete, SentHasLease
    <2>4. AckNotLost' /\ ErrorExplained' /\ RetirementReceipts'
      BY <2>1 DEF IInv, AckNotLost, ErrorExplained, RetirementReceipts
    <2> QED
      BY <2>2, <2>3, <2>4 DEF IInv
  <1>5. ASSUME NEW e \in Event, NEW immediate \in BOOLEAN, NEW delay \in Backoffs,
               RetryEvent(e, immediate, delay)
        PROVE  IInv'
    BY <1>5, RetryIInv
  <1>6. ASSUME NEW e \in Event, NEW k \in RetireKeys, RetireEvent(e, k) PROVE IInv'
    BY <1>6, RetireIInv
  <1>7. CASE Tick
    BY <1>7, TickIInv
  <1>8. CASE UNCHANGED vars
    <2>1. /\ UNCHANGED <<events, delivery, ledger, acks, receipts, quarantine>>
          /\ UNCHANGED <<batch, stage>>
      BY <1>8 DEF vars, sweep
    <2> QED
      BY <2>1, SweepOnlyIInv DEF IInv, TypeOK
  <1> QED
    BY <1>1, <1>2, <1>3, <1>4, <1>5, <1>6, <1>7, <1>8 DEF Next

\* The inductive invariant holds in every reachable state.
THEOREM Invariance == Spec => []IInv
  BY InitIInv, NextIInv, PTL DEF Spec

\* Every variable keeps its type, whatever the constants.
THEOREM TypeCorrect == Spec => []TypeOK
  <1>1. IInv => TypeOK
    BY DEF IInv
  <1> QED
    BY <1>1, Invariance, PTL

\* Events of an aggregate are handed over in order: the claim query never
\* takes an event past an unfinished predecessor.
THEOREM OrderCorrect == Spec => []AggregateOrder
  <1>1. IInv => AggregateOrder
    BY DEF IInv
  <1> QED
    BY <1>1, Invariance, PTL

\* The attempt ledger records exactly the claims made.
THEOREM LedgerCorrect == Spec => []LedgerComplete
  <1>1. IInv => LedgerComplete
    BY DEF IInv
  <1> QED
    BY <1>1, Invariance, PTL

\* Each held attempt belongs to one sweep, which is the first to complete it.
THEOREM OwnershipCorrect == Spec => []AttemptOwnership
  <1>1. IInv => AttemptOwnership
    BY DEF IInv
  <1> QED
    BY <1>1, Invariance, PTL

\* A SENT delivery can always be reclaimed: it has a lease to run out.
THEOREM LeaseCorrect == Spec => []SentHasLease
  <1>1. IInv => SentHasLease
    BY DEF IInv
  <1> QED
    BY <1>1, Invariance, PTL

\* A positive ACK survives late outcomes, negative ACKs and retries.
THEOREM OutcomeCorrect == Spec => []AckNotLost
  <1>1. IInv => AckNotLost
    BY DEF IInv
  <1> QED
    BY <1>1, Invariance, PTL

\* ERROR has a cause on record, which is no superseded attempt.
THEOREM ErrorCorrect == Spec => []ErrorExplained
  <1>1. IInv => ErrorExplained
    BY DEF IInv
  <1> QED
    BY <1>1, Invariance, PTL

\* Exactly the retired deliveries have a receipt, whatever keys operators use.
THEOREM ReceiptsCorrect == Spec => []RetirementReceipts
  <1>1. IInv => RetirementReceipts
    BY DEF IInv
  <1> QED
    BY <1>1, Invariance, PTL
-----------------------------------------------------------------------------
(* Action properties. *)

\* What any step other than an append or a claim may do to the projection: at
\* most one open delivery moves, to another open status, to ACKED with the ACK
\* on record, or to RETIRED when no lease is active.
OneDeliveryMoves ==
  /\ UNCHANGED <<events, attempts>>
  /\ \E e \in Event :
       /\ \A f \in Event \ {e} : status'[f] = status[f]
       /\ \/ status'[e] = status[e]
          \/ status[e] \in Open /\ status'[e] \in Open
          \/ status[e] \in Open /\ status'[e] = "ACKED" /\ "ACKED" \in acks'[e]
          \/ status[e] \in Open /\ status'[e] = "RETIRED" /\ ~LeaseActive(e)

\* Every step appends, claims, moves one delivery, or leaves the log, the
\* projection and the attempts alone.
LEMMA StepKinds ==
  ASSUME TypeOK, [Next]_vars
  PROVE  \/ \E a \in Aggregates : AppendInTransaction(a)
         \/ \E d \in Dispatchers, S \in SUBSET Event : ClaimDue(d, S)
         \/ OneDeliveryMoves
         \/ UNCHANGED <<events, status, attempts>>
  <1>1. ASSUME NEW d \in Dispatchers, DispatchStep(d),
               ~(\E S \in SUBSET Event : ClaimDue(d, S))
        PROVE  OneDeliveryMoves \/ UNCHANGED <<events, status, attempts>>
    <2>1. ASSUME NEW c \in batch[d], NEW delay \in Backoffs, RecordFailure(d, c, delay)
          PROVE  OneDeliveryMoves \/ UNCHANGED <<events, status, attempts>>
      <3>1. c[1] \in Event /\ status \in [Event -> Statuses]
        BY DEF TypeOK, Claims
      <3> QED
        BY <2>1, <3>1 DEF RecordFailure, Owns, OneDeliveryMoves
    <2> QED
      BY <1>1, <2>1 DEF DispatchStep, SkipWithoutPort, Transport, RecordSent,
                        LeaveUnresolved, Crash, delivery
  <1>2. ASSUME NEW e \in Event, NEW s \in AckStatuses, NEW delay \in Backoffs,
               AckTenantEvent(e, s, delay) \/ AckEvent(e, s, delay)
        PROVE  OneDeliveryMoves
    <2>1. status \in [Event -> Statuses] /\ acks \in [Event -> SUBSET AckStatuses]
      BY DEF TypeOK
    <2> QED
      BY <1>2, <2>1 DEF AckTenantEvent, AckEvent, ApplyAck, OneDeliveryMoves
  <1>3. ASSUME NEW e \in Event, NEW immediate \in BOOLEAN, NEW delay \in Backoffs,
               RetryEvent(e, immediate, delay)
        PROVE  OneDeliveryMoves
    BY <1>3 DEF RetryEvent, OneDeliveryMoves, TypeOK
  <1>4. ASSUME NEW e \in Event, NEW k \in RetireKeys, RetireEvent(e, k) PROVE OneDeliveryMoves
    BY <1>4 DEF RetireEvent, OneDeliveryMoves, TypeOK
  <1>5. ASSUME (\E reason \in UnboundReasons : RecordUnboundAck(reason)) \/ Tick \/ UNCHANGED vars
        PROVE  UNCHANGED <<events, status, attempts>>
    BY <1>5 DEF RecordUnboundAck, Tick, vars, delivery
  <1> QED
    BY <1>1, <1>2, <1>3, <1>4, <1>5 DEF Next

\* A finished delivery keeps a null lease and a null schedule in every step.
LEMMA FinishedSchedule ==
  ASSUME IInv, [Next]_vars, NEW e \in Event, status[e] \in Finished
  PROVE  status'[e] = status[e] /\ attempts'[e] = attempts[e] /\ lease'[e] = NULL /\ next'[e] = NULL
  <1>1. status'[e] = status[e] /\ attempts'[e] = attempts[e]
    <2>1. ASSUME NEW a \in Aggregates, AppendInTransaction(a)
          PROVE  status'[e] = status[e] /\ attempts'[e] = attempts[e]
      <3>1. e # Len(events) + 1
        BY Indices DEF IInv, Shape
      <3> QED
        BY <2>1, <3>1 DEF AppendInTransaction, IInv, TypeOK
    <2>2. ASSUME NEW d \in Dispatchers, NEW S \in SUBSET Event, ClaimDue(d, S)
          PROVE  status'[e] = status[e] /\ attempts'[e] = attempts[e]
      BY <2>2 DEF ClaimDue, Due
    <2> QED
      BY <2>1, <2>2, StepKinds DEF IInv, OneDeliveryMoves
  <1>2. IInv'
    BY NextIInv
  <1> QED
    BY <1>1, <1>2 DEF IInv, SentHasLease, Shape

\* ACKED and RETIRED deliveries never change again.
THEOREM FinalCorrect == Spec => FinishedIsFinal
  <1>1. IInv /\ [Next]_vars =>
          [\A e \in Event : status[e] \in Finished =>
             /\ status'[e] = status[e] /\ attempts'[e] = attempts[e]
             /\ lease'[e] = NULL /\ next'[e] = NULL]_vars
    BY FinishedSchedule
  <1> QED
    BY <1>1, Invariance, PTL DEF Spec, FinishedIsFinal

\* No step rewrites the result of a completed attempt: a sweep completes only
\* attempts it holds, which are still CLAIMED, and a claim takes a fresh ordinal.
THEOREM EvidenceCorrect == Spec => EvidenceImmutable
  <1>1. ASSUME IInv, [Next]_vars, NEW e \in Event, NEW n \in Ordinal,
               ledger[e][n] \in {"SENT", "ERROR"}
        PROVE  ledger'[e][n] = ledger[e][n]
    <2>1. ASSUME NEW d \in Dispatchers, NEW S \in SUBSET Event, ClaimDue(d, S)
          PROVE  ledger'[e][n] = ledger[e][n]
      BY <1>1, <2>1 DEF ClaimDue
    <2>2. ASSUME NEW d \in Dispatchers, NEW c \in batch[d],
                 RecordSent(d, c) \/ \E delay \in Backoffs : RecordFailure(d, c, delay)
          PROVE  ledger'[e][n] = ledger[e][n]
      <3>1. <<e, n>> # c
        BY <1>1 DEF IInv, AttemptOwnership
      <3> QED
        BY <1>1, <2>2, <3>1, CompleteAttempt DEF RecordSent, RecordFailure
    <2>3. CASE UNCHANGED ledger
      BY <2>3
    <2> QED
      BY <1>1, <2>1, <2>2, <2>3
      DEF Next, AppendInTransaction, DispatchStep, SkipWithoutPort, Transport, LeaveUnresolved,
          Crash, AckTenantEvent, AckEvent, ApplyAck, RecordUnboundAck, RetryEvent, RetireEvent,
          Tick, vars
  <1>2. IInv /\ [Next]_vars =>
          [\A e \in Event, n \in Ordinal :
             ledger[e][n] \in {"SENT", "ERROR"} => ledger'[e][n] = ledger[e][n]]_vars
    BY <1>1
  <1> QED
    BY <1>2, Invariance, PTL DEF Spec, EvidenceImmutable

\* While its lease is active a delivery is finished only by a positive ACK.
THEOREM LeasedCorrect == Spec => LeasedOnlyAckFinishes
  <1>1. ASSUME IInv, [Next]_vars, NEW e \in Event, LeaseActive(e), status'[e] \in Finished
        PROVE  "ACKED" \in acks'[e] /\ status'[e] = "ACKED"
    <2>1. status[e] = "SENT"
      BY <1>1 DEF IInv, SentHasLease, LeaseActive
    <2>2. ASSUME NEW a \in Aggregates, AppendInTransaction(a) PROVE FALSE
      BY <1>1, <2>1, <2>2 DEF AppendInTransaction, IInv, TypeOK
    <2>3. ASSUME NEW d \in Dispatchers, NEW S \in SUBSET Event, ClaimDue(d, S) PROVE FALSE
      BY <1>1, <2>1, <2>3 DEF ClaimDue
    <2> QED
      BY <1>1, <2>1, <2>2, <2>3, StepKinds DEF IInv, OneDeliveryMoves
  <1>2. IInv /\ [Next]_vars =>
          [\A e \in Event : LeaseActive(e) /\ status'[e] \in Finished
             => "ACKED" \in acks'[e] /\ status'[e] = "ACKED"]_vars
    BY <1>1
  <1> QED
    BY <1>2, Invariance, PTL DEF Spec, LeasedOnlyAckFinishes
-----------------------------------------------------------------------------
(* The refinement of AggregateQueue. *)

Outcome == [e \in Event |-> IF status[e] \in Open THEN "OPEN" ELSE status[e]]
Handed == {e \in Event : attempts[e] > 0}

\* The event mode of the outbox implements the abstract queue: every step is a
\* Publish, a Hand of heads, the one Settle of an event, or invisible.
THEOREM QueueCorrect == Spec => ImplementsQueue
  <1>1. Init => Queue!QueueInit
    BY OutboxAssumption DEF Init, Queue!QueueInit, Queue!Slot, Event
  <1>2. ASSUME IInv, [Next]_vars
        PROVE  Queue!QueueNext \/ UNCHANGED <<events, Outcome, Handed>>
    <2>1. ASSUME NEW a \in Aggregates, AppendInTransaction(a)
          PROVE  Queue!QueueNext
      <3> DEFINE new == Len(events) + 1
                 o == IF a \in Dispatchable THEN "OPEN" ELSE "NONE"
      <3>1. new \in Event /\ status[new] = "NONE" /\ status \in [Event -> Statuses]
        BY <1>2, <2>1, Indices, OutboxAssumption
           DEF IInv, TypeOK, Shape, AppendInTransaction, Event
      <3>2. Outcome' = [Outcome EXCEPT ![new] = o] /\ UNCHANGED Handed
        BY <2>1, <3>1 DEF AppendInTransaction, Outcome, Handed
      <3>3. Queue!Publish(a, o)
        BY <2>1, <3>2 DEF AppendInTransaction, Queue!Publish, Outcome, Handed
      <3> QED
        BY <3>3 DEF Queue!QueueNext
    <2>2. ASSUME NEW d \in Dispatchers, NEW S \in SUBSET Event, ClaimDue(d, S)
          PROVE  Queue!QueueNext
      <3>1. UNCHANGED <<events, Outcome>>
        BY <2>2 DEF ClaimDue, Due, Outcome
      <3>2. Handed' = Handed \cup S
        BY <1>2, <2>2 DEF ClaimDue, Handed, IInv, TypeOK
      <3>3. \A e \in S : Outcome[e] = "OPEN" /\ Queue!AtHead(e)
        <4> SUFFICES ASSUME NEW e \in S PROVE Outcome[e] = "OPEN" /\ Queue!AtHead(e)
          OBVIOUS
        <4>1. status[e] \in Open /\ \A p \in Earlier(e) : status[p] \notin Open
          BY <2>2 DEF ClaimDue, Due
        <4>2. e \in Event /\ \A p \in 1 .. (e - 1) : p \in Event
          BY OutboxAssumption DEF Event
        <4>3. \A p \in Event : status[p] # "OPEN"
          BY <1>2 DEF IInv, TypeOK
        <4> QED
          BY <4>1, <4>2, <4>3 DEF Outcome, Queue!AtHead, Earlier
      <3>4. Queue!Hand(S)
        BY <3>1, <3>2, <3>3 DEF Queue!Hand, Outcome, Handed
      <3> QED
        BY <3>4 DEF Queue!QueueNext, Queue!Slot, Event
    <2>3. CASE OneDeliveryMoves
      <3>1. PICK e \in Event :
              /\ \A f \in Event \ {e} : status'[f] = status[f]
              /\ \/ status'[e] = status[e]
                 \/ status[e] \in Open /\ status'[e] \in Open
                 \/ status[e] \in Open /\ status'[e] \in {"ACKED", "RETIRED"}
        BY <2>3 DEF OneDeliveryMoves
      <3>2. UNCHANGED <<events, Handed>>
        BY <2>3 DEF OneDeliveryMoves, Handed
      <3>3. CASE status'[e] = status[e] \/ (status'[e] \in Open /\ status[e] \in Open)
        BY <3>1, <3>2, <3>3 DEF Outcome
      <3>4. CASE status[e] \in Open /\ status'[e] \in {"ACKED", "RETIRED"}
        <4>1. PICK o \in {"ACKED", "RETIRED"} : status'[e] = o
          BY <3>4
        <4>2. Outcome[e] = "OPEN" /\ Outcome' = [Outcome EXCEPT ![e] = o]
          BY <3>1, <3>4, <4>1 DEF Outcome
        <4>3. Queue!Settle(e, o)
          BY <3>2, <4>2 DEF Queue!Settle, Outcome, Handed
        <4> QED
          BY <4>3 DEF Queue!QueueNext, Queue!Slot, Event
      <3> QED
        BY <3>1, <3>3, <3>4
    <2>4. CASE UNCHANGED <<events, status, attempts>>
      BY <2>4 DEF Outcome, Handed
    <2> QED
      BY <1>2, <2>1, <2>2, <2>3, <2>4, StepKinds DEF IInv
  <1>3. IInv /\ [Next]_vars => [Queue!QueueNext]_(Queue!qvars)
    BY <1>2 DEF Queue!qvars, Outcome, Handed
  <1> QED
    BY <1>1, <1>3, Invariance, PTL DEF Spec, ImplementsQueue, Queue!QueueSpec
-----------------------------------------------------------------------------
(* The cutover. *)

\* What an event-mode step needs to know of the migrated rows: only events of
\* the log have a delivery row or a claim of a sweep, and a linked message has
\* an event with a delivery row.
Rows ==
  /\ \A e \in Event : status[e] # "NONE" => e <= Len(events)
  /\ \A e \in Event : e > Len(events) => attempts[e] <= base[e]
  /\ \A m \in Message : link[m] # 0 => link[m] <= Len(events) /\ status[link[m]] # "NONE"

\* Before the cutover no message is linked, there is room for all of them in
\* the log, and the queue has every message with a row.
Unmigrated ==
  owner = "LEGACY" =>
    /\ \A m \in Message : link[m] = 0
    /\ Len(events) + Len(queue) <= MaxEvents
    /\ \A i \in 1 .. Len(queue) : mstatus[queue[i]] # "NONE"
    /\ \A m \in Message : mstatus[m] # "NONE" => \E i \in 1 .. Len(queue) : queue[i] = m

\* The legacy calls under way: a retry ends before the cutover, and a retry
\* or a send is about a message with a row.
Calls ==
  /\ reading # NULL => /\ owner = "LEGACY"
                       /\ reading[2] < MaxAttempts /\ mstatus[reading[1]] # "NONE"
  /\ \A p \in Senders : \A c \in inflight[p] : mstatus[c[1]] # "NONE"

CutoverInv ==
  /\ CutoverTypeOK
  /\ Rows
  /\ Unmigrated
  /\ Calls
  /\ NoStrandedMessage
  /\ UnresolvedUntilOutcome
  /\ AckCarriedOver
  /\ MigratedOrder

\* Every event-mode step keeps the types of its variables.
LEMMA TypeStep ==
  ASSUME TypeOK, [Next]_vars
  PROVE  TypeOK'
  <1> USE DEF delivery, sweep
  <1>0. /\ status \in [Event -> Statuses] /\ lease \in [Event -> Int \cup {NULL}]
        /\ next \in [Event -> Nat \cup {NULL}] /\ acks \in [Event -> SUBSET AckStatuses]
        /\ ledger \in [Event -> [Ordinal -> Results]]
        /\ batch \in [Dispatchers -> SUBSET Claims]
        /\ stage \in [Dispatchers -> {"ready", "sent", "failed"}]
    BY DEF TypeOK
  <1>1. ASSUME NEW a \in Aggregates, AppendInTransaction(a) PROVE TypeOK'
    <2>1. /\ events' \in Seq(Aggregates) /\ Len(events') <= MaxEvents
          /\ Len(events) + 1 \in Event
      BY <1>1, OutboxAssumption DEF TypeOK, AppendInTransaction, Event
    <2>2. status' \in [Event -> Statuses]
      BY <1>0, <1>1, <2>1 DEF AppendInTransaction
    <2> QED
      BY <1>1, <2>1, <2>2 DEF TypeOK, AppendInTransaction
  <1>2. ASSUME NEW d \in Dispatchers, NEW S \in SUBSET Event, ClaimDue(d, S) PROVE TypeOK'
    <2>1. \A e \in S : attempts[e] + 1 \in Ordinal
      BY <1>2, OutboxAssumption DEF TypeOK, ClaimDue, Ordinal
    <2>2. attempts' \in [Event -> 0 .. MaxAttempts]
      BY <1>2, <2>1, OutboxAssumption DEF TypeOK, ClaimDue, Ordinal
    <2>3. ledger' \in [Event -> [Ordinal -> Results]]
      BY <1>0, <1>2 DEF ClaimDue
    <2>4. batch' \in [Dispatchers -> SUBSET Claims]
      BY <1>0, <1>2, <2>1 DEF ClaimDue, Claims
    <2>5. /\ status' \in [Event -> Statuses] /\ lease' \in [Event -> Int \cup {NULL}]
          /\ next' \in [Event -> Nat \cup {NULL}]
      BY <1>0, <1>2, OutboxAssumption DEF ClaimDue
    <2> QED
      BY <1>2, <2>2, <2>3, <2>4, <2>5 DEF TypeOK, ClaimDue
  <1>3. ASSUME NEW d \in Dispatchers, NEW c \in batch[d], Drop(d, c)
        PROVE  /\ batch' \in [Dispatchers -> SUBSET Claims]
               /\ stage' \in [Dispatchers -> {"ready", "sent", "failed"}]
               /\ c[1] \in Event /\ c[2] \in Ordinal
    BY <1>0, <1>3 DEF Drop, Claims
  <1>4. ASSUME NEW d \in Dispatchers, NEW c \in batch[d],
               SkipWithoutPort(d, c) \/ LeaveUnresolved(d, c)
        PROVE  TypeOK'
    BY <1>3, <1>4 DEF TypeOK, SkipWithoutPort, LeaveUnresolved
  <1>5. ASSUME NEW d \in Dispatchers, NEW c \in batch[d],
               Transport(d, c, "sent") \/ Transport(d, c, "failed")
        PROVE  TypeOK'
    BY <1>5 DEF TypeOK, Transport
  <1>6. ASSUME NEW d \in Dispatchers, Crash(d) PROVE TypeOK'
    BY <1>6 DEF TypeOK, Crash
  <1>7. ASSUME NEW d \in Dispatchers, NEW c \in batch[d], RecordSent(d, c) PROVE TypeOK'
    <2>1. c[1] \in Event /\ c[2] \in Ordinal
      BY <1>3, <1>7 DEF RecordSent
    <2>2. ledger' \in [Event -> [Ordinal -> Results]]
      BY <1>0, <1>7, <2>1 DEF RecordSent
    <2>3. lease' \in [Event -> Int \cup {NULL}]
      BY <1>0, <1>7, <2>1, OutboxAssumption DEF RecordSent
    <2> QED
      BY <1>3, <1>7, <2>2, <2>3 DEF TypeOK, RecordSent
  <1>8. ASSUME NEW d \in Dispatchers, NEW c \in batch[d], NEW delay \in Backoffs,
               RecordFailure(d, c, delay)
        PROVE  TypeOK'
    <2>1. c[1] \in Event /\ c[2] \in Ordinal /\ delay \in Nat
      BY <1>3, <1>8, OutboxAssumption DEF RecordFailure
    <2>2. ledger' \in [Event -> [Ordinal -> Results]]
      BY <1>0, <1>8, <2>1 DEF RecordFailure
    <2>3. /\ status' \in [Event -> Statuses] /\ lease' \in [Event -> Int \cup {NULL}]
          /\ next' \in [Event -> Nat \cup {NULL}]
      <3>1. CASE Owns(c)
        BY <1>0, <1>8, <2>1, <3>1 DEF RecordFailure
      <3>2. CASE ~Owns(c)
        BY <1>0, <1>8, <3>2 DEF RecordFailure
      <3> QED
        BY <3>1, <3>2
    <2> QED
      BY <1>3, <1>8, <2>2, <2>3 DEF TypeOK, RecordFailure
  <1>9. ASSUME NEW e \in Event, NEW s \in AckStatuses, NEW delay \in Backoffs,
               ApplyAck(e, s, delay)
        PROVE  TypeOK'
    <2>1. delay \in Nat /\ acks' \in [Event -> SUBSET AckStatuses]
      BY <1>0, <1>9, OutboxAssumption DEF ApplyAck
    <2>2. /\ status' \in [Event -> Statuses] /\ lease' \in [Event -> Int \cup {NULL}]
          /\ next' \in [Event -> Nat \cup {NULL}]
      <3>1. CASE status[e] \in Finished
        BY <1>0, <1>9, <3>1 DEF ApplyAck
      <3>2. CASE status[e] \notin Finished
        BY <1>0, <1>9, <2>1, <3>2 DEF ApplyAck
      <3> QED
        BY <3>1, <3>2
    <2> QED
      BY <1>9, <2>1, <2>2 DEF TypeOK, ApplyAck
  <1>10. ASSUME NEW e \in Event, NEW immediate \in BOOLEAN, NEW delay \in Backoffs,
                RetryEvent(e, immediate, delay)
         PROVE  TypeOK'
    <2>1. next' \in [Event -> Nat \cup {NULL}]
      BY <1>0, <1>10, OutboxAssumption DEF RetryEvent
    <2>2. status' \in [Event -> Statuses] /\ lease' \in [Event -> Int \cup {NULL}]
      BY <1>0, <1>10 DEF RetryEvent
    <2> QED
      BY <1>10, <2>1, <2>2 DEF TypeOK, RetryEvent
  <1>11. ASSUME NEW e \in Event, NEW k \in RetireKeys, RetireEvent(e, k) PROVE TypeOK'
    <2>1. receipts' \subseteq Receipt
      BY <1>11 DEF TypeOK, RetireEvent, Receipt
    <2>2. /\ status' \in [Event -> Statuses] /\ lease' \in [Event -> Int \cup {NULL}]
          /\ next' \in [Event -> Nat \cup {NULL}]
      BY <1>0, <1>11 DEF RetireEvent
    <2> QED
      BY <1>11, <2>1, <2>2 DEF TypeOK, RetireEvent
  <1>12. CASE Tick
    <2>1. lease' \in [Event -> Int \cup {NULL}] /\ next' \in [Event -> Nat \cup {NULL}]
      BY <1>0, <1>12, OutboxAssumption DEF Tick
    <2> QED
      BY <1>12, <2>1 DEF TypeOK, Tick
  <1>13. ASSUME NEW reason \in UnboundReasons, RecordUnboundAck(reason) PROVE TypeOK'
    BY <1>13 DEF TypeOK, RecordUnboundAck
  <1>14. CASE UNCHANGED vars
    BY <1>14 DEF TypeOK, vars
  <1>15. ASSUME NEW d \in Dispatchers, DispatchStep(d) PROVE TypeOK'
    BY <1>2, <1>4, <1>5, <1>6, <1>7, <1>8, <1>15 DEF DispatchStep
  <1>16. ASSUME NEW e \in Event, NEW s \in AckStatuses, NEW delay \in Backoffs,
                AckTenantEvent(e, s, delay) \/ AckEvent(e, s, delay)
         PROVE  TypeOK'
    BY <1>9, <1>16 DEF AckTenantEvent, AckEvent
  <1> QED
    BY <1>1, <1>10, <1>11, <1>12, <1>13, <1>14, <1>15, <1>16 DEF Next

\* The log only grows.
LogGrows ==
  /\ Len(events) <= Len(events')
  /\ \A i \in 1 .. Len(events) : events'[i] = events[i]

\* What every step, of either mode but the cutover itself, does to the row of
\* an event: a finished row stays, only an appended event opens a row, and a
\* new attempt is of an open row with no open predecessor.
Carried(e) ==
  /\ status'[e] # "NONE" => e <= Len(events')
  /\ status[e] # "NONE" => status'[e] # "NONE"
  /\ status[e] \in Finished => status'[e] \in Finished
  /\ status'[e] \in Open => status[e] \in Open \/ e = Len(events) + 1
  /\ acks[e] \subseteq acks'[e]
  /\ \/ attempts'[e] = attempts[e]
     \/ status[e] \in Open /\ \A p \in Earlier(e) : status[p] \notin Open

\* A SENT_UNRESOLVED row waits for an ACK or an operator.
Waits(e) ==
  status[e] = "SENT_UNRESOLVED" =>
    status'[e] \in {"SENT_UNRESOLVED"} \cup Finished \/ "ERROR" \in acks'[e]

\* Every event-mode step carries the rows and lets the unresolved ones wait.
LEMMA EventStep ==
  ASSUME TypeOK, Rows, [Next]_vars
  PROVE  LogGrows /\ \A e \in Event : Carried(e) /\ Waits(e)
  <1> USE DEF delivery, sweep
  <1>0. /\ Len(events) \in Nat /\ status \in [Event -> Statuses]
        /\ acks \in [Event -> SUBSET AckStatuses] /\ Event \subseteq Int
        /\ \A e \in Event : status[e] # "NONE" => e <= Len(events)
    BY Indices DEF TypeOK, Rows
  <1>1. ASSUME NEW a \in Aggregates, AppendInTransaction(a)
        PROVE  LogGrows /\ \A e \in Event : Carried(e) /\ Waits(e)
    <2>1. /\ Len(events') = Len(events) + 1
          /\ \A i \in 1 .. Len(events) : events'[i] = events[i]
          /\ Len(events) + 1 \in Event
      BY <1>1, OutboxAssumption DEF TypeOK, AppendInTransaction, Event
    <2>2. /\ \A e \in Event : e # Len(events) + 1 => status'[e] = status[e]
          /\ status'[Len(events) + 1] \in {"NONE", "PENDING"}
          /\ status[Len(events) + 1] = "NONE"
          /\ UNCHANGED <<attempts, acks>>
      BY <1>0, <1>1, <2>1 DEF AppendInTransaction
    <2> QED
      BY <1>0, <2>1, <2>2 DEF LogGrows, Carried, Waits
  <1>2. ASSUME NEW d \in Dispatchers, NEW S \in SUBSET Event, ClaimDue(d, S)
        PROVE  LogGrows /\ \A e \in Event : Carried(e) /\ Waits(e)
    <2>1. /\ UNCHANGED <<events, acks>>
          /\ \A e \in Event : e \notin S => status'[e] = status[e] /\ attempts'[e] = attempts[e]
          /\ \A e \in S : status'[e] = "SENT" /\ Due(e)
      BY <1>2 DEF ClaimDue
    <2>2. \A e \in S : /\ status[e] \in Open /\ status[e] # "SENT_UNRESOLVED"
                       /\ \A p \in Earlier(e) : status[p] \notin Open
      BY <2>1 DEF Due
    <2> QED
      BY <1>0, <2>1, <2>2 DEF LogGrows, Carried, Waits
  <1>3. ASSUME NEW e \in Event, UNCHANGED <<events, attempts>>,
               \A f \in Event \ {e} : status'[f] = status[f] /\ acks'[f] = acks[f],
               acks[e] \subseteq acks'[e], status[e] \in Open,
               status'[e] \in Open \cup Finished, Waits(e)
        PROVE  LogGrows /\ \A f \in Event : Carried(f) /\ Waits(f)
    BY <1>0, <1>3 DEF LogGrows, Carried, Waits
  <1>4. ASSUME UNCHANGED <<events, attempts, status>>,
               \A f \in Event : acks[f] \subseteq acks'[f]
        PROVE  LogGrows /\ \A f \in Event : Carried(f) /\ Waits(f)
    BY <1>0, <1>4 DEF LogGrows, Carried, Waits
  <1>5. ASSUME NEW d \in Dispatchers, NEW c \in batch[d], NEW delay \in Backoffs,
               RecordFailure(d, c, delay)
        PROVE  LogGrows /\ \A e \in Event : Carried(e) /\ Waits(e)
    <2>1. c[1] \in Event
      BY DEF TypeOK, Claims
    <2>2. CASE Owns(c)
      <3>1. /\ UNCHANGED <<events, attempts, acks>> /\ status[c[1]] = "SENT"
            /\ status' = [status EXCEPT ![c[1]] = "ERROR"]
        BY <1>5, <2>2 DEF RecordFailure, Owns
      <3> QED
        BY <1>0, <1>3, <2>1, <3>1 DEF Waits
    <2>3. CASE ~Owns(c)
      BY <1>4, <1>5, <2>3 DEF RecordFailure
    <2> QED
      BY <2>2, <2>3
  <1>6. ASSUME NEW d \in Dispatchers, DispatchStep(d)
        PROVE  LogGrows /\ \A e \in Event : Carried(e) /\ Waits(e)
    <2>1. ASSUME UNCHANGED <<events, attempts, status, acks>>
          PROVE  LogGrows /\ \A e \in Event : Carried(e) /\ Waits(e)
      BY <1>4, <2>1
    <2> QED
      BY <1>2, <1>5, <1>6, <2>1 DEF DispatchStep, SkipWithoutPort, Transport, RecordSent,
                                    LeaveUnresolved, Crash
  <1>7. ASSUME NEW e \in Event, NEW s \in AckStatuses, NEW delay \in Backoffs,
               AckTenantEvent(e, s, delay) \/ AckEvent(e, s, delay)
        PROVE  LogGrows /\ \A f \in Event : Carried(f) /\ Waits(f)
    <2>1. status[e] # "NONE" /\ ApplyAck(e, s, delay)
      BY <1>7 DEF AckTenantEvent, AckEvent
    <2>2. /\ UNCHANGED <<events, attempts>>
          /\ acks' = [acks EXCEPT ![e] = @ \cup {s}]
      BY <2>1 DEF ApplyAck
    <2>3. CASE status[e] \in Finished
      <3>1. UNCHANGED status /\ \A f \in Event : acks[f] \subseteq acks'[f]
        BY <1>0, <2>1, <2>2, <2>3 DEF ApplyAck
      <3> QED
        BY <1>4, <2>2, <3>1
    <2>4. CASE status[e] \notin Finished
      <3>1. status' = [status EXCEPT ![e] = s] /\ status[e] \in Open
        BY <1>0, <2>1, <2>4 DEF ApplyAck
      <3>2. Waits(e)
        BY <1>0, <2>2, <3>1 DEF Waits
      <3> QED
        BY <1>0, <1>3, <2>2, <3>1, <3>2
    <2> QED
      BY <2>3, <2>4
  <1>8. ASSUME NEW e \in Event, NEW immediate \in BOOLEAN, NEW delay \in Backoffs,
               RetryEvent(e, immediate, delay)
        PROVE  LogGrows /\ \A f \in Event : Carried(f) /\ Waits(f)
    BY <1>0, <1>3, <1>8 DEF RetryEvent, Waits
  <1>9. ASSUME NEW e \in Event, NEW k \in RetireKeys, RetireEvent(e, k)
        PROVE  LogGrows /\ \A f \in Event : Carried(f) /\ Waits(f)
    BY <1>0, <1>3, <1>9 DEF RetireEvent, Waits
  <1>10. ASSUME (\E reason \in UnboundReasons : RecordUnboundAck(reason)) \/ Tick \/ UNCHANGED vars
         PROVE  LogGrows /\ \A f \in Event : Carried(f) /\ Waits(f)
    BY <1>4, <1>10 DEF RecordUnboundAck, Tick, vars
  <1> QED
    BY <1>1, <1>6, <1>7, <1>8, <1>9, <1>10 DEF Next

\* A step that carries the rows keeps the messages of a migrated outbox linked
\* and the aggregates in order.
LEMMA RowsKept ==
  ASSUME CutoverInv, CutoverTypeOK', LogGrows, \A e \in Event : Carried(e),
         UNCHANGED <<owner, link, base>>,
         owner = "NEW" => \A m \in Message : mstatus'[m] # "NONE" => mstatus[m] # "NONE"
  PROVE  Rows' /\ NoStrandedMessage' /\ MigratedOrder'
  <1>1. /\ Event = 1 .. MaxEvents /\ MaxEvents \in Nat
        /\ Len(events) \in Nat /\ Len(events') \in Nat
        /\ Len(events) <= MaxEvents /\ Len(events') <= MaxEvents
        /\ \A m \in Message : link[m] \in 0 .. MaxEvents
        /\ \A e \in Event : attempts[e] \in Int /\ base[e] \in Int
    BY OutboxAssumption DEF CutoverInv, CutoverTypeOK, TypeOK, Event
  <1>2. Rows'
    <2>1. \A e \in Event : status'[e] # "NONE" => e <= Len(events')
      BY DEF Carried
    <2>2. ASSUME NEW e \in Event, e > Len(events') PROVE attempts'[e] <= base'[e]
      <3>1. e > Len(events) /\ status[e] = "NONE"
        BY <1>1, <2>2 DEF LogGrows, CutoverInv, Rows
      <3> QED
        BY <3>1 DEF Carried, CutoverInv, Rows
    <2>3. ASSUME NEW m \in Message, link[m] # 0
          PROVE  link[m] <= Len(events') /\ status'[link[m]] # "NONE"
      BY <1>1, <2>3 DEF LogGrows, Carried, CutoverInv, Rows
    <2> QED
      BY <2>1, <2>2, <2>3 DEF Rows
  <1>3. NoStrandedMessage'
    <2> SUFFICES ASSUME owner = "NEW"
                 PROVE  /\ \A m \in Message : mstatus'[m] # "NONE" => link[m] # 0 /\ events'[link[m]] = m
                        /\ \A m1, m2 \in Message : link[m1] # 0 /\ link[m1] = link[m2] => m1 = m2
      BY DEF NoStrandedMessage
    <2>1. ASSUME NEW m \in Message, mstatus'[m] # "NONE"
          PROVE  link[m] # 0 /\ events'[link[m]] = m
      <3>1. link[m] # 0 /\ events[link[m]] = m
        BY <2>1 DEF CutoverInv, NoStrandedMessage
      <3>2. link[m] \in 1 .. Len(events)
        BY <1>1, <3>1 DEF CutoverInv, Rows
      <3> QED
        BY <3>1, <3>2 DEF LogGrows
    <2> QED
      BY <2>1 DEF CutoverInv, NoStrandedMessage
  <1>4. MigratedOrder'
    <2> SUFFICES ASSUME NEW e \in 1 .. Len(events'), attempts'[e] > base[e],
                        NEW p \in 1 .. (e - 1), events'[p] = events'[e]
                 PROVE  status'[p] \notin Open
      BY DEF MigratedOrder, Earlier
    <2>1. e \in Event /\ p \in Event /\ p < e
      BY <1>1
    <2>2. e \in 1 .. Len(events)
      <3> SUFFICES ASSUME e > Len(events) PROVE FALSE
        BY <1>1, <2>1
      <3>1. status[e] = "NONE" /\ attempts[e] <= base[e]
        BY <2>1 DEF CutoverInv, Rows
      <3> QED
        BY <1>1, <2>1, <3>1 DEF Carried
    <2>3. p \in Earlier(e) /\ p # Len(events) + 1
      BY <1>1, <2>1, <2>2 DEF Earlier, LogGrows
    <2>4. status[p] \notin Open
      BY <2>1, <2>2, <2>3 DEF Carried, CutoverInv, MigratedOrder
    <2> QED
      BY <2>1, <2>3, <2>4 DEF Carried
  <1> QED
    BY <1>2, <1>3, <1>4

\* Such a step keeps what the legacy statuses say of the events, if it makes no
\* linked message SENT, and ACKED only with its event finished.
LEMMA OutcomesKept ==
  ASSUME CutoverInv, \A e \in Event : Carried(e), UNCHANGED link,
         \A m \in Message : link[m] # 0 =>
           /\ mstatus'[m] = "SENT" => mstatus[m] = "SENT" /\ Waits(link[m])
           /\ mstatus'[m] = "ACKED" => mstatus[m] = "ACKED" \/ status'[link[m]] \in Finished
  PROVE  UnresolvedUntilOutcome' /\ AckCarriedOver'
  <1>1. \A m \in Message : link[m] # 0 => link[m] \in Event
    BY OutboxAssumption DEF CutoverInv, CutoverTypeOK, Event
  <1>2. UnresolvedUntilOutcome'
    BY <1>1 DEF UnresolvedUntilOutcome, CutoverInv, Carried, Waits
  <1>3. AckCarriedOver'
    BY <1>1 DEF AckCarriedOver, CutoverInv, Carried
  <1> QED
    BY <1>2, <1>3

\* Initially there is neither a message nor an event.
LEMMA CutoverInitInv == CutoverInit => CutoverInv
  <1> SUFFICES ASSUME CutoverInit PROVE CutoverInv
    OBVIOUS
  <1>1. TypeOK
    BY InitIInv DEF CutoverInit, IInv
  <1>2. CutoverTypeOK
    BY <1>1, OutboxAssumption DEF CutoverTypeOK, CutoverInit, MessageStatuses, Event
  <1>3. Rows /\ Unmigrated /\ Calls
    BY <1>1, OutboxAssumption DEF Rows, Unmigrated, Calls, CutoverInit, Init, Event
  <1>4. NoStrandedMessage /\ UnresolvedUntilOutcome /\ AckCarriedOver /\ MigratedOrder
    BY DEF NoStrandedMessage, UnresolvedUntilOutcome, AckCarriedOver, MigratedOrder,
           CutoverInit, Init
  <1> QED
    BY <1>2, <1>3, <1>4 DEF CutoverInv

\* A step of the event mode, on either side of the cutover, preserves the
\* invariant.
LEMMA EventModeInv ==
  ASSUME CutoverInv, EventMode
  PROVE  CutoverInv'
  <1>1. UNCHANGED <<owner, queue, mstatus, mattempts, mnext, mack, link, base, inflight, reading>>
    BY DEF EventMode, legacy, messages
  <1>2. LogGrows /\ \A e \in Event : Carried(e) /\ Waits(e)
    BY EventStep DEF EventMode, CutoverInv, CutoverTypeOK
  <1>3. CutoverTypeOK'
    BY <1>1, TypeStep DEF EventMode, CutoverInv, CutoverTypeOK
  <1>4. Rows' /\ NoStrandedMessage' /\ MigratedOrder'
    BY <1>1, <1>2, <1>3, RowsKept
  <1>5. UnresolvedUntilOutcome' /\ AckCarriedOver'
    <2>1. \A m \in Message : link[m] # 0 => Waits(link[m])
      BY <1>2, OutboxAssumption DEF CutoverInv, CutoverTypeOK, Event
    <2> QED
      BY <1>1, <1>2, <2>1, OutcomesKept
  <1>6. Unmigrated' /\ Calls'
    BY <1>1 DEF EventMode, CutoverInv, Unmigrated, Calls
  <1> QED
    BY <1>3, <1>4, <1>5, <1>6 DEF CutoverInv

\* A step of the legacy mode that leaves the event tables alone preserves the
\* invariant if it keeps the types, the queue and the calls under way, and of
\* the linked messages makes none SENT or ACKED.
LEMMA LegacyOnlyInv ==
  ASSUME CutoverInv, UNCHANGED <<vars, owner, link, base>>,
         CutoverTypeOK', Unmigrated', Calls',
         \A m \in Message : link[m] # 0 =>
           mstatus'[m] = mstatus[m] \/ mstatus'[m] \in {"PENDING", "ERROR"},
         owner = "NEW" => \A m \in Message : mstatus'[m] # "NONE" => mstatus[m] # "NONE"
  PROVE  CutoverInv'
  <1>1. LogGrows /\ \A e \in Event : Carried(e) /\ Waits(e)
    BY EventStep DEF CutoverInv, CutoverTypeOK
  <1>2. Rows' /\ NoStrandedMessage' /\ MigratedOrder'
    BY <1>1, RowsKept
  <1>3. UnresolvedUntilOutcome' /\ AckCarriedOver'
    <2>1. \A m \in Message : link[m] # 0 => Waits(link[m])
      BY <1>1, OutboxAssumption DEF CutoverInv, CutoverTypeOK, Event
    <2> QED
      BY <1>1, <2>1, OutcomesKept
  <1> QED
    BY <1>2, <1>3 DEF CutoverInv

\* A first enqueue, which the cutover has ended, preserves the invariant.
LEMMA EnqueueInv ==
  ASSUME CutoverInv, NEW m \in Message, Enqueue(m)
  PROVE  CutoverInv'
  <1>1. /\ UNCHANGED <<vars, owner, mattempts, mnext, mack, link, base, inflight, reading>>
        /\ owner = "LEGACY" /\ queue' = Append(queue, m)
        /\ mstatus' = [mstatus EXCEPT ![m] = "PENDING"]
        /\ Len(events) + Len(queue) < MaxEvents
    BY DEF Enqueue
  <1>2. UNCHANGED <<events, status, attempts, lease, next, ledger, acks, receipts, quarantine, batch, stage>>
    BY <1>1 DEF vars, delivery, sweep
  <1>3. /\ queue \in Seq(Message) /\ queue' \in Seq(Message) /\ Len(queue') = Len(queue) + 1
        /\ Len(queue) \in Nat /\ Len(events) \in Nat /\ queue'[Len(queue) + 1] = m
        /\ \A i \in 1 .. Len(queue) : queue'[i] = queue[i]
    BY <1>1 DEF CutoverInv, CutoverTypeOK, TypeOK
  <1>4. mstatus' \in [Message -> MessageStatuses] /\ mstatus'[m] = "PENDING"
        /\ \A k \in Message \ {m} : mstatus'[k] = mstatus[k]
    BY <1>1 DEF CutoverInv, CutoverTypeOK, MessageStatuses
  <1>5. CutoverTypeOK'
    BY <1>1, <1>2, <1>3, <1>4 DEF CutoverInv, CutoverTypeOK, TypeOK
  <1>6. Unmigrated'
    <2>1. /\ \A k \in Message : link'[k] = 0
          /\ Len(events') + Len(queue') <= MaxEvents
      BY <1>1, <1>2, <1>3, OutboxAssumption DEF CutoverInv, Unmigrated
    <2>2. ASSUME NEW i \in 1 .. Len(queue') PROVE mstatus'[queue'[i]] # "NONE"
      <3>1. i \in 1 .. Len(queue) \/ i = Len(queue) + 1
        BY <1>3
      <3>2. queue'[i] \in Message
        BY <1>3
      <3> QED
        BY <1>1, <1>3, <1>4, <3>1, <3>2 DEF CutoverInv, Unmigrated
    <2>3. ASSUME NEW k \in Message, mstatus'[k] # "NONE"
          PROVE  \E i \in 1 .. Len(queue') : queue'[i] = k
      <3>1. CASE k = m
        BY <1>3, <3>1
      <3>2. CASE k # m
        <4>1. PICK i \in 1 .. Len(queue) : queue[i] = k
          BY <1>1, <1>4, <2>3, <3>2 DEF CutoverInv, Unmigrated
        <4> QED
          BY <1>3, <4>1
      <3> QED
        BY <3>1, <3>2
    <2> QED
      BY <2>1, <2>2, <2>3 DEF Unmigrated
  <1>7. Calls'
    <2>1. reading' # NULL => reading[1] \in Message
      BY <1>1 DEF CutoverInv, CutoverTypeOK
    <2>2. \A p \in Senders : \A c \in inflight[p] : c[1] \in Message
      BY DEF CutoverInv, CutoverTypeOK
    <2> QED
      BY <1>1, <1>4, <2>1, <2>2 DEF CutoverInv, Calls
  <1>8. \A k \in Message : link[k] = 0
    BY <1>1 DEF CutoverInv, Unmigrated
  <1> QED
    BY <1>1, <1>5, <1>6, <1>7, <1>8, LegacyOnlyInv

\* What a legacy step that creates no message keeps of the queue and of the
\* calls it does not touch.
LEMMA QueueKept ==
  ASSUME CutoverInv, UNCHANGED <<events, owner, queue, link>>,
         \A m \in Message : mstatus'[m] # "NONE" <=> mstatus[m] # "NONE"
  PROVE  /\ Unmigrated'
         /\ \A p \in Senders : \A c \in inflight[p] : mstatus'[c[1]] # "NONE"
         /\ reading # NULL => mstatus'[reading[1]] # "NONE"
  <1>1. \A i \in 1 .. Len(queue) : queue[i] \in Message
    BY DEF CutoverInv, CutoverTypeOK
  <1>2. Unmigrated'
    BY <1>1 DEF CutoverInv, Unmigrated
  <1>3. /\ reading # NULL => reading[1] \in Message
        /\ \A p \in Senders : \A c \in inflight[p] : c[1] \in Message
    BY DEF CutoverInv, CutoverTypeOK
  <1> QED
    BY <1>2, <1>3 DEF CutoverInv, Calls

\* The steps of the legacy mode that touch no event preserve the invariant.
LEMMA LegacyStepsInv ==
  ASSUME CutoverInv,
         \/ \E m \in Message : RetryRead(m)
         \/ \E delay \in Backoffs \cup {0} : RetryWrite(delay)
         \/ \E p \in Senders, S \in SUBSET Message : LegacyClaim(p, S)
         \/ \E p \in Senders : \E c \in inflight[p] : LegacySettle(p, c)
         \/ LegacyTick
  PROVE  CutoverInv'
  <1> USE DEF messages
  <1>0. /\ mstatus \in [Message -> MessageStatuses] /\ mattempts \in [Message -> 0 .. MaxAttempts]
        /\ mnext \in [Message -> Nat \cup {NULL}]
        /\ inflight \in [Senders -> SUBSET (Message \X Ordinal)]
        /\ reading \in (Message \X (0 .. MaxAttempts)) \cup {NULL}
    BY DEF CutoverInv, CutoverTypeOK
  <1>1. ASSUME UNCHANGED vars
        PROVE  UNCHANGED <<events, status, attempts, lease, next, ledger, acks, receipts,
                           quarantine, batch, stage>>
    BY <1>1 DEF vars, delivery, sweep
  <1>2. ASSUME NEW m \in Message, RetryRead(m) PROVE CutoverInv'
    <2>1. /\ UNCHANGED <<vars, owner, queue, mstatus, mattempts, mnext, mack, link, base, inflight>>
          /\ reading' = <<m, mattempts[m]>> /\ mattempts[m] < MaxAttempts
          /\ mstatus[m] # "NONE" /\ link[m] = 0
      BY <1>2 DEF RetryRead
    <2>2. owner = "LEGACY"
      BY <2>1 DEF CutoverInv, CutoverTypeOK, NoStrandedMessage
    <2>3. CutoverTypeOK'
      BY <1>0, <1>1, <2>1 DEF CutoverInv, CutoverTypeOK, TypeOK
    <2>4. Unmigrated' /\ Calls'
      BY <1>1, <2>1, <2>2, QueueKept DEF CutoverInv, Calls
    <2> QED
      BY <2>1, <2>3, <2>4, LegacyOnlyInv
  <1>3. ASSUME NEW delay \in Backoffs \cup {0}, RetryWrite(delay) PROVE CutoverInv'
    <2>1. /\ UNCHANGED <<vars, owner, queue, mack, link, base, inflight>> /\ reading' = NULL
          /\ owner = "LEGACY" /\ reading[1] \in Message /\ reading[2] \in 0 .. MaxAttempts
          /\ reading[2] < MaxAttempts /\ mstatus[reading[1]] # "NONE" /\ delay \in Nat
      BY <1>0, <1>3, OutboxAssumption DEF RetryWrite, CutoverInv, Calls
    <2>2. /\ mstatus' \in [Message -> MessageStatuses]
          /\ \A m \in Message : mstatus'[m] # "NONE" <=> mstatus[m] # "NONE"
          /\ \A m \in Message : mstatus'[m] = mstatus[m] \/ mstatus'[m] = "PENDING"
      BY <1>0, <1>3, <2>1 DEF RetryWrite, MessageStatuses
    <2>3. mattempts' \in [Message -> 0 .. MaxAttempts] /\ mnext' \in [Message -> Nat \cup {NULL}]
      BY <1>0, <1>3, <2>1, OutboxAssumption DEF RetryWrite
    <2>4. CutoverTypeOK'
      BY <1>1, <2>1, <2>2, <2>3 DEF CutoverInv, CutoverTypeOK, TypeOK
    <2>5. Unmigrated' /\ Calls'
      BY <1>1, <2>1, <2>2, QueueKept DEF Calls
    <2> QED
      BY <2>1, <2>2, <2>4, <2>5, LegacyOnlyInv
  <1>4. ASSUME NEW p \in Senders, NEW S \in SUBSET Message, LegacyClaim(p, S) PROVE CutoverInv'
    <2>1. /\ UNCHANGED <<vars, owner, queue, mack, link, base, reading>> /\ owner = "LEGACY"
          /\ \A m \in S : mstatus[m] # "NONE" /\ mattempts[m] + 1 \in Ordinal
      BY <1>0, <1>4, OutboxAssumption DEF LegacyClaim, Ordinal
    <2>2. /\ mstatus' = [m \in Message |-> IF m \in S THEN "SENT" ELSE mstatus[m]]
          /\ mattempts' = [m \in Message |-> IF m \in S THEN mattempts[m] + 1 ELSE mattempts[m]]
          /\ mnext' = [m \in Message |-> IF m \in S THEN NULL ELSE mnext[m]]
          /\ inflight' = [inflight EXCEPT ![p] = {<<m, mattempts[m] + 1>> : m \in S}]
      BY <1>4 DEF LegacyClaim, MessageOrdinal
    <2>3. /\ mstatus' \in [Message -> MessageStatuses]
          /\ mnext' \in [Message -> Nat \cup {NULL}]
          /\ \A m \in Message : mstatus'[m] # "NONE" <=> mstatus[m] # "NONE"
      BY <1>0, <2>1, <2>2 DEF MessageStatuses
    <2>4. mattempts' \in [Message -> 0 .. MaxAttempts]
      BY <1>0, <2>1, <2>2, OutboxAssumption DEF Ordinal
    <2>5. /\ inflight' \in [Senders -> SUBSET (Message \X Ordinal)]
          /\ \A c \in inflight'[p] : c[1] \in S
          /\ \A o \in Senders \ {p} : inflight'[o] = inflight[o]
      BY <1>0, <2>1, <2>2
    <2>6. CutoverTypeOK'
      BY <1>1, <2>1, <2>3, <2>4, <2>5 DEF CutoverInv, CutoverTypeOK, TypeOK
    <2>7. Unmigrated' /\ Calls'
      <3>1. /\ Unmigrated'
            /\ \A o \in Senders : \A c \in inflight[o] : mstatus'[c[1]] # "NONE"
            /\ reading # NULL => mstatus'[reading[1]] # "NONE"
        BY <1>1, <2>1, <2>3, QueueKept
      <3>2. \A o \in Senders : \A c \in inflight'[o] : mstatus'[c[1]] # "NONE"
        BY <2>1, <2>3, <2>5, <3>1
      <3> QED
        BY <2>1, <3>1, <3>2 DEF CutoverInv, Calls
    <2>8. \A m \in Message : link[m] = 0
      BY <2>1 DEF CutoverInv, Unmigrated
    <2> QED
      BY <2>1, <2>6, <2>7, <2>8, LegacyOnlyInv
  <1>5. ASSUME NEW p \in Senders, NEW c \in inflight[p], LegacySettle(p, c) PROVE CutoverInv'
    <2>1. /\ UNCHANGED <<vars, owner, queue, mstatus, mattempts, mnext, mack, link, base, reading>>
          /\ inflight' \in [Senders -> SUBSET (Message \X Ordinal)]
          /\ \A o \in Senders : inflight'[o] \subseteq inflight[o]
      BY <1>0, <1>5 DEF LegacySettle
    <2>2. CutoverTypeOK'
      BY <1>1, <2>1 DEF CutoverInv, CutoverTypeOK, TypeOK
    <2>3. Unmigrated' /\ Calls'
      BY <1>1, <2>1, QueueKept DEF CutoverInv, Calls
    <2> QED
      BY <2>1, <2>2, <2>3, LegacyOnlyInv
  <1>6. CASE LegacyTick
    <2>1. /\ UNCHANGED <<vars, owner, queue, mstatus, mattempts, mack, link, base, inflight, reading>>
          /\ mnext' \in [Message -> Nat \cup {NULL}]
      BY <1>0, <1>6, OutboxAssumption DEF LegacyTick
    <2>2. CutoverTypeOK'
      BY <1>1, <2>1 DEF CutoverInv, CutoverTypeOK, TypeOK
    <2>3. Unmigrated' /\ Calls'
      BY <1>1, <2>1, QueueKept DEF CutoverInv, Calls
    <2> QED
      BY <2>1, <2>2, <2>3, LegacyOnlyInv
  <1> QED
    BY <1>2, <1>3, <1>4, <1>5, <1>6

\* A legacy failure preserves the invariant: in the event of a migrated message
\* it settles an unresolved send, and takes nothing back that is finished.
LEMMA LegacyFailureInv ==
  ASSUME CutoverInv, NEW p \in Senders, NEW c \in inflight[p], NEW delay \in Backoffs,
         LegacyFailure(p, c, delay)
  PROVE  CutoverInv'
  <1> DEFINE m == c[1]
             e == link[m]
  <1>1. /\ m \in Message /\ c[2] \in Ordinal /\ mstatus[m] # "NONE" /\ delay \in Nat
        /\ UNCHANGED <<owner, queue, mattempts, mack, link, base, reading>>
        /\ inflight' \in [Senders -> SUBSET (Message \X Ordinal)]
        /\ \A o \in Senders : inflight'[o] \subseteq inflight[o]
    BY OutboxAssumption DEF LegacyFailure, CutoverInv, CutoverTypeOK, Calls
  <1>2. /\ mstatus' \in [Message -> MessageStatuses] /\ mnext' \in [Message -> Nat \cup {NULL}]
        /\ mstatus'[m] = IF mstatus[m] = "ACKED" THEN "ACKED" ELSE "ERROR"
        /\ \A k \in Message \ {m} : mstatus'[k] = mstatus[k]
    BY <1>1 DEF LegacyFailure, CutoverInv, CutoverTypeOK, MessageStatuses
  <1>3. CASE e = 0
    <2>1. UNCHANGED vars
      BY <1>3 DEF LegacyFailure
    <2>2. UNCHANGED <<events, status, attempts, lease, next, ledger, acks, receipts, quarantine, batch, stage>>
      BY <2>1 DEF vars, delivery, sweep
    <2>3. CutoverTypeOK'
      BY <1>1, <1>2, <2>2 DEF CutoverInv, CutoverTypeOK, TypeOK
    <2>4. Unmigrated' /\ Calls'
      BY <1>1, <1>2, <2>2, QueueKept DEF CutoverInv, Calls
    <2> QED
      BY <1>1, <1>2, <1>3, <2>1, <2>3, <2>4, LegacyOnlyInv
  <1>4. CASE e # 0
    <2>1. e \in Event /\ MirrorFailure(e, c[2], delay)
      BY <1>1, <1>4, OutboxAssumption DEF LegacyFailure, CutoverInv, CutoverTypeOK, Event
    <2>2. UNCHANGED <<events, attempts, lease, acks, receipts, quarantine, batch, stage>>
      BY <2>1 DEF MirrorFailure, sweep
    <2>3. /\ ledger' \in [Event -> [Ordinal -> Results]]
          /\ status' \in [Event -> Statuses] /\ next' \in [Event -> Nat \cup {NULL}]
          /\ \A f \in Event \ {e} : status'[f] = status[f]
          /\ status'[e] = IF status[e] = "SENT_UNRESOLVED" THEN "ERROR" ELSE status[e]
      <3>1. /\ ledger \in [Event -> [Ordinal -> Results]]
            /\ status \in [Event -> Statuses] /\ next \in [Event -> Nat \cup {NULL}]
        BY DEF CutoverInv, CutoverTypeOK, TypeOK
      <3>2. ledger' \in [Event -> [Ordinal -> Results]]
        BY <1>1, <2>1, <3>1 DEF MirrorFailure
      <3> QED
        BY <1>1, <2>1, <3>1, <3>2 DEF MirrorFailure
    <2>4. LogGrows /\ \A f \in Event : Carried(f)
      <3>1. Len(events) \in Nat /\ \A f \in Event : status[f] # "NONE" => f <= Len(events)
        BY DEF CutoverInv, CutoverTypeOK, TypeOK, Rows
      <3>2. \A f \in Event : status[f] \in Open \/ status[f] \in Finished \/ status[f] = "NONE"
        BY DEF CutoverInv, CutoverTypeOK, TypeOK
      <3> QED
        BY <2>2, <2>3, <3>1, <3>2 DEF LogGrows, Carried
    <2>5. CutoverTypeOK'
      BY <1>1, <1>2, <2>2, <2>3 DEF CutoverInv, CutoverTypeOK, TypeOK
    <2>6. Rows' /\ NoStrandedMessage' /\ MigratedOrder'
      BY <1>1, <1>2, <2>4, <2>5, RowsKept
    <2>7. UnresolvedUntilOutcome' /\ AckCarriedOver'
      <3>1. owner = "NEW"
        BY <1>1, <1>4 DEF CutoverInv, CutoverTypeOK, Unmigrated
      <3>2. ASSUME NEW k \in Message, link[k] # 0, mstatus'[k] = "SENT"
            PROVE  mstatus[k] = "SENT" /\ Waits(link[k])
        <4>1. k # m /\ mstatus[k] = "SENT"
          BY <1>2, <3>2
        <4>2. link[k] # e /\ link[k] \in Event
          BY <1>1, <1>4, <3>1, <3>2, <4>1, OutboxAssumption
          DEF CutoverInv, CutoverTypeOK, NoStrandedMessage, Event
        <4> QED
          BY <2>3, <4>1, <4>2 DEF Waits
      <3>3. ASSUME NEW k \in Message, mstatus'[k] = "ACKED"
            PROVE  mstatus[k] = "ACKED"
        BY <1>2, <3>3
      <3> QED
        BY <1>1, <2>4, <3>2, <3>3, OutcomesKept
    <2>8. Unmigrated' /\ Calls'
      BY <1>1, <1>2, <2>2, QueueKept DEF CutoverInv, Calls
    <2> QED
      BY <2>5, <2>6, <2>7, <2>8 DEF CutoverInv
  <1> QED
    BY <1>3, <1>4

\* An ACK through the legacy API preserves the invariant: on a migrated message
\* it is the ACK of its event.
LEMMA LegacyAckInv ==
  ASSUME CutoverInv, NEW m \in Message, NEW s \in AckStatuses, NEW delay \in Backoffs,
         LegacyAck(m, s, delay)
  PROVE  CutoverInv'
  <1>1. /\ mstatus[m] # "NONE" /\ delay \in Nat
        /\ UNCHANGED <<owner, queue, mattempts, link, base, inflight, reading>>
    BY OutboxAssumption DEF LegacyAck
  <1>2. /\ mstatus' \in [Message -> MessageStatuses] /\ mnext' \in [Message -> Nat \cup {NULL}]
        /\ mack' \in [Message -> {"NONE"} \cup AckStatuses]
        /\ mstatus'[m] = s
        /\ \A k \in Message \ {m} : mstatus'[k] = mstatus[k]
    <2>1. /\ mstatus \in [Message -> MessageStatuses] /\ mnext \in [Message -> Nat \cup {NULL}]
          /\ mack \in [Message -> {"NONE"} \cup AckStatuses]
      BY DEF CutoverInv, CutoverTypeOK
    <2>2. mack' \in [Message -> {"NONE"} \cup AckStatuses]
      BY <2>1 DEF LegacyAck
    <2> QED
      BY <1>1, <2>1, <2>2 DEF LegacyAck, MessageStatuses
  <1>3. /\ [Next]_vars
        /\ link[m] # 0 => link[m] \in Event /\ ApplyAck(link[m], s, delay)
    <2>1. CASE link[m] = 0
      BY <2>1 DEF LegacyAck
    <2>2. CASE link[m] # 0
      <3>1. link[m] \in Event /\ link[m] <= Len(events) /\ status[link[m]] # "NONE"
        BY <2>2, OutboxAssumption DEF CutoverInv, CutoverTypeOK, Rows, Event
      <3>2. AckEvent(link[m], s, delay)
        BY <2>2, <3>1 DEF LegacyAck, AckEvent
      <3> QED
        BY <3>1, <3>2 DEF Next, AckEvent
    <2> QED
      BY <2>1, <2>2
  <1>4. LogGrows /\ \A e \in Event : Carried(e) /\ Waits(e)
    BY <1>3, EventStep DEF CutoverInv, CutoverTypeOK
  <1>5. UNCHANGED events
    BY DEF LegacyAck, ApplyAck, vars
  <1>6. CutoverTypeOK'
    BY <1>1, <1>2, <1>3, TypeStep DEF CutoverInv, CutoverTypeOK
  <1>7. Rows' /\ NoStrandedMessage' /\ MigratedOrder'
    BY <1>1, <1>2, <1>4, <1>6, RowsKept
  <1>8. UnresolvedUntilOutcome' /\ AckCarriedOver'
    <2>1. \A k \in Message : link[k] # 0 => Waits(link[k])
      BY <1>4, OutboxAssumption DEF CutoverInv, CutoverTypeOK, Event
    <2>2. ASSUME link[m] # 0, s = "ACKED" PROVE status'[link[m]] \in Finished
      BY <1>3, <2>2 DEF ApplyAck, CutoverInv, CutoverTypeOK, TypeOK
    <2> QED
      BY <1>1, <1>2, <1>4, <2>1, <2>2, OutcomesKept
  <1>9. Unmigrated' /\ Calls'
    BY <1>1, <1>2, <1>5, QueueKept DEF CutoverInv, Calls
  <1> QED
    BY <1>6, <1>7, <1>8, <1>9 DEF CutoverInv

\* The cutover establishes the properties of the migrated outbox: every message
\* with a row is in the queue, which is copied behind the log as a whole.
LEMMA CutoverStepInv ==
  ASSUME CutoverInv, Cutover
  PROVE  CutoverInv'
  <1> DEFINE n == Len(events)
             migrated == n + 1 .. n + Len(queue)
             msg(e) == queue[e - n]
  <1>1. /\ owner = "LEGACY" /\ owner' = "NEW" /\ reading = NULL
        /\ events' = events \o queue
        /\ status' = [e \in Event |-> IF e \in migrated THEN MigratedStatus(msg(e)) ELSE status[e]]
        /\ attempts' = [e \in Event |-> IF e \in migrated THEN mattempts[msg(e)] ELSE attempts[e]]
        /\ base' = [e \in Event |-> IF e \in migrated THEN mattempts[msg(e)] ELSE base[e]]
        /\ next' = [e \in Event |-> IF e \in migrated THEN mnext[msg(e)] ELSE next[e]]
    BY DEF Cutover
  <1>2. /\ acks' = [e \in Event |->
                      IF e \in migrated /\ mack[msg(e)] # "NONE" THEN {mack[msg(e)]} ELSE acks[e]]
        /\ link' = [m \in Message |-> IF \E e \in migrated : msg(e) = m
                                      THEN CHOOSE e \in migrated : msg(e) = m ELSE 0]
        /\ UNCHANGED <<lease, ledger, receipts, quarantine, batch, stage, queue, mstatus,
                       mattempts, mnext, mack, inflight, reading>>
    BY DEF Cutover, sweep
  <1>3. /\ n \in Nat /\ Len(queue) \in Nat /\ n + Len(queue) <= MaxEvents /\ MaxEvents \in Nat
        /\ events' \in Seq(Aggregates) /\ Len(events') = n + Len(queue)
        /\ \A i \in 1 .. n : events'[i] = events[i]
        /\ \A e \in migrated : events'[e] = msg(e) /\ msg(e) \in Message
    BY <1>1, OutboxAssumption DEF CutoverInv, CutoverTypeOK, TypeOK, Unmigrated, Message
  <1>4. /\ migrated \subseteq Event
        /\ \A e \in migrated : mstatus[msg(e)] # "NONE"
        /\ \A m \in Message : mstatus[m] # "NONE" => \E e \in migrated : msg(e) = m
    <2>1. migrated \subseteq Event
      BY <1>3 DEF Event
    <2>2. ASSUME NEW e \in migrated PROVE mstatus[msg(e)] # "NONE"
      <3>1. e - n \in 1 .. Len(queue)
        BY <1>3
      <3> QED
        BY <1>1, <3>1 DEF CutoverInv, Unmigrated
    <2>3. ASSUME NEW m \in Message, mstatus[m] # "NONE" PROVE \E e \in migrated : msg(e) = m
      <3>1. PICK i \in 1 .. Len(queue) : queue[i] = m
        BY <1>1, <2>3 DEF CutoverInv, Unmigrated
      <3>2. i + n \in migrated /\ (i + n) - n = i
        BY <1>3
      <3> QED
        BY <3>1, <3>2
    <2> QED
      BY <2>1, <2>2, <2>3
  <1>5. \A m \in Message : link'[m] # 0 => link'[m] \in migrated /\ msg(link'[m]) = m
    <2> SUFFICES ASSUME NEW m \in Message, link'[m] # 0
                 PROVE  link'[m] \in migrated /\ msg(link'[m]) = m
      OBVIOUS
    <2>1. (\E e \in migrated : msg(e) = m) /\ link'[m] = CHOOSE e \in migrated : msg(e) = m
      BY <1>2
    <2> QED
      BY <2>1
  <1>6. \A m \in Message : mstatus[m] # "NONE" => link'[m] # 0
    <2> SUFFICES ASSUME NEW m \in Message, mstatus[m] # "NONE" PROVE link'[m] # 0
      OBVIOUS
    <2>1. \E e \in migrated : msg(e) = m
      BY <1>4
    <2>2. link'[m] = CHOOSE e \in migrated : msg(e) = m
      BY <1>2, <2>1
    <2>3. link'[m] \in migrated
      BY <2>1, <2>2
    <2> QED
      BY <1>3, <2>3
  <1>7. /\ \A e \in migrated : status'[e] = MigratedStatus(msg(e)) /\ attempts'[e] = base'[e]
        /\ \A e \in Event \ migrated : status'[e] = status[e] /\ attempts'[e] = attempts[e]
                                       /\ base'[e] = base[e]
    BY <1>1, <1>4
  <1>8. CutoverTypeOK'
    <2>1. TypeOK'
      <3>0. /\ status \in [Event -> Statuses] /\ attempts \in [Event -> 0 .. MaxAttempts]
            /\ next \in [Event -> Nat \cup {NULL}] /\ acks \in [Event -> SUBSET AckStatuses]
            /\ mstatus \in [Message -> MessageStatuses] /\ mattempts \in [Message -> 0 .. MaxAttempts]
            /\ mnext \in [Message -> Nat \cup {NULL}]
            /\ mack \in [Message -> {"NONE"} \cup AckStatuses]
        BY DEF CutoverInv, CutoverTypeOK, TypeOK
      <3>1. status' \in [Event -> Statuses]
        BY <1>1, <1>3, <3>0 DEF MigratedStatus, MessageStatuses
      <3>2. attempts' \in [Event -> 0 .. MaxAttempts] /\ next' \in [Event -> Nat \cup {NULL}]
        BY <1>1, <1>3, <3>0
      <3>3. acks' \in [Event -> SUBSET AckStatuses]
        BY <1>2, <1>3, <3>0
      <3> QED
        BY <1>2, <1>3, <3>1, <3>2, <3>3 DEF CutoverInv, CutoverTypeOK, TypeOK
    <2>2. base' \in [Event -> 0 .. MaxAttempts]
      BY <1>1, <1>3 DEF CutoverInv, CutoverTypeOK
    <2>3. link' \in [Message -> 0 .. MaxEvents]
      <3>1. DOMAIN link' = Message /\ link' = [m \in Message |-> link'[m]]
        BY <1>2
      <3>2. \A m \in Message : link'[m] \in 0 .. MaxEvents
        BY <1>3, <1>5
      <3> QED
        BY <3>1, <3>2
    <2> QED
      BY <1>1, <1>2, <2>1, <2>2, <2>3 DEF CutoverInv, CutoverTypeOK
  <1> HIDE DEF migrated, msg
  <1>9. Rows'
    <2>1. \A e \in migrated : e <= Len(events')
      BY <1>3 DEF migrated
    <2>2. \A e \in Event : status[e] # "NONE" => e <= Len(events')
      BY <1>3 DEF CutoverInv, Rows, Event
    <2>3. ASSUME NEW e \in Event, e > Len(events') PROVE attempts'[e] <= base'[e]
      BY <1>3, <1>7, <2>1, <2>3 DEF CutoverInv, Rows, Event
    <2>4. ASSUME NEW m \in Message, link'[m] # 0
          PROVE  link'[m] <= Len(events') /\ status'[link'[m]] # "NONE"
      BY <1>4, <1>5, <1>7, <2>1, <2>4 DEF MigratedStatus
    <2> QED
      BY <1>7, <2>1, <2>2, <2>3, <2>4 DEF Rows
  <1>10. NoStrandedMessage'
    BY <1>2, <1>3, <1>5, <1>6 DEF NoStrandedMessage
  <1>11. UnresolvedUntilOutcome' /\ AckCarriedOver'
    BY <1>2, <1>5, <1>7 DEF UnresolvedUntilOutcome, AckCarriedOver, MigratedStatus
  <1>12. MigratedOrder'
    <2> SUFFICES ASSUME NEW e \in 1 .. Len(events'), attempts'[e] > base'[e],
                        NEW p \in 1 .. (e - 1), events'[p] = events'[e]
                 PROVE  status'[p] \notin Open
      BY DEF MigratedOrder, Earlier
    <2>1. e \in Event /\ e \notin migrated
      <3>1. e \in Event
        BY <1>3 DEF Event
      <3>2. attempts'[e] \in Int /\ base'[e] \in Int
        BY <1>8, <3>1 DEF CutoverTypeOK, TypeOK
      <3> QED
        BY <1>7, <3>1, <3>2
    <2>2. e \in 1 .. n /\ p \in 1 .. n /\ p \notin migrated /\ p \in Event
      BY <1>3, <2>1 DEF migrated, Event
    <2> QED
      BY <1>3, <1>7, <2>1, <2>2 DEF CutoverInv, MigratedOrder, Earlier
  <1>13. Unmigrated' /\ Calls'
    BY <1>1, <1>2 DEF CutoverInv, Unmigrated, Calls
  <1> QED
    BY <1>8, <1>9, <1>10, <1>11, <1>12, <1>13 DEF CutoverInv

\* Every step of either mode preserves the invariant.
LEMMA CutoverNextInv ==
  ASSUME CutoverInv, [CutoverNext]_cvars
  PROVE  CutoverInv'
  <1>1. CASE UNCHANGED cvars
    <2>1. UNCHANGED <<vars, owner, queue, mstatus, mattempts, mnext, mack, link, base, inflight, reading>>
      BY <1>1 DEF cvars, legacy, messages
    <2>2. UNCHANGED <<events, status, attempts, lease, next, ledger, acks, receipts, quarantine, batch, stage>>
      BY <2>1 DEF vars, delivery, sweep
    <2>3. CutoverTypeOK' /\ Unmigrated' /\ Calls'
      BY <2>1, <2>2 DEF CutoverInv, CutoverTypeOK, TypeOK, Unmigrated, Calls
    <2> QED
      BY <2>1, <2>3, LegacyOnlyInv
  <1> QED
    BY <1>1, EventModeInv, EnqueueInv, LegacyStepsInv, LegacyFailureInv, LegacyAckInv, CutoverStepInv
    DEF CutoverNext

\* The invariant of the cutover holds in every reachable state.
THEOREM CutoverInvariance == CutoverSpec => []CutoverInv
  BY CutoverInitInv, CutoverNextInv, PTL DEF CutoverSpec

\* Every variable of either mode keeps its type.
THEOREM CutoverTypeCorrect == CutoverSpec => []CutoverTypeOK
  <1>1. CutoverInv => CutoverTypeOK
    BY DEF CutoverInv
  <1> QED
    BY <1>1, CutoverInvariance, PTL

\* The cutover leaves no message behind and gives no two the same event.
THEOREM StrandedCorrect == CutoverSpec => []NoStrandedMessage
  <1>1. CutoverInv => NoStrandedMessage
    BY DEF CutoverInv
  <1> QED
    BY <1>1, CutoverInvariance, PTL

\* A message that was SENT at the cutover is not sent again before its outcome.
THEOREM UnresolvedCorrect == CutoverSpec => []UnresolvedUntilOutcome
  <1>1. CutoverInv => UnresolvedUntilOutcome
    BY DEF CutoverInv
  <1> QED
    BY <1>1, CutoverInvariance, PTL

\* A positive legacy ACK, before or after the cutover, finishes the event.
THEOREM AckCarriedCorrect == CutoverSpec => []AckCarriedOver
  <1>1. CutoverInv => AckCarriedOver
    BY DEF CutoverInv
  <1> QED
    BY <1>1, CutoverInvariance, PTL

\* Event sweeps respect the order of an aggregate across the cutover.
THEOREM MigratedOrderCorrect == CutoverSpec => []MigratedOrder
  <1>1. CutoverInv => MigratedOrder
    BY DEF CutoverInv
  <1> QED
    BY <1>1, CutoverInvariance, PTL
=============================================================================
