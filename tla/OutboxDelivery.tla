--------------------------- MODULE OutboxDelivery ---------------------------
(***************************************************************************)
(* The event mode of the transactional outbox of one tenant: the append-   *)
(* only event log, the delivery projection, the attempt and ACK ledgers    *)
(* and the retirement receipts, driven by concurrent dispatch sweeps,      *)
(* inbound ACKs and operators (OutboxService of @stynx-nyx/outbox).        *)
(*                                                                         *)
(* Every action is one committed database transaction, or one step of a    *)
(* dispatcher between two transactions; a process can die between any two. *)
(* An event is identified with its rank in the (created_at,id) order of    *)
(* its tenant, which is also its commit order (module EventStream).  An    *)
(* aggregate stands for an (entity, entity_id) pair.  A timestamp is       *)
(* modelled by the time left until it; Tick lets one unit pass.            *)
(***************************************************************************)
EXTENDS Integers, Sequences, FiniteSets

CONSTANTS
  Aggregates,     \* (entity, entity_id) pairs
  Dispatchable,   \* aggregates whose entity has a declared destination
  Ported,         \* aggregates whose entity has a transport port
  Dispatchers,    \* concurrent dispatch sweeps
  AppDispatchers, \* those run by dispatchTenantEventsDue as the app role
  RetireKeys,     \* operation keys an operator may use in retireEvent
  UnboundReasons, \* reasons for which an ACK may be quarantined
  Lease,          \* eventLeaseMs
  Backoffs,       \* delays the backoff policy may answer
  BatchSize,      \* limit of a sweep
  MaxEvents,      \* bound: events appended
  MaxAttempts,    \* bound: claims of one event
  NULL            \* SQL null

ASSUME OutboxAssumption ==
  /\ Dispatchable \subseteq Aggregates
  /\ AppDispatchers \subseteq Dispatchers
  /\ Lease \in Nat \ {0}
  /\ Backoffs \subseteq Nat
  /\ MaxEvents \in Nat
  /\ MaxAttempts \in Nat
  /\ NULL \notin Int

VARIABLES
  events,      \* outbox.events: the aggregate of each event, in log order
  status,      \* outbox.event_delivery.status, "NONE" without a row
  attempts,    \* outbox.event_delivery.attempts
  lease,       \* time left of event_delivery.lease_until, or NULL
  next,        \* time left of event_delivery.next_attempt_at, or NULL
  ledger,      \* outbox.event_attempts.result by event and ordinal
  acks,        \* outbox.event_acks: the statuses received for each event
  receipts,    \* outbox.event_retirements
  quarantine,  \* outbox.ack_quarantine: the reasons recorded
  batch,       \* claims a dispatcher still has to process
  stage        \* what the dispatcher knows of the claim it is processing

delivery == <<status, attempts, lease, next>>
sweep == <<batch, stage>>
vars == <<events, delivery, ledger, acks, receipts, quarantine, sweep>>

Event == 1 .. MaxEvents
Ordinal == 1 .. MaxAttempts
Claims == Event \X Ordinal

Finished == {"ACKED", "RETIRED"}
Open == {"PENDING", "SENT", "SENT_UNRESOLVED", "ERROR"}
Statuses == {"NONE"} \cup Open \cup Finished
AckStatuses == {"ACKED", "ERROR"}
Results == {"NONE", "CLAIMED", "SENT", "ERROR"}
Receipt == [event : Event, key : RetireKeys, previous : Open]
-----------------------------------------------------------------------------
(* Helpers *)

\* The events of e's aggregate that precede it in the (created_at,id) order.
Earlier(e) == {p \in 1 .. (e - 1) : events[p] = events[e]}

DueIgnoringOrder(e) ==
  \/ status[e] \in {"PENDING", "ERROR"} /\ (next[e] = NULL \/ next[e] = 0)
  \/ status[e] = "SENT" /\ lease[e] # NULL /\ lease[e] < 0
DueWithoutReclaim(e) ==
  /\ status[e] \in {"PENDING", "ERROR"} /\ (next[e] = NULL \/ next[e] = 0)
  /\ \A p \in Earlier(e) : status[p] \notin Open

\* The deliveries a claim may take: waiting and due, or sent with a lease
\* that ran out, and no earlier delivery of the aggregate is unfinished.
Due(e) ==
  /\ \/ status[e] \in {"PENDING", "ERROR"} /\ (next[e] = NULL \/ next[e] = 0)
     \/ status[e] = "SENT" /\ lease[e] # NULL /\ lease[e] < 0
  /\ \A p \in Earlier(e) : status[p] \notin Open

OrdinalOfReclaim(e) == IF status[e] = "SENT" THEN attempts[e] ELSE attempts[e] + 1

\* The ordinal a claim gives the attempt.
NextOrdinal(e) == attempts[e] + 1

\* A sweep handles its claims in log order.
IsNext(d, c) == c \in batch[d] /\ \A o \in batch[d] : c[1] <= o[1]

\* lease_until > clock_timestamp(), which is not the negation of the lapsed
\* lease of a claim: at equality a delivery can be neither reclaimed nor
\* counted as leased.
LeaseActive(e) == lease[e] # NULL /\ lease[e] > 0

OwnsWhateverStatus(c) == attempts[c[1]] = c[2]
OwnsWhateverAttempt(c) == status[c[1]] = "SENT"

\* The claim still owns the delivery projection.
Owns(c) == attempts[c[1]] = c[2] /\ status[c[1]] = "SENT"

\* outbox.guard_app_attempt_completion: outside the table owner, only a
\* CLAIMED attempt can be completed.
MayComplete(d, c) == d \in AppDispatchers => ledger[c[1]][c[2]] = "CLAIMED"

\* A claim leaves the sweep.
Drop(d, c) ==
  /\ batch' = [batch EXCEPT ![d] = @ \ {c}]
  /\ stage' = [stage EXCEPT ![d] = "ready"]
-----------------------------------------------------------------------------
Init ==
  /\ events = <<>>
  /\ status = [e \in Event |-> "NONE"]
  /\ attempts = [e \in Event |-> 0]
  /\ lease = [e \in Event |-> NULL]
  /\ next = [e \in Event |-> NULL]
  /\ ledger = [e \in Event |-> [n \in Ordinal |-> "NONE"]]
  /\ acks = [e \in Event |-> {}]
  /\ receipts = {}
  /\ quarantine = {}
  /\ batch = [d \in Dispatchers |-> {}]
  /\ stage = [d \in Dispatchers |-> "ready"]

\* A committed append of a new event; it gets a delivery row only when its
\* entity has a destination.
AppendInTransaction(a) ==
  /\ Len(events) < MaxEvents
  /\ events' = Append(events, a)
  /\ status' = IF a \in Dispatchable
               THEN [status EXCEPT ![Len(events) + 1] = "PENDING"]
               ELSE status
  /\ UNCHANGED <<attempts, lease, next, ledger, acks, receipts, quarantine, sweep>>

\* The claim transaction of a sweep: SKIP LOCKED may hide any due row.
ClaimDue(d, S) ==
  /\ batch[d] = {}
  /\ S # {}
  /\ Cardinality(S) <= BatchSize
  /\ \A e \in S : Due(e) /\ attempts[e] < MaxAttempts
  /\ status' = [e \in Event |-> IF e \in S THEN "SENT" ELSE status[e]]
  /\ attempts' = [e \in Event |-> IF e \in S THEN NextOrdinal(e) ELSE attempts[e]]
  /\ lease' = [e \in Event |-> IF e \in S THEN Lease ELSE lease[e]]
  /\ next' = [e \in Event |-> IF e \in S THEN NULL ELSE next[e]]
  /\ ledger' = [e \in Event |-> [n \in Ordinal |->
                  IF e \in S /\ n = NextOrdinal(e) /\ ledger[e][n] = "NONE"
                  THEN "CLAIMED" ELSE ledger[e][n]]]
  /\ batch' = [batch EXCEPT ![d] = {<<e, NextOrdinal(e)>> : e \in S}]
  /\ UNCHANGED <<events, acks, receipts, quarantine, stage>>

\* No port for the entity: the delivery stays SENT until its lease runs out.
SkipWithoutPort(d, c) ==
  /\ stage[d] = "ready"
  /\ IsNext(d, c)
  /\ events[c[1]] \notin Ported
  /\ Drop(d, c)
  /\ UNCHANGED <<events, delivery, ledger, acks, receipts, quarantine>>

\* The transport call returns or throws; nothing is persisted yet.
Transport(d, c, result) ==
  /\ stage[d] = "ready"
  /\ IsNext(d, c)
  /\ events[c[1]] \in Ported
  /\ stage' = [stage EXCEPT ![d] = result]
  /\ UNCHANGED <<events, delivery, ledger, acks, receipts, quarantine, batch>>

\* After a successful send: the lease becomes the ACK wait if the claim still
\* owns the projection, and the attempt is completed.
RecordSent(d, c) ==
  /\ stage[d] = "sent"
  /\ IsNext(d, c)
  /\ MayComplete(d, c)
  /\ lease' = IF Owns(c) THEN [lease EXCEPT ![c[1]] = Lease] ELSE lease
  /\ ledger' = [ledger EXCEPT ![c[1]][c[2]] = "SENT"]
  /\ Drop(d, c)
  /\ UNCHANGED <<events, status, attempts, next, acks, receipts, quarantine>>

RecordFailureCounting(d, c, delay) ==
  /\ stage[d] = "failed"
  /\ IsNext(d, c)
  /\ status' = IF Owns(c) THEN [status EXCEPT ![c[1]] = "ERROR"] ELSE status
  /\ lease' = IF Owns(c) THEN [lease EXCEPT ![c[1]] = NULL] ELSE lease
  /\ next' = IF Owns(c) THEN [next EXCEPT ![c[1]] = delay] ELSE next
  /\ attempts' = [attempts EXCEPT ![c[1]] = @ + 1]
  /\ ledger' = [ledger EXCEPT ![c[1]][c[2]] = "ERROR"]
  /\ Drop(d, c)
  /\ UNCHANGED <<events, acks, receipts, quarantine>>

\* After a failed send: ERROR and the next attempt, if the claim still owns
\* the projection; the attempt is completed in either case.
RecordFailure(d, c, delay) ==
  /\ stage[d] = "failed"
  /\ IsNext(d, c)
  /\ MayComplete(d, c)
  /\ IF Owns(c)
     THEN /\ status' = [status EXCEPT ![c[1]] = "ERROR"]
          /\ lease' = [lease EXCEPT ![c[1]] = NULL]
          /\ next' = [next EXCEPT ![c[1]] = delay]
     ELSE UNCHANGED <<status, lease, next>>
  /\ ledger' = [ledger EXCEPT ![c[1]][c[2]] = "ERROR"]
  /\ Drop(d, c)
  /\ UNCHANGED <<events, attempts, acks, receipts, quarantine>>

\* The transaction after the send fails: reconciliationRequired, no resend.
LeaveUnresolved(d, c) ==
  /\ stage[d] # "ready"
  /\ IsNext(d, c)
  /\ Drop(d, c)
  /\ UNCHANGED <<events, delivery, ledger, acks, receipts, quarantine>>

\* The process running the sweep dies.
Crash(d) ==
  /\ batch[d] # {}
  /\ batch' = [batch EXCEPT ![d] = {}]
  /\ stage' = [stage EXCEPT ![d] = "ready"]
  /\ UNCHANGED <<events, delivery, ledger, acks, receipts, quarantine>>

\* The update of a verified ACK: a finished projection is left alone, the
\* evidence is appended in every case.
ApplyAck(e, s, delay) ==
  /\ IF status[e] \in Finished
     THEN UNCHANGED <<status, lease, next>>
     ELSE /\ status' = [status EXCEPT ![e] = s]
          /\ lease' = [lease EXCEPT ![e] = NULL]
          /\ next' = [next EXCEPT ![e] = IF s = "ERROR" THEN delay ELSE NULL]
  /\ acks' = [acks EXCEPT ![e] = @ \cup {s}]
  /\ UNCHANGED <<events, attempts, ledger, receipts, quarantine, sweep>>

\* Request path: the app role of the tenant.
AckTenantEvent(e, s, delay) ==
  /\ e <= Len(events)
  /\ status[e] # "NONE"
  /\ ApplyAck(e, s, delay)

\* Owner path.  Its lookup is a transaction of its own, but events are never
\* deleted, so what it found is still there when the update runs.
AckEvent(e, s, delay) ==
  /\ e <= Len(events)
  /\ status[e] # "NONE"
  /\ ApplyAck(e, s, delay)

\* An ACK that cannot be bound to an event, or whose HMAC is not verified.
RecordUnboundAck(reason) ==
  /\ quarantine' = quarantine \cup {reason}
  /\ UNCHANGED <<events, delivery, ledger, acks, receipts, sweep>>

RetryEventResetting(e, immediate, delay) ==
  /\ status[e] = "ERROR"
  /\ status' = [status EXCEPT ![e] = "PENDING"]
  /\ attempts' = [attempts EXCEPT ![e] = 0]
  /\ next' = [next EXCEPT ![e] = IF immediate THEN 0 ELSE delay]
  /\ lease' = [lease EXCEPT ![e] = NULL]
  /\ UNCHANGED <<events, ledger, acks, receipts, quarantine, sweep>>

\* Operator retry of a failed delivery; it never moves eligibility later.
RetryEvent(e, immediate, delay) ==
  /\ status[e] = "ERROR"
  /\ status' = [status EXCEPT ![e] = "PENDING"]
  /\ next' = [next EXCEPT ![e] =
                IF immediate \/ @ = NULL THEN 0 ELSE IF @ < delay THEN @ ELSE delay]
  /\ lease' = [lease EXCEPT ![e] = NULL]
  /\ UNCHANGED <<events, attempts, ledger, acks, receipts, quarantine, sweep>>

RetireEventUnkeyed(e, k) ==
  /\ status[e] \in Open
  /\ ~LeaseActive(e)
  /\ receipts' = receipts \cup {[event |-> e, key |-> k, previous |-> status[e]]}
  /\ status' = [status EXCEPT ![e] = "RETIRED"]
  /\ lease' = [lease EXCEPT ![e] = NULL]
  /\ next' = [next EXCEPT ![e] = NULL]
  /\ UNCHANGED <<events, attempts, ledger, acks, quarantine, sweep>>
RetireEventLeased(e, k) ==
  /\ status[e] \in Open
  /\ \A r \in receipts : r.event # e /\ r.key # k
  /\ receipts' = receipts \cup {[event |-> e, key |-> k, previous |-> status[e]]}
  /\ status' = [status EXCEPT ![e] = "RETIRED"]
  /\ lease' = [lease EXCEPT ![e] = NULL]
  /\ next' = [next EXCEPT ![e] = NULL]
  /\ UNCHANGED <<events, attempts, ledger, acks, quarantine, sweep>>

\* Operator retirement.  An existing receipt for the event or the key makes
\* the call a replay or a conflict: neither changes anything.
RetireEvent(e, k) ==
  /\ status[e] \in Open
  /\ \A r \in receipts : r.event # e /\ r.key # k
  /\ ~LeaseActive(e)
  /\ receipts' = receipts \cup {[event |-> e, key |-> k, previous |-> status[e]]}
  /\ status' = [status EXCEPT ![e] = "RETIRED"]
  /\ lease' = [lease EXCEPT ![e] = NULL]
  /\ next' = [next EXCEPT ![e] = NULL]
  /\ UNCHANGED <<events, attempts, ledger, acks, quarantine, sweep>>

\* One unit of database time passes.  Only the sign of a lapsed lease and
\* only zero of a due time matter, so the counters stop there.
Tick ==
  /\ \E e \in Event : \/ lease[e] # NULL /\ lease[e] >= 0
                      \/ next[e] # NULL /\ next[e] > 0
  /\ lease' = [e \in Event |->
                IF lease[e] # NULL /\ lease[e] >= 0 THEN lease[e] - 1 ELSE lease[e]]
  /\ next' = [e \in Event |->
                IF next[e] # NULL /\ next[e] > 0 THEN next[e] - 1 ELSE next[e]]
  /\ UNCHANGED <<events, status, attempts, ledger, acks, receipts, quarantine, sweep>>

DispatchStep(d) ==
  \/ \E S \in SUBSET Event : ClaimDue(d, S)
  \/ \E c \in batch[d] :
       \/ SkipWithoutPort(d, c)
       \/ Transport(d, c, "sent")
       \/ Transport(d, c, "failed")
       \/ RecordSent(d, c)
       \/ \E delay \in Backoffs : RecordFailure(d, c, delay)
       \/ LeaveUnresolved(d, c)
  \/ Crash(d)

Next ==
  \/ \E a \in Aggregates : AppendInTransaction(a)
  \/ \E d \in Dispatchers : DispatchStep(d)
  \/ \E e \in Event, s \in AckStatuses, delay \in Backoffs : AckTenantEvent(e, s, delay)
  \/ \E e \in Event, s \in AckStatuses, delay \in Backoffs : AckEvent(e, s, delay)
  \/ \E reason \in UnboundReasons : RecordUnboundAck(reason)
  \/ \E e \in Event, immediate \in BOOLEAN, delay \in Backoffs : RetryEvent(e, immediate, delay)
  \/ \E e \in Event, k \in RetireKeys : RetireEvent(e, k)
  \/ Tick

Spec == Init /\ [][Next]_vars
-----------------------------------------------------------------------------
(* Properties *)

\* Every variable holds what its table or process memory can hold.
TypeOK ==
  /\ events \in Seq(Aggregates) /\ Len(events) <= MaxEvents
  /\ status \in [Event -> Statuses]
  /\ attempts \in [Event -> 0 .. MaxAttempts]
  /\ lease \in [Event -> Int \cup {NULL}]
  /\ next \in [Event -> Nat \cup {NULL}]
  /\ ledger \in [Event -> [Ordinal -> Results]]
  /\ acks \in [Event -> SUBSET AckStatuses]
  /\ receipts \subseteq Receipt
  /\ quarantine \subseteq UnboundReasons
  /\ batch \in [Dispatchers -> SUBSET Claims]
  /\ stage \in [Dispatchers -> {"ready", "sent", "failed"}]

\* An event is handed to a sweep (attempts > 0) only when every earlier
\* delivery of its aggregate is finished, and stays behind none afterwards,
\* whatever sweeps, crashes, reclaims, late ACKs and retries interleave:
\* the NOT EXISTS of the claim query of dispatchEventsDue.
AggregateOrder ==
  \A e \in 1 .. Len(events) :
    attempts[e] > 0 => \A p \in Earlier(e) : status[p] \notin Open

\* No two sweeps hold the same attempt, and a held attempt has not been
\* completed: a reclaim after a lapsed lease always gets a fresh ordinal, so
\* the ledger row of an attempt belongs to one sweep.
AttemptOwnership ==
  \A d \in Dispatchers : \A c \in batch[d] :
    /\ ledger[c[1]][c[2]] = "CLAIMED"
    /\ \A o \in Dispatchers \ {d} : c \notin batch[o]

\* The ledger has exactly the ordinals 1 .. attempts of every event: no
\* claim goes unrecorded (the insert's ON CONFLICT DO NOTHING never drops
\* one) and none is recorded that was not made.
LedgerComplete ==
  \A e \in Event, n \in Ordinal : ledger[e][n] # "NONE" <=> n <= attempts[e]

\* A SENT delivery always has a lease (a null lease_until never compares as
\* lapsed, so the delivery would never be reclaimed and would block its
\* aggregate for ever), and no other delivery has one.
SentHasLease ==
  \A e \in Event : status[e] = "SENT" <=> lease[e] # NULL

\* A positive ACK is never lost: whatever late attempt outcomes, negative
\* ACKs or retries follow, the projection stays finished; and ACKED is
\* never made up without the evidence.
AckNotLost ==
  \A e \in Event :
    /\ "ACKED" \in acks[e] => status[e] \in Finished
    /\ status[e] = "ACKED" => "ACKED" \in acks[e]

\* ERROR always has a cause on record: a negative ACK, or the failure of the
\* attempt that owns the projection. The failure of a superseded attempt
\* never reaches the projection.
ErrorExplained ==
  \A e \in Event : status[e] = "ERROR" =>
    \/ "ERROR" \in acks[e]
    \/ attempts[e] > 0 /\ ledger[e][attempts[e]] = "ERROR"

\* Exactly the retired deliveries have a receipt, one each, and no operation
\* key retires two events.
RetirementReceipts ==
  /\ \A e \in Event : status[e] = "RETIRED" <=> \E r \in receipts : r.event = e
  /\ \A r1, r2 \in receipts : r1.event = r2.event \/ r1.key = r2.key => r1 = r2

\* A finished delivery stays as it is: no status change, no new attempt, no
\* schedule (retryEvent, claims, ACKs and late outcomes all respect it).
FinishedIsFinal ==
  [][\A e \in Event : status[e] \in Finished =>
       /\ status'[e] = status[e] /\ attempts'[e] = attempts[e]
       /\ lease'[e] = NULL /\ next'[e] = NULL]_vars

\* The evidence of a completed attempt is never rewritten, on the owner path
\* too, where guard_app_attempt_completion does not apply.
EvidenceImmutable ==
  [][\A e \in Event, n \in Ordinal :
       ledger[e][n] \in {"SENT", "ERROR"} => ledger'[e][n] = ledger[e][n]]_vars

\* retireEvent refuses a delivery whose send may be under way: while a sweep
\* holds the attempt that owns the projection and its lease has not run out,
\* only an ACK can finish the delivery.
LeasedOnlyAckFinishes ==
  [][\A e \in Event :
       LeaseActive(e) /\ status'[e] \in Finished
         => "ACKED" \in acks'[e] /\ status'[e] = "ACKED"]_vars
-----------------------------------------------------------------------------
(* The abstract queue this component implements. *)

Queue == INSTANCE AggregateQueue WITH
  outcome <- [e \in Event |-> IF status[e] \in Open THEN "OPEN" ELSE status[e]],
  handed <- {e \in Event : attempts[e] > 0}

\* Seen through the projection, the dispatchers, ACKs, operators, crashes
\* and late outcomes only ever do what AggregateQueue allows: hand over the
\* head of an aggregate, and settle an open event once.
ImplementsQueue == Queue!QueueSpec
-----------------------------------------------------------------------------
(* Liveness: sweeps run again and again and time passes.  Nothing is assumed *)
(* of the transport or of operators, and a process may die after any claim.  *)
(* The one assumption on the peer: it does not answer ERROR for ever, since  *)
(* each negative ACK starts a new backoff and could hold a retry off.        *)
NegativeAck ==
  \E e \in Event, delay \in Backoffs :
    AckTenantEvent(e, "ERROR", delay) \/ AckEvent(e, "ERROR", delay)

Fairness ==
  /\ WF_vars(Tick)
  /\ WF_vars(\E d \in Dispatchers, S \in SUBSET Event : ClaimDue(d, S))
  /\ \A d \in Dispatchers : WF_vars(DispatchStep(d) /\ batch[d] # {})
  /\ <>[][~NegativeAck]_vars

FairSpec == Spec /\ Fairness

\* An open delivery is never stranded: it finishes, or it or an earlier
\* delivery of its aggregate keeps being attempted (up to the bound on
\* attempts). A crash between claim and send, a lost outcome or an entity
\* without a port only cost a lease.
NeverStranded ==
  \A e \in Event :
    (e <= Len(events) /\ status[e] \in Open) ~>
      \/ status[e] \in Finished
      \/ e <= Len(events) /\ \E p \in {e} \cup Earlier(e) : attempts[p] = MaxAttempts
=============================================================================
