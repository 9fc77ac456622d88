---------------------------- MODULE OutboxCutover ----------------------------
(***************************************************************************)
(* The legacy mode of the outbox (outbox.messages, one row per aggregate)  *)
(* and its one-way cutover to the event mode of OutboxDelivery, with legacy *)
(* sends, ACKs and operator retries in flight across it.                   *)
(*                                                                         *)
(* Every legacy transaction holds outbox.legacy_ownership FOR SHARE and    *)
(* the cutover holds it FOR UPDATE, so a legacy transaction lies wholly    *)
(* before or after the cutover.  The legacy row itself is not locked by    *)
(* retry(), whose read and write are two steps.                            *)
(***************************************************************************)
EXTENDS OutboxDelivery

CONSTANTS Senders   \* concurrent legacy sweeps (dispatchDue)

VARIABLES
  owner,      \* outbox.legacy_ownership.state
  queue,      \* the aggregates with a message, in created_at order
  mstatus,    \* outbox.messages.status by aggregate, "NONE" without a row
  mattempts,  \* outbox.messages.attempts
  mnext,      \* time left of outbox.messages.next_attempt_at, or NULL
  mack,       \* outbox.acknowledgements.ack_status, "NONE" without a row
  link,       \* outbox.messages.migrated_event_id, 0 when null
  base,       \* attempts of the LEGACY_HISTORY_UNAVAILABLE row of an event
  inflight,   \* legacy claims whose send has not been settled
  reading     \* what a retry() under way has read: <<message, attempts>>

messages == <<queue, mstatus, mattempts, mnext, mack, link>>
legacy == <<owner, messages, base, inflight, reading>>
cvars == <<vars, legacy>>

Message == Aggregates
MessageStatuses == {"NONE", "PENDING", "SENT", "ERROR", "ACKED"}
-----------------------------------------------------------------------------
CutoverInit ==
  /\ Init
  /\ owner = "LEGACY"
  /\ queue = <<>>
  /\ mstatus = [m \in Message |-> "NONE"]
  /\ mattempts = [m \in Message |-> 0]
  /\ mnext = [m \in Message |-> NULL]
  /\ mack = [m \in Message |-> "NONE"]
  /\ link = [m \in Message |-> 0]
  /\ base = [e \in Event |-> 0]
  /\ inflight = [p \in Senders |-> {}]
  /\ reading = NULL

EnqueueAfterCutover(m) ==
  /\ mstatus[m] = "NONE"
  /\ Len(events) + Len(queue) < MaxEvents
  /\ queue' = Append(queue, m)
  /\ mstatus' = [mstatus EXCEPT ![m] = "PENDING"]
  /\ UNCHANGED <<vars, owner, mattempts, mnext, mack, link, base, inflight, reading>>

\* The first enqueue of an aggregate; a repeated one only touches updated_at
\* and the idempotency key. MaxEvents keeps room for the migrated event.
Enqueue(m) ==
  /\ owner = "LEGACY"
  /\ mstatus[m] = "NONE"
  /\ Len(events) + Len(queue) < MaxEvents
  /\ queue' = Append(queue, m)
  /\ mstatus' = [mstatus EXCEPT ![m] = "PENDING"]
  /\ UNCHANGED <<vars, owner, mattempts, mnext, mack, link, base, inflight, reading>>

OrdinalCountedTwice(m) == mattempts[m] + 2

\* The ordinal a legacy claim gives the attempt.
MessageOrdinal(m) == mattempts[m] + 1

\* claimDue: no lease, so a SENT message is never claimed again by itself.
LegacyClaim(p, S) ==
  /\ owner = "LEGACY"
  /\ inflight[p] = {}
  /\ S # {}
  /\ Cardinality(S) <= BatchSize
  /\ \A m \in S : /\ mstatus[m] \in {"PENDING", "ERROR"}
                  /\ mnext[m] = NULL \/ mnext[m] = 0
                  /\ mattempts[m] < MaxAttempts
  /\ mstatus' = [m \in Message |-> IF m \in S THEN "SENT" ELSE mstatus[m]]
  /\ mattempts' = [m \in Message |-> IF m \in S THEN MessageOrdinal(m) ELSE mattempts[m]]
  /\ mnext' = [m \in Message |-> IF m \in S THEN NULL ELSE mnext[m]]
  /\ inflight' = [inflight EXCEPT ![p] = {<<m, MessageOrdinal(m)>> : m \in S}]
  /\ UNCHANGED <<vars, owner, queue, mack, link, base, reading>>

\* A send succeeds, is left to the caller, cannot be persisted as failed, or
\* dies with its process: no table changes.
LegacySettle(p, c) ==
  /\ inflight' = [inflight EXCEPT ![p] = @ \ {c}]
  /\ UNCHANGED <<vars, owner, messages, base, reading>>

MirrorFailureAlways(e, n, delay) ==
  /\ ledger' = IF ledger[e][n] = "NONE" THEN [ledger EXCEPT ![e][n] = "ERROR"] ELSE ledger
  /\ status' = [status EXCEPT ![e] = "ERROR"]
  /\ next' = [next EXCEPT ![e] = delay]
  /\ UNCHANGED <<events, attempts, lease, acks, receipts, quarantine, sweep>>

\* Mirror of a legacy failure in the event of a migrated message.
MirrorFailure(e, n, delay) ==
  /\ ledger' = IF ledger[e][n] = "NONE" THEN [ledger EXCEPT ![e][n] = "ERROR"] ELSE ledger
  /\ status' = IF status[e] = "SENT_UNRESOLVED" THEN [status EXCEPT ![e] = "ERROR"] ELSE status
  /\ next' = IF status[e] = "SENT_UNRESOLVED" THEN [next EXCEPT ![e] = delay] ELSE next
  /\ UNCHANGED <<events, attempts, lease, acks, receipts, quarantine, sweep>>

\* recordDispatchFailure, before or after the cutover.
LegacyFailure(p, c, delay) ==
  LET m == c[1] IN
  /\ mstatus' = IF mstatus[m] = "ACKED" THEN mstatus ELSE [mstatus EXCEPT ![m] = "ERROR"]
  /\ mnext' = IF mstatus[m] = "ACKED" THEN mnext ELSE [mnext EXCEPT ![m] = delay]
  /\ IF link[m] = 0 THEN UNCHANGED vars ELSE MirrorFailure(link[m], c[2], delay)
  /\ inflight' = [inflight EXCEPT ![p] = @ \ {c}]
  /\ UNCHANGED <<owner, queue, mattempts, mack, link, base, reading>>

\* retry() reads the row without locking it ...
RetryRead(m) ==
  /\ reading = NULL
  /\ mstatus[m] # "NONE"
  /\ link[m] = 0
  /\ mattempts[m] < MaxAttempts
  /\ reading' = <<m, mattempts[m]>>
  /\ UNCHANGED <<vars, owner, messages, base, inflight>>

\* ... and resets it, whatever its status is now.
RetryWrite(delay) ==
  /\ reading # NULL
  /\ mstatus' = [mstatus EXCEPT ![reading[1]] = "PENDING"]
  /\ mattempts' = [mattempts EXCEPT ![reading[1]] = reading[2] + 1]
  /\ mnext' = [mnext EXCEPT ![reading[1]] = delay]
  /\ reading' = NULL
  /\ UNCHANGED <<vars, owner, queue, mack, link, base, inflight>>

LegacyAckUnlinked(m, s, delay) ==
  /\ mstatus[m] # "NONE"
  /\ mstatus' = [mstatus EXCEPT ![m] = s]
  /\ mnext' = [mnext EXCEPT ![m] = IF s = "ERROR" THEN delay ELSE NULL]
  /\ mack' = IF mack[m] = "NONE" THEN [mack EXCEPT ![m] = s] ELSE mack
  /\ UNCHANGED <<vars, owner, queue, mattempts, link, base, inflight, reading>>

\* ack(): the message takes the status of the ACK, the first ACK is recorded,
\* and the event of a migrated message is updated like by AckEvent.
LegacyAck(m, s, delay) ==
  /\ mstatus[m] # "NONE"
  /\ mstatus' = [mstatus EXCEPT ![m] = s]
  /\ mnext' = [mnext EXCEPT ![m] = IF s = "ERROR" THEN delay ELSE NULL]
  /\ mack' = IF mack[m] = "NONE" THEN [mack EXCEPT ![m] = s] ELSE mack
  /\ IF link[m] = 0 THEN UNCHANGED vars ELSE ApplyAck(link[m], s, delay)
  /\ UNCHANGED <<owner, queue, mattempts, link, base, inflight, reading>>

MigratedStatusVerbatim(m) == mstatus[m]

\* The status a migrated message starts with in the event mode.
MigratedStatus(m) == IF mstatus[m] = "SENT" THEN "SENT_UNRESOLVED" ELSE mstatus[m]

\* cutoverLegacyMessages: one transaction copies every message behind the
\* events already in the log, whatever its destination, and hands ownership
\* over. Called again it changes nothing.
Cutover ==
  LET first == Len(events) + 1
      migrated == first .. Len(events) + Len(queue)
      msg(e) == queue[e - Len(events)]
  IN
  /\ owner = "LEGACY"
  /\ reading = NULL
  /\ owner' = "NEW"
  /\ events' = events \o queue
  /\ status' = [e \in Event |-> IF e \in migrated THEN MigratedStatus(msg(e)) ELSE status[e]]
  /\ attempts' = [e \in Event |-> IF e \in migrated THEN mattempts[msg(e)] ELSE attempts[e]]
  /\ base' = [e \in Event |-> IF e \in migrated THEN mattempts[msg(e)] ELSE base[e]]
  /\ next' = [e \in Event |-> IF e \in migrated THEN mnext[msg(e)] ELSE next[e]]
  /\ acks' = [e \in Event |->
                IF e \in migrated /\ mack[msg(e)] # "NONE" THEN {mack[msg(e)]} ELSE acks[e]]
  /\ link' = [m \in Message |->
                IF \E e \in migrated : msg(e) = m
                THEN CHOOSE e \in migrated : msg(e) = m ELSE 0]
  /\ UNCHANGED <<lease, ledger, receipts, quarantine, sweep, queue, mstatus, mattempts,
                 mnext, mack, inflight, reading>>

\* A unit of time passes for the legacy rows; how it relates to the leases of
\* the event mode does not matter to either.
LegacyTick ==
  /\ \E m \in Message : mnext[m] # NULL /\ mnext[m] > 0
  /\ mnext' = [m \in Message |->
                IF mnext[m] # NULL /\ mnext[m] > 0 THEN mnext[m] - 1 ELSE mnext[m]]
  /\ UNCHANGED <<vars, owner, queue, mstatus, mattempts, mack, link, base, inflight, reading>>

\* Event mode: native events may be appended and delivered in both states.
EventMode ==
  /\ Next
  /\ owner = "LEGACY" => Len(events') + Len(queue) <= MaxEvents
  /\ UNCHANGED legacy

CutoverNext ==
  \/ EventMode
  \/ \E m \in Message : Enqueue(m) \/ RetryRead(m)
  \/ \E p \in Senders, S \in SUBSET Message : LegacyClaim(p, S)
  \/ \E p \in Senders : \E c \in inflight[p] :
       \/ LegacySettle(p, c)
       \/ \E delay \in Backoffs : LegacyFailure(p, c, delay)
  \/ \E delay \in Backoffs \cup {0} : RetryWrite(delay)
  \/ \E m \in Message, s \in AckStatuses, delay \in Backoffs : LegacyAck(m, s, delay)
  \/ Cutover
  \/ LegacyTick

CutoverSpec == CutoverInit /\ [][CutoverNext]_cvars
-----------------------------------------------------------------------------
(* Properties *)

\* Every variable, of either mode, holds what its table can hold.
CutoverTypeOK ==
  /\ TypeOK
  /\ owner \in {"LEGACY", "NEW"}
  /\ queue \in Seq(Message)
  /\ mstatus \in [Message -> MessageStatuses]
  /\ mattempts \in [Message -> 0 .. MaxAttempts]
  /\ mnext \in [Message -> Nat \cup {NULL}]
  /\ mack \in [Message -> {"NONE"} \cup AckStatuses]
  /\ link \in [Message -> 0 .. MaxEvents]
  /\ base \in [Event -> 0 .. MaxAttempts]
  /\ inflight \in [Senders -> SUBSET (Message \X Ordinal)]
  /\ reading \in (Message \X (0 .. MaxAttempts)) \cup {NULL}

\* After the cutover no message is left behind in a table nobody sweeps any
\* more: each has become one event of its aggregate, and no two the same.
NoStrandedMessage ==
  owner = "NEW" =>
    /\ \A m \in Message : mstatus[m] # "NONE" => link[m] # 0 /\ events[link[m]] = m
    /\ \A m1, m2 \in Message : link[m1] # 0 /\ link[m1] = link[m2] => m1 = m2

\* A message that was SENT at the cutover is not sent again by the event mode
\* before its outcome is known: until the legacy send reports a failure, its
\* event stays SENT_UNRESOLVED unless an ACK or an operator settles it.
UnresolvedUntilOutcome ==
  \A m \in Message : link[m] # 0 /\ mstatus[m] = "SENT" =>
    \/ status[link[m]] \in {"SENT_UNRESOLVED"} \cup Finished
    \/ "ERROR" \in acks[link[m]]

\* A positive ACK through the legacy API, before the cutover or after it,
\* finishes the event: it is lost neither in the copy nor to a late failure.
AckCarriedOver ==
  \A m \in Message : link[m] # 0 /\ mstatus[m] = "ACKED" => status[link[m]] \in Finished

\* Aggregate order across the cutover: an event claimed by an event sweep,
\* migrated or native, has no unfinished predecessor in its aggregate.
MigratedOrder ==
  \A e \in 1 .. Len(events) :
    attempts[e] > base[e] => \A p \in Earlier(e) : status[p] \notin Open

\* ack() is replay-safe: once an ACKED message has had a negative ACK
\* recorded, receiving a negative ACK again does not take ACKED back.
AckReplaySafe ==
  [][\A m \in Message :
       mack[m] = "ERROR" /\ mstatus[m] = "ACKED" => mstatus'[m] # "ERROR"]_cvars

\* Every claim of an event sweep has its own CLAIMED row in the attempt
\* ledger, which completing the attempt then fills in.
ClaimRecorded ==
  \A d \in Dispatchers : \A c \in batch[d] : ledger[c[1]][c[2]] = "CLAIMED"
=============================================================================
