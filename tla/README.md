# Verification of STYNX

STYNX is a platform of NestJS packages over PostgreSQL and Redis. This
directory holds TLA+ models of the parts of it that are hard to test, the TLC
runs that check them on small instances, and proofs checked by TLAPS. They cover
the parts where several processes, transactions or round trips meet on shared
state: the transactional outbox and its event stream, idempotent commands and
routes, background jobs, sessions and their revocation, and offline sync.

## Inventory

| Component | State it keeps | Operations | What is hard | What makes it correct |
|---|---|---|---|---|
| Outbox, event mode (`packages/outbox/src/outbox.service.ts`) | `outbox.events`, `event_delivery`, `event_attempts`, `event_acks`, `event_retirements`, `ack_quarantine` | append, claim, send, record outcome, ACK, retry, retire | concurrent sweeps, a process dying between two transactions, leases against late outcomes, ACKs in any order | order per aggregate, one owner per attempt, immutable evidence, terminal states, nothing stranded |
| Outbox, legacy mode and cutover (same file) | `outbox.messages`, `acknowledgements`, `legacy_ownership`, `legacy_event_map` | enqueue, claim, failure, retry, ACK, cutover | sends in flight across the cutover, a retry that does not lock its row | no message left behind, no ACK lost, no resend while the outcome is unknown |
| Event log order and stream (`event-stream-source.ts`, `backend/src/event-stream`) | `outbox.tenant_clock`, `event_order_seq`, slots and cursors in memory | append in a transaction, commit, rollback, now, listSince, open, tick, close | events invisible until commit, clock steps, disconnect during an await | commit order is cursor order, a client misses nothing, slots do not leak |
| Transactional commands (`backend/src/transactional-command`, `idempotency/src/transactional-idempotency.store.ts`) | `core.idempotency_keys` | lookup, reserve, handle, complete, clear | reservations that expire or roll back under a waiting request, a lost answer of COMMIT | a handler takes effect at most once per key and life of a response, the client is told the truth, a wait ends |
| Idempotency interceptor (`idempotency/src`) | Redis entry and lock, durable row | get, lookup, lock, reserve, wait, store, persist, clear, release | lock TTL, release in two round trips, updates of the row that do not ask who reserved it | in strict mode one execution and one recorded response per key |
| Jobs (`jobs/src`) | `jobs.jobs`, `jobs.schedules`, executions in memory | enqueue, claim, succeed, fail, dead-letter, cancel, materialize, administer schedules | visibility timeout against slow handlers, an outcome that cannot be written, cancellation during a run | outcomes go to their attempt, terminal states, bounded attempts, every job settles |
| Sessions (`sessions/src`) | session records, refresh lookups and indexes in Redis | create, switch, refresh, touch, revoke, revoke all | read-then-write over separate round trips | a refresh token rotates once, a revoked session stays gone, one session per user and tenant |
| Session revocation list (`sessions/src/session-revocation-list.ts`, guard of `auth`) | sorted set in Redis, a map in the memory of each process | revoke, replace, refresh the list, check a token | failed or slow reads, restarts, a list that is stale when used | a revocation reaches every process in bounded time |
| Offline sync (`offline-sync/src`) | numbering ranges, reservations, consumption, batches, item receipts, queue items, conflicts | reserve, cancel, block, reconcile, submit, apply, detect and resolve conflicts | leases taken over, items in several batches, a number returned to the range | an item takes effect once, an official number is used once, a closed batch is settled |
| Mobile runtime, flow, worklist, tenancy, auth, rate limit, storage, privacy, notifications, audit | tables guarded by row status, caches | single-transaction updates, cache invalidation | stale caches, a crash between two local writes | not modelled, see below |
| pdf, i18n, logging, health, cli, web packages, infrastructure | none of interest | conversion, I/O, user interface | - | not modelled |

How the modelled parts interact: a business transaction appends to
`outbox.events` under the tenant clock (`EventStream`); sweeps of a scheduler or
of a tenant request claim deliveries, call a transport and record the outcome in
a second transaction (`OutboxDelivery`); webhooks bring ACKs, operators retry and
retire; the cutover moves the legacy table behind the events already in the log
(`OutboxCutover`, which extends `OutboxDelivery`); browsers follow the log over
server-sent events (`EventStream`). `EventStream!CommitOrder` is what allows
`OutboxDelivery` to identify an event with its rank in the log. Transactional
commands and idempotent routes share the table `core.idempotency_keys` but never
a row (the key of the former is the scope and the key with their lengths, that of
the latter a SHA-256 digest), so they are separate models. A session
that is revoked (`Sessions`) is announced to the processes that verify access
tokens (`RevocationList`). A batch of offline items consumes official numbers, so
`OfflineBatch` extends `OfflineNumbering` and both change in one transaction.

`PROJECT.json` lists the components with their status and the hazards with their
lines.

## Modules

| Module | Role |
|---|---|
| `OutboxDelivery` | the event mode of one tenant |
| `AggregateQueue` | abstract specification: per aggregate, only the head is handed over and each event is settled once |
| `OutboxCutover` | legacy mode and cutover, on top of `OutboxDelivery` |
| `EventStream` | tenant clock, append transactions, stream connections |
| `TransactionalCommand` | commands of the transactional interceptor, one transaction each |
| `IdempotentRoute` | the requests of one key on an `@Idempotent()` route |
| `Jobs` | queue, workers, schedules and schedulers |
| `Sessions` | the sessions of one user |
| `RevocationList` | how a revocation reaches the processes |
| `OfflineNumbering` | the official numbers of one range |
| `OfflineBatch` | the durable submission of batches, on top of `OfflineNumbering` |
| `MC...` | constants and symmetry sets for TLC |
| `OutboxProofs` | theorems about `OutboxDelivery` and `OutboxCutover` |
| `EventStreamProofs`, `TransactionalCommandProofs`, `IdempotentRouteProofs`, `JobsProofs`, `SessionsProofs`, `RevocationListProofs` | theorems about the module they are named after |
| `OfflineProofs` | theorems about `OfflineNumbering` and `OfflineBatch` |

### OutboxDelivery

One action is one committed transaction or one step of a sweep between two of
them. `ClaimDue` is the claim transaction of `dispatchEventsDue` and
`dispatchTenantEventsDue`, whose queries agree apart from the tenant filter: it
takes any non-empty set of at most `BatchSize` due deliveries, since `SKIP LOCKED`
and the entity filter can hide any of them. `Transport` is the call of the port,
`RecordSent` and `RecordFailure` the transaction after it, `LeaveUnresolved` its
failure, `SkipWithoutPort` the early `continue`, and `Crash` the death of the
process. A sweep works through its claims in log order. The sweeps in
`AppDispatchers` run as the application role, so the trigger
`guard_app_attempt_completion` applies to them (`MayComplete`).

Timestamps are modelled by the time left until them. Only the sign of a lease and
whether a due time has come matter, so the counters stop there; a lease counts
down to -1, because at equality the code's `<` and `>` both fail. The answers of
retirement that change nothing (replay, conflict) are not steps. One statement of
a claim evaluates its `NOT EXISTS` on a snapshot older than its row locks; that
is safe because a finished delivery stays finished (`FinishedIsFinal`) and no
event is inserted behind a visible one (`CommitOrder`), so the model evaluates it
at the claim.

### OutboxCutover

A message is identified with its aggregate, as in the unique constraint of
`outbox.messages`. All legacy transactions take `legacy_ownership` FOR SHARE and
the cutover takes it FOR UPDATE, so each is one step before or after it, except
`retry()`: it reads the row without locking it, so `RetryRead` and `RetryWrite`
are two steps, between which other legacy transactions can run but the cutover
cannot. The history row of a migrated message (`LEGACY_HISTORY_UNAVAILABLE`,
ordinal 0) is the variable `base`. Outcomes of a legacy send that change no table
are one action, `LegacySettle`. Native events can be appended in both states;
those appended before the cutover precede the migrated ones, which is why
`MigratedOrder` compares `attempts` with `base`.

### EventStream

`AppendManyInTransaction` adds one event to a transaction; a batch is several of
them. The clock row stays locked from the first append to the end of the
transaction, and `now()` waits for it. `wall` may step back. A value of the
sequence is used up also by an append that finds its key taken. `lastId` is what
the client would send as Last-Event-ID, `since` and `seen` record what the client
is owed and what was processed for it; frames that are filtered or dropped count
as processed, as the code moves the cursor past them. A client that is told 204
does not reconnect ("gone").

### TransactionalCommand

One request is one READ COMMITTED transaction, one action per statement. What it
wrote stays in `draft` and `cmd` until `Commit`; `row` is the committed version
that others read. `BeginReserve` computes the expiry before the INSERT waits for
the row, as the code does, so a reservation can be short-lived when its wait was
long; `Reserve` is the moment the INSERT gets the row, `ReserveTimeout` the
`lock_timeout`. `Handle` chooses the outcome of the application's handler and what
the policy selects. `Commit` may lose its confirmation. `Fail` is any failed
statement or a dead process. The history `effects` records committed executions.

### IdempotentRoute

Every await of `IdempotencyInterceptor.run` is an action. Both values of
`durableStrict` are initial states. Time is left out: the entry, the lock and the
row may expire at any moment, up to `MaxExpiries` times, which includes a handler
that outlives its lock. `reserve` is ON CONFLICT DO NOTHING, so a row that has
expired still conflicts (`Reservable`); `persistResponse` and `clearReservation`
do not ask whose reservation it is. A clear takes place in the try, after a
response of 500 or more (`Clear`), or in the catch (`Recover`). When the one in
the try throws, the catch clears again; the first one may have been committed all
the same, and `lost` records that. `robbed` are the requests at work whose
reservation another request persisted to or cleared. `ReleaseRead` and `ReleaseDelete` are the two
round trips of `releaseLock`. `Die` is a failed round trip before the handler or a
dead process; its lock and reservation stay behind.

### Jobs

Times are relative: `wait` counts down to `run_at` or `next_run_at`, `lease` to
`locked_until`, so there is no clock to bound. `Claim` is the claim transaction of
a tick together with the start of its executions; `exec` are all executions of a
process, `awaited` those of the tick under way. `OutcomeLost` is an outcome write
that throws, before or after it was committed: `Promise.all` rejects at once and the next tick may start while the
other executions run on. `Crash` keeps the `workerId`, which may come from the
options. `SelectDue` and `Materialize` are the read and the write of one
transaction of the scheduler; `holder` is its row lock, for which administrative
changes wait. `lapsed` counts the claims whose visibility timeout ran out.

### Sessions

One user, several tenants. MULTI blocks and the Lua script of `createWithPolicy`
are single actions; all else is a read and a later write of the same call
(`RotateRead`/`RotateWrite`, `Touch`/`TouchWrite`, `RevokeRead`/`RevokeWrite`), with
other calls in between. `RotateRead` merges the reads of the session and of the
lookup, since an active lookup shows that nothing was exchanged or revoked between
them. `WriteBack` is the unconditional SET with which a refresh and a touch end. The
histories `spent`, `revoked`, `haunted` and `revived` state the properties:
`haunted` are sessions revoked while another call held their record, `revived` are
sessions whose record was written back when it was not active any more, because
it had been deleted or had passed its idle timeout.

### RevocationList

A refresh of the list has three steps (begin, read of the store, update of the
map) and vouches for the time it began. Any access token of any session issued up
to the revocation is considered. The model assumes that clocks agree and that a
revocation takes no longer than the retention skew from `revokedAt` to its write:
with a longer one the entry would leave the sorted set early.

### OfflineNumbering and OfflineBatch

Durable mode. An operation on numbers is one transaction that locks what it
decides on. A reservation stands for its idempotency key. `Cancel` returns the
unused tail to the range when nothing was reserved after it; `Covering`,
`NumberVerdict` and `UseNumber` are what an item transaction does with its number.

A request of `OfflineBatch` submits one batch: `Open`, `Contended` and `Wait` take
its lease, then each item goes through `Preflight`, the application (`ApplyItem`,
`ApplyDuplicate`, `Defer`, `Refuse`, `Fail`) and, after a failure, `Record`; `Close`
stores the response. Every transaction renews the lease and ends if the batch was
taken over (`Holds`). A lease may be found expired at any time, so no clock is
needed; its token is the request. `initialQueueStatus` is one value for the
system. `RetryAfterCorrection` and `Resolve` are the resolution of conflicts
through the port. `Pairs` are the pairs of items a concurrency detector may
suspect, any number of them at a time, and only those of the item itself before
its application (`Deferred`). `Fail` loses the answer of a commit, be it of an
application or of a deferral.

## Runs

| Run | Bounds | Shows |
|---|---|---|
| `outbox_safety` | 2 events, 2 aggregates, 2 sweeps (one per role), 2 attempts, lease 1, batches of 2, 2 operation keys | all safety properties of the event mode |
| `outbox_liveness` | 2 events over 3 aggregates (one without a port, one without a destination), 1 sweep, batches of 2 | `NeverStranded`; `OutboxDelivery` implements `AggregateQueue` |
| `cutover_safety` | 1 message, 1 native event, 1 legacy sweep, 1 event sweep, 2 attempts | the cutover loses, strands and resends nothing |
| `cutover_ack_replay`, `cutover_claim_recorded` | as above | two disagreements with the documentation, see below |
| `event_stream` | 2 transactions, 3 keys, 2 sequence values, 2 wall-clock values, 2 connections, 1 slot, 2 openings, batches of 2 | commit order, nothing missed, slots accounted for, every event streamed |
| `transactional_command` | 3 requests, 1 key, 2 fingerprints, TTL 1, times 0 to 2 | executions are serial, answers truthful, no reservation stranded, waits end |
| `idempotent_route` | 3 requests, 2 fingerprints, both modes, 1 fault, 2 expiries | exclusion and the single record of strict mode |
| `jobs` | 1 job, 1 schedule with 1 occurrence, 2 workers, 2 schedulers, 2 attempts, visibility 1, 1 fault, 1 slow handler, 2 edits | outcomes and attempts, terminal states, schedules, every job settles |
| `sessions` | 3 sessions, 2 tenants, 3 tokens, 2 calls in flight, `revoke-existing`, idle 2, absolute 3, times 0 to 2 | one exchange per token, revoked stays gone, single session |
| `revocation_list` | 1 session, 2 processes, access 2, skew 1, staleness 0, times 0 to 4 | a revocation reaches every process |
| `offline_sync` | 2 requests, 3 batches of 2 devices, 2 keys, 1 number, 2 reservations, 1 fault, 2 changes | numbers and items are used once, closed batches are settled |

Why the bounds are enough to be interesting:

- Outbox: two events of one aggregate are the smallest order to break; two
  attempts give a reclaim with the first sweep still sending; two sweeps give a
  late outcome against a newer claim; two operation keys and two events give both
  kinds of retirement conflict; a lease of one unit passes through active, equal
  and lapsed. In the cutover one message and one native event of the same
  aggregate make the migrated event the successor of a native one.
- Stream: two wall-clock values let the clock step back between two transactions,
  two sequence values and three keys let one abort or replay a key in between, and
  two connections compete for one slot.
- Commands and routes: the third request looks, waits or takes over while the
  second follows the first; TTL 1 and times up to 2 let a reservation expire under
  its handler and under a waiter. Two expiries are a lock and a row, or the two
  locks of two successive holders. One fault is a clear that was committed and
  reported a failure; with two expired locks the second request loses its
  reservation to the catch of the first, and the third runs beside it.
- Jobs: a worker that lost an outcome claims its own job again while the first
  execution runs, and a second worker can be in between.
- Sessions: three tokens are two rotations; two calls in flight are one that read
  a record and one that revokes or rotates it. The clock passes the idle timeout
  of a session that is not touched, and a touch puts it off. No session reaches its
  absolute timeout within these times; the proofs cover every value of both.
- Revocations: five instants cover a token's life and the retention after it, with
  a refresh that begins before and ends after a revocation. A staleness of 0 is
  the tightest promise.
- Offline: two keys in three batches of two devices give the same item in two
  batches, a batch taken over, and a pair of suspected items; two reservations
  compete for one number that is returned in between. Two keys make one pair; the
  proofs cover any set of pairs, and intervals that are used in part.

Bounds are `MaxEvents`, `MaxAttempts` (outbox), `MaxWall`, `MaxSeq`, `MaxOpens`,
`MaxTime`, `MaxFaults`, `MaxExpiries`, `MaxSlow`, `MaxEdits`, `MaxOccurrences` and
`MaxChanges`; the systems stop when they are used up or when every request is
answered, so deadlock is not checked. `MaxAttempts` of `Jobs` is the code's own.

The type invariants `CommandTypeOK`, `RouteTypeOK`, `SessionsTypeOK`,
`RevocationTypeOK`, `NumberingTypeOK` and `CutoverTypeOK` are no part of the runs:
they are proved. `JobsTypeOK` is for the reader; what is proved of it is `Typed` of
`JobsProofs`, which leaves out the counters that bound faults.

Every property has a mutant in `PROJECT.json`: a change of one definition such as
a bug in that code would make, under which TLC reports the property as violated.
The mutated forms stand next to the definitions they replace.

### Fairness

`NeverStranded` assumes that time passes, that sweeps are run again and again
(a scheduler drives `dispatchEventsDue`), and that a process with a batch takes
its next step, where dying counts as one. Nothing is assumed of the transport,
of the record of its outcome, of ACKs or of operators. One assumption concerns
the peer: it does not send negative ACKs for ever. The code does not guarantee
this; each negative ACK schedules a new backoff, and without the assumption a
retry can be put off without end. The conclusion is bounded: a delivery finishes,
or it or a predecessor in its aggregate reaches `MaxAttempts` claims. Whether a
busy aggregate can starve another one through the `limit` of a sweep is beyond
that bound.

`EventuallyStreamed` assumes that ticks run while a connection is open, that rows
are processed, and that ticks do not fail for ever.

`WaitBounded` assumes that each statement of a request is answered in the end.
Nothing is assumed of the handler that holds the row: it may never return.

`EveryJobSettles` assumes that time passes, that a handler returns or throws, and
strong fairness of the claim of each job: a job is claimable again and again
between other claims, and the order by priority and `run_at` does not pass it over
for ever. Faults and handlers slower than the visibility timeout are bounded by
`MaxFaults` and `MaxSlow`; a handler that is slow every time is claimed for ever.

### Disagreements found

- `cutover_ack_replay`: the legacy `ack()` sets the status of every ACK it
  receives. ERROR, ACKED and a repeated ERROR leave the message ERROR and due, so
  a delivered message is sent again. `docs/framework/contracts/outbox-api.md:550`
  calls `ack()` replay-safe; only the acknowledgement row is.
- `cutover_claim_recorded`: the legacy `retry()` can undo the increment of a
  concurrent claim. A legacy send in flight then has an ordinal above the migrated
  `attempts`. If it fails after the cutover, its ERROR row takes the ordinal of the
  next event claim, whose CLAIMED row is dropped by `ON CONFLICT DO NOTHING`. A
  sweep of the application role cannot complete that attempt. The contract
  (`outbox-api.md:413`) promises a CLAIMED row for every claim.

### What the models show beside their properties

The properties of the newer modules are stated with the exceptions the code has.
Without these exceptions TLC finds the following behaviours:

- Jobs: `packages/jobs/README.md` says that overlapping ticks are skipped. When
  the write of one outcome throws, the tick ends and the next one starts while the
  other executions of its batch still run; an execution left behind can then
  report to a later attempt of the same worker. `AwaitedAttemptCurrent` is
  therefore about executions that the current tick awaits. A job slower than the
  visibility timeout is claimed beyond `max_attempts`; `AttemptBudget` counts these
  claims in `lapsed`.
- Sessions: a refresh or a touch that read the record before a revocation writes
  it back after it, and the session is there again until it expires
  (`docs/meta/ops/runbooks/session-revocation.md:14` has the operator verify that
  a refresh of the revoked session fails); these sessions are `haunted`. A touch
  can overwrite the hash of a rotated token, and two overlapping refreshes of one
  token can both succeed. A third case came up in the proof of `SingleSession`: a
  session passes its idle timeout while a touch or a refresh of it is under way, a
  creation does not count it as a conflict, and the late write makes it active
  again beside the new one. `SingleSession` therefore speaks of sessions that are
  not `revived`.
- Idempotent routes: with `durableStrict` off, which is the default, a request
  that waited in vain runs the handler a second time
  (`packages/idempotency/README.md:3`). In strict mode an expired row blocks the
  key until it is removed, and a reserve that throws keeps the lock until it
  expires. Strict mode has one gap: the handler of a request returns a status of
  500 or more, the DELETE of `clearReservation`
  (`idempotency.interceptor.ts:324`) commits and its confirmation is lost, the
  lock expires, and the next request reserves the key. The catch of the first then
  clears again (`:347`) and deletes that reservation, so that a third request can
  reserve. Two handlers run at once, both may record a response, and a response
  may be stored under the fingerprint of another request. `StrictExclusion` and
  `StrictRecord` therefore exempt `robbed` requests, and state that there are none
  unless a clear was lost.
- Offline sync: with `initialQueueStatus` pending, two batches may apply the same
  pending item. If the application of the first is refused and rolled back, the second then
  applies the item, and the failure transaction of the first leaves the receipt
  `applied` but sets the queue item to `rejected`, because that update is not
  guarded (`docs/framework/contracts/offline-sync-api.md:475`). The properties are
  stated on receipts, responses and effects. `resolveConflict` of the store, called
  without the resolver, changes the queue item and not the receipt.

## Proofs

TLAPS checks, for every value of the constants that satisfies the named
assumptions, every invariant and every action property of the passing runs, and
the safety part of the refinement of `AggregateQueue`. In each proof module
`InitIInv` and `NextIInv` show that one invariant `IInv` holds initially and is kept by every step (the
second has a lemma per action or per group of actions that change the same state),
`Invariance` is `Spec => []IInv`, and the other theorems follow from it. The action
properties follow from `IInv` and one step. The auxiliary invariants were checked
with TLC on the configurations of the runs before they were proved.

| Module | Theorem | Statement |
|---|---|---|
| `OutboxProofs` | `TypeCorrect` | `Spec => []TypeOK` |
| | `OrderCorrect` | `Spec => []AggregateOrder` |
| | `LedgerCorrect`, `OwnershipCorrect` | `LedgerComplete`, `AttemptOwnership` |
| | `LeaseCorrect` | `SentHasLease` |
| | `OutcomeCorrect`, `ErrorCorrect`, `ReceiptsCorrect` | `AckNotLost`, `ErrorExplained`, `RetirementReceipts` |
| | `FinalCorrect`, `EvidenceCorrect`, `LeasedCorrect` | `FinishedIsFinal`, `EvidenceImmutable`, `LeasedOnlyAckFinishes` |
| | `QueueCorrect` | `Spec => ImplementsQueue` |
| | `CutoverTypeCorrect` | `CutoverSpec => []CutoverTypeOK` |
| | `StrandedCorrect`, `UnresolvedCorrect`, `AckCarriedCorrect`, `MigratedOrderCorrect` | `NoStrandedMessage`, `UnresolvedUntilOutcome`, `AckCarriedOver`, `MigratedOrder` |
| `EventStreamProofs` | `TypeCorrect`, `OrderCorrect`, `StreamCorrect`, `SlotsCorrect` | `StreamTypeOK`, `CommitOrder`, `NothingMissed`, `SlotsAccounted` |
| `TransactionalCommandProofs` | `TypeCorrect`, `SerialCorrect`, `AnswersCorrect`, `ReservationCorrect` | `CommandTypeOK`, `SerialExecutions`, `AnswersTruthful`, `NoStrandedReservation` |
| `IdempotentRouteProofs` | `TypeCorrect`, `ExclusionCorrect`, `RecordCorrect` | `RouteTypeOK`, `StrictExclusion`, `StrictRecord` |
| `JobsProofs` | `AwaitedCorrect`, `BudgetCorrect`, `ScheduleCorrect`, `TerminalCorrect` | `AwaitedAttemptCurrent`, `AttemptBudget`, `ScheduleInForce`, `TerminalFinal` |
| `SessionsProofs` | `TypeCorrect`, `TokenCorrect`, `RevokedCorrect`, `SingleCorrect` | `SessionsTypeOK`, `TokenSpentOnce`, `RevokedStaysGone`, `SingleSession` |
| `RevocationListProofs` | `TypeCorrect`, `RevocationCorrect` | `RevocationTypeOK`, `RevocationReaches` |
| `OfflineProofs` | `NumberCorrect`, `AppliedCorrect`, `SettledCorrect` | `OfficialNumberOnce`, `AppliedOnce`, `ClosedBatchSettled` |

### Assumptions

Each is the `ASSUME` of the module that declares the constants
(`OutboxAssumption`, `StreamAssumption`, `CommandAssumption`, `RouteAssumption`,
`JobsAssumption`, `SessionsAssumption`, `RevocationAssumption`,
`NumberingAssumption`, `BatchAssumption`), and TLC evaluates it in the runs. They
say that numbers are natural numbers, positive where the options are validated or
have such a default (lease, TTL, batch sizes, visibility, intervals); that the
attributes of requests and batches are functions and sequences of the right type;
and that the value for "nothing" is no identifier. Nothing is assumed about how
many processes, requests, events, jobs or sessions there are, or whether they are
finitely many.

### The inductive invariants

None of the properties is inductive as it stands.

- Outbox, event mode. `IInv` is `TypeOK`, `Shape` (deliveries exist only for logged
  events, only they are claimed, a held ordinal is at most `attempts`, a finished
  delivery has no schedule) and the seven invariants together. `AggregateOrder`
  needs that finished deliveries do not reopen and that rows beyond the end of the
  log are blank; `AttemptOwnership` needs `LedgerComplete`, because a fresh ordinal
  is fresh only if the ledger ends at `attempts`; `ErrorExplained` needs that the
  claim which owns the projection is the last one.
- Cutover. The ledger of a migrated event does not begin at its first attempt, so
  the invariants of the event mode do not hold after the cutover and a separate
  `CutoverInv` is needed: `Rows` (only events of the log have rows, every link leads
  to one), `Unmigrated` (before the cutover the queue has every message and
  there is room for it) and `Calls` (a retry under way ends before the cutover).
- Event stream. `Alone` and `Stamped`: only the holder of the clock row has
  uncommitted rows, and whatever commits later comes after every visible row.
  `Cursors` says the same of what clients hold, and `Batch` that a tick has the
  rows after its cursor without a gap; together they give `NothingMissed`. `Slots`
  counts connections with the theorems about finite sets.
- Transactional commands. `Locked` (one transaction holds a row), `Drafts` (what it
  wrote), `Precedes` (every committed execution of the key was over, and its
  response expired, when the running one reserved it), `RowExplained` (a completed
  row is the response of a committed execution), `Unanswered`, `Dated`.
- Idempotent routes. In strict mode `Reserved`: the row is the pending reservation
  of any request at work that was not robbed, so a reservation, which finds no row,
  finds nobody else at work. `Held`: as long as no clear was lost, a catch finds a
  row, so nobody has reserved the key since and it robs nobody. `Made`: what is
  stored was made by a handler, for the fingerprint of the row unless someone was
  robbed. The proof does not mention the lock in Redis: strict mode rests on the
  row alone, whatever happens to locks.
- Jobs. An execution left behind can still return its job to the queue, so
  `AttemptBudget` is proved from `Budget`, which adds the number of executions under
  way that may do so. `Begun` and `OneWorker` tie executions to claims; `HeldDue`
  is what a scheduler knows of the schedule it locked.
- Sessions. `Filed` (every token a record names has a lookup, which is never
  removed), `Exchanged` (a spent token stays used), `Gone`, `Indexed` (the index
  misses no session that was not revived) and `Calling`, which relates what each
  call remembers of a record to the store.
- Revocation list. `StoreCovers`: an entry stays in the sorted set until the tokens
  it cut off have expired. This needs `Timely`, that a revocation takes at most the
  skew. `FetchCovers` and `ListCovers` carry it to what a refresh has read and to
  the map, up to the time the refresh vouches for.
- Offline numbers. A reservation stands for its interval or, once cancelled, for
  what it used of it (`Owned`); these sets are disjoint and lie below `range.next`,
  so a returned tail can be handed out again.
- Offline batches. `Received` (a receipt is that of the first item of its batch with
  its key), `Effective` (receipts and numbers agree with the effects), `Progress`
  (where a request is in its batch and what it said so far) and `Swept` (the holder
  of a batch knows of every item it left waiting), from which a closed batch is
  settled.

### Only model-checked

- The liveness properties `NeverStranded`, `EventuallyStreamed`, `WaitBounded` and
  `EveryJobSettles`: fairness and ENABLED are out of reach of the prover.
- `JobsTypeOK` as a whole: `slow` adds the cardinality of a set of executions,
  which is a number only where there are finitely many.
- The two disagreements below `Runs`, which are counterexamples.


## Not modelled, and why

- Several tenants: every query of the event mode is keyed by tenant, and the
  tenants share only the sequence, whose gaps do not matter.
- Idempotency keys that collide between a legacy message and a native event: the
  cutover then aborts as a whole.
- Evidence bytes, hashes, signatures, error texts and metrics.
- Sessions: several users (no operation touches two), the in-memory store of the
  tests, the derivation of claims and cookies. "Revoke all" prunes the index in one
  step, where the code has SMEMBERS, EXISTS and SREM, and revokes the sessions it
  found one after the other, where the code starts all revocations at once: a
  record that has expired comes back between EXISTS and SREM only by a late write,
  which makes it `revived`, and revocations that overlap are those of two calls,
  which the model interleaves. The mode `off` allows several
  sessions by design; `reject-new` is in the model and not in the run.
- Offline sync: a host without an `itemApplier` (`postgres-durable.ts:1186`,
  `1250`, `1317`), where items are only stored and a batch closes with items that
  stay `received`, so that `ClosedBatchSettled` is not meant; a queue id that
  another key already has (`1064` to `1088`), which is rejected and changes no
  receipt; the E6 and legacy modes, transport keys, hashes that are not
  canonical, import and archive, listings, attempt rows, the in-memory store.
- Mobile runtime: a queue in the storage of one device. A crash between marking
  items `sent` and the response leaves them `sent`; the server side, which makes a
  resend harmless, is `OfflineBatch`.
- Flow, worklist, tenancy, permissions, rate limits, storage, privacy,
  notifications and audit: operations of one transaction, guarded by row status,
  or caches with a time to live. They are the next candidates.
- Conversions, user interface, generated catalogs and clients, build and release
  scripts, infrastructure: most of the lines of the repository, with no state
  shared between concurrent actors.

## Plan

1. Abstract specifications for further components, with refinements checked and
   proved as for `AggregateQueue`: transactional commands and strict idempotent
   routes as a register written once per life of a key, offline batches as a set of
   items each applied once.
2. The same for the jobs queue, whose abstract specification is a bounded number
   of attempts with one settled outcome.
3. Permission cache invalidation, the mobile runtime's queue, flow transitions.
