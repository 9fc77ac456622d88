---------------------------- MODULE IdempotentRoute ----------------------------
(***************************************************************************)
(* The requests of one idempotency key on an @Idempotent() route:          *)
(* packages/idempotency/src/idempotency.interceptor.ts over its Redis      *)
(* backend (a cached entry and a lock, each with a time to live) and its   *)
(* durable store (the row of core.idempotency_keys).                       *)
(*                                                                         *)
(* Every await of IdempotencyInterceptor.run is an action of its own.      *)
(* Time is left out: an entry, a lock or a row may expire at any moment,   *)
(* which includes a handler that outlives its lock.  A response stands for *)
(* the request whose handler made it.                                      *)
(***************************************************************************)
EXTENDS Naturals, FiniteSets

CONSTANTS Requests,       \* requests that carry the key
          Fingerprints,   \* hashes of method, path and body
          FingerprintOf,  \* the fingerprint of each request
          Modes,          \* values of options.durableStrict to consider
          MaxFaults,      \* bound: failed round trips and dead processes
          MaxExpiries,    \* bound: entries, locks and rows that expire
          None

ASSUME RouteAssumption ==
  /\ FingerprintOf \in [Requests -> Fingerprints]
  /\ Modes \subseteq BOOLEAN
  /\ MaxFaults \in Nat /\ MaxExpiries \in Nat
  /\ None \notin Requests \cup Fingerprints

VARIABLES
  strict,    \* options.durableStrict
  entry,     \* the cached response in Redis
  lock,      \* the request whose token the lock key holds
  row,       \* the row of core.idempotency_keys
  pc,        \* pc[r]: the next step of request r
  locked,    \* locked[r]: r acquired the lock
  threw,     \* threw[r]: the handler of r threw the response it is to store
  answer,    \* answer[r]: the request whose response r got
  ran,       \* requests whose handler made a response to keep (history)
  recorded,  \* requests whose response a row has held (history)
  lost,      \* requests whose clear took effect and reported a failure (history)
  robbed,    \* requests whose reservation another request settled (history)
  faults, expiries

vars == <<strict, entry, lock, row, pc, locked, threw, answer, ran, recorded,
          lost, robbed, faults, expiries>>

NoRow == [status |-> "absent", fp |-> None, by |-> None, live |-> FALSE]
Rows == [status: {"absent", "pending", "completed"},
         fp: Fingerprints \cup {None}, by: Requests \cup {None}, live: BOOLEAN]

Phases == {"idle", "lookup", "refill", "lock", "reserve", "waitEntry", "waitRow", "waitLock",
           "handler", "store", "persist", "clear", "recover", "release", "unlock", "done"}

\* The request is past its reservation and has not begun to recover from a failure.
Working == {"handler", "store", "persist", "clear"}

RouteTypeOK ==
  /\ strict \in BOOLEAN
  /\ entry \in Requests \cup {None}
  /\ lock \in Requests \cup {None}
  /\ row \in Rows
  /\ pc \in [Requests -> Phases]
  /\ locked \in [Requests -> BOOLEAN]
  /\ threw \in [Requests -> BOOLEAN]
  /\ answer \in [Requests -> Requests \cup {None}]
  /\ ran \subseteq Requests
  /\ recorded \subseteq Requests
  /\ lost \subseteq Requests
  /\ robbed \subseteq Requests
  /\ faults \in Nat /\ expiries \in Nat

Init ==
  /\ strict \in Modes
  /\ entry = None
  /\ lock = None
  /\ row = NoRow
  /\ pc = [r \in Requests |-> "idle"]
  /\ locked = [r \in Requests |-> FALSE]
  /\ threw = [r \in Requests |-> FALSE]
  /\ answer = [r \in Requests |-> None]
  /\ ran = {}
  /\ recorded = {}
  /\ lost = {}
  /\ robbed = {}
  /\ faults = 0
  /\ expiries = 0

-----------------------------------------------------------------------------
redis == <<entry, lock>>
local == <<locked, threw>>
history == <<ran, recorded, lost, robbed>>
bounds == <<faults, expiries>>

Goto(r, next) == pc' = [pc EXCEPT ![r] = next]

\* The client gets the response of request q, or an error if q is None.
Reply(r, q) ==
  /\ Goto(r, "done")
  /\ answer' = [answer EXCEPT ![r] = q]

\* What a request does with a stored response of request q and fingerprint fp:
\* a conflict, a replay, or nothing yet.
Consult(r, there, fp, q, next) ==
  IF there /\ fp # FingerprintOf[r] THEN Reply(r, None)
  ELSE IF there /\ q # None THEN Reply(r, q)
  ELSE Goto(r, next) /\ UNCHANGED answer

\* The cached entry is always completed, with the fingerprint of its request.
Cached(r, next) ==
  Consult(r, entry # None, IF entry = None THEN None ELSE FingerprintOf[entry], entry, next)

\* A row that has expired is not seen by lookup.
Durable(r, next) == Consult(r, row.live, row.fp, row.by, next)

-----------------------------------------------------------------------------
(***************************************************************************)
(* Before the handler                                                      *)
(***************************************************************************)

Get(r) ==
  /\ pc[r] = "idle"
  /\ Cached(r, "lookup")
  /\ UNCHANGED <<strict, redis, row, local, history, bounds>>

Lookup(r) ==
  /\ pc[r] = "lookup"
  /\ IF row.live /\ row.fp = FingerprintOf[r] /\ row.by # None
       THEN /\ answer' = [answer EXCEPT ![r] = row.by]
            /\ Goto(r, "refill")
       ELSE Durable(r, "lock")
  /\ UNCHANGED <<strict, redis, row, local, history, bounds>>

\* A completed row is copied to the cache before it is replayed.
Refill(r) ==
  /\ pc[r] = "refill"
  /\ entry' = answer[r]
  /\ Goto(r, "done")
  /\ UNCHANGED <<strict, lock, row, local, answer, history, bounds>>

AcquireLock(r) ==
  /\ pc[r] = "lock"
  /\ IF lock = None
       THEN /\ lock' = r
            /\ locked' = [locked EXCEPT ![r] = TRUE]
            /\ Goto(r, "reserve")
       ELSE Goto(r, "waitEntry") /\ UNCHANGED <<lock, locked>>
  /\ UNCHANGED <<strict, entry, row, threw, answer, history, bounds>>

\* One round of waitForReadyEntry.
WaitEntry(r) ==
  /\ pc[r] = "waitEntry"
  /\ Cached(r, "waitRow")
  /\ UNCHANGED <<strict, redis, row, local, history, bounds>>

WaitRow(r) ==
  /\ pc[r] = "waitRow"
  /\ Durable(r, "waitLock")
  /\ UNCHANGED <<strict, redis, row, local, history, bounds>>

\* Waited in vain: 503 in strict mode, the handler otherwise.
GiveUp(r) ==
  IF strict THEN Reply(r, None) ELSE Goto(r, "handler") /\ UNCHANGED answer

\* The lock is gone, or the attempts are used up; otherwise another round.
WaitLock(r) ==
  /\ pc[r] = "waitLock"
  /\ \/ GiveUp(r)
     \/ /\ lock # None
        /\ Goto(r, "waitEntry") /\ UNCHANGED answer
  /\ UNCHANGED <<strict, redis, row, local, history, bounds>>

\* A mutant of Reservable: ON CONFLICT takes the row over.
AlwaysReservable == TRUE

\* ON CONFLICT DO NOTHING: a row that has expired still conflicts.
Reservable == row.status = "absent"

\* Without a reservation, strict mode gives the lock back; otherwise the
\* handler runs all the same.
Reserve(r) ==
  /\ pc[r] = "reserve"
  /\ IF Reservable
       THEN /\ row' = [status |-> "pending", fp |-> FingerprintOf[r], by |-> None,
                       live |-> TRUE]
            /\ Goto(r, "handler")
       ELSE /\ Goto(r, IF strict THEN "release" ELSE "handler")
            /\ UNCHANGED row
  /\ UNCHANGED <<strict, redis, local, answer, history, bounds>>

-----------------------------------------------------------------------------
(***************************************************************************)
(* The handler and its response                                            *)
(***************************************************************************)

\* finally: only a request that acquired the lock releases it.
AfterTry(r) == IF locked[r] THEN "release" ELSE "done"

\* The response is returned or thrown with a status below 500 and is kept.
\* Otherwise the reservation is cleared: inside the try when the response was
\* returned, in the catch when the handler threw.
Handle(r) ==
  /\ pc[r] = "handler"
  /\ \/ \E t \in BOOLEAN :
          /\ threw' = [threw EXCEPT ![r] = t]
          /\ ran' = ran \cup {r}
          /\ Goto(r, "store")
     \/ \E p \in {"clear", "recover"} : Goto(r, p) /\ UNCHANGED <<threw, ran>>
  /\ UNCHANGED <<strict, redis, row, locked, answer, recorded, lost, robbed, bounds>>

\* backend.set
Store(r) ==
  /\ pc[r] = "store"
  /\ entry' = r
  /\ Goto(r, "persist")
  /\ UNCHANGED <<strict, lock, row, local, answer, history, bounds>>

\* The other requests at work; in strict mode a row that is not the reservation
\* of r is that of one of them, or of a dead one.
Others(r) == {q \in Requests \ {r} : pc[q] \in Working}

\* persistResponse updates the row of the key, whoever reserved it.
Persisted(r) ==
  IF row.status = "absent" THEN UNCHANGED <<row, recorded, robbed>>
  ELSE /\ row' = [row EXCEPT !.status = "completed", !.by = r, !.live = TRUE]
       /\ recorded' = recorded \cup {r}
       /\ robbed' = robbed \cup Others(r)

Persist(r) ==
  /\ pc[r] = "persist"
  /\ Persisted(r)
  /\ answer' = [answer EXCEPT ![r] = r]
  /\ Goto(r, AfterTry(r))
  /\ UNCHANGED <<strict, redis, local, ran, lost, bounds>>

\* A round trip throws.
Fault == faults < MaxFaults /\ faults' = faults + 1

\* Storing throws.  A response that was returned is then treated as an error
\* and the reservation is cleared; one that was thrown is not caught again.
StoreFails(r) ==
  /\ pc[r] \in {"store", "persist"}
  /\ Fault
  /\ \/ pc[r] = "persist" /\ Persisted(r)
     \/ UNCHANGED <<row, recorded, robbed>>
  /\ Goto(r, IF threw[r] THEN AfterTry(r) ELSE "recover")
  /\ UNCHANGED <<strict, redis, local, answer, ran, lost, expiries>>

\* A mutant of Clearable: the status of the row is not looked at.
AlwaysClearable == TRUE

Clearable == row.status = "pending"

\* clearReservation deletes the pending row of the key, whoever reserved it.
Cleared(r) ==
  IF Clearable THEN row' = NoRow /\ robbed' = robbed \cup Others(r)
               ELSE UNCHANGED <<row, robbed>>

\* The clear in the try.  When it throws, before or after it was committed, the
\* catch clears again.
Clear(r) ==
  /\ pc[r] = "clear"
  /\ \/ Cleared(r) /\ Goto(r, AfterTry(r)) /\ UNCHANGED <<lost, faults>>
     \/ /\ Fault /\ Goto(r, "recover")
        /\ \/ Cleared(r) /\ lost' = lost \cup {r}
           \/ UNCHANGED <<row, robbed, lost>>
  /\ UNCHANGED <<strict, redis, local, answer, ran, recorded, expiries>>

\* The clear in the catch, which is not caught again: when it throws, the request
\* goes on to the finally as well.
Recover(r) ==
  /\ pc[r] = "recover"
  /\ \/ Cleared(r) /\ UNCHANGED faults
     \/ Fault /\ UNCHANGED <<row, robbed>>
  /\ Goto(r, AfterTry(r))
  /\ UNCHANGED <<strict, redis, local, answer, ran, recorded, lost, expiries>>

\* releaseLock reads the token of the lock and deletes the key when it is its
\* own: two round trips.
ReleaseRead(r) ==
  /\ pc[r] = "release"
  /\ Goto(r, IF lock = r THEN "unlock" ELSE "done")
  /\ UNCHANGED <<strict, redis, row, local, answer, history, bounds>>

ReleaseDelete(r) ==
  /\ pc[r] = "unlock"
  /\ lock' = None
  /\ Goto(r, "done")
  /\ UNCHANGED <<strict, entry, row, local, answer, history, bounds>>

-----------------------------------------------------------------------------
\* A round trip before the handler fails, or the process dies anywhere: no
\* more is done for the request; a lock and a reservation it has stay behind.
Die(r) ==
  /\ pc[r] \notin {"idle", "done"}
  /\ Fault
  /\ Reply(r, None)
  /\ UNCHANGED <<strict, redis, row, local, history, expiries>>

Expire ==
  /\ expiries < MaxExpiries
  /\ expiries' = expiries + 1
  /\ \/ entry # None /\ entry' = None /\ UNCHANGED <<lock, row>>
     \/ lock # None /\ lock' = None /\ UNCHANGED <<entry, row>>
     \/ row.live /\ row' = [row EXCEPT !.live = FALSE] /\ UNCHANGED redis
  /\ UNCHANGED <<strict, pc, local, answer, history, faults>>

Next ==
  \/ \E r \in Requests :
       \/ Get(r) \/ Lookup(r) \/ Refill(r) \/ AcquireLock(r) \/ Reserve(r)
       \/ WaitEntry(r) \/ WaitRow(r) \/ WaitLock(r)
       \/ Handle(r) \/ Store(r) \/ Persist(r) \/ StoreFails(r)
       \/ Clear(r) \/ Recover(r) \/ ReleaseRead(r) \/ ReleaseDelete(r) \/ Die(r)
  \/ Expire

Spec == Init /\ [][Next]_vars

-----------------------------------------------------------------------------
(***************************************************************************)
(* In strict mode at most one request of a key is between its reservation  *)
(* and the end of its handler's work, and none once a response is          *)
(* recorded, even when the Redis lock expires under its holder, is deleted *)
(* by a late release, or a process dies: the row carries the exclusion.    *)
(* It fails only for a request whose reservation another one settled, as   *)
(* the catch may do that clears again.  No reservation is settled by       *)
(* another request, and the catch too is within the exclusion, unless a    *)
(* clear in the try took effect and its confirmation was lost.             *)
(***************************************************************************)
StrictExclusion ==
  strict =>
    /\ \A q, r \in Requests \ robbed : (pc[q] \in Working /\ pc[r] \in Working) => q = r
    /\ recorded # {} => \A r \in Requests \ robbed : pc[r] \notin Working
    /\ lost = {} =>
         /\ robbed = {}
         /\ \A q, r \in Requests :
              {pc[q], pc[r]} \subseteq Working \cup {"recover"} => q = r

(***************************************************************************)
(* In strict mode the row of a recorded response is not lost, and no two   *)
(* requests record one on reservations of their own; what any request is   *)
(* answered with was made by a handler and, as long as no reservation was  *)
(* settled by another request, by one that ran for the same fingerprint.   *)
(***************************************************************************)
StrictRecord ==
  strict =>
    /\ recorded # {} => (row.status = "completed" /\ row.by \in recorded)
    /\ \A q, r \in recorded \ robbed : q = r
    /\ \A r \in Requests : answer[r] # None =>
         /\ answer[r] \in ran
         /\ robbed = {} => FingerprintOf[answer[r]] = FingerprintOf[r]
=============================================================================
