------------------------- MODULE TransactionalCommand -------------------------
(***************************************************************************)
(* Commands that run exactly one handler per idempotency key: the          *)
(* interceptor of packages/backend/src/transactional-command and the row   *)
(* store of packages/idempotency/src/transactional-idempotency.store.ts.   *)
(*                                                                         *)
(* One request is one READ COMMITTED transaction: lookup, reservation,     *)
(* handler, audit record, completion or removal of the reservation,        *)
(* commit.  Every statement is an action of its own, so the transactions   *)
(* of concurrent requests interleave at statement boundaries.  What a      *)
(* transaction wrote is kept in its own state (draft) until it commits;    *)
(* row[k] is the committed version that the other transactions read.       *)
(*                                                                         *)
(* The key stands for (tenant, scope, key), the fingerprint for the hash   *)
(* of method, path and body, the response for the request that made it.    *)
(***************************************************************************)
EXTENDS Naturals

CONSTANTS Requests,      \* HTTP requests, each submitted at most once
          Keys,          \* idempotency keys
          Fingerprints,  \* what a key may be used for
          KeyOf,         \* the key of each request
          FingerprintOf, \* the fingerprint of each request
          Ttl,           \* life of a reservation and of its response, in seconds
          MaxTime,       \* bound of the clock
          None           \* no request: no lock, no response

ASSUME CommandAssumption ==
  /\ KeyOf \in [Requests -> Keys]
  /\ FingerprintOf \in [Requests -> Fingerprints]
  /\ Ttl \in Nat \ {0}
  /\ MaxTime \in Nat
  /\ None \notin Requests

VARIABLES
  now,      \* clock_timestamp()
  row,      \* row[k]: the committed row of core.idempotency_keys
  lock,     \* lock[k]: the request whose transaction holds the row of k
  pc,       \* pc[r]: the next statement of the request
  cmd,      \* cmd[r]: the reservation of the request and its outcome
  draft,    \* draft[r]: what its transaction did to the row, not yet committed
  answer,   \* answer[r]: what the client was told
  effects,  \* what handlers did in transactions that committed (history)
  audits    \* requests whose audit record is committed

vars == <<now, row, lock, pc, cmd, draft, answer, effects, audits>>

NoRow == [status |-> "absent", fp |-> None, body |-> None, expires |-> 0]

Rows == [status: {"absent", "pending", "completed"},
         fp: Fingerprints \cup {None}, body: Requests \cup {None}, expires: Nat]

Commands == [until: Nat, since: Nat, selected: BOOLEAN]

NoCommand == [until |-> 0, since |-> 0, selected |-> FALSE]

Phases == {"idle", "lookup", "reserve", "waiting", "recheck", "handler",
           "settle", "commit", "done"}

\* "rejected" is every answer that says that nothing was done: a refused
\* request, a key used for something else or in progress, a handler that threw.
Answers == [kind: {"none", "rejected", "replayed", "failed", "committed", "plain"},
            body: Requests \cup {None}]

(***************************************************************************)
(* A committed execution of a handler: when its reservation was taken,     *)
(* when its response expires, when it committed, and whether its response  *)
(* was selected for replay.                                                *)
(***************************************************************************)
Effects == [req: Requests, key: Keys, fp: Fingerprints, selected: BOOLEAN,
            since: Nat, until: Nat, at: Nat]

CommandTypeOK ==
  /\ now \in Nat
  /\ row \in [Keys -> Rows]
  /\ lock \in [Keys -> Requests \cup {None}]
  /\ pc \in [Requests -> Phases]
  /\ cmd \in [Requests -> Commands]
  /\ draft \in [Requests -> {"none", "pending", "completed", "cleared"}]
  /\ answer \in [Requests -> Answers]
  /\ effects \in SUBSET Effects
  /\ audits \in SUBSET Requests

Init ==
  /\ now = 0
  /\ row = [k \in Keys |-> NoRow]
  /\ lock = [k \in Keys |-> None]
  /\ pc = [r \in Requests |-> "idle"]
  /\ cmd = [r \in Requests |-> NoCommand]
  /\ draft = [r \in Requests |-> "none"]
  /\ answer = [r \in Requests |-> [kind |-> "none", body |-> None]]
  /\ effects = {}
  /\ audits = {}

-----------------------------------------------------------------------------
(***************************************************************************)
(* How a transaction ends                                                  *)
(***************************************************************************)

\* A lookup sees the committed row while it has not expired.
Live(k) == row[k].status # "absent" /\ row[k].expires > now

\* The end of a transaction frees the row it holds, if it holds one.
Freed(r) == [k \in Keys |-> IF lock[k] = r THEN None ELSE lock[k]]

\* The request is over, and with it what only its transaction knew.
Answer(r, kind, body) ==
  /\ answer' = [answer EXCEPT ![r] = [kind |-> kind, body |-> body]]
  /\ pc' = [pc EXCEPT ![r] = "done"]
  /\ lock' = Freed(r)
  /\ draft' = [draft EXCEPT ![r] = "none"]
  /\ cmd' = [cmd EXCEPT ![r] = NoCommand]

\* ROLLBACK: nothing the transaction wrote remains, and its row is free.
Rollback(r, kind, body) ==
  /\ Answer(r, kind, body)
  /\ UNCHANGED <<now, row, effects, audits>>

\* A mutant of replay: the fingerprint is not compared.
ReplayAnyFingerprint(r) ==
  LET existing == row[KeyOf[r]] IN
  IF existing.status = "completed"
    THEN Rollback(r, "replayed", existing.body)
    ELSE Rollback(r, "rejected", None)

\* A live row answers the request: another fingerprint is a conflict, a row
\* that is not completed is in progress, a completed one is replayed.
Replay(r) ==
  LET existing == row[KeyOf[r]] IN
  IF existing.fp = FingerprintOf[r] /\ existing.status = "completed"
    THEN Rollback(r, "replayed", existing.body)
    ELSE Rollback(r, "rejected", None)

-----------------------------------------------------------------------------
(***************************************************************************)
(* The statements of a request                                             *)
(***************************************************************************)

\* The request is admitted and its transaction opens.
Submit(r) ==
  /\ pc[r] = "idle"
  /\ pc' = [pc EXCEPT ![r] = "lookup"]
  /\ UNCHANGED <<now, row, lock, cmd, draft, answer, effects, audits>>

\* Missing markings, context, scope, key or provenance, or invalid options:
\* rejected before any transaction.
Refuse(r) ==
  /\ pc[r] = "idle"
  /\ Rollback(r, "rejected", None)

Lookup(r) ==
  /\ pc[r] = "lookup"
  /\ IF Live(KeyOf[r])
       THEN Replay(r)
       ELSE /\ pc' = [pc EXCEPT ![r] = "reserve"]
            /\ UNCHANGED <<now, row, lock, cmd, draft, answer, effects, audits>>

\* The reserving INSERT starts: its expiry is computed before it waits for
\* the transaction that holds the row.
BeginReserve(r) ==
  /\ pc[r] = "reserve"
  /\ cmd' = [cmd EXCEPT ![r].until = now + Ttl]
  /\ pc' = [pc EXCEPT ![r] = "waiting"]
  /\ UNCHANGED <<now, row, lock, draft, answer, effects, audits>>

\* A mutant of Reserve: ON CONFLICT DO UPDATE without its WHERE clause.
ReserveTakesLiveRow(r) ==
  LET k == KeyOf[r] IN
  /\ pc[r] = "waiting"
  /\ lock[k] = None
  /\ lock' = [lock EXCEPT ![k] = r]
  /\ cmd' = [cmd EXCEPT ![r].since = now]
  /\ draft' = [draft EXCEPT ![r] = "pending"]
  /\ pc' = [pc EXCEPT ![r] = "handler"]
  /\ UNCHANGED <<now, row, answer, effects, audits>>

\* The INSERT gets the row.  A row that is absent or has expired becomes the
\* pending row of this request; a live one is only locked, and the request
\* looks it up again.
Reserve(r) ==
  LET k == KeyOf[r] IN
  /\ pc[r] = "waiting"
  /\ lock[k] = None
  /\ lock' = [lock EXCEPT ![k] = r]
  /\ IF Live(k)
       THEN /\ pc' = [pc EXCEPT ![r] = "recheck"]
            /\ UNCHANGED <<cmd, draft>>
       ELSE /\ pc' = [pc EXCEPT ![r] = "handler"]
            /\ cmd' = [cmd EXCEPT ![r].since = now]
            /\ draft' = [draft EXCEPT ![r] = "pending"]
  /\ UNCHANGED <<now, row, answer, effects, audits>>

\* A mutant of ReserveTimeout: lock_timeout is not set.
ReserveWaitsForever(r) == FALSE /\ UNCHANGED vars

\* lock_timeout (55P03) while another transaction holds the row: it may
\* strike at any time of the wait.
ReserveTimeout(r) ==
  /\ pc[r] = "waiting"
  /\ lock[KeyOf[r]] # None
  /\ Rollback(r, "rejected", None)

\* The second lookup of a request that lost the reservation.
Recheck(r) ==
  /\ pc[r] = "recheck"
  /\ IF Live(KeyOf[r]) THEN Replay(r) ELSE Rollback(r, "rejected", None)

\* The handler returns, or throws a CommittedCommandError, and the policy
\* selects its response or not; an error that is not selected, any other
\* exception and a failing callback roll the transaction back.
Handle(r) ==
  /\ pc[r] = "handler"
  /\ \E outcome \in {"returned", "committed_error", "exception"}, selected \in BOOLEAN :
       IF outcome = "exception" \/ (outcome = "committed_error" /\ ~selected)
         THEN Rollback(r, "rejected", None)
         ELSE /\ cmd' = [cmd EXCEPT ![r].selected = selected]
              /\ pc' = [pc EXCEPT ![r] = "settle"]
              /\ UNCHANGED <<now, row, lock, draft, answer, effects, audits>>

\* A mutant of Settle: a response that was not selected leaves its reservation.
SettleKeepsReservation(r) ==
  /\ pc[r] = "settle"
  /\ draft' = [draft EXCEPT ![r] = IF cmd[r].selected THEN "completed" ELSE @]
  /\ pc' = [pc EXCEPT ![r] = "commit"]
  /\ UNCHANGED <<now, row, lock, cmd, answer, effects, audits>>

\* The audit record is written, then complete or clear: all of it belongs to
\* this transaction, and both touch only its own pending row.
Settle(r) ==
  /\ pc[r] = "settle"
  /\ draft[r] = "pending"
  /\ draft' = [draft EXCEPT ![r] = IF cmd[r].selected THEN "completed" ELSE "cleared"]
  /\ pc' = [pc EXCEPT ![r] = "commit"]
  /\ UNCHANGED <<now, row, lock, cmd, answer, effects, audits>>

\* What the transaction makes of its row when it commits.
Committed(r) ==
  IF draft[r] = "cleared" THEN NoRow
  ELSE [status |-> draft[r], fp |-> FingerprintOf[r],
        body |-> IF draft[r] = "completed" THEN r ELSE None,
        expires |-> cmd[r].until]

\* COMMIT publishes the row, the handler's effects and the audit record
\* together.  The confirmation may be lost: the request then fails although
\* it is committed.
Commit(r) ==
  LET c == cmd[r] IN
  /\ pc[r] = "commit"
  /\ row' = [row EXCEPT ![KeyOf[r]] = Committed(r)]
  /\ effects' = effects \cup {[req |-> r, key |-> KeyOf[r], fp |-> FingerprintOf[r],
                               selected |-> c.selected, since |-> c.since,
                               until |-> c.until, at |-> now]}
  /\ audits' = audits \cup {r}
  /\ \/ Answer(r, IF c.selected THEN "committed" ELSE "plain", r)
     \/ Answer(r, "failed", None)
  /\ UNCHANGED now

\* A statement fails, times out, or the process dies: the server rolls back.
Fail(r) ==
  /\ pc[r] \notin {"idle", "done"}
  /\ Rollback(r, "failed", None)

Tick ==
  /\ now < MaxTime
  /\ now' = now + 1
  /\ UNCHANGED <<row, lock, pc, cmd, draft, answer, effects, audits>>

-----------------------------------------------------------------------------
\* Every step of a request but the handler's, which is the application's.
Step(r) == \/ Lookup(r) \/ BeginReserve(r) \/ Reserve(r) \/ ReserveTimeout(r)
           \/ Recheck(r) \/ Settle(r) \/ Commit(r)

Next ==
  \/ \E r \in Requests : Submit(r) \/ Refuse(r) \/ Step(r) \/ Handle(r) \/ Fail(r)
  \/ Tick

\* The steps of the interceptor are awaited one after the other and the
\* database answers each; nothing is assumed of the handler.
Fairness == \A r \in Requests : WF_vars(Step(r))

Spec == Init /\ [][Next]_vars

FairSpec == Spec /\ Fairness

-----------------------------------------------------------------------------
\* e was over when f's reservation was taken: its transaction had committed
\* and, if its response was selected, the response had expired.
Before(e, f) == e.at <= f.since /\ (e.selected => e.until <= f.since)

(***************************************************************************)
(* Two committed executions under one key never overlap, and none starts   *)
(* while the selected response of another is still alive: the reservation  *)
(* and the row lock make the handler run at most once per key and life of  *)
(* a response, whatever requests wait, time out, fail or outlive the TTL.  *)
(***************************************************************************)
SerialExecutions ==
  \A e, f \in effects :
    (e # f /\ e.key = f.key) => (Before(e, f) \/ Before(f, e))

(***************************************************************************)
(* What a client is told is what happened: a committed answer has its      *)
(* effect and its audit record; a replay repeats the response of a          *)
(* committed execution of the same key and fingerprint; a request told     *)
(* anything else but "failed" left no effect; no audit record is without   *)
(* its effect, nor an effect without its record.                           *)
(***************************************************************************)
AnswersTruthful ==
  /\ audits = {e.req : e \in effects}
  /\ \A r \in Requests :
       LET a == answer[r] IN
       /\ a.kind \in {"committed", "plain"} =>
            \E e \in effects : e.req = r /\ e.selected = (a.kind = "committed")
       /\ a.kind = "replayed" =>
            \E e \in effects : /\ e.req = a.body
                               /\ e.selected
                               /\ e.key = KeyOf[r]
                               /\ e.fp = FingerprintOf[r]
       /\ a.kind \in {"rejected", "replayed"} => r \notin audits

(***************************************************************************)
(* No committed row is pending: a reservation is seen by others only when  *)
(* it is completed or gone, so no key is left in progress with nobody      *)
(* working on it, and a selected response stays readable until it expires. *)
(***************************************************************************)
NoStrandedReservation ==
  /\ \A k \in Keys : row[k].status # "pending"
  /\ \A e \in effects :
       (e.selected /\ now < e.until) =>
         row[e.key] = [status |-> "completed", fp |-> e.fp, body |-> e.req,
                       expires |-> e.until]

(***************************************************************************)
(* A request behind a handler that never returns is still answered, or     *)
(* gets to run its own handler: lock_timeout bounds the wait.              *)
(***************************************************************************)
WaitBounded ==
  \A r \in Requests : (pc[r] = "lookup") ~> (pc[r] \in {"handler", "done"})
=============================================================================
