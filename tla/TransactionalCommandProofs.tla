---------------------- MODULE TransactionalCommandProofs ----------------------
(***************************************************************************)
(* Proofs about TransactionalCommand, for any requests, keys, lives of a   *)
(* reservation and times: executions of a key are serial, answers are      *)
(* truthful and no reservation is stranded.                                *)
(***************************************************************************)
EXTENDS TransactionalCommand, TLAPS

\* The request holds the row of its key, and its handler is or was called.
Holding == {"recheck", "handler", "settle", "commit"}
Executing == {"handler", "settle", "commit"}

\* One transaction at a time holds a row.
Locked == \A r \in Requests : pc[r] \in Holding => lock[KeyOf[r]] = r

\* What an execution has written is its reservation, settled before the commit.
Drafts ==
  \A r \in Requests :
    /\ pc[r] \in {"handler", "settle"} => draft[r] = "pending"
    /\ pc[r] = "commit" => draft[r] = IF cmd[r].selected THEN "completed" ELSE "cleared"

\* Nothing is dated in the future.
Dated ==
  /\ \A r \in Requests : pc[r] \in Executing => cmd[r].since <= now
  /\ \A e \in effects : e.at <= now

\* Every committed execution of the key was over when a running one reserved it.
Precedes ==
  \A r \in Requests :
    pc[r] \in Executing =>
      \A e \in effects :
        e.key = KeyOf[r] => /\ e.at <= cmd[r].since
                            /\ e.selected => e.until <= cmd[r].since

\* A request that is not over has been told nothing and has committed nothing.
Unanswered ==
  \A r \in Requests : pc[r] # "done" => (answer[r].kind = "none" /\ r \notin audits)

\* e is a committed execution that request r may be answered with.
Repeats(e, body, k, fp) == e.req = body /\ e.selected /\ e.key = k /\ e.fp = fp

\* A completed row is the selected response of a committed execution.
RowExplained ==
  \A k \in Keys :
    row[k].status = "completed" => \E e \in effects : Repeats(e, row[k].body, k, row[k].fp)

IInv ==
  /\ CommandTypeOK
  /\ Locked /\ Drafts /\ Dated /\ Precedes /\ Unanswered /\ RowExplained
  /\ SerialExecutions
  /\ AnswersTruthful
  /\ NoStrandedReservation

-----------------------------------------------------------------------------
\* The initial state satisfies the inductive invariant.
LEMMA InitIInv == Init => IInv
  <1> SUFFICES ASSUME Init PROVE IInv
    OBVIOUS
  <1> USE CommandAssumption DEF Init
  <1>1. CommandTypeOK
    BY DEF CommandTypeOK, Rows, NoRow, Commands, NoCommand, Phases, Answers
  <1>2. Locked /\ Drafts /\ Dated /\ Precedes
    BY DEF Locked, Drafts, Dated, Precedes, Holding, Executing
  <1>3. Unanswered /\ RowExplained
    BY DEF Unanswered, RowExplained, NoRow
  <1>4. SerialExecutions /\ AnswersTruthful /\ NoStrandedReservation
    BY DEF SerialExecutions, AnswersTruthful, NoStrandedReservation, NoRow
  <1> QED
    BY <1>1, <1>2, <1>3, <1>4 DEF IInv

\* Properties of the committed state survive steps that commit nothing.
LEMMA CommittedKept ==
  ASSUME IInv, UNCHANGED <<now, row, effects, audits>>
  PROVE  RowExplained' /\ SerialExecutions' /\ NoStrandedReservation'
  BY DEF IInv, RowExplained, Repeats, SerialExecutions, Before, NoStrandedReservation

\* A step that takes request r to another statement and commits nothing: it gives
\* up no lock, and what it leaves in r fits the statement it reaches.
LEMMA AdvanceIInv ==
  ASSUME IInv, NEW r \in Requests, NEW p \in Phases \ {"done"}, pc[r] # "done",
         pc' = [pc EXCEPT ![r] = p],
         UNCHANGED <<now, row, answer, effects, audits>>,
         lock' \in [Keys -> Requests \cup {None}],
         cmd' \in [Requests -> Commands],
         draft' \in [Requests -> {"none", "pending", "completed", "cleared"}],
         \A k \in Keys : lock[k] # None => lock'[k] = lock[k],
         \A q \in Requests \ {r} : cmd'[q] = cmd[q] /\ draft'[q] = draft[q],
         p \in Holding => lock'[KeyOf[r]] = r,
         p \in {"handler", "settle"} => draft'[r] = "pending",
         p = "commit" => draft'[r] = IF cmd'[r].selected THEN "completed" ELSE "cleared",
         p \in Executing =>
           /\ cmd'[r].since <= now
           /\ \A e \in effects : e.key = KeyOf[r] =>
                /\ e.at <= cmd'[r].since
                /\ e.selected => e.until <= cmd'[r].since
  PROVE  IInv'
  <1> USE CommandAssumption
  <1>1. pc \in [Requests -> Phases] /\ \A q \in Requests \ {r} : pc'[q] = pc[q]
    BY DEF IInv, CommandTypeOK
  <1>2. pc'[r] = p
    BY <1>1
  <1>3. CommandTypeOK'
    BY <1>1 DEF IInv, CommandTypeOK
  <1>4. Locked'
    <2> SUFFICES ASSUME NEW q \in Requests, pc'[q] \in Holding PROVE lock'[KeyOf[q]] = q
      BY DEF Locked
    <2>1. CASE q = r
      BY <1>2, <2>1
    <2>2. CASE q # r
      BY <1>1, <2>2 DEF IInv, Locked
    <2> QED
      BY <2>1, <2>2
  <1>5. Drafts'
    BY <1>1, <1>2 DEF IInv, Drafts
  <1>6. Dated'
    BY <1>1, <1>2 DEF IInv, Dated
  <1>7. Precedes'
    BY <1>1, <1>2 DEF IInv, Precedes
  <1>8. Unanswered' /\ AnswersTruthful'
    BY <1>1, <1>2 DEF IInv, Unanswered, AnswersTruthful
  <1> QED
    BY <1>3, <1>4, <1>5, <1>6, <1>7, <1>8, CommittedKept DEF IInv

\* The end of a transaction answers its request and frees only its own row.
LEMMA AnswerEnds ==
  ASSUME IInv, NEW r \in Requests, NEW kind, NEW body, Answer(r, kind, body),
         [kind |-> kind, body |-> body] \in Answers
  PROVE  /\ answer' \in [Requests -> Answers]
         /\ answer'[r] = [kind |-> kind, body |-> body]
         /\ pc' \in [Requests -> Phases] /\ pc'[r] = "done"
         /\ lock' \in [Keys -> Requests \cup {None}]
         /\ draft' \in [Requests -> {"none", "pending", "completed", "cleared"}]
         /\ cmd' \in [Requests -> Commands]
         /\ \A q \in Requests \ {r} :
              /\ answer'[q] = answer[q] /\ pc'[q] = pc[q]
              /\ draft'[q] = draft[q] /\ cmd'[q] = cmd[q]
         /\ \A k \in Keys : lock[k] # r => lock'[k] = lock[k]
  <1>1. NoCommand \in Commands
    BY DEF NoCommand, Commands
  <1>2. "done" \in Phases
    BY DEF Phases
  <1> QED
    BY <1>1, <1>2 DEF Answer, Freed, IInv, CommandTypeOK

\* What is left of the other requests' invariants when r is over.
LEMMA OthersKept ==
  ASSUME IInv, NEW r \in Requests, pc'[r] = "done",
         \A q \in Requests \ {r} : pc'[q] = pc[q] /\ draft'[q] = draft[q] /\ cmd'[q] = cmd[q],
         \A k \in Keys : lock[k] # r => lock'[k] = lock[k]
  PROVE  Locked' /\ Drafts'
  BY CommandAssumption DEF IInv, Locked, Drafts, Holding

\* A transaction that rolls back leaves everything but its request as it was.
LEMMA RollbackIInv ==
  ASSUME IInv, NEW r \in Requests, pc[r] # "done",
         NEW kind \in {"rejected", "replayed", "failed"}, NEW body \in Requests \cup {None},
         Rollback(r, kind, body),
         kind = "replayed" =>
           \E e \in effects : Repeats(e, body, KeyOf[r], FingerprintOf[r])
  PROVE  IInv'
  <1>1. [kind |-> kind, body |-> body] \in Answers
    BY DEF Answers
  <1>2. Answer(r, kind, body) /\ UNCHANGED <<now, row, effects, audits>>
    BY DEF Rollback
  <1>3. /\ answer' \in [Requests -> Answers]
        /\ answer'[r].kind = kind /\ answer'[r].body = body
        /\ pc' \in [Requests -> Phases] /\ pc'[r] = "done"
        /\ lock' \in [Keys -> Requests \cup {None}]
        /\ draft' \in [Requests -> {"none", "pending", "completed", "cleared"}]
        /\ cmd' \in [Requests -> Commands]
        /\ \A q \in Requests \ {r} :
             /\ answer'[q] = answer[q] /\ pc'[q] = pc[q]
             /\ draft'[q] = draft[q] /\ cmd'[q] = cmd[q]
        /\ \A k \in Keys : lock[k] # r => lock'[k] = lock[k]
    BY <1>1, <1>2, AnswerEnds
  <1>4. CommandTypeOK'
    BY <1>2, <1>3 DEF IInv, CommandTypeOK
  <1>5. Locked' /\ Drafts'
    BY <1>3, OthersKept
  <1>6. Dated' /\ Precedes'
    BY <1>2, <1>3 DEF IInv, Dated, Precedes, Executing
  <1>7. Unanswered'
    BY <1>2, <1>3 DEF IInv, Unanswered
  <1>8. AnswersTruthful'
    <2>1. audits' = {e.req : e \in effects'}
      BY <1>2 DEF IInv, AnswersTruthful
    <2>2. r \notin audits
      BY DEF IInv, Unanswered
    <2>3. kind = "replayed" => \E e \in effects : /\ e.req = body /\ e.selected
                                                  /\ e.key = KeyOf[r] /\ e.fp = FingerprintOf[r]
      BY DEF Repeats
    <2>4. ASSUME NEW q \in Requests
          PROVE  /\ answer'[q].kind \in {"committed", "plain"} =>
                      \E e \in effects' : e.req = q /\ e.selected = (answer'[q].kind = "committed")
                 /\ answer'[q].kind = "replayed" =>
                      \E e \in effects' : /\ e.req = answer'[q].body /\ e.selected
                                          /\ e.key = KeyOf[q] /\ e.fp = FingerprintOf[q]
                 /\ answer'[q].kind \in {"rejected", "replayed"} => q \notin audits'
      <3>1. CASE q = r
        BY <1>2, <1>3, <2>2, <2>3, <3>1
      <3>2. CASE q # r
        BY <1>2, <1>3, <2>4, <3>2 DEF IInv, AnswersTruthful
      <3> QED
        BY <3>1, <3>2
    <2> QED
      BY <2>1, <2>4 DEF AnswersTruthful
  <1> QED
    BY <1>2, <1>4, <1>5, <1>6, <1>7, <1>8, CommittedKept DEF IInv

\* A live row answers with the response it holds, or with a refusal.
LEMMA ReplayIInv ==
  ASSUME IInv, NEW r \in Requests, pc[r] # "done", Replay(r)
  PROVE  IInv'
  <1> DEFINE existing == row[KeyOf[r]]
  <1>1. KeyOf[r] \in Keys /\ existing.body \in Requests \cup {None}
    BY CommandAssumption DEF IInv, CommandTypeOK, Rows
  <1>2. CASE existing.fp = FingerprintOf[r] /\ existing.status = "completed"
    <2>1. Rollback(r, "replayed", existing.body)
      BY <1>2 DEF Replay
    <2>2. \E e \in effects : Repeats(e, existing.body, KeyOf[r], FingerprintOf[r])
      BY <1>1, <1>2 DEF IInv, RowExplained
    <2> QED
      BY <1>1, <2>1, <2>2, RollbackIInv
  <1>3. CASE ~(existing.fp = FingerprintOf[r] /\ existing.status = "completed")
    <2>1. Rollback(r, "rejected", None)
      BY <1>3 DEF Replay
    <2> QED
      BY <2>1, RollbackIInv
  <1> QED
    BY <1>2, <1>3

\* The statements before the reservation.
LEMMA EarlyIInv ==
  ASSUME IInv, NEW r \in Requests, Submit(r) \/ Refuse(r) \/ Lookup(r) \/ BeginReserve(r)
  PROVE  IInv'
  <1> USE CommandAssumption
  <1>1. CASE Submit(r)
    <2>1. "lookup" \in Phases \ {"done"} /\ "lookup" \notin Holding \cup Executing
      BY DEF Phases, Holding, Executing
    <2> QED
      BY <1>1, <2>1, AdvanceIInv DEF Submit, IInv, CommandTypeOK
  <1>2. CASE Refuse(r)
    BY <1>2, RollbackIInv DEF Refuse
  <1>3. CASE Lookup(r)
    <2>1. CASE Live(KeyOf[r])
      BY <1>3, <2>1, ReplayIInv DEF Lookup
    <2>2. CASE ~Live(KeyOf[r])
      <3>1. "reserve" \in Phases \ {"done"} /\ "reserve" \notin Holding \cup Executing
        BY DEF Phases, Holding, Executing
      <3> QED
        BY <1>3, <2>2, <3>1, AdvanceIInv DEF Lookup, IInv, CommandTypeOK
    <2> QED
      BY <2>1, <2>2
  <1>4. CASE BeginReserve(r)
    <2>1. "waiting" \in Phases \ {"done"} /\ "waiting" \notin Holding \cup Executing
      BY DEF Phases, Holding, Executing
    <2>2. cmd' \in [Requests -> Commands] /\ \A q \in Requests \ {r} : cmd'[q] = cmd[q]
      BY <1>4 DEF BeginReserve, IInv, CommandTypeOK, Commands
    <2> QED
      BY <1>4, <2>1, <2>2, AdvanceIInv DEF BeginReserve, IInv, CommandTypeOK
  <1> QED
    BY <1>1, <1>2, <1>3, <1>4

\* The reservation: when the row is not live, every committed execution of the key
\* is over and its response, if it was selected, has expired.
LEMMA ReserveIInv ==
  ASSUME IInv, NEW r \in Requests, Reserve(r)
  PROVE  IInv'
  <1> USE CommandAssumption
  <1> DEFINE k == KeyOf[r]
  <1>1. /\ k \in Keys /\ lock[k] = None /\ pc[r] = "waiting"
        /\ lock' = [lock EXCEPT ![k] = r]
        /\ UNCHANGED <<now, row, answer, effects, audits>>
    BY DEF Reserve
  <1>2. /\ lock' \in [Keys -> Requests \cup {None}] /\ lock'[k] = r
        /\ \A j \in Keys : lock[j] # None => lock'[j] = lock[j]
    BY <1>1 DEF IInv, CommandTypeOK
  <1>3. CASE Live(k)
    <2>1. "recheck" \in Phases \ {"done"} /\ "recheck" \notin Executing
      BY DEF Phases, Executing
    <2>2. pc' = [pc EXCEPT ![r] = "recheck"] /\ UNCHANGED <<cmd, draft>>
      BY <1>3 DEF Reserve
    <2> QED
      BY <1>1, <1>2, <2>1, <2>2, AdvanceIInv DEF IInv, CommandTypeOK
  <1>4. CASE ~Live(k)
    <2>1. "handler" \in Phases \ {"done"}
      BY DEF Phases
    <2>2. /\ pc' = [pc EXCEPT ![r] = "handler"]
          /\ cmd' = [cmd EXCEPT ![r].since = now]
          /\ draft' = [draft EXCEPT ![r] = "pending"]
      BY <1>4 DEF Reserve
    <2>3. /\ cmd' \in [Requests -> Commands] /\ cmd'[r].since = now /\ now \in Nat
          /\ draft' \in [Requests -> {"none", "pending", "completed", "cleared"}]
          /\ draft'[r] = "pending"
          /\ \A q \in Requests \ {r} : cmd'[q] = cmd[q] /\ draft'[q] = draft[q]
      BY <2>2 DEF IInv, CommandTypeOK, Commands
    <2>4. ASSUME NEW e \in effects, e.key = k
          PROVE  e.at <= now /\ (e.selected => e.until <= now)
      <3>1. e.at <= now /\ e.until \in Nat
        BY DEF IInv, Dated, CommandTypeOK, Effects
      <3>2. ASSUME e.selected, now < e.until PROVE Live(k)
        <4>1. row[k] = [status |-> "completed", fp |-> e.fp, body |-> e.req, expires |-> e.until]
          BY <2>4, <3>2 DEF IInv, NoStrandedReservation
        <4> QED
          BY <3>2, <4>1 DEF Live
      <3> QED
        BY <1>4, <2>3, <3>1, <3>2
    <2>5. /\ cmd'[r].since <= now
          /\ \A e \in effects : e.key = KeyOf[r] =>
               /\ e.at <= cmd'[r].since
               /\ e.selected => e.until <= cmd'[r].since
      BY <2>3, <2>4
    <2> QED
      BY <1>1, <1>2, <2>1, <2>2, <2>3, <2>5, AdvanceIInv
  <1> QED
    BY <1>3, <1>4

\* The request that lost the reservation, timed out or failed changes nothing.
LEMMA LoseIInv ==
  ASSUME IInv, NEW r \in Requests, ReserveTimeout(r) \/ Recheck(r) \/ Fail(r)
  PROVE  IInv'
  <1>1. CASE ReserveTimeout(r)
    BY <1>1, RollbackIInv DEF ReserveTimeout
  <1>2. CASE Recheck(r)
    BY <1>2, ReplayIInv, RollbackIInv DEF Recheck
  <1>3. CASE Fail(r)
    BY <1>3, RollbackIInv DEF Fail
  <1> QED
    BY <1>1, <1>2, <1>3

\* The handler and the settlement of its reservation, under the lock of the row.
LEMMA ExecuteIInv ==
  ASSUME IInv, NEW r \in Requests, Handle(r) \/ Settle(r)
  PROVE  IInv'
  <1> USE CommandAssumption
  <1>1. KeyOf[r] \in Keys /\ (pc[r] \in Executing => lock[KeyOf[r]] = r)
    BY DEF IInv, Locked, Holding, Executing
  <1>2. pc[r] \in Executing =>
          /\ cmd[r].since <= now
          /\ \A e \in effects : e.key = KeyOf[r] =>
               /\ e.at <= cmd[r].since
               /\ e.selected => e.until <= cmd[r].since
    BY DEF IInv, Dated, Precedes
  <1>3. CASE Handle(r)
    <2>1. PICK outcome \in {"returned", "committed_error", "exception"}, selected \in BOOLEAN :
            IF outcome = "exception" \/ (outcome = "committed_error" /\ ~selected)
              THEN Rollback(r, "rejected", None)
              ELSE /\ cmd' = [cmd EXCEPT ![r].selected = selected]
                   /\ pc' = [pc EXCEPT ![r] = "settle"]
                   /\ UNCHANGED <<now, row, lock, draft, answer, effects, audits>>
      BY <1>3 DEF Handle
    <2>2. CASE Rollback(r, "rejected", None)
      BY <1>3, <2>2, RollbackIInv DEF Handle
    <2>3. CASE /\ cmd' = [cmd EXCEPT ![r].selected = selected]
               /\ pc' = [pc EXCEPT ![r] = "settle"]
               /\ UNCHANGED <<now, row, lock, draft, answer, effects, audits>>
      <3>1. "settle" \in Phases \ {"done"} /\ pc[r] \in Executing /\ pc[r] = "handler"
        BY <1>3 DEF Phases, Executing, Handle
      <3>2. /\ cmd' \in [Requests -> Commands] /\ cmd'[r].since = cmd[r].since
            /\ \A q \in Requests \ {r} : cmd'[q] = cmd[q]
        BY <2>3 DEF IInv, CommandTypeOK, Commands
      <3>3. draft[r] = "pending"
        BY <3>1 DEF IInv, Drafts
      <3>4. /\ lock \in [Keys -> Requests \cup {None}]
            /\ draft \in [Requests -> {"none", "pending", "completed", "cleared"}]
        BY DEF IInv, CommandTypeOK
      <3> QED
        BY <1>1, <1>2, <2>3, <3>1, <3>2, <3>3, <3>4, AdvanceIInv
    <2> QED
      BY <2>1, <2>2, <2>3
  <1>4. CASE Settle(r)
    <2> DEFINE d == IF cmd[r].selected THEN "completed" ELSE "cleared"
    <2>1. /\ pc[r] = "settle" /\ pc[r] \in Executing /\ "commit" \in Phases \ {"done"}
          /\ pc' = [pc EXCEPT ![r] = "commit"]
          /\ draft' = [draft EXCEPT ![r] = d]
          /\ UNCHANGED <<now, row, lock, cmd, answer, effects, audits>>
      BY <1>4 DEF Settle, Phases, Executing
    <2>2. /\ draft' \in [Requests -> {"none", "pending", "completed", "cleared"}]
          /\ draft'[r] = d /\ \A q \in Requests \ {r} : draft'[q] = draft[q]
          /\ cmd \in [Requests -> Commands] /\ lock \in [Keys -> Requests \cup {None}]
      BY <2>1 DEF IInv, CommandTypeOK
    <2> QED
      BY <1>1, <1>2, <2>1, <2>2, AdvanceIInv
  <1> QED
    BY <1>3, <1>4

\* Time only moves reservations and responses towards their expiry.
LEMMA TickIInv ==
  ASSUME IInv, Tick
  PROVE  IInv'
  <1>1. now \in Nat /\ now' = now + 1
    BY DEF IInv, CommandTypeOK, Tick
  <1>2. UNCHANGED <<row, lock, pc, cmd, draft, answer, effects, audits>>
    BY DEF Tick
  <1>3. CommandTypeOK'
    BY <1>1, <1>2 DEF IInv, CommandTypeOK
  <1>4. Dated'
    BY <1>1, <1>2 DEF IInv, Dated, CommandTypeOK, Commands, Effects
  <1>5. NoStrandedReservation'
    BY <1>1, <1>2 DEF IInv, NoStrandedReservation, CommandTypeOK, Effects
  <1>6. Locked' /\ Drafts' /\ Precedes' /\ Unanswered' /\ RowExplained'
    BY <1>2 DEF IInv, Locked, Drafts, Precedes, Unanswered, RowExplained, Repeats
  <1>7. SerialExecutions' /\ AnswersTruthful'
    BY <1>2 DEF IInv, SerialExecutions, Before, AnswersTruthful
  <1> QED
    BY <1>3, <1>4, <1>5, <1>6, <1>7 DEF IInv

\* The commit: its effect follows those of its key, its row is what its response
\* and the policy say, and its answer repeats it.
LEMMA CommitIInv ==
  ASSUME IInv, NEW r \in Requests, Commit(r)
  PROVE  IInv'
  <1> USE CommandAssumption
  <1> DEFINE c == cmd[r]
             k == KeyOf[r]
             f == [req |-> r, key |-> k, fp |-> FingerprintOf[r], selected |-> c.selected,
                   since |-> c.since, until |-> c.until, at |-> now]
  <1>1. /\ pc[r] = "commit" /\ k \in Keys /\ now' = now
        /\ row' = [row EXCEPT ![k] = Committed(r)]
        /\ effects' = effects \cup {f}
        /\ audits' = audits \cup {r}
    BY DEF Commit
  <1>2. /\ now \in Nat /\ c \in Commands /\ row \in [Keys -> Rows]
        /\ effects \subseteq Effects /\ pc[r] \in Executing
    BY <1>1 DEF IInv, CommandTypeOK, Executing
  <1>3. f \in Effects
    BY <1>1, <1>2 DEF Effects, Commands
  <1>4. /\ c.since <= now
        /\ \A e \in effects : e.key = k => /\ e.at <= c.since
                                           /\ e.selected => e.until <= c.since
    BY <1>2 DEF IInv, Dated, Precedes
  <1>5. Committed(r) = IF c.selected
                         THEN [status |-> "completed", fp |-> FingerprintOf[r], body |-> r,
                               expires |-> c.until]
                         ELSE NoRow
    BY <1>1 DEF IInv, Drafts, Committed
  <1>6. Committed(r) \in Rows /\ Committed(r).status # "pending"
    BY <1>2, <1>5 DEF Rows, NoRow, Commands
  <1>7. PICK kind \in {"committed", "plain", "failed"}, body \in {r, None} :
          /\ Answer(r, kind, body)
          /\ kind \in {"committed", "plain"} => c.selected = (kind = "committed")
    BY <1>2 DEF Commit, Commands
  <1>8. [kind |-> kind, body |-> body] \in Answers
    BY DEF Answers
  <1>9. /\ answer' \in [Requests -> Answers]
        /\ answer'[r].kind = kind
        /\ pc' \in [Requests -> Phases] /\ pc'[r] = "done"
        /\ lock' \in [Keys -> Requests \cup {None}]
        /\ draft' \in [Requests -> {"none", "pending", "completed", "cleared"}]
        /\ cmd' \in [Requests -> Commands]
        /\ \A q \in Requests \ {r} :
             /\ answer'[q] = answer[q] /\ pc'[q] = pc[q]
             /\ draft'[q] = draft[q] /\ cmd'[q] = cmd[q]
        /\ \A j \in Keys : lock[j] # r => lock'[j] = lock[j]
    BY <1>7, <1>8, AnswerEnds
  <1>10. /\ f.req = r /\ f.key = k /\ f.fp = FingerprintOf[r] /\ f.selected = c.selected
         /\ f.since = c.since /\ f.until = c.until /\ f.at = now
    OBVIOUS
  <1> HIDE DEF f, c, k
  <1>11. CommandTypeOK'
    BY <1>1, <1>2, <1>3, <1>6, <1>9 DEF IInv, CommandTypeOK
  <1>12. Locked' /\ Drafts'
    BY <1>9, OthersKept
  <1>13. Dated'
    BY <1>1, <1>2, <1>9, <1>10 DEF IInv, Dated, Executing
  <1>14. \A q \in Requests \ {r} : pc[q] \in Executing => KeyOf[q] # k
    BY <1>1 DEF IInv, Locked, Holding, Executing, k
  <1>15. Precedes'
    BY <1>1, <1>9, <1>10, <1>14 DEF IInv, Precedes, Executing
  <1>16. Unanswered'
    BY <1>1, <1>9 DEF IInv, Unanswered
  <1>17. RowExplained'
    <2> SUFFICES ASSUME NEW j \in Keys, row'[j].status = "completed"
                 PROVE  \E e \in effects' : Repeats(e, row'[j].body, j, row'[j].fp)
      BY DEF RowExplained
    <2>1. CASE j = k
      <3>1. row'[j] = Committed(r)
        BY <1>1, <1>2, <2>1
      <3>2. c.selected /\ row'[j].body = r /\ row'[j].fp = FingerprintOf[r]
        BY <1>5, <3>1 DEF NoRow
      <3> QED
        BY <1>1, <1>10, <2>1, <3>2 DEF Repeats
    <2>2. CASE j # k
      <3>1. row'[j] = row[j]
        BY <1>1, <1>2, <2>2
      <3> QED
        BY <1>1, <3>1 DEF IInv, RowExplained
    <2> QED
      BY <2>1, <2>2
  <1>18. SerialExecutions'
    <2>1. \A e \in effects : e.key = f.key => Before(e, f)
      BY <1>4, <1>10 DEF Before
    <2> QED
      BY <1>1, <2>1 DEF IInv, SerialExecutions, Before
  <1>19. AnswersTruthful'
    <2>1. audits' = {e.req : e \in effects'}
      BY <1>1, <1>10 DEF IInv, AnswersTruthful
    <2>2. ASSUME NEW q \in Requests
          PROVE  /\ answer'[q].kind \in {"committed", "plain"} =>
                      \E e \in effects' : e.req = q /\ e.selected = (answer'[q].kind = "committed")
                 /\ answer'[q].kind = "replayed" =>
                      \E e \in effects' : /\ e.req = answer'[q].body /\ e.selected
                                          /\ e.key = KeyOf[q] /\ e.fp = FingerprintOf[q]
                 /\ answer'[q].kind \in {"rejected", "replayed"} => q \notin audits'
      <3>1. CASE q = r
        BY <1>1, <1>7, <1>9, <1>10, <3>1
      <3>2. CASE q # r
        BY <1>1, <1>9, <2>2, <3>2 DEF IInv, AnswersTruthful
      <3> QED
        BY <3>1, <3>2
    <2> QED
      BY <2>1, <2>2 DEF AnswersTruthful
  <1>20. NoStrandedReservation'
    <2>1. ASSUME NEW j \in Keys PROVE row'[j].status # "pending"
      BY <1>1, <1>2, <1>6, <2>1 DEF IInv, NoStrandedReservation
    <2>2. ASSUME NEW e \in effects', e.selected, now < e.until
          PROVE  row'[e.key] = [status |-> "completed", fp |-> e.fp, body |-> e.req,
                                expires |-> e.until]
      <3>1. CASE e = f
        BY <1>1, <1>2, <1>5, <1>10, <2>2, <3>1
      <3>2. CASE e # f
        <4>1. e \in effects /\ e.until \in Nat /\ c.since \in Nat /\ e.key \in Keys
          BY <1>1, <1>2, <2>2, <3>2 DEF Effects, Commands
        <4>2. e.key # k
          BY <1>2, <1>4, <2>2, <4>1
        <4>3. row'[e.key] = row[e.key]
          BY <1>1, <1>2, <4>1, <4>2
        <4> QED
          BY <2>2, <4>1, <4>3 DEF IInv, NoStrandedReservation
      <3> QED
        BY <3>1, <3>2
    <2> QED
      BY <1>1, <2>1, <2>2 DEF NoStrandedReservation
  <1> QED
    BY <1>11, <1>12, <1>13, <1>15, <1>16, <1>17, <1>18, <1>19, <1>20 DEF IInv

\* Every step preserves the inductive invariant.
LEMMA NextIInv == IInv /\ [Next]_vars => IInv'
  <1> SUFFICES ASSUME IInv, [Next]_vars PROVE IInv'
    OBVIOUS
  <1>1. CASE UNCHANGED vars
    BY <1>1, CommittedKept
    DEF vars, IInv, CommandTypeOK, Locked, Drafts, Dated, Precedes, Unanswered, AnswersTruthful
  <1>2. CASE Next
    BY <1>2, EarlyIInv, ReserveIInv, LoseIInv, ExecuteIInv, CommitIInv, TickIInv DEF Next, Step
  <1> QED
    BY <1>1, <1>2

\* The inductive invariant holds in every reachable state.
THEOREM Invariance == Spec => []IInv
  BY InitIInv, NextIInv, PTL DEF Spec

\* Rows, locks, requests and answers keep their types.
THEOREM TypeCorrect == Spec => []CommandTypeOK
  <1>1. IInv => CommandTypeOK
    BY DEF IInv
  <1> QED
    BY <1>1, Invariance, PTL

\* A handler takes effect at most once per key and life of a selected response.
THEOREM SerialCorrect == Spec => []SerialExecutions
  <1>1. IInv => SerialExecutions
    BY DEF IInv
  <1> QED
    BY <1>1, Invariance, PTL

\* What a client is told is what was committed, and every committed execution has
\* its audit record.
THEOREM AnswersCorrect == Spec => []AnswersTruthful
  <1>1. IInv => AnswersTruthful
    BY DEF IInv
  <1> QED
    BY <1>1, Invariance, PTL

\* No reservation is left behind without a transaction working on it, and a
\* selected response is readable until it expires.
THEOREM ReservationCorrect == Spec => []NoStrandedReservation
  <1>1. IInv => NoStrandedReservation
    BY DEF IInv
  <1> QED
    BY <1>1, Invariance, PTL
=============================================================================
