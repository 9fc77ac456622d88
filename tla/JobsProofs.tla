------------------------------- MODULE JobsProofs -------------------------------
(***************************************************************************)
(* Proofs about Jobs, for any number of jobs, schedules, workers and       *)
(* schedulers, any batch size, timeouts and number of attempts.            *)
(***************************************************************************)
EXTENDS Jobs, FiniteSetTheorems, TLAPS

\* The types of what the proofs speak of; the counters of faults are not among it.
Typed ==
  /\ job \in [JobIds -> JobRows]
  /\ exec \in [Workers -> SUBSET (JobIds \X Nat)]
  /\ awaited \in [Workers -> SUBSET (JobIds \X Nat)]
  /\ lapsed \in [JobIds -> Nat]
  /\ sched \in [Schedules -> ScheduleRows]
  /\ holder \in [Schedules -> Schedulers \cup {None}]
  /\ copy \in [Schedules -> ScheduleRows]

\* An execution belongs to a claim of its job, the last one or an earlier one.
Begun ==
  \A w \in Workers : \A x \in exec[w] : 1 <= x[2] /\ x[2] <= job[x[1]].attempts

\* No two workers execute one attempt.
OneWorker ==
  \A v, w \in Workers : \A x \in exec[v] : x \in exec[w] => v = w

\* The attempts of job j whose execution is under way and would return the job to the
\* queue if it failed.
Live(j) == {n \in 1 .. MaxAttempts - 1 : \E w \in Workers : <<j, n>> \in exec[w]}

\* An attempt below the last one returns its job to the queue at most once, though
\* late: the executions that still may are part of the budget of attempts.
WithinBudget(row, claimsLapsed, spare) ==
  /\ row.attempts <= MaxAttempts + claimsLapsed
  /\ row.status = "absent" => row.attempts = 0
  /\ row.status = "pending" =>
       spare <= claimsLapsed /\ row.attempts + spare <= claimsLapsed + MaxAttempts - 1
  /\ row.status = "running" =>
       spare <= claimsLapsed + 1 /\ row.attempts + spare <= claimsLapsed + MaxAttempts

Budget == \A j \in JobIds : WithinBudget(job[j], lapsed[j], Cardinality(Live(j)))

\* The transaction that holds a schedule read it when it was due; occurrences are
\* counted from one.
HeldDue ==
  \A s \in Schedules :
    /\ sched[s].next >= 1
    /\ holder[s] # None => (copy[s].wait = 0 /\ copy[s].next <= MaxOccurrences)

QueueInv == Begun /\ OneWorker /\ Budget /\ AwaitedAttemptCurrent

IInv == Typed /\ QueueInv /\ HeldDue /\ ScheduleInForce

-----------------------------------------------------------------------------
\* The constants, one by one.
LEMMA Parameters ==
  /\ MaxAttempts \in Nat /\ MaxAttempts >= 1
  /\ Visibility \in Nat /\ Interval \in Nat /\ Delays \subseteq Nat /\ MaxOccurrences \in Nat
  /\ None \notin Workers /\ None \notin Schedulers
  BY JobsAssumption

\* Finitely many attempts of a job are live.
LEMMA AttemptsFinite ==
  ASSUME NEW S \in SUBSET (1 .. MaxAttempts - 1)
  PROVE  IsFiniteSet(S) /\ Cardinality(S) \in Nat
  <1>1. MaxAttempts - 1 \in Int
    BY Parameters
  <1>2. IsFiniteSet(1 .. MaxAttempts - 1)
    BY <1>1, FS_Interval
  <1>3. IsFiniteSet(S)
    BY <1>2, FS_Subset
  <1> QED
    BY <1>3, FS_CardinalityType

\* The initial state satisfies the inductive invariant.
LEMMA InitIInv == Init => IInv
  <1> SUFFICES ASSUME Init PROVE IInv
    OBVIOUS
  <1> USE DEF Init
  <1>1. Typed
    BY DEF Typed, JobRows, NoJob, ScheduleRows, NoSchedule, Terminal
  <1>2. Begun /\ OneWorker /\ AwaitedAttemptCurrent
    BY DEF Begun, OneWorker, AwaitedAttemptCurrent
  <1>3. Budget
    BY Parameters DEF Budget, WithinBudget, NoJob
  <1>4. HeldDue /\ ScheduleInForce
    BY DEF HeldDue, ScheduleInForce, NoSchedule
  <1> QED
    BY <1>1, <1>2, <1>3, <1>4 DEF IInv, QueueInv

\* What the rows may become in a step that claims nothing.
RowKept(j) ==
  /\ job'[j].attempts = job[j].attempts
  /\ job'[j].status = "running" => (job[j].status = "running" /\ job'[j].lockedBy = job[j].lockedBy)
  /\ job'[j].status = "absent" => job[j].status = "absent"
  /\ job'[j].status = "pending" =>
       \/ job[j].status \in {"pending", "absent"}
       \/ /\ job[j].status = "running"
          /\ \E n \in Live(j) : n \notin Live(j)'

\* A step that claims nothing and begins no execution.
LEMMA QuietStep ==
  ASSUME IInv, Typed', lapsed' = lapsed,
         \A w \in Workers : exec'[w] \subseteq exec[w] /\ awaited'[w] \subseteq awaited[w],
         \A j \in JobIds : RowKept(j)
  PROVE  QueueInv'
  <1>1. \A w \in Workers : \A x \in exec[w] \cup awaited[w] : x[1] \in JobIds /\ x[2] \in Nat
    BY DEF IInv, Typed
  <1>2. Begun' /\ OneWorker'
    BY <1>1 DEF IInv, QueueInv, Begun, OneWorker, RowKept
  <1>3. AwaitedAttemptCurrent'
    BY <1>1 DEF IInv, QueueInv, AwaitedAttemptCurrent, RowKept
  <1>4. Budget'
    <2> SUFFICES ASSUME NEW j \in JobIds
                 PROVE  WithinBudget(job'[j], lapsed'[j], Cardinality(Live(j)'))
      BY DEF Budget
    <2> DEFINE spare == Cardinality(Live(j))
               left == Cardinality(Live(j)')
    <2>1. Live(j)' \subseteq Live(j) /\ Live(j) \subseteq 1 .. MaxAttempts - 1
      BY DEF Live
    <2>2. IsFiniteSet(Live(j)) /\ spare \in Nat /\ left \in Nat
      BY <2>1, AttemptsFinite
    <2>3. left <= spare
      BY <2>1, <2>2, FS_Subset
    <2>4. (\E n \in Live(j) : n \notin Live(j)') => left <= spare - 1
      BY <2>1, <2>2, <2>3, FS_Subset
    <2>5. WithinBudget(job[j], lapsed[j], spare)
      BY DEF IInv, QueueInv, Budget
    <2>6. job[j].status = "absent" => spare = 0
      <3> SUFFICES ASSUME job[j].status = "absent" PROVE Live(j) = {}
        BY FS_EmptySet
      <3>1. job[j].attempts = 0
        BY <2>5 DEF WithinBudget
      <3> QED
        BY <3>1 DEF Live, IInv, QueueInv, Begun
    <2>7. job[j].attempts \in Nat /\ lapsed[j] \in Nat /\ MaxAttempts \in Nat /\ MaxAttempts >= 1
      BY Parameters DEF IInv, Typed, JobRows
    <2>8. RowKept(j) /\ lapsed'[j] = lapsed[j]
      OBVIOUS
    <2> HIDE DEF spare, left
    <2>9. WithinBudget(job'[j], lapsed[j], left)
      BY <2>2, <2>3, <2>4, <2>5, <2>6, <2>7, <2>8 DEF RowKept, WithinBudget
    <2> QED
      BY <2>8, <2>9 DEF left
  <1> QED
    BY <1>2, <1>3, <1>4 DEF QueueInv

\* A row that an outcome writes is no longer running; the others are as before.
LEMMA OutcomeRow ==
  ASSUME IInv, NEW w \in Workers, NEW j \in JobIds,
         NEW status \in {"succeeded", "dead_letter", "pending"}, NEW delay \in Nat,
         job' = Outcome(w, j, status, delay)
  PROVE  /\ job' \in [JobIds -> JobRows]
         /\ \A i \in JobIds :
              \/ job'[i] = job[i]
              \/ /\ i = j /\ job[i].status = "running"
                 /\ job'[i].status = status /\ job'[i].attempts = job[i].attempts
  <1>1. job \in [JobIds -> JobRows]
    BY DEF IInv, Typed
  <1>2. CASE job' = job
    BY <1>1, <1>2
  <1>3. CASE /\ job[j].status = "running"
             /\ job' = [job EXCEPT ![j] = [@ EXCEPT !.status = status, !.wait = delay,
                                                    !.lease = 0, !.lockedBy = None]]
    <2> DEFINE row == [job[j] EXCEPT !.status = status, !.wait = delay,
                                     !.lease = 0, !.lockedBy = None]
    <2>1. row \in JobRows /\ row.status = status /\ row.attempts = job[j].attempts
      BY <1>1 DEF JobRows, Terminal
    <2>2. job' = [job EXCEPT ![j] = row]
      BY <1>3
    <2> HIDE DEF row
    <2> QED
      BY <1>1, <1>3, <2>1, <2>2
  <1> QED
    BY <1>2, <1>3 DEF Outcome

\* The outcomes, and the faults of workers.
LEMMA OutcomeIInv ==
  ASSUME IInv, NEW w \in Workers, NEW x \in exec[w],
         \E delay \in Delays : \/ Succeed(w, x) \/ DeadLetter(w, x) \/ Fail(w, x, delay)
                              \/ OutcomeLost(w, x, delay)
  PROVE  IInv'
  <1>1. x[1] \in JobIds /\ x[2] \in Nat /\ x = <<x[1], x[2]>>
    BY DEF IInv, Typed
  <1>2. /\ exec' = [exec EXCEPT ![w] = @ \ {x}]
        /\ awaited' \in {[awaited EXCEPT ![w] = @ \ {x}],
                         [awaited EXCEPT ![w] = IF x \in @ THEN {} ELSE @]}
        /\ UNCHANGED <<lapsed, sched, holder, copy>>
    BY DEF Succeed, DeadLetter, Fail, Executed, OutcomeLost, schedules
  <1>3. PICK status \in {"succeeded", "dead_letter", "pending"}, delay \in Nat :
          /\ job' = job \/ job' = Outcome(w, x[1], status, delay)
          /\ status = "pending" => x[2] < MaxAttempts
    <2>1. Delays \subseteq Nat /\ MaxAttempts \in Nat
      BY Parameters
    <2> QED
      BY <1>1, <2>1 DEF Succeed, DeadLetter, Fail, Failed, OutcomeLost, Exhausted
  <1>4. /\ job' \in [JobIds -> JobRows]
        /\ \A i \in JobIds :
             \/ job'[i] = job[i]
             \/ /\ i = x[1] /\ job[i].status = "running"
                /\ job'[i].status = status /\ job'[i].attempts = job[i].attempts
    <2>1. CASE job' = job
      BY <2>1 DEF IInv, Typed
    <2>2. CASE job' = Outcome(w, x[1], status, delay)
      BY <1>1, <2>2, OutcomeRow
    <2> QED
      BY <1>3, <2>1, <2>2
  <1>5. \A v \in Workers : /\ exec'[v] = IF v = w THEN exec[v] \ {x} ELSE exec[v]
                           /\ awaited'[v] \subseteq awaited[v]
    BY <1>2 DEF IInv, Typed
  <1>6. Typed'
    <2>1. exec' \in [Workers -> SUBSET (JobIds \X Nat)]
      BY <1>2 DEF IInv, Typed
    <2>2. awaited' \in [Workers -> SUBSET (JobIds \X Nat)]
      BY <1>2 DEF IInv, Typed
    <2> QED
      BY <1>2, <1>4, <2>1, <2>2 DEF IInv, Typed
  <1>7. \A j \in JobIds : RowKept(j)
    <2> SUFFICES ASSUME NEW j \in JobIds PROVE RowKept(j)
      OBVIOUS
    <2>1. CASE job'[j] = job[j]
      BY <2>1 DEF RowKept
    <2>2. CASE /\ j = x[1] /\ job[j].status = "running"
               /\ job'[j].status = status /\ job'[j].attempts = job[j].attempts
      <3>1. status = "pending" => (x[2] \in Live(j) /\ x[2] \notin Live(j)')
        <4> SUFFICES ASSUME status = "pending" PROVE x[2] \in Live(j) /\ x[2] \notin Live(j)'
          OBVIOUS
        <4>1. x[2] \in 1 .. MaxAttempts - 1
          BY <1>1, <1>3, Parameters DEF IInv, QueueInv, Begun
        <4>2. \A v \in Workers : x \notin exec'[v]
          BY <1>5 DEF IInv, QueueInv, OneWorker
        <4> QED
          BY <1>1, <2>2, <4>1, <4>2 DEF Live
      <3> QED
        BY <2>2, <3>1 DEF RowKept
    <2> QED
      BY <1>4, <2>1, <2>2
  <1>8. QueueInv'
    <2>1. \A v \in Workers : exec'[v] \subseteq exec[v]
      BY <1>5
    <2> QED
      BY <1>2, <1>5, <1>6, <1>7, <2>1, QuietStep
  <1>9. HeldDue' /\ ScheduleInForce'
    BY <1>2 DEF IInv, HeldDue, ScheduleInForce
  <1> QED
    BY <1>6, <1>8, <1>9 DEF IInv

\* New rows are pending and nobody has claimed them.
LEMMA InsertedRow ==
  ASSUME IInv, NEW S \in SUBSET JobIds, NEW delay \in Nat, job' = Inserted(S, delay)
  PROVE  /\ job' \in [JobIds -> JobRows]
         /\ \A j \in JobIds : \/ job'[j] = job[j]
                              \/ /\ job[j].status = "absent"
                                 /\ job'[j].status = "pending" /\ job'[j].attempts = 0
         /\ \A j \in JobIds : RowKept(j)
  <1> DEFINE row == [NoJob EXCEPT !.status = "pending", !.wait = delay]
  <1>1. row \in JobRows /\ row.status = "pending" /\ row.attempts = 0
    BY Parameters DEF NoJob, JobRows
  <1>2. \A j \in JobIds : job[j] \in JobRows
    BY DEF IInv, Typed
  <1>3. job' = [j \in JobIds |-> IF j \in S /\ job[j].status = "absent" THEN row ELSE job[j]]
    BY DEF Inserted
  <1> HIDE DEF row
  <1>4. job' \in [JobIds -> JobRows]
    BY <1>1, <1>2, <1>3
  <1>5. \A j \in JobIds : \/ job'[j] = job[j]
                          \/ /\ job[j].status = "absent"
                             /\ job'[j].status = "pending" /\ job'[j].attempts = 0
    BY <1>1, <1>3
  <1>6. \A j \in JobIds : job[j].status = "absent" => job[j].attempts = 0
    BY DEF IInv, QueueInv, Budget, WithinBudget
  <1> QED
    BY <1>4, <1>5, <1>6 DEF RowKept

\* The other steps of the queue that claim nothing.
LEMMA QueueIInv ==
  ASSUME IInv,
         \/ \E j \in OneShots, delay \in Delays : Enqueue(j, delay)
         \/ \E w \in Workers : Crash(w)
         \/ \E j \in JobIds : Cancel(j)
  PROVE  IInv'
  <1>1. UNCHANGED <<lapsed, sched, holder, copy>>
    BY DEF Enqueue, Crash, Cancel, schedules
  <1>2. /\ exec' \in [Workers -> SUBSET (JobIds \X Nat)]
        /\ awaited' \in [Workers -> SUBSET (JobIds \X Nat)]
        /\ \A w \in Workers : exec'[w] \subseteq exec[w] /\ awaited'[w] \subseteq awaited[w]
    BY DEF Enqueue, Crash, Cancel, IInv, Typed
  <1>3. job' \in [JobIds -> JobRows] /\ \A j \in JobIds : RowKept(j)
    <2>1. ASSUME NEW j \in OneShots, NEW delay \in Delays, Enqueue(j, delay)
          PROVE  job' \in [JobIds -> JobRows] /\ \A i \in JobIds : RowKept(i)
      <3>1. {j} \in SUBSET JobIds /\ delay \in Nat
        BY Parameters DEF JobIds
      <3> QED
        BY <2>1, <3>1, InsertedRow DEF Enqueue
    <2>2. ASSUME NEW w \in Workers, Crash(w)
          PROVE  job' \in [JobIds -> JobRows] /\ \A i \in JobIds : RowKept(i)
      BY <2>2 DEF Crash, IInv, Typed, RowKept
    <2>3. ASSUME NEW j \in JobIds, Cancel(j)
          PROVE  job' \in [JobIds -> JobRows] /\ \A i \in JobIds : RowKept(i)
      <3>1. job' = [job EXCEPT ![j].status = "canceled"] /\ job \in [JobIds -> JobRows]
        BY <2>3 DEF Cancel, IInv, Typed
      <3>2. /\ job' \in [JobIds -> JobRows]
            /\ job'[j].status = "canceled" /\ job'[j].attempts = job[j].attempts
            /\ \A i \in JobIds \ {j} : job'[i] = job[i]
        BY <3>1 DEF JobRows, Terminal
      <3> QED
        BY <3>2 DEF RowKept
    <2> QED
      BY <2>1, <2>2, <2>3
  <1>4. Typed'
    BY <1>1, <1>2, <1>3 DEF IInv, Typed
  <1>5. QueueInv'
    BY <1>1, <1>2, <1>3, <1>4, QuietStep
  <1>6. HeldDue' /\ ScheduleInForce'
    BY <1>1 DEF IInv, HeldDue, ScheduleInForce
  <1> QED
    BY <1>4, <1>5, <1>6 DEF IInv

\* Nothing of the queue changes.
LEMMA QueueKept ==
  ASSUME IInv, Typed', UNCHANGED queue
  PROVE  QueueInv'
  BY QuietStep DEF queue, RowKept

\* Administrative changes find the row unlocked.
LEMMA AdministerIInv ==
  ASSUME IInv, NEW s \in Schedules, Administer(s)
  PROVE  IInv'
  <1>1. PICK after \in ScheduleRows : Edit(s, after) /\ after.next = sched[s].next
    <2>1. sched[s] \in ScheduleRows /\ Interval \in Nat
      BY Parameters DEF IInv, Typed
    <2>2. \A status \in {"absent", "enabled", "paused"}, wait \in Nat :
            /\ [sched[s] EXCEPT !.status = status, !.wait = wait] \in ScheduleRows
            /\ [sched[s] EXCEPT !.status = status] \in ScheduleRows
            /\ [sched[s] EXCEPT !.status = status, !.wait = wait].next = sched[s].next
            /\ [sched[s] EXCEPT !.status = status].next = sched[s].next
      BY <2>1 DEF ScheduleRows
    <2>3. \A wait \in 0 .. Interval : wait \in Nat
      BY <2>1
    <2> QED
      BY <2>2, <2>3 DEF Administer, UpsertSchedule, PauseSchedule, ResumeSchedule, DeleteSchedule
  <1>2. /\ holder[s] = None
        /\ sched' = [sched EXCEPT ![s] = after]
        /\ UNCHANGED <<queue, holder, copy>>
    BY <1>1 DEF Edit, Unlocked
  <1>3. Typed'
    BY <1>2 DEF IInv, Typed, queue
  <1>4. QueueInv'
    BY <1>2, <1>3, QueueKept
  <1>5. HeldDue' /\ ScheduleInForce'
    <2>1. after.next = sched[s].next
      BY <1>1
    <2> QED
      BY <1>2, <2>1 DEF IInv, Typed, HeldDue, ScheduleInForce
  <1> QED
    BY <1>3, <1>4, <1>5 DEF IInv

\* The selection locks rows that are due, and a rollback releases them.
LEMMA SelectIInv ==
  ASSUME IInv, NEW c \in Schedulers,
         (\E batch \in SUBSET Schedules : SelectDue(c, batch)) \/ MaterializeRollback(c)
  PROVE  IInv'
  <1>1. UNCHANGED <<queue, sched>>
    BY DEF SelectDue, MaterializeRollback
  <1>2. \A s \in Schedules : sched[s] \in ScheduleRows /\ copy[s] \in ScheduleRows
                             /\ holder[s] \in Schedulers \cup {None}
    BY DEF IInv, Typed
  <1>3. NoSchedule \in ScheduleRows
    BY DEF NoSchedule, ScheduleRows
  <1>4. /\ holder' \in [Schedules -> Schedulers \cup {None}]
        /\ copy' \in [Schedules -> ScheduleRows]
    BY <1>2, <1>3 DEF SelectDue, MaterializeRollback, Release
  <1>5. Typed'
    BY <1>1, <1>4 DEF IInv, Typed, queue
  <1>6. QueueInv'
    BY <1>1, <1>5, QueueKept
  <1>7. \A s \in Schedules : holder'[s] # None =>
          \/ copy'[s] = copy[s] /\ holder[s] # None
          \/ copy'[s] = sched[s] /\ sched[s].wait = 0 /\ sched[s].next <= MaxOccurrences
    BY DEF SelectDue, MaterializeRollback, Release
  <1>8. HeldDue' /\ ScheduleInForce'
    BY <1>1, <1>7 DEF IInv, HeldDue, ScheduleInForce
  <1> QED
    BY <1>5, <1>6, <1>8 DEF IInv

\* A materialization writes the rows it holds and releases them.
LEMMA MaterializeIInv ==
  ASSUME IInv, NEW c \in Schedulers, NEW poisoned \in SUBSET Schedules,
         NEW wait \in 0 .. Interval, Materialize(c, poisoned, wait)
  PROVE  IInv'
  <1> DEFINE held == {s \in Schedules : holder[s] = c}
             new == {<<s, copy[s].next>> : s \in held \ poisoned}
  <1>1. /\ poisoned \subseteq held
        /\ sched' = [s \in Schedules |->
             IF s \in poisoned THEN [copy[s] EXCEPT !.status = "invalid"]
             ELSE IF s \in held THEN [copy[s] EXCEPT !.wait = wait, !.next = @ + 1]
             ELSE sched[s]]
        /\ job' = Inserted(new, 0)
        /\ holder' = [s \in Schedules |-> IF holder[s] = c THEN None ELSE holder[s]]
        /\ copy' = [s \in Schedules |-> IF holder[s] = c THEN NoSchedule ELSE copy[s]]
        /\ UNCHANGED <<exec, awaited, lapsed>>
    BY DEF Materialize, Release
  <1>2. new \in SUBSET JobIds
    <2>1. \A s \in held : copy[s].next \in 1 .. MaxOccurrences
      <3> SUFFICES ASSUME NEW s \in held PROVE copy[s].next \in 1 .. MaxOccurrences
        OBVIOUS
      <3>1. holder[s] # None
        BY Parameters
      <3>2. copy[s].next >= 1 /\ copy[s].next <= MaxOccurrences /\ copy[s].next \in Nat
        BY <3>1 DEF IInv, HeldDue, ScheduleInForce, Typed, ScheduleRows
      <3> QED
        BY <3>2, Parameters
    <2> QED
      BY <2>1 DEF JobIds, Occurrences
  <1>3. job' \in [JobIds -> JobRows] /\ \A j \in JobIds : RowKept(j)
    <2> HIDE DEF new
    <2> QED
      BY <1>1, <1>2, InsertedRow
  <1>4. Typed'
    <2>1. \A s \in Schedules : copy[s] \in ScheduleRows /\ sched[s] \in ScheduleRows
      BY DEF IInv, Typed
    <2>2. NoSchedule \in ScheduleRows /\ wait \in Nat
      BY Parameters DEF NoSchedule, ScheduleRows
    <2>3. \A s \in Schedules :
            /\ [copy[s] EXCEPT !.status = "invalid"] \in ScheduleRows
            /\ [copy[s] EXCEPT !.wait = wait, !.next = @ + 1] \in ScheduleRows
      <3>1. \A s \in Schedules : copy[s].next + 1 \in Nat
        BY <2>1 DEF ScheduleRows
      <3> QED
        BY <2>1, <2>2, <3>1 DEF ScheduleRows
    <2>4. sched' \in [Schedules -> ScheduleRows] /\ copy' \in [Schedules -> ScheduleRows]
      BY <1>1, <2>1, <2>2, <2>3
    <2>5. holder' \in [Schedules -> Schedulers \cup {None}]
      BY <1>1 DEF IInv, Typed
    <2> QED
      BY <1>1, <1>3, <2>4, <2>5 DEF IInv, Typed
  <1>5. QueueInv'
    BY <1>1, <1>3, <1>4, QuietStep
  <1>6. \A s \in Schedules : holder'[s] # None =>
          copy'[s] = copy[s] /\ sched'[s] = sched[s] /\ holder[s] # None
    BY <1>1
  <1>7. HeldDue' /\ ScheduleInForce'
    <2>1. \A s \in Schedules : /\ copy[s] \in ScheduleRows /\ sched[s] \in ScheduleRows
                               /\ s \in held => copy[s] = sched[s]
      BY Parameters DEF IInv, Typed, ScheduleInForce
    <2>2. \A s \in Schedules : sched'[s].next >= 1
      <3> SUFFICES ASSUME NEW s \in Schedules PROVE sched'[s].next >= 1
        OBVIOUS
      <3>1. sched[s].next \in Nat /\ sched[s].next >= 1 /\ (s \in held => copy[s] = sched[s])
            /\ copy[s] \in ScheduleRows
        BY <2>1 DEF IInv, HeldDue, ScheduleRows
      <3>2. sched'[s].next = sched[s].next \/ sched'[s].next = sched[s].next + 1
        BY <1>1, <3>1 DEF ScheduleRows
      <3> QED
        BY <3>1, <3>2
    <2> QED
      BY <1>6, <2>2 DEF IInv, HeldDue, ScheduleInForce
  <1> QED
    BY <1>4, <1>5, <1>7 DEF IInv

\* A count of zero stays at zero.
LEMMA CountdownNat == \A n \in Nat : Countdown(n) \in Nat /\ (n = 0 => Countdown(n) = 0)
  BY DEF Countdown

\* Time changes no row that is locked, and of a job only what it waits for.
LEMMA TickIInv ==
  ASSUME IInv, Tick
  PROVE  IInv'
  <1>1. /\ job' = [j \in JobIds |->
             CASE job[j].status = "pending" -> [job[j] EXCEPT !.wait = Countdown(@)]
               [] job[j].status = "running" -> [job[j] EXCEPT !.lease = Countdown(@)]
               [] OTHER -> job[j]]
        /\ sched' = [s \in Schedules |-> [sched[s] EXCEPT !.wait = Countdown(@)]]
        /\ UNCHANGED <<exec, awaited, lapsed, holder, copy>>
    BY DEF Tick
  <1>2. ASSUME NEW j \in JobIds
        PROVE  /\ job'[j] \in JobRows
               /\ job'[j].status = job[j].status /\ job'[j].attempts = job[j].attempts
               /\ job'[j].lockedBy = job[j].lockedBy
    <2>1. job[j] \in JobRows
      BY DEF IInv, Typed
    <2>2. Countdown(job[j].wait) \in Nat /\ Countdown(job[j].lease) \in Nat
      BY <2>1, CountdownNat DEF JobRows
    <2>3. job'[j] \in {job[j], [job[j] EXCEPT !.wait = Countdown(job[j].wait)],
                       [job[j] EXCEPT !.lease = Countdown(job[j].lease)]}
      BY <1>1
    <2> QED
      BY <2>1, <2>2, <2>3 DEF JobRows
  <1>3. job' \in [JobIds -> JobRows]
    <2>1. job' = [j \in JobIds |-> job'[j]]
      BY <1>1
    <2> QED
      BY <1>2, <2>1
  <1>4. \A j \in JobIds : RowKept(j)
    BY <1>2 DEF RowKept
  <1>5. ASSUME NEW s \in Schedules
        PROVE  /\ sched'[s] \in ScheduleRows /\ sched'[s].next = sched[s].next
               /\ sched[s].wait = 0 => sched'[s] = sched[s]
    <2>1. sched[s] \in ScheduleRows
      BY DEF IInv, Typed
    <2>2. Countdown(sched[s].wait) \in Nat
          /\ (sched[s].wait = 0 => Countdown(sched[s].wait) = 0)
      BY <2>1, CountdownNat DEF ScheduleRows
    <2>3. sched'[s] = [sched[s] EXCEPT !.wait = Countdown(sched[s].wait)]
      BY <1>1
    <2> QED
      BY <2>1, <2>2, <2>3 DEF ScheduleRows
  <1>6. Typed'
    <2>1. sched' = [s \in Schedules |-> sched'[s]]
      BY <1>1
    <2> QED
      BY <1>1, <1>3, <1>5, <2>1 DEF IInv, Typed
  <1>7. QueueInv'
    BY <1>1, <1>4, <1>6, QuietStep
  <1>8. HeldDue' /\ ScheduleInForce'
    BY <1>1, <1>5 DEF IInv, HeldDue, ScheduleInForce
  <1> QED
    BY <1>6, <1>7, <1>8 DEF IInv

\* A claim is the first of its attempt: every execution under way is of an earlier one.
\* It raises the budget, or takes from it what a return to the queue has given.
LEMMA ClaimIInv ==
  ASSUME IInv, NEW w \in Workers, NEW batch \in SUBSET JobIds,
         Claim(w, batch) \/ ClaimLost(w, batch)
  PROVE  IInv'
  <1> DEFINE begun == {<<j, job[j].attempts + 1>> : j \in batch}
             Row(j) == [status |-> "running", attempts |-> job[j].attempts + 1,
                        wait |-> job[j].wait, lease |-> Visibility, lockedBy |-> w]
  <1>1. /\ awaited[w] = {}
        /\ \A j \in batch : Claimable(j)
        /\ job' = [j \in JobIds |-> IF j \in batch THEN Row(j) ELSE job[j]]
        /\ lapsed' = [j \in JobIds |->
             IF j \in batch /\ job[j].status = "running" THEN lapsed[j] + 1 ELSE lapsed[j]]
        /\ UNCHANGED <<sched, holder, copy>>
    BY DEF Claim, ClaimLost, Claimed, Idle, schedules
  <1>2. \/ exec' = [exec EXCEPT ![w] = @ \cup begun] /\ awaited' = [awaited EXCEPT ![w] = begun]
        \/ UNCHANGED <<exec, awaited>>
    BY DEF Claim, ClaimLost
  <1>3. \A j \in JobIds : /\ job[j] \in JobRows /\ job[j].attempts \in Nat /\ lapsed[j] \in Nat
    BY DEF IInv, Typed, JobRows
  <1>4. \A j \in batch : Row(j) \in JobRows
    BY <1>3, Parameters DEF JobRows
  <1>5. begun \subseteq JobIds \X Nat
    BY <1>3
  <1>6. /\ \A v \in Workers \ {w} : exec'[v] = exec[v] /\ awaited'[v] = awaited[v]
        /\ exec[w] \subseteq exec'[w] /\ exec'[w] \subseteq exec[w] \cup begun
        /\ awaited'[w] \subseteq begun
    BY <1>1, <1>2 DEF IInv, Typed
  <1>7. \A j \in batch : /\ job'[j].attempts = job[j].attempts + 1
                         /\ job'[j].status = "running" /\ job'[j].lockedBy = w
    BY <1>1
  <1>8. \A j \in JobIds \ batch : job'[j] = job[j] /\ lapsed'[j] = lapsed[j]
    BY <1>1
  <1>9. Typed'
    <2>1. job' \in [JobIds -> JobRows]
      BY <1>1, <1>3, <1>4
    <2>2. lapsed' \in [JobIds -> Nat]
      BY <1>1, <1>3
    <2>3. exec' \in [Workers -> SUBSET (JobIds \X Nat)]
      BY <1>2, <1>5 DEF IInv, Typed
    <2>4. awaited' \in [Workers -> SUBSET (JobIds \X Nat)]
      BY <1>2, <1>5 DEF IInv, Typed
    <2> QED
      BY <1>1, <2>1, <2>2, <2>3, <2>4 DEF IInv, Typed
  <1>10. \A x \in begun : x[1] \in batch /\ x[2] = job[x[1]].attempts + 1
    OBVIOUS
  <1> HIDE DEF begun, Row
  <1>11. \A v \in Workers : \A x \in exec[v] : /\ x[1] \in JobIds /\ x[2] \in Nat
                                               /\ 1 <= x[2] /\ x[2] <= job[x[1]].attempts
    BY DEF IInv, Typed, QueueInv, Begun
  <1>12. Begun'
    <2> SUFFICES ASSUME NEW v \in Workers, NEW x \in exec'[v]
                 PROVE  1 <= x[2] /\ x[2] <= job'[x[1]].attempts
      BY DEF Begun
    <2>1. CASE x \in exec[v]
      BY <1>3, <1>7, <1>8, <1>11, <2>1
    <2>2. CASE x \in begun
      BY <1>3, <1>7, <1>10, <2>2
    <2> QED
      BY <1>6, <2>1, <2>2
  <1>13. OneWorker'
    <2>1. \A v \in Workers : \A x \in exec[v] : x \notin begun
      BY <1>3, <1>10, <1>11
    <2> QED
      BY <1>6, <2>1 DEF IInv, QueueInv, OneWorker
  <1>14. AwaitedAttemptCurrent'
    <2> SUFFICES ASSUME NEW v \in Workers, NEW x \in awaited'[v],
                        job'[x[1]].status = "running", job'[x[1]].lockedBy = v
                 PROVE  job'[x[1]].attempts = x[2]
      BY DEF AwaitedAttemptCurrent
    <2>1. CASE v = w
      BY <1>6, <1>7, <1>10, <2>1
    <2>2. CASE v # w
      <3>1. x \in awaited[v] /\ x[1] \in JobIds
        BY <1>6, <2>2 DEF IInv, Typed
      <3>2. x[1] \notin batch
        BY <1>7, <2>2
      <3> QED
        BY <1>8, <3>1, <3>2 DEF IInv, QueueInv, AwaitedAttemptCurrent
    <2> QED
      BY <2>1, <2>2
  <1>15. Budget'
    <2> SUFFICES ASSUME NEW j \in JobIds
                 PROVE  WithinBudget(job'[j], lapsed'[j], Cardinality(Live(j)'))
      BY DEF Budget
    <2> DEFINE n == job[j].attempts + 1
               spare == Cardinality(Live(j))
               left == Cardinality(Live(j)')
    <2>1. Live(j) \subseteq 1 .. MaxAttempts - 1 /\ Live(j)' \subseteq 1 .. MaxAttempts - 1
      BY DEF Live
    <2>2. IsFiniteSet(Live(j)) /\ spare \in Nat /\ left \in Nat
      BY <2>1, AttemptsFinite
    <2>3. WithinBudget(job[j], lapsed[j], spare)
      BY DEF IInv, QueueInv, Budget
    <2>4. Live(j)' \subseteq Live(j) \cup {n} /\ (j \notin batch \/ n >= MaxAttempts => Live(j)' \subseteq Live(j))
      <3> SUFFICES ASSUME NEW m \in Live(j)'
                   PROVE  m \in Live(j) \/ (m = n /\ j \in batch /\ n < MaxAttempts)
        BY <1>3, Parameters
      <3>1. m \in 1 .. MaxAttempts - 1 /\ \E v \in Workers : <<j, m>> \in exec'[v]
        BY DEF Live
      <3>2. CASE <<j, m>> \in begun
        BY <1>10, <3>1, <3>2, Parameters
      <3>3. CASE \E v \in Workers : <<j, m>> \in exec[v]
        BY <3>1, <3>3 DEF Live
      <3> QED
        BY <1>6, <3>1, <3>2, <3>3
    <2>5. left <= spare + 1 /\ (Live(j)' \subseteq Live(j) => left <= spare)
      <3>1. IsFiniteSet(Live(j) \cup {n}) /\ Cardinality(Live(j) \cup {n}) \in {spare, spare + 1}
        BY <2>2, FS_AddElement
      <3>2. left <= Cardinality(Live(j) \cup {n})
        BY <2>4, <3>1, FS_Subset
      <3>3. Live(j)' \subseteq Live(j) => left <= spare
        BY <2>2, FS_Subset
      <3> HIDE DEF spare, left
      <3> QED
        BY <2>2, <3>1, <3>2, <3>3
    <2>6. MaxAttempts \in Nat /\ MaxAttempts >= 1 /\ job[j].attempts \in Nat /\ lapsed[j] \in Nat
      BY <1>3, Parameters
    <2> HIDE DEF spare, left
    <2>7. CASE j \notin batch
      <3>1. job'[j] = job[j] /\ lapsed'[j] = lapsed[j] /\ left <= spare
        BY <1>8, <2>4, <2>5, <2>7
      <3> QED
        BY <2>2, <2>3, <2>6, <3>1 DEF WithinBudget, left
    <2>8. CASE j \in batch
      <3>1. job'[j].attempts = n /\ job'[j].status = "running"
        BY <1>7, <2>8
      <3>2. n >= MaxAttempts => left <= spare
        BY <2>4, <2>5
      <3>3. CASE job[j].status = "pending"
        <4>1. lapsed'[j] = lapsed[j]
          BY <1>1, <3>3
        <4>2. spare <= lapsed[j] /\ n + spare <= lapsed[j] + MaxAttempts
          BY <2>2, <2>3, <2>6, <3>3 DEF WithinBudget
        <4>3. left <= lapsed[j] + 1 /\ n + left <= lapsed[j] + MaxAttempts
          BY <2>2, <2>5, <2>6, <3>2, <4>2
        <4> QED
          BY <2>2, <2>6, <3>1, <4>1, <4>3 DEF WithinBudget, left
      <3>4. CASE job[j].status = "running"
        <4>1. lapsed'[j] = lapsed[j] + 1
          BY <1>1, <2>8, <3>4
        <4>2. spare <= lapsed[j] + 1 /\ n + spare <= lapsed[j] + 1 + MaxAttempts
          BY <2>2, <2>3, <2>6, <3>4 DEF WithinBudget
        <4>3. left <= lapsed[j] + 2 /\ n + left <= lapsed[j] + 1 + MaxAttempts
          BY <2>2, <2>5, <2>6, <3>2, <4>2
        <4> QED
          BY <2>2, <2>6, <3>1, <4>1, <4>3 DEF WithinBudget, left
      <3> QED
        BY <1>1, <2>8, <3>3, <3>4 DEF Claimable
    <2> QED
      BY <2>7, <2>8
  <1>16. HeldDue' /\ ScheduleInForce'
    BY <1>1 DEF IInv, HeldDue, ScheduleInForce
  <1> QED
    BY <1>9, <1>12, <1>13, <1>14, <1>15, <1>16 DEF IInv, QueueInv

\* Every step preserves the inductive invariant.
LEMMA NextIInv == IInv /\ [Next]_vars => IInv'
  <1> SUFFICES ASSUME IInv, [Next]_vars PROVE IInv'
    OBVIOUS
  <1>1. CASE UNCHANGED vars
    <2>1. UNCHANGED <<job, exec, awaited, lapsed, sched, holder, copy>>
      BY <1>1 DEF vars, queue, schedules
    <2>2. Typed' /\ HeldDue' /\ ScheduleInForce'
      BY <2>1 DEF IInv, Typed, HeldDue, ScheduleInForce
    <2> QED
      BY <1>1, <2>2, QueueKept DEF IInv, vars
  <1>2. CASE Next
    BY <1>2, QueueIInv, ClaimIInv, OutcomeIInv, AdministerIInv, SelectIInv, MaterializeIInv,
       TickIInv DEF Next, Report
  <1> QED
    BY <1>1, <1>2

\* The inductive invariant holds in every reachable state.
THEOREM Invariance == Spec => []IInv
  BY InitIInv, NextIInv, PTL DEF Spec

\* An execution that a tick awaits is of the attempt that the row names with its worker.
THEOREM AwaitedCorrect == Spec => []AwaitedAttemptCurrent
  <1>1. IInv => AwaitedAttemptCurrent
    BY DEF IInv, QueueInv
  <1> QED
    BY <1>1, Invariance, PTL

\* max_attempts bounds the claims of a job that did not time out, although an execution
\* of an earlier attempt may return a job to the queue that was claimed again.
THEOREM BudgetCorrect == Spec => []AttemptBudget
  <1>1. IInv => AttemptBudget
    BY DEF IInv, QueueInv, Budget, WithinBudget, AttemptBudget
  <1> QED
    BY <1>1, Invariance, PTL

\* What materialize writes back was computed from the row in force.
THEOREM ScheduleCorrect == Spec => []ScheduleInForce
  <1>1. IInv => ScheduleInForce
    BY DEF IInv
  <1> QED
    BY <1>1, Invariance, PTL

\* A terminal row is out of reach of claims, outcomes, insertions, cancels and time.
LEMMA TerminalStep ==
  ASSUME IInv, [Next]_vars, NEW j \in JobIds, job[j].status \in Terminal
  PROVE  job'[j] = job[j]
  <1>1. job[j].status \notin {"absent", "pending", "running"}
    BY DEF Terminal
  <1>2. job \in [JobIds -> JobRows]
    BY DEF IInv, Typed
  <1>3. ASSUME NEW S, NEW delay, job' = Inserted(S, delay)
        PROVE  job'[j] = job[j]
    BY <1>1, <1>3 DEF Inserted
  <1>4. ASSUME NEW w \in Workers, NEW i, NEW status, NEW delay, job' = Outcome(w, i, status, delay)
        PROVE  job'[j] = job[j]
    BY <1>1, <1>2, <1>4 DEF Outcome
  <1>5. CASE \E i \in OneShots, delay \in Delays : Enqueue(i, delay)
    BY <1>3, <1>5 DEF Enqueue
  <1>6. CASE \E w \in Workers, batch \in SUBSET JobIds : Claim(w, batch) \/ ClaimLost(w, batch)
    BY <1>1, <1>6 DEF Claim, ClaimLost, Claimed, Claimable
  <1>7. CASE \E w \in Workers :
               Report(w) \/ \E x \in exec[w], delay \in Delays : OutcomeLost(w, x, delay)
    BY <1>4, <1>7 DEF Report, Succeed, DeadLetter, Fail, Failed, OutcomeLost
  <1>8. CASE \E i \in JobIds : Cancel(i)
    BY <1>1, <1>2, <1>8 DEF Cancel
  <1>9. CASE \E c \in Schedulers, poisoned \in SUBSET Schedules, wait \in 0 .. Interval :
               Materialize(c, poisoned, wait)
    BY <1>3, <1>9 DEF Materialize
  <1>10. CASE Tick
    BY <1>1, <1>10 DEF Tick
  <1>11. CASE UNCHANGED job
    BY <1>11
  <1> QED
    BY <1>5, <1>6, <1>7, <1>8, <1>9, <1>10, <1>11 DEF Next, Crash, Administer, Edit, UpsertSchedule,
       PauseSchedule, ResumeSchedule, DeleteSchedule, SelectDue, MaterializeRollback, vars, queue

\* A job that succeeded, was dead-lettered or was canceled never changes again.
THEOREM TerminalCorrect == Spec => TerminalFinal
  <1>1. IInv /\ [Next]_vars
          => [\A j \in JobIds : job[j].status \in Terminal => job'[j] = job[j]]_vars
    BY TerminalStep
  <1> QED
    BY <1>1, Invariance, PTL DEF Spec, TerminalFinal
=============================================================================
