--------------------------------- MODULE Jobs ---------------------------------
(***************************************************************************)
(* The background jobs of packages/jobs: the queue jobs.jobs that workers  *)
(* claim with a visibility timeout, and the recurring schedules that       *)
(* schedulers turn into jobs.                                              *)
(*                                                                         *)
(* Time is relative: wait counts down to run_at (or next_run_at) and lease *)
(* to locked_until, so the model has no clock to run out of.  Every        *)
(* database transaction is one action, except materialize, which reads     *)
(* schedules under row locks and writes them back in a later step.         *)
(***************************************************************************)
EXTENDS Integers, FiniteSets

CONSTANTS OneShots,        \* jobs enqueued by the application
          Schedules,       \* recurring schedules
          Workers,         \* worker processes, each with a workerId of its own
          Schedulers,      \* scheduler processes
          MaxAttempts,     \* max_attempts of every job
          BatchSize,       \* jobs of one claim, schedules of one materialize
          Visibility,      \* visibility timeout, in ticks
          Delays,          \* possible delays and backoffs, in ticks
          Interval,        \* interval of a schedule, in ticks
          MaxOccurrences,  \* bound: occurrences of a schedule
          MaxFaults,       \* bound: crashes of workers and failed statements
          MaxSlow,         \* bound: handlers that outlive their timeout
          MaxEdits,        \* bound: administrative changes of schedules
          None

Occurrences == Schedules \X (1 .. MaxOccurrences)
JobIds == OneShots \cup Occurrences

ASSUME JobsAssumption ==
  /\ MaxAttempts \in Nat \ {0}
  /\ BatchSize \in Nat \ {0}
  /\ Visibility \in Nat \ {0}
  /\ Delays \subseteq Nat /\ Delays # {}
  /\ Interval \in Nat \ {0}
  /\ {MaxOccurrences, MaxFaults, MaxSlow, MaxEdits} \subseteq Nat
  /\ None \notin Workers \cup Schedulers

VARIABLES
  job,      \* job[j]: the row of jobs.jobs
  exec,     \* exec[w]: the executions <<j, attempt>> that process w has begun
  awaited,  \* awaited[w]: those of them that the tick under way awaits
  lapsed,   \* lapsed[j]: claims of j whose visibility timeout ran out (history)
  faults,   \* faults so far
  slow,     \* handlers that outlived their timeout so far
  sched,    \* sched[s]: the row of jobs.schedules
  holder,   \* holder[s]: the scheduler whose transaction locked the row
  copy,     \* copy[s]: the row as that scheduler read it
  edits     \* administrative changes of schedules so far

queue == <<job, exec, awaited, lapsed, faults, slow>>
schedules == <<sched, holder, copy, edits>>
vars == <<queue, schedules>>

Terminal == {"succeeded", "dead_letter", "canceled"}

JobRows == [status: {"absent", "pending", "running"} \cup Terminal,
            attempts: Nat, wait: Nat, lease: Nat, lockedBy: Workers \cup {None}]

NoJob == [status |-> "absent", attempts |-> 0, wait |-> 0, lease |-> 0,
          lockedBy |-> None]

\* next is the number of the occurrence at next_run_at.
ScheduleRows == [status: {"absent", "enabled", "paused", "invalid"},
                 wait: Nat, next: Nat]

NoSchedule == [status |-> "absent", wait |-> 0, next |-> 1]

JobsTypeOK ==
  /\ job \in [JobIds -> JobRows]
  /\ exec \in [Workers -> SUBSET (JobIds \X Nat)]
  /\ awaited \in [Workers -> SUBSET (JobIds \X Nat)]
  /\ lapsed \in [JobIds -> Nat]
  /\ faults \in Nat /\ slow \in Nat
  /\ sched \in [Schedules -> ScheduleRows]
  /\ holder \in [Schedules -> Schedulers \cup {None}]
  /\ copy \in [Schedules -> ScheduleRows]
  /\ edits \in Nat

Init ==
  /\ job = [j \in JobIds |-> NoJob]
  /\ exec = [w \in Workers |-> {}]
  /\ awaited = [w \in Workers |-> {}]
  /\ lapsed = [j \in JobIds |-> 0]
  /\ faults = 0
  /\ slow = 0
  /\ sched = [s \in Schedules |-> NoSchedule]
  /\ holder = [s \in Schedules |-> None]
  /\ copy = [s \in Schedules |-> NoSchedule]
  /\ edits = 0

-----------------------------------------------------------------------------
(***************************************************************************)
(* The queue                                                               *)
(***************************************************************************)

\* insertJob: a row with the same idempotency key stays as it is.
Inserted(js, delay) ==
  [j \in JobIds |->
     IF j \in js /\ job[j].status = "absent"
       THEN [NoJob EXCEPT !.status = "pending", !.wait = delay]
       ELSE job[j]]

Enqueue(j, delay) ==
  /\ job[j].status = "absent"
  /\ job' = Inserted({j}, delay)
  /\ UNCHANGED <<exec, awaited, lapsed, faults, slow, schedules>>

\* A mutant of Claimable: a running job is never claimed again.
ClaimablePendingOnly(j) == job[j].status = "pending" /\ job[j].wait = 0

\* Pending and due, or running with a visibility timeout that has run out.
Claimable(j) ==
  \/ job[j].status = "pending" /\ job[j].wait = 0
  \/ job[j].status = "running" /\ job[j].lease = 0

\* A mutant of Idle: the timer does not look whether a tick is under way.
AlwaysIdle(w) == TRUE

\* The timer starts a tick only when the last one has ended.
Idle(w) == awaited[w] = {}

\* claim, in any order of priority: SKIP LOCKED and the batch size leave some
\* of the claimable jobs.
Claimed(w, batch) ==
  /\ batch # {} /\ Cardinality(batch) <= BatchSize
  /\ \A j \in batch : Claimable(j)
  /\ job' = [j \in JobIds |->
               IF j \in batch
                 THEN [status |-> "running", attempts |-> job[j].attempts + 1,
                       wait |-> job[j].wait, lease |-> Visibility, lockedBy |-> w]
                 ELSE job[j]]
  /\ lapsed' = [j \in JobIds |->
               IF j \in batch /\ job[j].status = "running" THEN lapsed[j] + 1
                                                           ELSE lapsed[j]]

Claim(w, batch) ==
  LET begun == {<<j, job[j].attempts + 1>> : j \in batch} IN
  /\ Idle(w)
  /\ Claimed(w, batch)
  /\ exec' = [exec EXCEPT ![w] = @ \cup begun]
  /\ awaited' = [awaited EXCEPT ![w] = begun]
  /\ UNCHANGED <<faults, slow, schedules>>

\* The claim commits and its answer is lost: the tick fails with nothing begun.
ClaimLost(w, batch) ==
  /\ Idle(w)
  /\ Claimed(w, batch)
  /\ faults < MaxFaults
  /\ faults' = faults + 1
  /\ UNCHANGED <<exec, awaited, slow, schedules>>

-----------------------------------------------------------------------------
(***************************************************************************)
(* Outcomes                                                                *)
(***************************************************************************)

\* A mutant of Outcome: the row is not required to be running.
OutcomeOfAnyStatus(w, j, status, delay) ==
  IF job[j].lockedBy = w
    THEN [job EXCEPT ![j] = [@ EXCEPT !.status = status, !.wait = delay,
                                      !.lease = 0, !.lockedBy = None]]
    ELSE job

\* The row after an outcome of worker w; only a running row it holds changes.
Outcome(w, j, status, delay) ==
  IF job[j].status = "running" /\ job[j].lockedBy = w
    THEN [job EXCEPT ![j] = [@ EXCEPT !.status = status, !.wait = delay,
                                      !.lease = 0, !.lockedBy = None]]
    ELSE job

\* The execution is over; the tick ends with the last one it awaits.
Executed(w, x) ==
  /\ x \in exec[w]
  /\ exec' = [exec EXCEPT ![w] = @ \ {x}]
  /\ awaited' = [awaited EXCEPT ![w] = @ \ {x}]
  /\ UNCHANGED <<lapsed, faults, slow, schedules>>

\* The handler returned.
Succeed(w, x) ==
  /\ Executed(w, x)
  /\ job' = Outcome(w, x[1], "succeeded", 0)

\* No actor, or an actor without an active membership.
DeadLetter(w, x) ==
  /\ Executed(w, x)
  /\ job' = Outcome(w, x[1], "dead_letter", 0)

\* A mutant of Exhausted: the last attempt is retried once more.
ExhaustedLate(attempt) == attempt > MaxAttempts

\* The attempt as it was claimed, not as the row says now.
Exhausted(attempt) == attempt >= MaxAttempts

Failed(w, x, delay) ==
  IF Exhausted(x[2]) THEN Outcome(w, x[1], "dead_letter", 0)
                     ELSE Outcome(w, x[1], "pending", delay)

\* The handler threw, or none is registered.
Fail(w, x, delay) ==
  /\ Executed(w, x)
  /\ job' = Failed(w, x, delay)

\* Recording the outcome throws, before or after it was committed: Promise.all
\* rejects at once and the tick ends, whatever other executions still run.
OutcomeLost(w, x, delay) ==
  /\ x \in exec[w]
  /\ faults < MaxFaults
  /\ job' \in {job, Outcome(w, x[1], "succeeded", 0), Outcome(w, x[1], "dead_letter", 0),
              Failed(w, x, delay)}
  /\ exec' = [exec EXCEPT ![w] = @ \ {x}]
  /\ awaited' = [awaited EXCEPT ![w] = IF x \in @ THEN {} ELSE @]
  /\ faults' = faults + 1
  /\ UNCHANGED <<lapsed, slow, schedules>>

\* The worker process dies and starts again under the same workerId.
Crash(w) ==
  /\ exec[w] # {}
  /\ faults < MaxFaults
  /\ exec' = [exec EXCEPT ![w] = {}]
  /\ awaited' = [awaited EXCEPT ![w] = {}]
  /\ faults' = faults + 1
  /\ UNCHANGED <<job, lapsed, slow, schedules>>

\* cancel keeps locked_by and locked_until.
Cancel(j) ==
  /\ job[j].status \in {"pending", "running"}
  /\ job' = [job EXCEPT ![j].status = "canceled"]
  /\ UNCHANGED <<exec, awaited, lapsed, faults, slow, schedules>>

-----------------------------------------------------------------------------
(***************************************************************************)
(* Schedules                                                               *)
(***************************************************************************)

\* A mutant of Unlocked: the row is read without FOR UPDATE.
NeverLocked(s) == TRUE

\* No transaction holds the row: a writer waits for this.
Unlocked(s) == holder[s] = None

\* One administrative change of schedule s.
Edit(s, after) ==
  /\ Unlocked(s)
  /\ edits < MaxEdits
  /\ edits' = edits + 1
  /\ sched' = [sched EXCEPT ![s] = after]
  /\ UNCHANGED <<queue, holder, copy>>

\* A new schedule, or a new definition that also repairs an invalid one.
\* next_run_at is computed before the statement waits for the row.
UpsertSchedule(s, status, wait) ==
  Edit(s, [sched[s] EXCEPT !.status = status, !.wait = wait])

\* is_enabled = false; the reason of an invalid schedule stays.
PauseSchedule(s) ==
  /\ sched[s].status = "enabled"
  /\ Edit(s, [sched[s] EXCEPT !.status = "paused"])

\* A schedule with a disabled_reason is not resumed.
ResumeSchedule(s) ==
  /\ sched[s].status = "paused"
  /\ Edit(s, [sched[s] EXCEPT !.status = "enabled"])

DeleteSchedule(s) ==
  /\ sched[s].status # "absent"
  /\ Edit(s, [sched[s] EXCEPT !.status = "absent", !.wait = 0])

\* materialize selects due schedules FOR UPDATE SKIP LOCKED.  A scheduler has
\* one tick, hence one transaction, at a time.
SelectDue(c, batch) ==
  /\ \A s \in Schedules : holder[s] # c
  /\ batch # {} /\ Cardinality(batch) <= BatchSize
  /\ \A s \in batch : /\ Unlocked(s)
                      /\ sched[s].status = "enabled" /\ sched[s].wait = 0
                      /\ sched[s].next <= MaxOccurrences
  /\ holder' = [s \in Schedules |-> IF s \in batch THEN c ELSE holder[s]]
  /\ copy' = [s \in Schedules |-> IF s \in batch THEN sched[s] ELSE copy[s]]
  /\ UNCHANGED <<queue, sched, edits>>

Release(c) ==
  /\ holder' = [s \in Schedules |-> IF holder[s] = c THEN None ELSE holder[s]]
  /\ copy' = [s \in Schedules |-> IF holder[s] = c THEN NoSchedule ELSE copy[s]]

\* Every selected schedule gets its job and its next time, which may have
\* passed already; one with an invalid cron expression is disabled instead.
Materialize(c, poisoned, wait) ==
  LET held == {s \in Schedules : holder[s] = c} IN
  /\ held # {} /\ poisoned \subseteq held
  /\ sched' = [s \in Schedules |->
       IF s \in poisoned THEN [copy[s] EXCEPT !.status = "invalid"]
       ELSE IF s \in held THEN [copy[s] EXCEPT !.wait = wait, !.next = @ + 1]
       ELSE sched[s]]
  /\ job' = Inserted({<<s, copy[s].next>> : s \in held \ poisoned}, 0)
  /\ Release(c)
  /\ UNCHANGED <<exec, awaited, lapsed, faults, slow, edits>>

\* Any other error, or a crash of the scheduler, rolls all of it back.
MaterializeRollback(c) ==
  /\ \E s \in Schedules : holder[s] = c
  /\ Release(c)
  /\ UNCHANGED <<queue, sched, edits>>

-----------------------------------------------------------------------------
Countdown(n) == IF n = 0 THEN 0 ELSE n - 1

\* Running jobs whose timeout runs out now, with the worker still at work.
Outlived == {j \in JobIds : /\ job[j].status = "running" /\ job[j].lease = 1
                            /\ \E x \in exec[job[j].lockedBy] : x[1] = j}

\* Time passes; a handler outlives its timeout at most MaxSlow times.
Tick ==
  /\ \/ \E j \in JobIds : \/ job[j].status = "pending" /\ job[j].wait > 0
                          \/ job[j].status = "running" /\ job[j].lease > 0
     \/ \E s \in Schedules : sched[s].wait > 0
  /\ slow' = slow + Cardinality(Outlived) /\ slow' <= MaxSlow
  /\ job' = [j \in JobIds |->
       CASE job[j].status = "pending" -> [job[j] EXCEPT !.wait = Countdown(@)]
         [] job[j].status = "running" -> [job[j] EXCEPT !.lease = Countdown(@)]
         [] OTHER -> job[j]]
  /\ sched' = [s \in Schedules |-> [sched[s] EXCEPT !.wait = Countdown(@)]]
  /\ UNCHANGED <<exec, awaited, lapsed, faults, holder, copy, edits>>

-----------------------------------------------------------------------------
Report(w) == \E x \in exec[w], delay \in Delays :
               Succeed(w, x) \/ DeadLetter(w, x) \/ Fail(w, x, delay)

Pick(j) == \E w \in Workers, batch \in SUBSET JobIds : j \in batch /\ Claim(w, batch)

Administer(s) ==
  \/ \E status \in {"enabled", "paused"}, wait \in 0 .. Interval :
       UpsertSchedule(s, status, wait)
  \/ PauseSchedule(s) \/ ResumeSchedule(s) \/ DeleteSchedule(s)

Next ==
  \/ \E j \in OneShots, delay \in Delays : Enqueue(j, delay)
  \/ \E w \in Workers, batch \in SUBSET JobIds : Claim(w, batch) \/ ClaimLost(w, batch)
  \/ \E w \in Workers : \/ Report(w) \/ Crash(w)
                        \/ \E x \in exec[w], delay \in Delays : OutcomeLost(w, x, delay)
  \/ \E j \in JobIds : Cancel(j)
  \/ \E s \in Schedules : Administer(s)
  \/ \E c \in Schedulers : \/ \E batch \in SUBSET Schedules : SelectDue(c, batch)
                           \/ \E poisoned \in SUBSET Schedules, wait \in 0 .. Interval :
                                Materialize(c, poisoned, wait)
                           \/ MaterializeRollback(c)
  \/ Tick

\* Time passes; a handler returns or throws, after at most MaxSlow of them
\* outlived the visibility timeout; the worker's timer keeps firing, and claim
\* orders by priority and run_at, so a job is not passed over for ever.
Fairness ==
  /\ WF_vars(Tick)
  /\ \A w \in Workers : WF_vars(Report(w))
  /\ \A j \in JobIds : SF_vars(Pick(j))

Spec == Init /\ [][Next]_vars

FairSpec == Spec /\ Fairness

-----------------------------------------------------------------------------
(***************************************************************************)
(* An execution that a tick awaits reports to the attempt it belongs to:   *)
(* when the row still names its worker, no later claim has replaced it.    *)
(* locked_by alone does not tell two claims of one worker apart; the       *)
(* ticking flag of JobsWorker.start does.                                  *)
(***************************************************************************)
AwaitedAttemptCurrent ==
  \A w \in Workers : \A x \in awaited[w] :
    (job[x[1]].status = "running" /\ job[x[1]].lockedBy = w)
      => job[x[1]].attempts = x[2]

(***************************************************************************)
(* A job that succeeded, was dead-lettered or was canceled never changes   *)
(* again, whatever executions of it are still under way.                   *)
(***************************************************************************)
TerminalFinal ==
  [][\A j \in JobIds : job[j].status \in Terminal => job'[j] = job[j]]_vars

(***************************************************************************)
(* A job is handed out at most max_attempts times, plus once for every     *)
(* claim whose visibility timeout ran out before an outcome.               *)
(***************************************************************************)
AttemptBudget == \A j \in JobIds : job[j].attempts <= MaxAttempts + lapsed[j]

(***************************************************************************)
(* What materialize writes back was computed from the row in force: no     *)
(* upsert, pause or delete of a schedule is lost between its read and its  *)
(* write, and no two schedulers materialize one occurrence.                *)
(***************************************************************************)
ScheduleInForce == \A s \in Schedules : holder[s] # None => copy[s] = sched[s]

(***************************************************************************)
(* Every job that exists succeeds, is dead-lettered or is canceled, when   *)
(* crashes, failed statements and handlers that outlive the visibility     *)
(* timeout come to an end.                                                 *)
(***************************************************************************)
EveryJobSettles ==
  \A j \in JobIds : (job[j].status # "absent") ~> (job[j].status \in Terminal)
=============================================================================
