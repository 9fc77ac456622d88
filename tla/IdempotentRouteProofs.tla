------------------------- MODULE IdempotentRouteProofs -------------------------
(***************************************************************************)
(* Proofs about IdempotentRoute, for any number of requests, faults and    *)
(* expiries: the exclusion and the single record of strict mode rest on    *)
(* the row of core.idempotency_keys alone, not on the lock in Redis.       *)
(***************************************************************************)
EXTENDS IdempotentRoute, TLAPS

\* The request is at work or in its catch.
AtWork == Working \cup {"recover"}

\* The row is the reservation of a request at work, unless another one settled it.
Reserved ==
  \A r \in Requests \ robbed :
    pc[r] \in Working => (row.status = "pending" /\ row.fp = FingerprintOf[r])

\* The catch finds a row, so that nobody else has reserved the key, unless the
\* clear in the try took effect and reported a failure.
Held == lost = {} => \A r \in Requests : pc[r] = "recover" => row.status # "absent"

\* A response that is stored, cached or recorded was made by a handler, for the
\* fingerprint of the row as long as the row is its own reservation.
Made ==
  /\ \A r \in Requests : pc[r] \in {"store", "persist"} => r \in ran
  /\ entry # None => entry \in ran
  /\ row.by # None => (row.by \in ran /\ (robbed = {} => FingerprintOf[row.by] = row.fp))

IInv ==
  /\ RouteTypeOK
  /\ strict => (Reserved /\ Held /\ Made)
  /\ StrictExclusion
  /\ StrictRecord

-----------------------------------------------------------------------------
\* The initial state satisfies the inductive invariant.
LEMMA InitIInv == Init => IInv
  <1> SUFFICES ASSUME Init PROVE IInv
    OBVIOUS
  <1> USE RouteAssumption DEF Init
  <1>1. RouteTypeOK
    BY DEF RouteTypeOK, Rows, NoRow, Phases
  <1>2. Reserved /\ Held /\ Made
    BY DEF Reserved, Held, Made, NoRow, Working
  <1>3. StrictExclusion /\ StrictRecord
    BY DEF StrictExclusion, StrictRecord, Working
  <1> QED
    BY <1>1, <1>2, <1>3 DEF IInv

\* The answers a step may give in strict mode.
Truthful(r) ==
  answer'[r] # None =>
    /\ answer'[r] \in ran'
    /\ robbed = {} => FingerprintOf[answer'[r]] = FingerprintOf[r]

\* In strict mode the row is pending for a request at work that was not robbed;
\* nobody was robbed, and one request at most is at work or in its catch, while no
\* clear was lost.
LEMMA RowWhileWorking ==
  ASSUME IInv, strict
  PROVE  /\ row.status = "absent" => \A r \in Requests \ robbed : pc[r] \notin Working
         /\ row.status # "completed" => recorded = {}
         /\ \A r \in Requests : pc[r] \in Working /\ recorded # {} => r \in robbed
         /\ \A q, r \in Requests \ robbed : (pc[q] \in Working /\ pc[r] \in Working) => q = r
         /\ lost = {} => robbed = {}
         /\ lost = {} => \A q, r \in Requests :
                           {pc[q], pc[r]} \subseteq AtWork => q = r
         /\ Reserved /\ Held /\ Made
  BY DEF IInv, Reserved, StrictExclusion, StrictRecord, AtWork

\* A step that takes request r elsewhere and leaves the row and the records alone.
\* In strict mode it does not begin an execution.
LEMMA MoveIInv ==
  ASSUME IInv, NEW r \in Requests, NEW p \in Phases,
         pc' = [pc EXCEPT ![r] = p],
         UNCHANGED <<strict, row, recorded, robbed>>,
         RouteTypeOK',
         ran \subseteq ran', lost \subseteq lost',
         strict =>
           /\ p \in AtWork => pc[r] \in Working
           /\ p \in {"store", "persist"} => r \in ran'
           /\ entry' # None => entry' \in ran'
           /\ Truthful(r)
           /\ \A q \in Requests \ {r} : answer'[q] = answer[q]
  PROVE  IInv'
  <1> SUFFICES ASSUME strict
               PROVE  Reserved' /\ Held' /\ Made' /\ StrictExclusion' /\ StrictRecord'
    BY DEF IInv, StrictExclusion, StrictRecord
  <1>1. Reserved /\ Held /\ Made
    BY DEF IInv
  <1>2. pc'[r] = p /\ \A q \in Requests \ {r} : pc'[q] = pc[q]
    BY DEF IInv, RouteTypeOK
  <1>3. \A q \in Requests : pc'[q] \in Working => pc[q] \in Working
    BY <1>2 DEF AtWork
  <1>4. Reserved'
    BY <1>1, <1>3 DEF Reserved
  <1>5. ASSUME lost' = {}
        PROVE  lost = {} /\ robbed = {}
    <2>1. lost = {}
      BY <1>5
    <2> QED
      BY <2>1, RowWhileWorking
  <1>6. Held'
    BY <1>1, <1>2, <1>5 DEF Held, Reserved, AtWork
  <1>7. Made'
    BY <1>1, <1>2 DEF Made
  <1>8. StrictExclusion'
    <2>1. \A q, t \in Requests \ robbed : (pc'[q] \in Working /\ pc'[t] \in Working) => q = t
      BY <1>3, RowWhileWorking
    <2>2. recorded # {} => \A q \in Requests \ robbed : pc'[q] \notin Working
      BY <1>3, RowWhileWorking
    <2>3. \A q \in Requests : pc'[q] \in AtWork => pc[q] \in AtWork
      BY <1>2 DEF AtWork
    <2>4. lost' = {} => \A q, t \in Requests :
                          {pc'[q], pc'[t]} \subseteq AtWork => q = t
      BY <1>5, <2>3, RowWhileWorking
    <2> QED
      BY <1>5, <2>1, <2>2, <2>4 DEF StrictExclusion, AtWork
  <1>9. StrictRecord'
    <2>1. /\ recorded # {} => (row.status = "completed" /\ row.by \in recorded)
          /\ \A q, t \in recorded \ robbed : q = t
      BY DEF IInv, StrictRecord
    <2>2. ASSUME NEW q \in Requests, answer'[q] # None
          PROVE  /\ answer'[q] \in ran'
                 /\ robbed = {} => FingerprintOf[answer'[q]] = FingerprintOf[q]
      <3>1. CASE q = r
        BY <2>2, <3>1 DEF Truthful
      <3>2. CASE q # r
        BY <2>2, <3>2 DEF IInv, StrictRecord
      <3> QED
        BY <3>1, <3>2
    <2> QED
      BY <2>1, <2>2 DEF StrictRecord
  <1> QED
    BY <1>4, <1>6, <1>7, <1>8, <1>9

\* What the client gets from Consult in strict mode is a response made for it.
LEMMA ConsultIInv ==
  ASSUME IInv, NEW r \in Requests, NEW there \in BOOLEAN, NEW fp,
         NEW q \in Requests \cup {None}, NEW p \in Phases \ AtWork,
         Consult(r, there, fp, q, p),
         strict /\ q # None => (q \in ran /\ (robbed = {} => FingerprintOf[q] = fp)),
         UNCHANGED <<strict, redis, row, local, history, bounds>>
  PROVE  IInv'
  <1>1. UNCHANGED <<strict, entry, lock, row, locked, threw, ran, recorded, lost, robbed, faults, expiries>>
    BY DEF redis, local, history, bounds
  <1>2. "done" \in Phases \ AtWork
    BY DEF Phases, AtWork, Working
  <1>3. strict => (entry # None => entry \in ran)
    BY DEF IInv, Made
  <1>4. ASSUME NEW o \in Requests \cup {None}, Reply(r, o),
               strict /\ o # None =>
                 (o \in ran /\ (robbed = {} => FingerprintOf[o] = FingerprintOf[r]))
        PROVE  IInv'
    <2>1. /\ pc' = [pc EXCEPT ![r] = "done"]
          /\ answer' = [answer EXCEPT ![r] = o]
      BY <1>4 DEF Reply, Goto
    <2>2. RouteTypeOK'
      BY <1>1, <1>2, <2>1 DEF IInv, RouteTypeOK
    <2>3. answer'[r] = o /\ \A t \in Requests \ {r} : answer'[t] = answer[t]
      BY <2>1 DEF IInv, RouteTypeOK
    <2>4. strict => Truthful(r)
      BY <1>1, <1>4, <2>3 DEF Truthful
    <2> QED
      BY <1>1, <1>2, <1>3, <2>1, <2>2, <2>3, <2>4, MoveIInv
  <1>5. CASE Goto(r, p) /\ UNCHANGED answer
    <2>1. pc' = [pc EXCEPT ![r] = p]
      BY <1>5 DEF Goto
    <2>2. RouteTypeOK'
      BY <1>1, <1>5, <2>1 DEF IInv, RouteTypeOK
    <2>3. strict => Truthful(r)
      BY <1>1, <1>5 DEF IInv, StrictRecord, Truthful
    <2> QED
      BY <1>1, <1>3, <1>5, <2>1, <2>2, <2>3, MoveIInv DEF AtWork, Working
  <1>6. CASE there /\ fp # FingerprintOf[r] /\ Reply(r, None)
    BY <1>4, <1>6
  <1>7. CASE fp = FingerprintOf[r] /\ q # None /\ Reply(r, q)
    BY <1>4, <1>7
  <1> QED
    BY <1>5, <1>6, <1>7 DEF Consult

\* The reads of the cache and of the row.
LEMMA ReadIInv ==
  ASSUME IInv, NEW r \in Requests, Get(r) \/ WaitEntry(r) \/ WaitRow(r)
  PROVE  IInv'
  <1>1. {"lookup", "waitRow", "waitLock"} \subseteq Phases \ AtWork
    BY DEF Phases, AtWork, Working
  <1>2. /\ entry \in Requests \cup {None} /\ row.by \in Requests \cup {None}
        /\ row.live \in BOOLEAN
    BY DEF IInv, RouteTypeOK, Rows
  <1>3. strict => /\ entry # None => entry \in ran
                  /\ row.by # None =>
                       (row.by \in ran /\ (robbed = {} => FingerprintOf[row.by] = row.fp))
    BY DEF IInv, Made
  <1>4. CASE WaitRow(r)
    BY <1>1, <1>2, <1>3, <1>4, ConsultIInv DEF WaitRow, Durable
  <1> DEFINE fp == IF entry = None THEN None ELSE FingerprintOf[entry]
  <1>5. ASSUME NEW p \in Phases \ AtWork, Cached(r, p),
               UNCHANGED <<strict, redis, row, local, history, bounds>>
        PROVE  IInv'
    <2>1. Consult(r, entry # None, fp, entry, p)
      BY <1>5 DEF Cached
    <2>2. strict /\ entry # None => (entry \in ran /\ FingerprintOf[entry] = fp)
      BY <1>3
    <2>3. (entry # None) \in BOOLEAN
      OBVIOUS
    <2> HIDE DEF fp
    <2> QED
      BY <1>2, <1>5, <2>1, <2>2, <2>3, ConsultIInv
  <1> QED
    BY <1>1, <1>4, <1>5 DEF Get, WaitEntry

\* The lookup of the row and the copy of its response to the cache.
LEMMA LookupIInv ==
  ASSUME IInv, NEW r \in Requests, Lookup(r) \/ Refill(r)
  PROVE  IInv'
  <1>1. strict => /\ entry # None => entry \in ran
                  /\ row.by # None =>
                       (row.by \in ran /\ (robbed = {} => FingerprintOf[row.by] = row.fp))
                  /\ answer[r] # None =>
                       (answer[r] \in ran /\ (robbed = {} => FingerprintOf[answer[r]] = FingerprintOf[r]))
    BY DEF IInv, Made, StrictRecord
  <1>2. {"refill", "lock", "done"} \subseteq Phases \ AtWork
    BY DEF Phases, AtWork, Working
  <1>3. row.by \in Requests \cup {None} /\ row.live \in BOOLEAN
    BY DEF IInv, RouteTypeOK, Rows
  <1>4. CASE Lookup(r) /\ row.live /\ row.fp = FingerprintOf[r] /\ row.by # None
    <2>1. /\ answer' = [answer EXCEPT ![r] = row.by]
          /\ pc' = [pc EXCEPT ![r] = "refill"]
          /\ UNCHANGED <<strict, entry, lock, row, locked, threw, ran, recorded, lost, robbed, faults, expiries>>
      BY <1>4 DEF Lookup, Goto, redis, local, history, bounds
    <2>2. RouteTypeOK'
      BY <1>2, <1>3, <2>1 DEF IInv, RouteTypeOK
    <2>3. answer'[r] = row.by /\ \A q \in Requests \ {r} : answer'[q] = answer[q]
      BY <2>1 DEF IInv, RouteTypeOK
    <2>4. strict => Truthful(r)
      BY <1>1, <1>4, <2>1, <2>3 DEF Truthful
    <2> QED
      BY <1>1, <1>2, <2>1, <2>2, <2>3, <2>4, MoveIInv
  <1>5. CASE Lookup(r) /\ ~(row.live /\ row.fp = FingerprintOf[r] /\ row.by # None)
    BY <1>1, <1>2, <1>3, <1>5, ConsultIInv DEF Lookup, Durable
  <1>6. CASE Refill(r)
    <2>1. /\ entry' = answer[r]
          /\ pc' = [pc EXCEPT ![r] = "done"]
          /\ UNCHANGED <<strict, lock, row, locked, threw, answer, ran, recorded, lost, robbed, faults, expiries>>
      BY <1>6 DEF Refill, Goto, local, history, bounds
    <2>2. RouteTypeOK'
      BY <1>2, <2>1 DEF IInv, RouteTypeOK
    <2> QED
      BY <1>1, <1>2, <2>1, <2>2, MoveIInv DEF Truthful
  <1> QED
    BY <1>4, <1>5, <1>6

\* The steps that leave the cache, the row and the records alone.
LEMMA LockIInv ==
  ASSUME IInv, NEW r \in Requests,
         AcquireLock(r) \/ WaitLock(r) \/ ReleaseRead(r) \/ ReleaseDelete(r) \/ Die(r)
  PROVE  IInv'
  <1>1. strict => /\ entry # None => entry \in ran
                  /\ answer[r] # None =>
                       (answer[r] \in ran /\ (robbed = {} => FingerprintOf[answer[r]] = FingerprintOf[r]))
    BY DEF IInv, Made, StrictRecord
  <1>2. {"reserve", "waitEntry", "unlock", "done"} \subseteq Phases \ AtWork /\ "handler" \in Phases
    BY DEF Phases, AtWork, Working
  <1>3. /\ UNCHANGED <<strict, entry, row, ran, recorded, lost, robbed, threw, expiries>>
        /\ answer' \in {answer, [answer EXCEPT ![r] = None]}
        /\ lock' \in {lock, r, None}
        /\ locked' \in {locked, [locked EXCEPT ![r] = TRUE]}
        /\ faults' \in {faults, faults + 1}
    BY DEF AcquireLock, WaitLock, GiveUp, ReleaseRead, ReleaseDelete, Die, Fault, Reply, Goto,
           redis, local, history, bounds
  <1>4. PICK p \in {"reserve", "waitEntry", "unlock", "done", "handler"} :
          /\ pc' = [pc EXCEPT ![r] = p]
          /\ strict => p # "handler"
    BY DEF AcquireLock, WaitLock, GiveUp, ReleaseRead, ReleaseDelete, Die, Reply, Goto
  <1>5. RouteTypeOK'
    <2>1. pc' \in [Requests -> Phases]
      BY <1>2, <1>4 DEF IInv, RouteTypeOK
    <2>2. answer' \in [Requests -> Requests \cup {None}] /\ locked' \in [Requests -> BOOLEAN]
      BY <1>3 DEF IInv, RouteTypeOK
    <2>3. lock' \in Requests \cup {None} /\ faults' \in Nat
      BY <1>3 DEF IInv, RouteTypeOK
    <2> QED
      BY <1>3, <2>1, <2>2, <2>3 DEF IInv, RouteTypeOK
  <1>6. /\ answer'[r] \in {answer[r], None}
        /\ \A q \in Requests \ {r} : answer'[q] = answer[q]
    BY <1>3 DEF IInv, RouteTypeOK
  <1>7. p \in Phases /\ (strict => p \notin AtWork)
    BY <1>2, <1>4
  <1>8. p \in {"store", "persist"} => p \in AtWork
    BY DEF AtWork, Working
  <1>9. strict => Truthful(r)
    BY <1>1, <1>3, <1>6 DEF Truthful
  <1> QED
    BY <1>1, <1>3, <1>4, <1>5, <1>6, <1>7, <1>8, <1>9, MoveIInv

\* A reservation finds no row, hence nobody at work who was not robbed, and nobody
\* in a catch unless a clear was lost.
LEMMA ReserveIInv ==
  ASSUME IInv, NEW r \in Requests, Reserve(r)
  PROVE  IInv'
  <1> USE RouteAssumption
  <1> DEFINE new == [status |-> "pending", fp |-> FingerprintOf[r], by |-> None, live |-> TRUE]
  <1>1. /\ UNCHANGED <<strict, entry, lock, locked, threw, answer, ran, recorded, lost, robbed, faults, expiries>>
        /\ pc[r] = "reserve"
    BY DEF Reserve, redis, local, history, bounds
  <1>2. {"handler", "release"} \subseteq Phases /\ "release" \notin AtWork
    BY DEF Phases, AtWork, Working
  <1>3. CASE ~Reservable
    <2>1. PICK p \in {"handler", "release"} :
            pc' = [pc EXCEPT ![r] = p] /\ (strict => p = "release")
      BY <1>3 DEF Reserve, Goto
    <2>2. UNCHANGED row
      BY <1>3 DEF Reserve
    <2>3. RouteTypeOK'
      BY <1>1, <1>2, <2>1, <2>2 DEF IInv, RouteTypeOK
    <2>4. strict => Truthful(r) /\ (entry # None => entry \in ran)
      BY <1>1 DEF IInv, StrictRecord, Made, Truthful
    <2> QED
      BY <1>1, <1>2, <2>1, <2>2, <2>3, <2>4, MoveIInv
  <1>4. CASE Reservable
    <2>1. row' = new /\ pc' = [pc EXCEPT ![r] = "handler"]
      BY <1>4 DEF Reserve, Goto
    <2>2. new \in Rows
      BY DEF Rows
    <2>3. new.status = "pending" /\ new.fp = FingerprintOf[r] /\ new.by = None
      OBVIOUS
    <2> HIDE DEF new
    <2>4. RouteTypeOK'
      BY <1>1, <1>2, <2>1, <2>2 DEF IInv, RouteTypeOK
    <2> SUFFICES ASSUME strict
                 PROVE  Reserved' /\ Held' /\ Made' /\ StrictExclusion' /\ StrictRecord'
      BY <1>1, <2>4 DEF IInv, StrictExclusion, StrictRecord
    <2>5. /\ \A q \in Requests \ robbed : pc[q] \notin Working
          /\ recorded = {} /\ Made /\ Held
          /\ lost = {} => robbed = {}
      BY <1>4, RowWhileWorking DEF Reservable
    <2>6. pc'[r] = "handler" /\ \A q \in Requests \ {r} : pc'[q] = pc[q]
      BY <2>1 DEF IInv, RouteTypeOK
    <2>7. Reserved' /\ Held'
      BY <1>1, <2>1, <2>3, <2>5, <2>6 DEF Reserved, Held
    <2>8. Made'
      BY <1>1, <2>1, <2>3, <2>5, <2>6 DEF Made
    <2>9. lost = {} => \A q \in Requests : pc[q] \notin AtWork
      BY <1>4, <2>5 DEF Held, Reservable, AtWork
    <2>10. StrictExclusion'
      <3>1. \A q, t \in Requests \ robbed : (pc'[q] \in Working /\ pc'[t] \in Working) => q = t
        BY <2>5, <2>6
      <3>2. lost = {} => \A q, t \in Requests : {pc'[q], pc'[t]} \subseteq AtWork => q = t
        BY <2>6, <2>9
      <3> QED
        BY <1>1, <2>5, <3>1, <3>2 DEF StrictExclusion, AtWork
    <2>11. StrictRecord'
      BY <1>1, <2>5 DEF IInv, StrictRecord
    <2> QED
      BY <2>7, <2>8, <2>10, <2>11
  <1> QED
    BY <1>3, <1>4

\* A handler and the copy of its response to the cache.
LEMMA HandleIInv ==
  ASSUME IInv, NEW r \in Requests, Handle(r) \/ Store(r)
  PROVE  IInv'
  <1>1. {"store", "persist", "clear", "recover"} \subseteq Phases /\ pc[r] \in Working
    BY DEF Phases, Working, Handle, Store
  <1>2. /\ UNCHANGED <<strict, row, recorded, lost, robbed, answer, lock, locked, faults, expiries>>
        /\ threw' \in [Requests -> BOOLEAN]
        /\ ran' \in {ran, ran \cup {r}}
        /\ entry' \in {entry, r} /\ (entry' = r => pc[r] = "store" \/ entry' = entry)
    BY DEF Handle, Store, redis, local, history, bounds, IInv, RouteTypeOK
  <1>3. PICK p \in {"store", "persist", "clear", "recover"} :
          /\ pc' = [pc EXCEPT ![r] = p]
          /\ p = "store" => r \in ran'
          /\ p = "persist" => pc[r] = "store"
    BY DEF Handle, Store, Goto
  <1>4. RouteTypeOK'
    BY <1>1, <1>2, <1>3 DEF IInv, RouteTypeOK
  <1>5. strict => /\ Truthful(r)
                  /\ entry # None => entry \in ran
                  /\ pc[r] = "store" => r \in ran
    BY <1>2 DEF IInv, StrictRecord, Made, Truthful
  <1> QED
    BY <1>1, <1>2, <1>3, <1>4, <1>5, MoveIInv

\* A response is recorded.  Unless its request was robbed, it is the first, in the
\* reservation of its own request, and whoever else is at work is robbed.
LEMMA PersistedIInv ==
  ASSUME IInv, NEW r \in Requests, pc[r] = "persist", Persisted(r),
         NEW p \in {"recover", "release", "done"}, pc' = [pc EXCEPT ![r] = p],
         answer' \in {answer, [answer EXCEPT ![r] = r]},
         UNCHANGED <<strict, entry, lock, locked, threw, ran, lost, expiries>>, faults' \in Nat
  PROVE  IInv'
  <1> USE RouteAssumption
  <1>1. p \in Phases /\ p \notin Working /\ pc[r] \in Working
    BY DEF Phases, AtWork, Working
  <1>2. row \in Rows
    BY DEF IInv, RouteTypeOK
  <1>3. row' \in Rows /\ recorded' \subseteq Requests /\ robbed' \subseteq Requests
    <2>1. row' \in Rows
      BY <1>2 DEF Persisted, Rows
    <2>2. recorded' \in {recorded, recorded \cup {r}} /\ robbed' \in {robbed, robbed \cup Others(r)}
      BY DEF Persisted
    <2> QED
      BY <2>1, <2>2 DEF Others, IInv, RouteTypeOK
  <1>4. answer' \in [Requests -> Requests \cup {None}] /\ pc' \in [Requests -> Phases]
    BY <1>1 DEF IInv, RouteTypeOK
  <1>5. RouteTypeOK'
    BY <1>3, <1>4 DEF IInv, RouteTypeOK
  <1> SUFFICES ASSUME strict
               PROVE  Reserved' /\ Held' /\ Made' /\ StrictExclusion' /\ StrictRecord'
    BY <1>5 DEF IInv, StrictExclusion, StrictRecord
  <1>6. /\ r \in ran /\ Made
        /\ \A q \in Requests : answer'[q] = answer[q] \/ (q = r /\ answer'[q] = r)
    BY RowWhileWorking DEF Made, IInv, RouteTypeOK
  <1>7. CASE row.status = "absent"
    <2>1. UNCHANGED <<row, recorded, robbed>>
      BY <1>7 DEF Persisted
    <2>2. r \in robbed /\ lost # {}
      BY <1>1, <1>7, RowWhileWorking
    <2>3. /\ answer'[r] \in {answer[r], r} /\ \A q \in Requests \ {r} : answer'[q] = answer[q]
      BY <1>6
    <2>4. Truthful(r)
      BY <1>6, <2>3 DEF Truthful, IInv, StrictRecord
    <2>5. entry' # None => entry' \in ran'
      BY <1>6 DEF Made
    <2>6. ran \subseteq ran' /\ lost \subseteq lost' /\ p \notin {"store", "persist"}
      OBVIOUS
    <2>7. IInv'
      BY <1>1, <1>5, <2>1, <2>3, <2>4, <2>5, <2>6, MoveIInv DEF AtWork
    <2> QED
      BY <2>7 DEF IInv
  <1>8. CASE row.status # "absent"
    <2>1. /\ row' = [row EXCEPT !.status = "completed", !.by = r, !.live = TRUE]
          /\ recorded' = recorded \cup {r}
          /\ robbed' = robbed \cup Others(r)
      BY <1>8 DEF Persisted
    <2>2. row'.status = "completed" /\ row'.by = r /\ row'.fp = row.fp
      BY <1>2, <2>1 DEF Rows
    <2>3. pc'[r] = p /\ \A q \in Requests \ {r} : pc'[q] = pc[q]
      BY DEF IInv, RouteTypeOK
    <2>4. \A q \in Requests \ robbed' : pc'[q] \notin Working
      BY <1>1, <2>1, <2>3 DEF Others
    <2>5. lost = {} => /\ robbed = {} /\ robbed' = {}
                       /\ \A q \in Requests \ {r} : pc[q] \notin AtWork
      <3>1. lost = {} => robbed = {} /\ \A q \in Requests \ {r} : pc[q] \notin AtWork
        BY <1>1, RowWhileWorking DEF AtWork
      <3> QED
        BY <2>1, <3>1 DEF Others, AtWork
    <2>6. robbed = {} => row.fp = FingerprintOf[r]
      BY <1>1, RowWhileWorking DEF Reserved
    <2>7. Reserved' /\ Held'
      BY <2>2, <2>4 DEF Reserved, Held
    <2>8. robbed' = {} => robbed = {}
      BY <2>1
    <2>9. Made'
      BY <1>6, <2>2, <2>3, <2>6, <2>8 DEF Made
    <2>10. StrictExclusion'
      <3>1. lost = {} => \A q, t \in Requests : {pc'[q], pc'[t]} \subseteq AtWork => q = t
        BY <2>3, <2>5
      <3> QED
        BY <2>4, <2>5, <3>1 DEF StrictExclusion, AtWork
    <2>11. StrictRecord'
      <3>1. recorded # {} => r \in robbed
        BY <1>1, RowWhileWorking
      <3>2. \A q, t \in recorded' \ robbed' : q = t
        BY <2>1, <3>1 DEF IInv, StrictRecord
      <3>3. ASSUME NEW q \in Requests, answer'[q] # None
            PROVE  /\ answer'[q] \in ran'
                   /\ robbed' = {} => FingerprintOf[answer'[q]] = FingerprintOf[q]
        BY <1>6, <2>8, <3>3 DEF IInv, StrictRecord
      <3> QED
        BY <2>1, <2>2, <3>2, <3>3 DEF StrictRecord
    <2> QED
      BY <2>7, <2>9, <2>10, <2>11
  <1> QED
    BY <1>7, <1>8

\* The end of the handler's work, whether the response is recorded or not.
LEMMA SettleIInv ==
  ASSUME IInv, NEW r \in Requests, Persist(r) \/ StoreFails(r)
  PROVE  IInv'
  <1>1. AfterTry(r) \in {"release", "done"}
    BY DEF AfterTry
  <1>2. CASE Persist(r)
    <2>1. PICK p \in {"recover", "release", "done"} : pc' = [pc EXCEPT ![r] = p]
      BY <1>1, <1>2 DEF Persist, Goto
    <2>2. UNCHANGED <<strict, entry, lock, locked, threw, ran, lost, expiries, faults>> /\ faults \in Nat
      BY <1>2 DEF Persist, redis, local, bounds, IInv, RouteTypeOK
    <2> QED
      BY <1>2, <2>1, <2>2, PersistedIInv DEF Persist
  <1>3. CASE StoreFails(r)
    <2>1. PICK p \in {"recover", "release", "done"} : pc' = [pc EXCEPT ![r] = p]
      BY <1>1, <1>3 DEF StoreFails, Goto
    <2>2. UNCHANGED <<strict, entry, lock, locked, threw, ran, lost, expiries, answer>> /\ faults' \in Nat
      BY <1>3 DEF StoreFails, Fault, redis, local, IInv, RouteTypeOK
    <2>3. CASE pc[r] = "persist" /\ Persisted(r)
      BY <2>1, <2>2, <2>3, PersistedIInv
    <2>4. CASE UNCHANGED <<row, recorded, robbed>>
      <3>1. p \in Phases /\ p \notin {"store", "persist"} /\ pc[r] \in Working
        BY <1>3 DEF Phases, StoreFails, Working
      <3>2. RouteTypeOK'
        BY <2>1, <2>2, <2>4, <3>1 DEF IInv, RouteTypeOK
      <3>3. strict => Truthful(r) /\ (entry # None => entry \in ran)
        BY <2>2 DEF IInv, StrictRecord, Made, Truthful
      <3> QED
        BY <2>1, <2>2, <2>4, <3>1, <3>2, <3>3, MoveIInv
    <2> QED
      BY <1>3, <2>3, <2>4 DEF StoreFails
  <1> QED
    BY <1>2, <1>3

\* A clear removes only a pending row, and whoever else is at work is robbed.  The
\* request goes to its catch only when the clear is lost.
LEMMA ClearedIInv ==
  ASSUME IInv, NEW r \in Requests, pc[r] \in {"clear", "recover"}, Cleared(r),
         NEW p \in {"recover", "release", "done"}, pc' = [pc EXCEPT ![r] = p],
         lost' \in {lost, lost \cup {r}}, p = "recover" => (pc[r] = "clear" /\ r \in lost'),
         UNCHANGED <<strict, entry, lock, locked, threw, answer, ran, recorded, expiries>>,
         faults' \in Nat
  PROVE  IInv'
  <1> USE RouteAssumption
  <1>1. p \in Phases /\ p \notin Working \cup {"store", "persist"}
    BY DEF Phases, AtWork, Working
  <1>2. strict => Truthful(r) /\ (entry # None => entry \in ran)
    BY DEF IInv, StrictRecord, Made, Truthful
  <1>3. ran \subseteq ran' /\ lost \subseteq lost'
    OBVIOUS
  <1>4. CASE ~Clearable
    <2>1. UNCHANGED <<row, robbed>>
      BY <1>4 DEF Cleared
    <2>2. RouteTypeOK'
      BY <1>1, <2>1 DEF IInv, RouteTypeOK
    <2>3. p \in AtWork => pc[r] \in Working
      BY <1>1 DEF AtWork, Working
    <2> QED
      BY <1>1, <1>2, <1>3, <2>1, <2>2, <2>3, MoveIInv
  <1>5. CASE Clearable
    <2>1. row' = NoRow /\ robbed' = robbed \cup Others(r) /\ row.status = "pending"
      BY <1>5 DEF Cleared, Clearable
    <2>2. NoRow \in Rows /\ NoRow.by = None
      BY DEF NoRow, Rows
    <2>3. robbed' \subseteq Requests
      BY <2>1 DEF Others, IInv, RouteTypeOK
    <2>4. RouteTypeOK'
      BY <1>1, <2>1, <2>2, <2>3 DEF IInv, RouteTypeOK
    <2> SUFFICES ASSUME strict
                 PROVE  Reserved' /\ Held' /\ Made' /\ StrictExclusion' /\ StrictRecord'
      BY <2>4 DEF IInv, StrictExclusion, StrictRecord
    <2>5. recorded = {} /\ Made
      BY <2>1, RowWhileWorking
    <2>6. pc'[r] = p /\ \A q \in Requests \ {r} : pc'[q] = pc[q]
      BY DEF IInv, RouteTypeOK
    <2>7. \A q \in Requests \ robbed' : pc'[q] \notin Working
      BY <1>1, <2>1, <2>6 DEF Others
    <2>8. lost' = {} => robbed' = {} /\ \A q \in Requests : pc'[q] \notin AtWork
      <3>1. pc[r] \in AtWork
        BY DEF AtWork, Working
      <3>2. lost = {} => robbed = {} /\ \A q \in Requests \ {r} : pc[q] \notin AtWork
        BY <3>1, RowWhileWorking DEF AtWork
      <3>3. lost' = {} => p \notin AtWork
        BY <1>1 DEF AtWork
      <3> QED
        BY <1>3, <2>1, <2>6, <3>2, <3>3 DEF Others, AtWork
    <2>9. Reserved' /\ Held'
      BY <2>7, <2>8 DEF Reserved, Held, AtWork
    <2>10. StrictExclusion'
      BY <2>5, <2>7, <2>8 DEF StrictExclusion, AtWork
    <2>11. Made'
      BY <1>1, <2>1, <2>2, <2>5, <2>6 DEF Made
    <2>12. StrictRecord'
      BY <2>1, <2>5 DEF IInv, StrictRecord
    <2> QED
      BY <2>9, <2>10, <2>11, <2>12
  <1> QED
    BY <1>4, <1>5

\* The clear in the try and the clear in the catch.
LEMMA ClearIInv ==
  ASSUME IInv, NEW r \in Requests, Clear(r) \/ Recover(r)
  PROVE  IInv'
  <1>1. AfterTry(r) \in {"release", "done"}
    BY DEF AfterTry
  <1>2. /\ UNCHANGED <<strict, entry, lock, locked, threw, answer, ran, recorded, expiries>>
        /\ faults' \in Nat
    BY DEF Clear, Recover, Fault, redis, local, IInv, RouteTypeOK
  <1>3. CASE Clear(r)
    <2>1. PICK p \in {"recover", "release", "done"} : pc' = [pc EXCEPT ![r] = p]
      BY <1>1, <1>3 DEF Clear, Goto
    <2>2. CASE Cleared(r) /\ Goto(r, AfterTry(r)) /\ UNCHANGED lost
      <3> DEFINE o == AfterTry(r)
      <3>1. pc' = [pc EXCEPT ![r] = o] /\ o \in {"release", "done"}
        BY <1>1, <2>2 DEF Goto
      <3> HIDE DEF o
      <3> QED
        BY <1>2, <1>3, <2>2, <3>1, ClearedIInv DEF Clear
    <2>3. CASE Goto(r, "recover") /\ Cleared(r) /\ lost' = lost \cup {r}
      <3>1. pc' = [pc EXCEPT ![r] = "recover"] /\ pc[r] = "clear"
        BY <1>3, <2>3 DEF Goto, Clear
      <3> QED
        BY <1>2, <2>3, <3>1, ClearedIInv
    <2>4. CASE UNCHANGED <<row, robbed, lost>>
      <3>1. p \in Phases /\ p \notin {"store", "persist"} /\ pc[r] \in Working
        BY <1>3 DEF Phases, Clear, Working
      <3>2. RouteTypeOK'
        BY <1>2, <2>1, <2>4, <3>1 DEF IInv, RouteTypeOK
      <3>3. strict => Truthful(r) /\ (entry # None => entry \in ran)
        BY <1>2 DEF IInv, StrictRecord, Made, Truthful
      <3> QED
        BY <1>2, <2>1, <2>4, <3>1, <3>2, <3>3, MoveIInv
    <2> QED
      BY <1>3, <2>2, <2>3, <2>4 DEF Clear
  <1>4. CASE Recover(r)
    <2>1. PICK p \in {"release", "done"} : pc' = [pc EXCEPT ![r] = p]
      BY <1>1, <1>4 DEF Recover, Goto
    <2>2. pc[r] = "recover" /\ UNCHANGED lost
      BY <1>4 DEF Recover
    <2>3. CASE Cleared(r)
      BY <1>2, <2>1, <2>2, <2>3, ClearedIInv
    <2>4. CASE UNCHANGED <<row, robbed>>
      <3>1. p \in Phases /\ p \notin AtWork \cup {"store", "persist"}
        BY DEF Phases, AtWork, Working
      <3>2. RouteTypeOK'
        BY <1>2, <2>1, <2>2, <2>4, <3>1 DEF IInv, RouteTypeOK
      <3>3. strict => Truthful(r) /\ (entry # None => entry \in ran)
        BY <1>2 DEF IInv, StrictRecord, Made, Truthful
      <3> QED
        BY <1>2, <2>1, <2>2, <2>4, <3>1, <3>2, <3>3, MoveIInv
    <2> QED
      BY <1>4, <2>3, <2>4 DEF Recover
  <1> QED
    BY <1>3, <1>4

\* An expiry hides an entry, a lock or a row; the row still excludes.
LEMMA ExpireIInv ==
  ASSUME IInv, Expire
  PROVE  IInv'
  <1>1. /\ UNCHANGED <<strict, pc, locked, threw, answer, ran, recorded, lost, robbed, faults>>
        /\ entry' \in {entry, None} /\ lock' \in {lock, None}
        /\ row' \in {row, [row EXCEPT !.live = FALSE]} /\ expiries' = expiries + 1
    BY DEF Expire, redis, local, history
  <1>2. /\ row' \in Rows
        /\ row'.status = row.status /\ row'.fp = row.fp /\ row'.by = row.by
    BY <1>1 DEF IInv, RouteTypeOK, Rows
  <1>3. RouteTypeOK'
    BY <1>1, <1>2 DEF IInv, RouteTypeOK
  <1>4. strict => Reserved' /\ Held' /\ Made'
    BY <1>1, <1>2 DEF IInv, Reserved, Held, Made
  <1>5. StrictExclusion' /\ StrictRecord'
    BY <1>1, <1>2 DEF IInv, StrictExclusion, StrictRecord
  <1> QED
    BY <1>1, <1>3, <1>4, <1>5 DEF IInv

\* Every step preserves the inductive invariant.
LEMMA NextIInv == IInv /\ [Next]_vars => IInv'
  <1> SUFFICES ASSUME IInv, [Next]_vars PROVE IInv'
    OBVIOUS
  <1>1. CASE UNCHANGED vars
    BY <1>1 DEF vars, IInv, RouteTypeOK, Reserved, Held, Made, StrictExclusion, StrictRecord
  <1>2. CASE Next
    BY <1>2, ReadIInv, LookupIInv, LockIInv, ReserveIInv, HandleIInv, SettleIInv, ClearIInv,
       ExpireIInv DEF Next
  <1> QED
    BY <1>1, <1>2

\* The inductive invariant holds in every reachable state.
THEOREM Invariance == Spec => []IInv
  BY InitIInv, NextIInv, PTL DEF Spec

\* The cache, the lock, the row and the requests keep their types.
THEOREM TypeCorrect == Spec => []RouteTypeOK
  <1>1. IInv => RouteTypeOK
    BY DEF IInv
  <1> QED
    BY <1>1, Invariance, PTL

\* In strict mode at most one request of a key is at work on its own reservation, and
\* none once a response is recorded, whatever becomes of the lock; no reservation is
\* settled by another request unless a clear took effect and reported a failure.
THEOREM ExclusionCorrect == Spec => []StrictExclusion
  <1>1. IInv => StrictExclusion
    BY DEF IInv
  <1> QED
    BY <1>1, Invariance, PTL

\* In strict mode one response at most is recorded on a reservation of its own, a
\* recorded row is kept, and clients get only responses a handler made, for their
\* fingerprint as long as no reservation was settled by another request.
THEOREM RecordCorrect == Spec => []StrictRecord
  <1>1. IInv => StrictRecord
    BY DEF IInv
  <1> QED
    BY <1>1, Invariance, PTL
=============================================================================
