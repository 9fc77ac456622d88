----------------------------- MODULE SessionsProofs -----------------------------
(***************************************************************************)
(* Proofs about Sessions, for any number of sessions, tenants, tokens and  *)
(* concurrent calls, any timeouts and every single-session mode.           *)
(***************************************************************************)
EXTENDS Sessions, TLAPS

\* A session that is not in the store has no deadline either.
Whole == \A s \in Sids : session[s].hash = None => session[s].expires = 0

\* Every token that a record names has a lookup, which is never removed.
Filed ==
  /\ \A s \in Sids : session[s].hash # None => lookup[session[s].hash].sid # None
  /\ \A h \in Tokens : lookup[h].state # "none" => lookup[h].sid # None

\* An exchanged token stays used.
Exchanged == \A h \in spent : lookup[h].state = "used" /\ lookup[h].sid # None

\* The record of a revoked session is not there, but for a haunted one.
Gone == \A s \in revoked \ haunted : session[s].hash = None

\* The index misses no session, but for a revived one.
Indexed == \A s \in Sids \ revived : Stored(s) => s \in index

\* What a call in state k remembers agrees with the store: its token was not spent
\* when it began, and a record it is going to write back is that of a session that
\* was not revoked since, or that is known to be haunted.
CallOK(k) ==
  /\ ~k.late
  /\ k.pc \in {"refresh", "rotate"} =>
       k.sid \in Sids /\ k.token \in Tokens /\ lookup[k.token].sid # None
  /\ k.pc \in {"rotate", "touch", "revoke"} =>
       k.sid \in Sids /\ k.record.hash \in Tokens /\ lookup[k.record.hash].sid # None
  /\ k.pc \in {"rotate", "touch"} =>
       /\ session[k.sid].hash = None => k.sid \in revoked
       /\ k.sid \in revoked => k.sid \in haunted
       /\ (session[k.sid].hash # None /\ k.sid \notin revived)
            => session[k.sid].tenant = k.record.tenant

Calling == \A c \in Calls : CallOK(call[c])

IInv ==
  /\ SessionsTypeOK
  /\ Whole /\ Filed /\ Exchanged /\ Gone /\ Indexed /\ Calling
  /\ TokenSpentOnce
  /\ SingleSession

-----------------------------------------------------------------------------
\* The initial state satisfies the inductive invariant.
LEMMA InitIInv == Init => IInv
  <1> SUFFICES ASSUME Init PROVE IInv
    OBVIOUS
  <1> USE SessionsAssumption DEF Init
  <1>1. SessionsTypeOK
    BY DEF SessionsTypeOK, Records, NoSession, Lookups, NoLookup, CallStates, NoCall
  <1>2. Whole /\ Filed /\ Exchanged /\ Gone /\ Indexed
    BY DEF Whole, Filed, Exchanged, Gone, Indexed, Stored, NoSession, NoLookup
  <1>3. Calling
    BY DEF Calling, CallOK, NoCall
  <1>4. TokenSpentOnce /\ SingleSession
    BY DEF TokenSpentOnce, SingleSession, Stored, NoSession
  <1> QED
    BY <1>1, <1>2, <1>3, <1>4 DEF IInv

\* Nobody who ends holds anything.
LEMMA NoCallOK == NoCall \in CallStates /\ CallOK(NoCall)
  BY SessionsAssumption DEF NoCall, CallStates, CallOK, Records, NoSession

\* A step that changes the state of one call and nothing else.
LEMMA CallIInv ==
  ASSUME IInv, NEW c \in Calls, NEW k \in CallStates, CallOK(k),
         call' = [call EXCEPT ![c] = k],
         UNCHANGED <<now, store, history>>
  PROVE  IInv'
  <1>1. UNCHANGED <<now, session, index, lookup, spent, replays, revoked, haunted, revived>>
    BY DEF store, history
  <1>2. SessionsTypeOK'
    BY <1>1 DEF IInv, SessionsTypeOK
  <1>3. Whole' /\ Filed' /\ Exchanged' /\ Gone' /\ Indexed' /\ TokenSpentOnce' /\ SingleSession'
    BY <1>1 DEF IInv, Whole, Filed, Exchanged, Gone, Indexed, TokenSpentOnce, SingleSession,
                Stored, Active
  <1>4. \A d \in Calls : call'[d] = IF d = c THEN k ELSE call[d]
    BY DEF IInv, SessionsTypeOK
  <1>5. Calling'
    BY <1>1, <1>4 DEF IInv, Calling, CallOK
  <1> QED
    BY <1>2, <1>3, <1>5 DEF IInv

\* A call that has only sessions left to revoke holds no record to write back.
LEMMA RevokingOK ==
  ASSUME NEW S \in SUBSET Sids
  PROVE  /\ [NoCall EXCEPT !.pc = "revoking", !.todo = S] \in CallStates
         /\ CallOK([NoCall EXCEPT !.pc = "revoking", !.todo = S])
  BY SessionsAssumption DEF NoCall, CallStates, CallOK, Records, NoSession

\* The first step of refresh: a spent token is not usable, so the call is not late.
LEMMA RefreshIInv ==
  ASSUME IInv, NEW c \in Calls, NEW h \in Tokens, Refresh(c, h)
  PROVE  IInv'
  <1>1. lookup[h] \in Lookups /\ now \in Nat
    BY DEF IInv, SessionsTypeOK
  <1>2. UNCHANGED <<now, store, history>>
    BY DEF Refresh
  <1>3. lookup[h].state # "none" => lookup[h].sid \in Sids
    BY <1>1 DEF IInv, Filed, Lookups
  <1>4. CASE Used(h) /\ Goto(c, [NoCall EXCEPT !.pc = "revoking", !.todo = {lookup[h].sid}])
    <2>1. {lookup[h].sid} \in SUBSET Sids
      BY <1>3, <1>4 DEF Used
    <2> QED
      BY <1>2, <1>4, <2>1, RevokingOK, CallIInv DEF Goto
  <1>5. CASE /\ Usable(h)
             /\ Goto(c, [NoCall EXCEPT !.pc = "refresh", !.token = h,
                                       !.sid = lookup[h].sid, !.at = now, !.late = h \in spent])
    <2> DEFINE k == [NoCall EXCEPT !.pc = "refresh", !.token = h,
                                   !.sid = lookup[h].sid, !.at = now, !.late = FALSE]
    <2>1. lookup[h].sid \in Sids /\ (h \in spent) = FALSE /\ lookup[h].sid # None
      BY <1>3, <1>5, SessionsAssumption DEF Usable, IInv, Exchanged
    <2>2. k \in CallStates /\ CallOK(k)
      BY <1>1, <2>1, SessionsAssumption DEF NoCall, CallStates, CallOK, Records, NoSession
    <2>3. call' = [call EXCEPT ![c] = k]
      BY <1>5, <2>1 DEF Goto
    <2> QED
      BY <1>2, <2>2, <2>3, CallIInv
  <1> QED
    BY <1>4, <1>5 DEF Refresh

\* A record that is there may be held: its session was not revoked, or is haunted.
LEMMA HoldOK ==
  ASSUME IInv, NEW s \in Sids, Stored(s)
  PROVE  /\ session[s] \in Records /\ session[s].hash \in Tokens
         /\ lookup[session[s].hash].sid # None
         /\ s \in revoked => s \in haunted
  BY DEF IInv, SessionsTypeOK, Stored, Filed, Gone, Records

\* The other steps that only read.
LEMMA ReadIInv ==
  ASSUME IInv, NEW c \in Calls,
         RotateRead(c) \/ Abort(c) \/ \E s \in Sids : Touch(c, s) \/ Revoke(c, s) \/ RevokeRead(c, s)
  PROVE  IInv'
  <1>1. UNCHANGED <<now, store, history>>
    BY DEF RotateRead, Abort, Touch, Revoke, RevokeRead
  <1>2. call[c] \in CallStates /\ CallOK(call[c]) /\ now \in Nat
    BY DEF IInv, SessionsTypeOK, Calling
  <1> SUFFICES \E k \in CallStates : CallOK(k) /\ call' = [call EXCEPT ![c] = k]
    BY <1>1, CallIInv
  <1>3. CASE call' = [call EXCEPT ![c] = NoCall]
    BY <1>3, NoCallOK
  <1>4. ASSUME NEW S \in SUBSET Sids, Goto(c, [NoCall EXCEPT !.pc = "revoking", !.todo = S])
        PROVE  \E k \in CallStates : CallOK(k) /\ call' = [call EXCEPT ![c] = k]
    BY <1>4, RevokingOK DEF Goto
  <1>5. CASE RotateRead(c)
    <2> DEFINE s == call[c].sid
               k == [call[c] EXCEPT !.pc = "rotate", !.record = session[s]]
    <2>1. CASE Stored(s) /\ call' = [call EXCEPT ![c] = k]
      <3>1. call[c].pc = "refresh" /\ s \in Sids
        BY <1>2, <1>5 DEF RotateRead, CallOK
      <3>2. k \in CallStates
        BY <1>2, <2>1, <3>1, HoldOK DEF CallStates
      <3>3. /\ k.pc = "rotate" /\ k.sid = s /\ k.record = session[s]
            /\ k.token = call[c].token /\ k.late = call[c].late
        BY <1>2 DEF CallStates
      <3> HIDE DEF k
      <3>4. CallOK(k)
        BY <1>2, <2>1, <3>1, <3>3, HoldOK DEF CallOK, Stored
      <3> QED
        BY <2>1, <3>2, <3>4
    <2> QED
      BY <1>3, <1>5, <2>1 DEF RotateRead, Goto
  <1>6. CASE Abort(c)
    BY <1>3, <1>6 DEF Abort, Goto
  <1>7. ASSUME NEW s \in Sids, Touch(c, s)
        PROVE  \E k \in CallStates : CallOK(k) /\ call' = [call EXCEPT ![c] = k]
    <2> DEFINE k == [NoCall EXCEPT !.pc = "touch", !.sid = s, !.record = session[s], !.at = now]
    <2>1. CASE Goto(c, [NoCall EXCEPT !.pc = "revoking", !.todo = {s}])
      BY <1>4, <2>1
    <2>2. CASE call' = [call EXCEPT ![c] = k]
      <3>1. Stored(s)
        BY <1>7 DEF Touch
      <3>2. k \in CallStates
        BY <1>2, <3>1, HoldOK DEF CallStates, NoCall
      <3>3. k.pc = "touch" /\ k.sid = s /\ k.record = session[s] /\ k.late = FALSE
        BY DEF NoCall
      <3> HIDE DEF k
      <3>4. CallOK(k)
        BY <3>1, <3>3, HoldOK DEF CallOK, Stored
      <3> QED
        BY <2>2, <3>2, <3>4
    <2> QED
      BY <1>7, <2>1, <2>2 DEF Touch, Goto
  <1>8. ASSUME NEW s \in Sids, Revoke(c, s)
        PROVE  \E k \in CallStates : CallOK(k) /\ call' = [call EXCEPT ![c] = k]
    BY <1>4, <1>8 DEF Revoke
  <1>9. ASSUME NEW s \in Sids, RevokeRead(c, s)
        PROVE  \E k \in CallStates : CallOK(k) /\ call' = [call EXCEPT ![c] = k]
    <2> DEFINE k == [call[c] EXCEPT !.pc = "revoke", !.sid = s, !.record = session[s]]
               j == [call[c] EXCEPT !.todo = @ \ {s}]
    <2>1. CASE Stored(s) /\ call' = [call EXCEPT ![c] = k]
      <3>1. k \in CallStates
        BY <1>2, <2>1, HoldOK DEF CallStates
      <3>2. k.pc = "revoke" /\ k.sid = s /\ k.record = session[s] /\ k.late = call[c].late
        BY <1>2 DEF CallStates
      <3> HIDE DEF k
      <3>3. CallOK(k)
        BY <1>2, <2>1, <3>2, HoldOK DEF CallOK
      <3> QED
        BY <2>1, <3>1, <3>3
    <2>2. CASE call' = [call EXCEPT ![c] = j]
      <3>1. j \in CallStates
        BY <1>2 DEF CallStates
      <3>2. j.pc = "revoking" /\ j.late = call[c].late
        BY <1>2, <1>9 DEF CallStates, RevokeRead
      <3> HIDE DEF j
      <3>3. CallOK(j)
        BY <1>2, <3>2 DEF CallOK
      <3> QED
        BY <2>2, <3>1, <3>3
    <2> QED
      BY <1>3, <1>9, <2>1, <2>2 DEF RevokeRead, Goto
  <1> QED
    BY <1>5, <1>6, <1>7, <1>8, <1>9

\* The end of a refresh or a touch writes a record back over a session that is active,
\* which then has the same tenant, or revives it.
LEMMA WriteBackIInv ==
  ASSUME IInv, NEW c \in Calls, call[c].pc \in {"rotate", "touch"},
         NEW rec \in Records, rec.hash \in Tokens, rec.tenant = call[c].record.tenant,
         WriteBack(call[c].sid, rec), call' = [call EXCEPT ![c] = NoCall],
         lookup' \in [Tokens -> Lookups], lookup'[rec.hash].sid # None,
         \A h \in Tokens : /\ lookup[h].sid # None => lookup'[h].sid # None
                           /\ lookup'[h].state # "none" => lookup'[h].sid # None,
         spent' \subseteq Tokens, Exchanged', replays' = replays,
         UNCHANGED <<now, index, revoked, haunted>>
  PROVE  IInv'
  <1> USE SessionsAssumption
  <1> DEFINE s == call[c].sid
  <1>1. s \in Sids /\ (s \in revoked => s \in haunted)
        /\ ((session[s].hash # None /\ s \notin revived) => session[s].tenant = rec.tenant)
    BY DEF IInv, Calling, CallOK
  <1>2. \A t \in Sids : session'[t] = IF t = s THEN rec ELSE session[t]
    BY DEF WriteBack, IInv, SessionsTypeOK
  <1>3. /\ revived \subseteq revived'
        /\ s \notin revived' => (s \notin revived /\ Active(session[s], now))
    BY DEF WriteBack
  <1>4. SessionsTypeOK'
    <2>1. session' \in [Sids -> Records] /\ revived' \subseteq Sids
      BY <1>1 DEF WriteBack, IInv, SessionsTypeOK
    <2>2. call' \in [Calls -> CallStates]
      BY NoCallOK DEF IInv, SessionsTypeOK
    <2> QED
      BY <2>1, <2>2 DEF IInv, SessionsTypeOK
  <1>5. Active(session[s], now) => Stored(s)
    BY <1>1 DEF Active, Stored, IInv, Whole, SessionsTypeOK, Records
  <1>6. \A d \in Calls : call'[d] = IF d = c THEN NoCall ELSE call[d]
    BY DEF IInv, SessionsTypeOK
  <1> HIDE DEF s
  <1>7. Whole' /\ Gone'
    BY <1>1, <1>2 DEF IInv, Whole, Gone, SessionsTypeOK
  <1>8. Filed'
    <2>1. \A t \in Sids : session[t].hash # None => session[t].hash \in Tokens
      BY DEF IInv, SessionsTypeOK, Records
    <2> QED
      BY <1>1, <1>2, <2>1 DEF IInv, Filed
  <1>9. Indexed'
    BY <1>2, <1>3, <1>5 DEF IInv, Indexed, Stored
  <1>10. Calling'
    <2> SUFFICES ASSUME NEW d \in Calls PROVE CallOK(call[d])'
      BY DEF Calling
    <2>1. CASE d = c
      BY <1>6, <2>1 DEF CallOK, NoCall
    <2>2. CASE d # c
      <3>1. call'[d] = call[d] /\ CallOK(call[d]) /\ call[d] \in CallStates
        BY <1>6, <2>2 DEF IInv, Calling, SessionsTypeOK
      <3>2. ASSUME call[d].pc \in {"rotate", "touch"}
            PROVE  /\ session'[call[d].sid].hash = None => call[d].sid \in revoked
                   /\ call[d].sid \in revoked => call[d].sid \in haunted
                   /\ (session'[call[d].sid].hash # None /\ call[d].sid \notin revived')
                        => session'[call[d].sid].tenant = call[d].record.tenant
        <4>1. call[d].sid \in Sids
          BY <3>1, <3>2 DEF CallOK
        <4>2. CASE call[d].sid = s
          BY <1>1, <1>2, <1>3, <1>5, <3>1, <3>2, <4>2 DEF CallOK, Stored
        <4>3. CASE call[d].sid # s
          BY <1>2, <1>3, <3>1, <3>2, <4>1, <4>3 DEF CallOK
        <4> QED
          BY <4>2, <4>3
      <3> QED
        BY <3>1, <3>2 DEF CallOK
    <2> QED
      BY <2>1, <2>2
  <1>11. TokenSpentOnce'
    BY DEF IInv, TokenSpentOnce
  <1>12. SingleSession'
    <2>1. \A t \in Sids \ revived' : /\ t \notin revived
                                     /\ (Stored(t)' /\ Active(session[t], now)')
                                          => /\ Stored(t) /\ Active(session[t], now)
                                             /\ session'[t].tenant = session[t].tenant
      <3> SUFFICES ASSUME NEW t \in Sids \ revived'
                   PROVE  /\ t \notin revived
                          /\ (Stored(t)' /\ Active(session[t], now)')
                               => /\ Stored(t) /\ Active(session[t], now)
                                  /\ session'[t].tenant = session[t].tenant
        OBVIOUS
      <3>1. CASE t = s
        BY <1>1, <1>2, <1>3, <1>5, <3>1 DEF Stored
      <3>2. CASE t # s
        BY <1>2, <1>3, <3>2 DEF Stored, Active
      <3> QED
        BY <3>1, <3>2
    <2> QED
      BY <2>1 DEF IInv, SingleSession
  <1> QED
    BY <1>4, <1>7, <1>8, <1>9, <1>10, <1>11, <1>12 DEF IInv

\* The deadlines are numbers.
LEMMA IdleNat == Idle \in Nat /\ Absolute \in Nat
  BY SessionsAssumption

LEMMA MinNat == \A a, b \in Nat : Min(a, b) \in Nat
  BY DEF Min

\* A rotation spends a token for good: the next one is fresh.
LEMMA RotateWriteIInv ==
  ASSUME IInv, NEW c \in Calls, NEW next \in Tokens, RotateWrite(c, next)
  PROVE  IInv'
  <1> DEFINE k == call[c]
             s == k.sid
             rec == [k.record EXCEPT !.hash = next, !.idle = Min(k.at + Idle, k.record.expires)]
  <1>1. /\ k \in CallStates /\ k.pc = "rotate" /\ ~k.late
        /\ s \in Sids /\ k.token \in Tokens /\ lookup[k.token].sid # None
    BY DEF RotateWrite, IInv, SessionsTypeOK, Calling, CallOK
  <1>2. rec \in Records /\ rec.hash = next /\ rec.tenant = k.record.tenant
    <2>1. k.at + Idle \in Nat /\ k.record.expires \in Nat
      BY <1>1, IdleNat DEF CallStates, Records
    <2>2. Min(k.at + Idle, k.record.expires) \in Nat
      BY <2>1, MinNat
    <2> QED
      BY <1>1, <2>2 DEF CallStates, Records
  <1>3. /\ WriteBack(s, rec) /\ call' = [call EXCEPT ![c] = NoCall]
        /\ UNCHANGED <<now, index, revoked, haunted>>
        /\ spent' = spent \cup {k.token} /\ replays' = (replays \/ k.late)
    BY DEF RotateWrite, Goto
  <1>4. next # k.token /\ next \notin spent
    BY <1>1 DEF RotateWrite, Fresh, IInv, Exchanged
  <1>5. /\ lookup' \in [Tokens -> Lookups]
        /\ lookup'[next].sid = s
        /\ lookup'[k.token].sid = s /\ lookup'[k.token].state = "used"
        /\ \A h \in Tokens \ {next, k.token} : lookup'[h] = lookup[h]
    <2>1. Lookup("used", s, k.record.expires) \in Lookups
          /\ Lookup("active", s, k.record.expires) \in Lookups
      BY <1>1 DEF Lookup, Lookups, CallStates, Records
    <2>2. lookup' = [lookup EXCEPT ![k.token] = Lookup("used", s, k.record.expires),
                                   ![next] = Lookup("active", s, k.record.expires)]
      BY DEF RotateWrite
    <2> QED
      BY <1>1, <1>4, <2>1, <2>2 DEF IInv, SessionsTypeOK, Lookup
  <1>6. spent' \subseteq Tokens /\ replays' = replays
    BY <1>1, <1>3 DEF IInv, SessionsTypeOK
  <1>7. s # None
    BY <1>1, SessionsAssumption
  <1> HIDE DEF s, rec
  <1>8. Exchanged'
    BY <1>3, <1>4, <1>5, <1>7 DEF IInv, Exchanged, SessionsTypeOK
  <1>9. \A h \in Tokens : /\ lookup[h].sid # None => lookup'[h].sid # None
                          /\ lookup'[h].state # "none" => lookup'[h].sid # None
    BY <1>5, <1>7 DEF IInv, Filed
  <1> QED
    BY <1>1, <1>2, <1>3, <1>5, <1>6, <1>7, <1>8, <1>9, WriteBackIInv DEF s

\* A touch writes the record back with a later deadline.
LEMMA TouchWriteIInv ==
  ASSUME IInv, NEW c \in Calls, TouchWrite(c)
  PROVE  IInv'
  <1> DEFINE k == call[c]
             rec == [k.record EXCEPT !.idle = Min(k.at + Idle, k.record.expires)]
  <1>1. k \in CallStates /\ k.pc = "touch" /\ k.record.hash \in Tokens
        /\ lookup[k.record.hash].sid # None
    BY DEF TouchWrite, IInv, SessionsTypeOK, Calling, CallOK
  <1>2. rec \in Records /\ rec.hash = k.record.hash /\ rec.tenant = k.record.tenant
    <2>1. k.at + Idle \in Nat /\ k.record.expires \in Nat
      BY <1>1, IdleNat DEF CallStates, Records
    <2>2. Min(k.at + Idle, k.record.expires) \in Nat
      BY <2>1, MinNat
    <2> QED
      BY <1>1, <2>2 DEF CallStates, Records
  <1>3. /\ WriteBack(k.sid, rec) /\ call' = [call EXCEPT ![c] = NoCall]
        /\ UNCHANGED <<now, index, lookup, spent, replays, revoked, haunted>>
    BY DEF TouchWrite, Goto
  <1>4. /\ lookup \in [Tokens -> Lookups] /\ spent \subseteq Tokens /\ Exchanged'
        /\ \A h \in Tokens : lookup[h].state # "none" => lookup[h].sid # None
    BY <1>3 DEF IInv, SessionsTypeOK, Exchanged, Filed
  <1> HIDE DEF rec
  <1> QED
    BY <1>1, <1>2, <1>3, <1>4, WriteBackIInv

\* The list of sessions to revoke drops from the index only expired sessions.
LEMMA RevokeAllIInv ==
  ASSUME IInv, NEW c \in Calls, RevokeAll(c)
  PROVE  IInv'
  <1> DEFINE there == {s \in index : Stored(s)}
  <1>1. /\ index' = there
        /\ UNCHANGED <<now, session, lookup, spent, replays, revoked, haunted, revived>>
    BY DEF RevokeAll, history
  <1>2. there \in SUBSET Sids
    BY DEF IInv, SessionsTypeOK
  <1>3. PICK k \in CallStates : CallOK(k) /\ call' = [call EXCEPT ![c] = k]
    <2> DEFINE j == [NoCall EXCEPT !.pc = "revoking", !.todo = there]
    <2>1. j \in CallStates /\ CallOK(j)
      BY <1>2, RevokingOK
    <2>2. call' = [call EXCEPT ![c] = NoCall] \/ call' = [call EXCEPT ![c] = j]
      BY DEF RevokeAll, Goto
    <2> HIDE DEF j
    <2> QED
      BY <2>1, <2>2, NoCallOK
  <1>4. SessionsTypeOK'
    BY <1>1, <1>2, <1>3 DEF IInv, SessionsTypeOK
  <1>5. Whole' /\ Filed' /\ Exchanged' /\ Gone' /\ Indexed' /\ TokenSpentOnce' /\ SingleSession'
    BY <1>1 DEF IInv, Whole, Filed, Exchanged, Gone, Indexed, TokenSpentOnce, SingleSession,
                Stored, Active
  <1>6. \A d \in Calls : call'[d] = IF d = c THEN k ELSE call[d]
    BY <1>3 DEF IInv, SessionsTypeOK
  <1>7. Calling'
    BY <1>1, <1>3, <1>6 DEF IInv, Calling, CallOK
  <1> QED
    BY <1>4, <1>5, <1>7 DEF IInv

\* Time takes sessions out of the store and makes none active.
LEMMA TickIInv ==
  ASSUME IInv, Tick
  PROVE  IInv'
  <1>1. /\ now' = now + 1 /\ now \in Nat
        /\ UNCHANGED <<session, index, lookup, call, spent, replays, revoked, haunted, revived>>
    BY DEF Tick, store, history, IInv, SessionsTypeOK
  <1>2. SessionsTypeOK'
    BY <1>1 DEF IInv, SessionsTypeOK
  <1>3. Whole' /\ Filed' /\ Exchanged' /\ Gone' /\ TokenSpentOnce'
    BY <1>1 DEF IInv, Whole, Filed, Exchanged, Gone, TokenSpentOnce
  <1>4. Calling'
    BY <1>1 DEF IInv, Calling, CallOK
  <1>5. \A s \in Sids : /\ session'[s] = session[s]
                        /\ Stored(s)' => Stored(s)
                        /\ Active(session[s], now)' => Active(session[s], now)
    BY <1>1 DEF Stored, Active, IInv, SessionsTypeOK, Records
  <1>6. Indexed' /\ SingleSession'
    BY <1>1, <1>5 DEF IInv, Indexed, SingleSession
  <1> QED
    BY <1>2, <1>3, <1>4, <1>6 DEF IInv

\* Whoever held a record of a deleted session makes it haunted.
LEMMA HeldHaunts ==
  ASSUME IInv, NEW S \in SUBSET Sids, NEW d \in Calls,
         call[d].pc \in {"rotate", "touch"}, call[d].sid \in S
  PROVE  call[d].sid \in Held(S)
  BY DEF Held

\* The sessions of S are deleted and revoked: what other calls remember stays right.
LEMMA DeleteOK ==
  ASSUME IInv, NEW S \in SUBSET Sids, NEW d \in Calls, call'[d] = call[d],
         call[d].pc \in {"rotate", "touch"} =>
           session'[call[d].sid] = IF call[d].sid \in S THEN NoSession ELSE session[call[d].sid],
         \A h \in Tokens : lookup[h].sid # None => lookup'[h].sid # None,
         revoked' = revoked \cup S, haunted' = haunted \cup Held(S), revived' = revived
  PROVE  CallOK(call[d])'
  <1>1. CallOK(call[d])
    BY DEF IInv, Calling
  <1>2. NoSession.hash = None
    BY DEF NoSession
  <1>3. call[d].pc \in {"rotate", "touch"} /\ call[d].sid \in S => call[d].sid \in Held(S)
    BY HeldHaunts
  <1> QED
    BY <1>1, <1>2, <1>3 DEF CallOK

\* A revocation deletes the session and marks the token it read as used.
LEMMA RevokeWriteIInv ==
  ASSUME IInv, NEW c \in Calls, RevokeWrite(c)
  PROVE  IInv'
  <1> USE SessionsAssumption
  <1> DEFINE k == call[c]
             s == k.sid
             h == k.record.hash
  <1>1. k \in CallStates /\ s \in Sids /\ h \in Tokens /\ lookup[h].sid # None
    BY DEF RevokeWrite, IInv, SessionsTypeOK, Calling, CallOK
  <1>2. /\ session' = Deleted({s}) /\ index' = index \ {s}
        /\ lookup' = [lookup EXCEPT ![h] = Lookup("used", s, k.record.expires)]
        /\ revoked' = revoked \cup {s} /\ haunted' = haunted \cup Held({s})
        /\ UNCHANGED <<now, spent, replays, revived>>
    BY DEF RevokeWrite
  <1>3. PICK j \in CallStates : /\ call' = [call EXCEPT ![c] = j]
                                /\ j.pc \in {"idle", "revoking"} /\ ~j.late
    <2> DEFINE r == [NoCall EXCEPT !.pc = "revoking", !.todo = k.todo \ {s}]
    <2>1. r \in CallStates /\ r.pc = "revoking" /\ ~r.late
      BY <1>1, RevokingOK DEF CallStates, NoCall
    <2>2. NoCall \in CallStates /\ NoCall.pc = "idle" /\ ~NoCall.late
      BY NoCallOK DEF NoCall
    <2>3. call' = [call EXCEPT ![c] = NoCall] \/ call' = [call EXCEPT ![c] = r]
      BY DEF RevokeWrite, Goto
    <2> HIDE DEF r
    <2> QED
      BY <2>1, <2>2, <2>3
  <1>4. \A t \in Sids : session'[t] = IF t = s THEN NoSession ELSE session[t]
    BY <1>2 DEF Deleted
  <1>5. /\ lookup' \in [Tokens -> Lookups]
        /\ lookup'[h].sid = s /\ lookup'[h].state = "used" /\ s # None
        /\ \A t \in Tokens \ {h} : lookup'[t] = lookup[t]
    <2>1. Lookup("used", s, k.record.expires) \in Lookups
      BY <1>1 DEF Lookup, Lookups, CallStates, Records
    <2> QED
      BY <1>1, <1>2, <2>1 DEF IInv, SessionsTypeOK, Lookup
  <1>6. NoSession \in Records /\ NoSession.hash = None /\ NoSession.expires = 0
    BY DEF NoSession, Records
  <1>7. SessionsTypeOK'
    <2>1. session' \in [Sids -> Records]
      BY <1>2, <1>6 DEF Deleted, IInv, SessionsTypeOK
    <2>2. call' \in [Calls -> CallStates]
      BY <1>3 DEF IInv, SessionsTypeOK
    <2>3. Held({s}) \subseteq Sids
      BY <1>1 DEF Held
    <2> QED
      BY <1>1, <1>2, <1>5, <2>1, <2>2, <2>3 DEF IInv, SessionsTypeOK
  <1>8. {s} \in SUBSET Sids
    BY <1>1
  <1> HIDE DEF s, h
  <1>9. \A t \in Tokens : lookup[t].sid # None => lookup'[t].sid # None
    BY <1>5
  <1>10. Whole' /\ Gone' /\ Exchanged'
    <2>1. Whole'
      BY <1>4, <1>6 DEF IInv, Whole
    <2>2. Gone'
      BY <1>2, <1>4, <1>6, <1>8 DEF IInv, Gone, SessionsTypeOK
    <2>3. Exchanged'
      BY <1>2, <1>5 DEF IInv, Exchanged, SessionsTypeOK
    <2> QED
      BY <2>1, <2>2, <2>3
  <1>11. Filed'
    <2>1. \A t \in Sids : session[t].hash # None => session[t].hash \in Tokens
      BY DEF IInv, SessionsTypeOK, Records
    <2> QED
      BY <1>4, <1>5, <1>6, <1>9, <2>1 DEF IInv, Filed
  <1>12. \A t \in Sids : Stored(t)' => Stored(t) /\ t # s /\ session'[t] = session[t]
    BY <1>2, <1>4, <1>6 DEF Stored
  <1>13. Indexed' /\ SingleSession' /\ TokenSpentOnce'
    <2>1. Indexed'
      BY <1>2, <1>12 DEF IInv, Indexed
    <2>2. SingleSession'
      <3>1. \A t \in Sids : Stored(t)' => (Active(session[t], now)' <=> Active(session[t], now))
        BY <1>2, <1>12 DEF Active
      <3> SUFFICES ASSUME Mode # "off", NEW t \in Sids \ revived, NEW u \in Sids \ revived,
                          t # u, Stored(t)', Stored(u)', session'[t].tenant = session'[u].tenant
                   PROVE  ~(Active(session[t], now)' /\ Active(session[u], now)')
        BY <1>2 DEF SingleSession
      <3>2. Stored(t) /\ Stored(u) /\ session[t].tenant = session[u].tenant
        BY <1>12
      <3>3. ~(Active(session[t], now) /\ Active(session[u], now))
        BY <3>2 DEF IInv, SingleSession
      <3> QED
        BY <3>1, <3>3
    <2>3. TokenSpentOnce'
      BY <1>2 DEF IInv, TokenSpentOnce
    <2> QED
      BY <2>1, <2>2, <2>3
  <1>14. Calling'
    <2> SUFFICES ASSUME NEW d \in Calls PROVE CallOK(call[d])'
      BY DEF Calling
    <2>1. CASE d = c
      <3>1. call'[d] = j
        BY <1>3, <2>1 DEF IInv, SessionsTypeOK
      <3> QED
        BY <1>3, <3>1 DEF CallOK
    <2>2. CASE d # c
      <3>1. call'[d] = call[d]
        BY <1>3, <2>2 DEF IInv, SessionsTypeOK
      <3>2. call[d].pc \in {"rotate", "touch"} => call[d].sid \in Sids
        BY DEF IInv, Calling, CallOK
      <3> QED
        BY <1>2, <1>4, <1>8, <1>9, <3>1, <3>2, DeleteOK
    <2> QED
      BY <2>1, <2>2
  <1> QED
    BY <1>7, <1>10, <1>11, <1>13, <1>14 DEF IInv

\* A creation leaves in the tenant no other session that is active.
LEMMA CreateIInv ==
  ASSUME IInv, NEW s \in Sids, NEW tenant \in Tenants, NEW prior \in Sids \cup {None},
         NEW h \in Tokens, Create(s, tenant, prior, h)
  PROVE  IInv'
  <1> USE SessionsAssumption
  <1> DEFINE conflicts == Conflicts(tenant, prior)
             replaced  == {prior} \ {None}
             gone      == IF Mode = "revoke-existing" THEN conflicts \cup replaced ELSE replaced
             expires   == now + Absolute
             rec       == [tenant |-> tenant, hash |-> h, idle |-> Min(now + Idle, expires),
                           expires |-> expires]
  <1>1. /\ session[s].hash = None /\ s \notin revoked /\ Fresh(h)
        /\ prior # None => Stored(prior)
        /\ Mode = "reject-new" => conflicts = {}
        /\ session' = [Deleted(gone) EXCEPT ![s] = rec]
        /\ index' = (index \ gone) \cup {s}
        /\ lookup' = [t \in Tokens |->
             IF t = h THEN Lookup("active", s, expires)
             ELSE IF \E g \in gone : session[g].hash = t
               THEN [lookup[t] EXCEPT !.state = "used"]
               ELSE lookup[t]]
        /\ revoked' = revoked \cup gone
        /\ haunted' = haunted \cup Held(gone)
        /\ UNCHANGED <<now, call, spent, replays, revived>>
    BY DEF Create
  <1>2. gone \in SUBSET Sids /\ \A g \in gone : Stored(g)
    BY <1>1 DEF Conflicts, IInv, SessionsTypeOK
  <1>3. s \notin gone
    BY <1>1, <1>2 DEF Stored
  <1>4. now \in Nat /\ expires \in Nat
    BY IdleNat DEF IInv, SessionsTypeOK
  <1>5. rec \in Records /\ rec.hash = h /\ rec.tenant = tenant
    <2>1. now + Idle \in Nat
      BY <1>4, IdleNat
    <2> HIDE DEF expires
    <2>2. Min(now + Idle, expires) \in Nat
      BY <1>4, <2>1, MinNat
    <2> QED
      BY <1>4, <2>2 DEF Records
  <1>6. \A t \in Sids \ {s} : (Stored(t) /\ Active(session[t], now) /\ session[t].tenant = tenant
                               /\ t \notin revived /\ Mode # "off") => t \in gone
    BY <1>1 DEF Conflicts, IInv, Indexed
  <1> HIDE DEF gone, rec, expires, conflicts
  <1>7. NoSession \in Records /\ NoSession.hash = None /\ NoSession.expires = 0
    BY DEF NoSession, Records
  <1>8. \A t \in Sids : session'[t] = IF t = s THEN rec
                                      ELSE IF t \in gone THEN NoSession ELSE session[t]
    BY <1>1, <1>3 DEF Deleted
  <1>9. lookup' \in [Tokens -> Lookups]
    <2>1. Lookup("active", s, expires) \in Lookups
      BY <1>4 DEF Lookup, Lookups
    <2>2. \A t \in Tokens : lookup[t] \in Lookups /\ [lookup[t] EXCEPT !.state = "used"] \in Lookups
      BY DEF IInv, SessionsTypeOK, Lookups
    <2> QED
      BY <1>1, <2>1, <2>2
  <1>10. /\ lookup'[h].sid = s /\ s # None
         /\ \A t \in Tokens \ {h} : /\ lookup'[t].sid = lookup[t].sid
                                    /\ lookup'[t].state = lookup[t].state
                                       \/ (lookup'[t].state = "used" /\ lookup[t].sid # None)
    <2>1. lookup'[h].sid = s
      BY <1>1 DEF Lookup
    <2>2. ASSUME NEW t \in Tokens \ {h}
          PROVE  /\ lookup'[t].sid = lookup[t].sid
                 /\ lookup'[t].state = lookup[t].state
                    \/ (lookup'[t].state = "used" /\ lookup[t].sid # None)
      <3>1. lookup[t] \in Lookups
        BY DEF IInv, SessionsTypeOK
      <3>2. CASE \E g \in gone : session[g].hash = t
        <4>1. lookup'[t] = [lookup[t] EXCEPT !.state = "used"]
          BY <1>1, <3>2
        <4>2. lookup[t].sid # None
          BY <1>2, <3>2 DEF IInv, Filed
        <4> QED
          BY <3>1, <4>1, <4>2 DEF Lookups
      <3>3. CASE ~\E g \in gone : session[g].hash = t
        BY <1>1, <3>3
      <3> QED
        BY <3>2, <3>3
    <2> QED
      BY <2>1, <2>2
  <1>11. SessionsTypeOK'
    <2>1. session' \in [Sids -> Records]
      BY <1>1, <1>5, <1>7 DEF Deleted, IInv, SessionsTypeOK
    <2>2. Held(gone) \subseteq Sids
      BY <1>2 DEF Held
    <2> QED
      BY <1>1, <1>2, <1>9, <2>1, <2>2 DEF IInv, SessionsTypeOK
  <1>12. \A t \in Tokens : lookup[t].sid # None => lookup'[t].sid # None
    BY <1>10
  <1>13. Whole' /\ Gone'
    <2>1. Whole'
      BY <1>5, <1>7, <1>8 DEF IInv, Whole
    <2>2. Gone'
      BY <1>1, <1>2, <1>3, <1>7, <1>8 DEF IInv, Gone, SessionsTypeOK
    <2> QED
      BY <2>1, <2>2
  <1>14. Exchanged'
    BY <1>1, <1>10 DEF IInv, Exchanged, Fresh, SessionsTypeOK
  <1>15. Filed'
    <2>1. \A t \in Sids : session[t].hash # None => session[t].hash \in Tokens
      BY DEF IInv, SessionsTypeOK, Records
    <2> QED
      BY <1>5, <1>7, <1>8, <1>10, <1>12, <2>1 DEF IInv, Filed
  <1>16. \A t \in Sids \ {s} : Stored(t)' => Stored(t) /\ t \notin gone /\ session'[t] = session[t]
    BY <1>1, <1>7, <1>8 DEF Stored
  <1>17. Indexed'
    BY <1>1, <1>16 DEF IInv, Indexed
  <1>18. SingleSession' /\ TokenSpentOnce'
    <2>1. session'[s].tenant = tenant
      BY <1>5, <1>8
    <2>2. ASSUME NEW t \in Sids \ {s}, t \notin revived, Stored(t)', Mode # "off",
                 session'[t].tenant = tenant
          PROVE  ~Active(session[t], now)'
      BY <1>1, <1>6, <1>16, <2>2 DEF Active
    <2> QED
      BY <1>1, <1>16, <2>1, <2>2 DEF IInv, SingleSession, TokenSpentOnce, Active
  <1>19. Calling'
    <2> SUFFICES ASSUME NEW d \in Calls PROVE CallOK(call[d])'
      BY DEF Calling
    <2>1. call'[d] = call[d] /\ CallOK(call[d])
      BY <1>1 DEF IInv, Calling
    <2>2. call[d].pc \in {"rotate", "touch"} => call[d].sid # s /\ call[d].sid \in Sids
      BY <1>1, <2>1 DEF CallOK
    <2> QED
      BY <1>1, <1>2, <1>8, <1>12, <2>1, <2>2, DeleteOK
  <1> QED
    BY <1>11, <1>13, <1>14, <1>15, <1>17, <1>18, <1>19 DEF IInv

\* Every step preserves the inductive invariant.
LEMMA NextIInv == IInv /\ [Next]_vars => IInv'
  <1> SUFFICES ASSUME IInv, [Next]_vars PROVE IInv'
    OBVIOUS
  <1>1. CASE UNCHANGED vars
    BY <1>1 DEF vars, store, history, IInv, SessionsTypeOK, Whole, Filed, Exchanged, Gone, Indexed,
                Calling, CallOK, TokenSpentOnce, SingleSession, Stored, Active
  <1>2. CASE Next
    BY <1>2, CreateIInv, RefreshIInv, RotateWriteIInv, ReadIInv, RevokeAllIInv, TouchWriteIInv,
       RevokeWriteIInv, TickIInv DEF Next
  <1> QED
    BY <1>1, <1>2

\* The inductive invariant holds in every reachable state.
THEOREM Invariance == Spec => []IInv
  BY InitIInv, NextIInv, PTL DEF Spec

\* The session records, the lookups and the calls keep their types.
THEOREM TypeCorrect == Spec => []SessionsTypeOK
  <1>1. IInv => SessionsTypeOK
    BY DEF IInv
  <1> QED
    BY <1>1, Invariance, PTL

\* No refresh succeeds that begins after its token was exchanged, whatever touch,
\* rotation and revocation do to the record of the session meanwhile.
THEOREM TokenCorrect == Spec => []TokenSpentOnce
  <1>1. IInv => TokenSpentOnce
    BY DEF IInv
  <1> QED
    BY <1>1, Invariance, PTL

\* Only a call that held the record when the session was revoked brings it back.
THEOREM RevokedCorrect == Spec => []RevokedStaysGone
  <1>1. IInv => RevokedStaysGone
    BY DEF IInv, Gone, RevokedStaysGone, Stored
  <1> QED
    BY <1>1, Invariance, PTL

\* In both single-session modes a tenant has one active session of the user, apart
\* from those a call wrote back when they were not active any more.
THEOREM SingleCorrect == Spec => []SingleSession
  <1>1. IInv => SingleSession
    BY DEF IInv
  <1> QED
    BY <1>1, Invariance, PTL
=============================================================================
