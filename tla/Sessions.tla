------------------------------- MODULE Sessions -------------------------------
(***************************************************************************)
(* Sessions of one user, packages/sessions: the keys RedisSessionStore     *)
(* keeps and the operations of SessionService, most of which read a record *)
(* and write it back, or delete it, in a later round trip.                 *)
(*                                                                         *)
(* A refresh token stands for its hash.  MULTI blocks and the Lua script   *)
(* are atomic; everything between two awaits of one call may interleave    *)
(* with the other calls.  The sorted set of revocations, and what becomes  *)
(* of the access tokens, is the subject of module RevocationList.          *)
(***************************************************************************)
EXTENDS Integers, FiniteSets

CONSTANTS Sids,       \* session ids
          Tenants,    \* tenants the user signs in to
          Tokens,     \* refresh tokens
          Calls,      \* calls of SessionService that may be in flight at once
          Mode,       \* singleSession.mode
          Idle,       \* idle timeout
          Absolute,   \* absolute timeout
          MaxTime,    \* bound of the clock
          None

ASSUME SessionsAssumption ==
  /\ Mode \in {"off", "revoke-existing", "reject-new"}
  /\ {Idle, Absolute, MaxTime} \subseteq Nat
  /\ None \notin Sids \cup Tokens \cup Tenants

VARIABLES
  now,      \* the clock
  session,  \* session[sid]: the session record
  index,    \* sids in sessions_by_user (and in sessions_by_tenant)
  lookup,   \* lookup[h]: the refresh lookup of token h
  call,     \* call[c]: where call c is and what it has read
  spent,    \* refresh tokens that a refresh has exchanged (history)
  replays,  \* whether a refresh with a token spent before it began succeeded
  revoked,  \* sids that were revoked (history)
  haunted,  \* sids that were revoked while a call held their record (history)
  revived   \* sids written back when they were not active any more (history)

store == <<session, index, lookup>>
history == <<spent, replays, revoked, haunted, revived>>
vars == <<now, store, call, history>>

NoSession == [tenant |-> None, hash |-> None, idle |-> 0, expires |-> 0]
Records == [tenant: Tenants \cup {None}, hash: Tokens \cup {None}, idle: Nat, expires: Nat]

NoLookup == [state |-> "none", sid |-> None, expires |-> 0]
Lookups == [state: {"none", "active", "used"}, sid: Sids \cup {None}, expires: Nat]

\* at is the time the call read, late tells that its token was spent when it
\* began, todo are the sessions it has still to revoke.
NoCall == [pc |-> "idle", token |-> None, sid |-> None,
           record |-> NoSession, at |-> 0, late |-> FALSE, todo |-> {}]

CallStates == [pc: {"idle", "refresh", "rotate", "touch", "revoking", "revoke"},
               token: Tokens \cup {None},
               sid: Sids \cup {None}, record: Records, at: Nat, late: BOOLEAN,
               todo: SUBSET Sids]

SessionsTypeOK ==
  /\ now \in Nat
  /\ session \in [Sids -> Records]
  /\ index \subseteq Sids
  /\ lookup \in [Tokens -> Lookups]
  /\ call \in [Calls -> CallStates]
  /\ spent \subseteq Tokens
  /\ replays \in BOOLEAN
  /\ revoked \subseteq Sids
  /\ haunted \subseteq Sids
  /\ revived \subseteq Sids

Init ==
  /\ now = 0
  /\ session = [s \in Sids |-> NoSession]
  /\ index = {}
  /\ lookup = [h \in Tokens |-> NoLookup]
  /\ call = [c \in Calls |-> NoCall]
  /\ spent = {}
  /\ replays = FALSE
  /\ revoked = {}
  /\ haunted = {}
  /\ revived = {}

-----------------------------------------------------------------------------
(***************************************************************************)
(* The store                                                               *)
(***************************************************************************)

\* A record is there until the EXPIREAT of its key.
Stored(s) == session[s].hash # None /\ session[s].expires > now

Active(record, t) == record.expires > t /\ record.idle > t

\* A mutant of Usable: a used token is taken for an active one.
UsableOnceMore(h) == lookup[h].state # "none" /\ lookup[h].expires > now

\* The refresh lookup of token h is there and active.
Usable(h) == lookup[h].state = "active" /\ lookup[h].expires > now

\* A token presented again after it was exchanged or its session was revoked.
Used(h) == lookup[h].state = "used" /\ lookup[h].expires > now

Fresh(h) == lookup[h].sid = None

Lookup(state, s, expires) == [state |-> state, sid |-> s, expires |-> expires]

Min(a, b) == IF a < b THEN a ELSE b

\* Sessions of the set whose record another call has read to write it back.
Held(sids) ==
  {s \in sids : \E c \in Calls : call[c].pc \in {"rotate", "touch"} /\ call[c].sid = s}

\* A mutant of Deleted: the session key stays.
DeletedIndexOnly(sids) == session

\* DEL of the session keys.
Deleted(sids) == [s \in Sids |-> IF s \in sids THEN NoSession ELSE session[s]]

\* The record of session s is written back.
WriteBack(s, record) ==
  /\ session' = [session EXCEPT ![s] = record]
  /\ revived' = IF Active(session[s], now) THEN revived ELSE revived \cup {s}

Goto(c, state) == call' = [call EXCEPT ![c] = state]

-----------------------------------------------------------------------------
(***************************************************************************)
(* create and exchange                                                     *)
(***************************************************************************)

\* A mutant of Conflicts: a switch of tenants is not a conflict.
ConflictsUnlessSwitch(tenant, prior) ==
  {s \in index : /\ prior = None /\ Stored(s) /\ session[s].tenant = tenant
                 /\ Active(session[s], now)}

\* Active sessions of the user in the tenant, but the one to be replaced.
Conflicts(tenant, prior) ==
  {s \in index \ {prior} : /\ Stored(s) /\ session[s].tenant = tenant
                           /\ Active(session[s], now)}

\* Create session s: the MULTI block of createSession, or the
\* script of createWithPolicy, which also revokes the session it replaces
\* (prior) and, in mode revoke-existing, the conflicting ones.
Create(s, tenant, prior, h) ==
  LET conflicts == Conflicts(tenant, prior)
      replaced  == {prior} \ {None}
      gone      == IF Mode = "revoke-existing" THEN conflicts \cup replaced ELSE replaced
      expires   == now + Absolute
      record    == [tenant |-> tenant, hash |-> h, idle |-> Min(now + Idle, expires),
                    expires |-> expires]
  IN
  /\ session[s].hash = None /\ s \notin revoked
  /\ Fresh(h)
  /\ prior # None => Stored(prior) /\ Active(session[prior], now)
  /\ Mode = "reject-new" => conflicts = {}
  /\ session' = [Deleted(gone) EXCEPT ![s] = record]
  /\ index' = (index \ gone) \cup {s}
  /\ lookup' = [t \in Tokens |->
       IF t = h THEN Lookup("active", s, expires)
       ELSE IF \E g \in gone : session[g].hash = t
         THEN [lookup[t] EXCEPT !.state = "used"]
         ELSE lookup[t]]
  /\ revoked' = revoked \cup gone
  /\ haunted' = haunted \cup Held(gone)
  /\ UNCHANGED <<now, call, spent, replays, revived>>

-----------------------------------------------------------------------------
(***************************************************************************)
(* refresh                                                                 *)
(***************************************************************************)

\* A used token revokes its session; an active one is rotated.
Refresh(c, h) ==
  /\ call[c].pc = "idle"
  /\ \/ /\ Used(h)
        /\ Goto(c, [NoCall EXCEPT !.pc = "revoking", !.todo = {lookup[h].sid}])
     \/ /\ Usable(h)
        /\ Goto(c, [NoCall EXCEPT !.pc = "refresh", !.token = h,
                                  !.sid = lookup[h].sid, !.at = now, !.late = h \in spent])
  /\ UNCHANGED <<now, store, history>>

\* The session is active, its claims are resolved, and rotateRefreshToken reads
\* the session and then the lookup.  A lookup that is still active shows that
\* the token was neither exchanged nor revoked since the session was read.
RotateRead(c) ==
  LET s == call[c].sid
      h == call[c].token
  IN
  /\ call[c].pc = "refresh"
  /\ IF Stored(s) /\ Active(session[s], call[c].at) /\ Usable(h) /\ session[s].hash = h
       THEN Goto(c, [call[c] EXCEPT !.pc = "rotate", !.record = session[s]])
       ELSE Goto(c, NoCall)
  /\ UNCHANGED <<now, store, history>>

\* The record that was read is written back with the next token.
RotateWrite(c, next) ==
  LET s == call[c].sid
      record == call[c].record
  IN
  /\ call[c].pc = "rotate"
  /\ Fresh(next)
  /\ WriteBack(s, [record EXCEPT !.hash = next,
                                 !.idle = Min(call[c].at + Idle, record.expires)])
  /\ lookup' = [lookup EXCEPT ![call[c].token] = Lookup("used", s, record.expires),
                              ![next] = Lookup("active", s, record.expires)]
  /\ spent' = spent \cup {call[c].token}
  /\ replays' = (replays \/ call[c].late)
  /\ Goto(c, NoCall)
  /\ UNCHANGED <<now, index, revoked, haunted>>

-----------------------------------------------------------------------------
(***************************************************************************)
(* touch                                                                   *)
(***************************************************************************)

\* get revokes a session that has expired; touchSession reads an active one.
Touch(c, s) ==
  /\ call[c].pc = "idle"
  /\ Stored(s)
  /\ IF Active(session[s], now)
       THEN Goto(c, [NoCall EXCEPT !.pc = "touch", !.sid = s,
                                   !.record = session[s], !.at = now])
       ELSE Goto(c, [NoCall EXCEPT !.pc = "revoking", !.todo = {s}])
  /\ UNCHANGED <<now, store, history>>

TouchWrite(c) ==
  LET record == call[c].record IN
  /\ call[c].pc = "touch"
  /\ WriteBack(call[c].sid, [record EXCEPT !.idle = Min(call[c].at + Idle, record.expires)])
  /\ Goto(c, NoCall)
  /\ UNCHANGED <<now, index, lookup, spent, replays, revoked, haunted>>

-----------------------------------------------------------------------------
(***************************************************************************)
(* revoke, revokeAllForUser and the revocations of refresh and touch       *)
(***************************************************************************)

Revoke(c, s) ==
  /\ call[c].pc = "idle"
  /\ Goto(c, [NoCall EXCEPT !.pc = "revoking", !.todo = {s}])
  /\ UNCHANGED <<now, store, history>>

\* listSessionIdsByUser drops the members of the index that have expired.  The
\* sessions are revoked in any order, one at a time: revocations that overlap are
\* those of two calls.
RevokeAll(c) ==
  LET there == {s \in index : Stored(s)} IN
  /\ call[c].pc = "idle"
  /\ index' = there
  /\ Goto(c, IF there = {} THEN NoCall
             ELSE [NoCall EXCEPT !.pc = "revoking", !.todo = there])
  /\ UNCHANGED <<now, session, lookup, history>>

\* revokedAt is taken, then the record is read.
RevokeRead(c, s) ==
  /\ call[c].pc = "revoking"
  /\ s \in call[c].todo
  /\ IF Stored(s)
       THEN Goto(c, [call[c] EXCEPT !.pc = "revoke", !.sid = s,
                                    !.record = session[s]])
       ELSE Goto(c, IF call[c].todo = {s} THEN NoCall
                                          ELSE [call[c] EXCEPT !.todo = @ \ {s}])
  /\ UNCHANGED <<now, store, history>>

RevokeWrite(c) ==
  LET s == call[c].sid
      record == call[c].record
  IN
  /\ call[c].pc = "revoke"
  /\ session' = Deleted({s})
  /\ index' = index \ {s}
  /\ lookup' = [lookup EXCEPT ![record.hash] = Lookup("used", s, record.expires)]
  /\ revoked' = revoked \cup {s}
  /\ haunted' = haunted \cup Held({s})
  /\ Goto(c, IF call[c].todo = {s} THEN NoCall
             ELSE [NoCall EXCEPT !.pc = "revoking", !.todo = call[c].todo \ {s}])
  /\ UNCHANGED <<now, spent, replays, revived>>

-----------------------------------------------------------------------------
\* A call ends early: the claims are refused, the store fails, the process dies.
Abort(c) ==
  /\ call[c].pc # "idle"
  /\ Goto(c, NoCall)
  /\ UNCHANGED <<now, store, history>>

Tick ==
  /\ now < MaxTime
  /\ now' = now + 1
  /\ UNCHANGED <<store, call, history>>

Next ==
  \/ \E s \in Sids, tenant \in Tenants, prior \in Sids \cup {None}, h \in Tokens :
       Create(s, tenant, prior, h)
  \/ \E c \in Calls :
       \/ \E h \in Tokens : Refresh(c, h) \/ RotateWrite(c, h)
       \/ \E s \in Sids : Touch(c, s) \/ Revoke(c, s) \/ RevokeRead(c, s)
       \/ RevokeAll(c) \/ RotateRead(c) \/ TouchWrite(c) \/ RevokeWrite(c) \/ Abort(c)
  \/ Tick

Spec == Init /\ [][Next]_vars

-----------------------------------------------------------------------------
(***************************************************************************)
(* A refresh token is exchanged at most once, except by refreshes that     *)
(* were under way at the same time: one that begins after a successful     *)
(* exchange of its token never succeeds, although touch may write an older *)
(* record, which names that token, back over the rotated one.              *)
(***************************************************************************)
TokenSpentOnce == ~replays

(***************************************************************************)
(* A revoked session is gone from the store for good, unless a refresh or  *)
(* a touch had read its record before the revocation and writes it back.   *)
(***************************************************************************)
RevokedStaysGone == \A s \in revoked \ haunted : ~Stored(s)

(***************************************************************************)
(* In the single-session modes a user has at most one active session in a  *)
(* tenant, however creations, switches and revocations interleave.  The    *)
(* exception is a session that a refresh or a touch under way writes back  *)
(* after it was revoked, or after it was idle: a creation does not count   *)
(* an idle session, which the write may make active again.                 *)
(***************************************************************************)
SingleSession ==
  Mode # "off" =>
    \A s, t \in Sids \ revived :
      (s # t /\ Stored(s) /\ Stored(t) /\ session[s].tenant = session[t].tenant)
        => ~(Active(session[s], now) /\ Active(session[t], now))
=============================================================================
