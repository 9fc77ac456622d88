---------------------------- MODULE RevocationList ----------------------------
(***************************************************************************)
(* How a revocation reaches the processes that verify access tokens:       *)
(* packages/sessions/src/session-revocation-list.ts, the sorted set of     *)
(* revocations in RedisSessionStore, and the check of StynxAuthGuard       *)
(* (packages/auth), which reads nothing but the list in its own memory.    *)
(*                                                                         *)
(* Which sessions exist, and which refreshes succeed, is left open: an     *)
(* access token of any session may have been issued at any time up to now  *)
(* (see module Sessions).  All clocks agree.                               *)
(***************************************************************************)
EXTENDS Integers

CONSTANTS Sids,       \* session ids
          Instances,  \* API processes
          Access,     \* life of an access token
          Skew,       \* RETENTION_SKEW_MS
          MaxStale,   \* revocation.maxStalenessMs
          MaxTime,    \* bound of the clock
          None

ASSUME RevocationAssumption ==
  /\ {Access, Skew, MaxStale, MaxTime} \subseteq Nat
  /\ None \notin Sids

VARIABLES
  now,       \* the clock
  revoked,   \* revoked[s]: score of s in the sorted set of revocations
  revoking,  \* revoking[i]: the revocation under way in process i
  list,      \* list[i]: until when process i remembers each revocation
  last,      \* last[i]: lastRefreshedAt of process i
  fetch,     \* fetch[i]: the refresh of the list under way in process i
  cut        \* cut[s]: time of the last revocation of s (history)

vars == <<now, revoked, revoking, list, last, fetch, cut>>

Never == -1
Times == Nat \cup {Never}
Entries == [Sids -> Times]

NoRevocation == [sid |-> None, at |-> 0]
NoEntries == [s \in Sids |-> Never]

\* A refresh that began at since; entries is what it read from the store.
NoFetch == [since |-> Never, read |-> FALSE, entries |-> NoEntries]

RevocationTypeOK ==
  /\ now \in Nat
  /\ revoked \in Entries
  /\ revoking \in [Instances -> [sid: Sids \cup {None}, at: Nat]]
  /\ list \in [Instances -> [Sids -> Nat]]
  /\ last \in [Instances -> Times]
  /\ fetch \in [Instances -> [since: Times, read: BOOLEAN, entries: Entries]]
  /\ cut \in Entries

Init ==
  /\ now = 0
  /\ revoked = NoEntries
  /\ revoking = [i \in Instances |-> NoRevocation]
  /\ list = [i \in Instances |-> [s \in Sids |-> 0]]
  /\ last = [i \in Instances |-> Never]
  /\ fetch = [i \in Instances |-> NoFetch]
  /\ cut = NoEntries

-----------------------------------------------------------------------------
\* How long a revocation is remembered.
Retention == Access + Skew

\* add: a later end of the retention wins.
Added(l, s, at) == [l EXCEPT ![s] = IF @ < at + Retention THEN at + Retention ELSE @]

\* revokeRecord takes the time of the revocation and calls the store.
BeginRevoke(i, s) ==
  /\ revoking[i] = NoRevocation
  /\ revoking' = [revoking EXCEPT ![i] = [sid |-> s, at |-> now]]
  /\ UNCHANGED <<now, revoked, list, last, fetch, cut>>

\* The sorted set gets the session with the time given, and then the list of
\* the process that revoked it.
Revoked(i, s, at) ==
  /\ revoked' = [revoked EXCEPT ![s] = at]
  /\ list' = [list EXCEPT ![i] = Added(@, s, at)]
  /\ cut' = [cut EXCEPT ![s] = now]

Revoke(i) ==
  /\ revoking[i] # NoRevocation
  /\ Revoked(i, revoking[i].sid, revoking[i].at)
  /\ revoking' = [revoking EXCEPT ![i] = NoRevocation]
  /\ UNCHANGED <<now, last, fetch>>

\* The script of createWithPolicy replaces a session and takes the time itself.
Replace(i, s) ==
  /\ Revoked(i, s, now)
  /\ UNCHANGED <<now, revoking, last, fetch>>

-----------------------------------------------------------------------------
\* The timer starts a refresh unless one is under way.
BeginFetch(i) ==
  /\ fetch[i].since = Never
  /\ fetch' = [fetch EXCEPT ![i].since = now]
  /\ UNCHANGED <<now, revoked, revoking, list, last, cut>>

\* listRevokedSessions drops what is older than the retention from the sorted
\* set and returns the rest.
ReadStore(i) ==
  LET oldest == fetch[i].since - Retention
      kept   == [s \in Sids |-> IF revoked[s] < oldest THEN Never ELSE revoked[s]]
  IN
  /\ fetch[i].since # Never /\ ~fetch[i].read
  /\ revoked' = kept
  /\ fetch' = [fetch EXCEPT ![i].entries = kept, ![i].read = TRUE]
  /\ UNCHANGED <<now, revoking, list, last, cut>>

\* A mutant of Vouched: the refresh vouches for the time it ended.
VouchedAtEnd(i) == now

\* A refresh vouches for the time it began.
Vouched(i) == fetch[i].since

EndFetch(i) ==
  LET entries == fetch[i].entries IN
  /\ fetch[i].read
  /\ list' = [list EXCEPT ![i] = [s \in Sids |->
       IF entries[s] = Never THEN @[s] ELSE Added(@, s, entries[s])[s]]]
  /\ last' = [last EXCEPT ![i] = Vouched(i)]
  /\ fetch' = [fetch EXCEPT ![i] = NoFetch]
  /\ UNCHANGED <<now, revoked, revoking, cut>>

\* The store does not answer: the list stays as it is and grows stale.
FailFetch(i) ==
  /\ fetch[i].since # Never
  /\ fetch' = [fetch EXCEPT ![i] = NoFetch]
  /\ UNCHANGED <<now, revoked, revoking, list, last, cut>>

-----------------------------------------------------------------------------
\* The process dies with its list and starts again.
Crash(i) ==
  /\ revoking' = [revoking EXCEPT ![i] = NoRevocation]
  /\ list' = [list EXCEPT ![i] = [s \in Sids |-> 0]]
  /\ last' = [last EXCEPT ![i] = Never]
  /\ fetch' = [fetch EXCEPT ![i] = NoFetch]
  /\ UNCHANGED <<now, revoked, cut>>

\* A revocation takes no longer than the tolerance of the retention.
Tick ==
  /\ now < MaxTime
  /\ \A i \in Instances : revoking[i] # NoRevocation => now - revoking[i].at < Skew
  /\ now' = now + 1
  /\ UNCHANGED <<revoked, revoking, list, last, fetch, cut>>

\* The list was never read from the store, or too long ago.
Stale(i) == last[i] = Never \/ now - last[i] > MaxStale

\* canActivate: a token of session s issued at iat has not expired, and a list
\* that is not stale does not name the session.
Accepts(i, s, iat) ==
  /\ iat + Access > now
  /\ ~Stale(i)
  /\ list[i][s] <= now

Next ==
  \/ \E i \in Instances :
       \/ \E s \in Sids : BeginRevoke(i, s) \/ Replace(i, s)
       \/ Revoke(i) \/ BeginFetch(i) \/ ReadStore(i) \/ EndFetch(i) \/ FailFetch(i)
       \/ Crash(i)
  \/ Tick

Spec == Init /\ [][Next]_vars

-----------------------------------------------------------------------------
(***************************************************************************)
(* A revocation cuts off every access token issued before it: no process   *)
(* accepts one more than maxStalenessMs later, whichever process revoked,  *)
(* whatever reads of the store failed and whatever processes restarted.    *)
(***************************************************************************)
RevocationReaches ==
  \A i \in Instances, s \in Sids : \A iat \in 0 .. cut[s] :
    Accepts(i, s, iat) => now - cut[s] <= MaxStale
=============================================================================
