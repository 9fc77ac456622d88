------------------------- MODULE RevocationListProofs -------------------------
(***************************************************************************)
(* Proofs about RevocationList, for any number of sessions and processes   *)
(* and any life of a token, skew and staleness: a revocation reaches every *)
(* process in time.                                                        *)
(***************************************************************************)
EXTENDS RevocationList, TLAPS

\* A token issued up to the revocation of s has expired by now.
Over(s) == cut[s] + Access <= now

\* An entry of the sorted set, or a copy of it, that covers the revocation of s.
Covers(at, s) == at # Never /\ at + Skew >= cut[s]

\* Nothing is dated in the future.
Dated ==
  /\ \A s \in Sids : cut[s] <= now
  /\ \A i \in Instances : last[i] <= now /\ fetch[i].since <= now

\* A revocation under way began at most a skew ago.
Timely ==
  \A i \in Instances :
    (revoking[i] # NoRevocation) =>
      /\ revoking[i].sid \in Sids
      /\ revoking[i].at <= now
      /\ now <= revoking[i].at + Skew

\* The store covers a revocation until the tokens it cut off have expired.
StoreCovers ==
  \A s \in Sids : cut[s] # Never => (Covers(revoked[s], s) \/ Over(s))

\* So does what a refresh has read, for the revocations before it began.
FetchCovers ==
  \A i \in Instances :
    fetch[i].read =>
      /\ fetch[i].since # Never
      /\ \A s \in Sids :
           (cut[s] # Never /\ cut[s] < fetch[i].since)
             => (Covers(fetch[i].entries[s], s) \/ Over(s))

\* So does the list, for the revocations before the time it is vouched for.
ListCovers ==
  \A i \in Instances, s \in Sids :
    (cut[s] # Never /\ cut[s] < last[i]) => (list[i][s] >= cut[s] + Access \/ Over(s))

IInv ==
  /\ RevocationTypeOK
  /\ Dated
  /\ Timely
  /\ StoreCovers
  /\ FetchCovers
  /\ ListCovers

-----------------------------------------------------------------------------
\* The times that are compared are integers.
LEMMA Numbers ==
  ASSUME RevocationTypeOK
  PROVE  /\ now \in Nat /\ Access \in Nat /\ Skew \in Nat
         /\ \A s \in Sids : cut[s] \in Int /\ revoked[s] \in Int
         /\ \A i \in Instances : last[i] \in Int /\ fetch[i].since \in Int
         /\ \A i \in Instances, s \in Sids : list[i][s] \in Nat /\ fetch[i].entries[s] \in Int
  BY RevocationAssumption DEF RevocationTypeOK, Entries, Times, Never

\* The initial state satisfies the inductive invariant.
LEMMA InitIInv == Init => IInv
  <1> SUFFICES ASSUME Init PROVE IInv
    OBVIOUS
  <1> USE RevocationAssumption DEF Init, Never, Times, Entries, NoEntries, NoFetch, NoRevocation
  <1>1. RevocationTypeOK
    BY DEF RevocationTypeOK
  <1>2. Dated /\ Timely
    BY DEF Dated, Timely
  <1>3. StoreCovers /\ FetchCovers /\ ListCovers
    BY DEF StoreCovers, FetchCovers, ListCovers
  <1> QED
    BY <1>1, <1>2, <1>3 DEF IInv

\* The beginning of a revocation is not yet one.
LEMMA BeginRevokeIInv ==
  ASSUME IInv, NEW i \in Instances, NEW s \in Sids, BeginRevoke(i, s)
  PROVE  IInv'
  <1> USE RevocationAssumption DEF IInv, BeginRevoke
  <1>1. RevocationTypeOK'
    BY DEF RevocationTypeOK
  <1>2. Timely'
    BY DEF Timely, RevocationTypeOK
  <1>3. Dated'
    BY DEF Dated
  <1>4. StoreCovers' /\ FetchCovers' /\ ListCovers'
    BY DEF StoreCovers, FetchCovers, ListCovers, Covers, Over
  <1> QED
    BY <1>1, <1>2, <1>3, <1>4

\* An entry of the list is only ever extended, and what add makes of it lasts for
\* the retention after the time given.
LEMMA AddedExtends ==
  ASSUME NEW l \in [Sids -> Nat], NEW s \in Sids, NEW at \in Nat
  PROVE  /\ Added(l, s, at) \in [Sids -> Nat]
         /\ \A t \in Sids : Added(l, s, at)[t] >= l[t]
         /\ Added(l, s, at)[s] >= at + Retention
  <1>1. Retention \in Nat
    BY RevocationAssumption DEF Retention
  <1> QED
    BY <1>1 DEF Added

\* Writing a revocation that began at most a skew ago covers it in the store, and
\* it is later than every refresh read so far.
LEMMA RevokedIInv ==
  ASSUME IInv, NEW i \in Instances, NEW s \in Sids, NEW at \in Nat,
         at <= now, now <= at + Skew,
         Revoked(i, s, at), UNCHANGED <<now, last, fetch>>,
         revoking' \in [Instances -> [sid: Sids \cup {None}, at: Nat]]
  PROVE  /\ RevocationTypeOK' /\ Dated'
         /\ StoreCovers' /\ FetchCovers' /\ ListCovers'
  <1> USE RevocationAssumption
  <1> RevocationTypeOK
    BY DEF IInv
  <1>1. /\ now \in Nat /\ list[i] \in [Sids -> Nat]
        /\ revoked \in [Sids -> Times] /\ cut \in [Sids -> Times]
        /\ list \in [Instances -> [Sids -> Nat]]
    BY DEF RevocationTypeOK, Entries
  <1>2. /\ revoked' = [revoked EXCEPT ![s] = at]
        /\ list' = [list EXCEPT ![i] = Added(list[i], s, at)]
        /\ cut' = [cut EXCEPT ![s] = now]
    BY DEF Revoked
  <1>3. /\ list' \in [Instances -> [Sids -> Nat]]
        /\ \A j \in Instances, t \in Sids : list'[j][t] >= list[j][t]
    <2> DEFINE new == Added(list[i], s, at)
    <2>1. new \in [Sids -> Nat] /\ \A t \in Sids : new[t] >= list[i][t]
      BY <1>1, AddedExtends
    <2>2. list' = [list EXCEPT ![i] = new]
      BY <1>2
    <2> HIDE DEF new
    <2>3. \A j \in Instances : list'[j] = IF j = i THEN new ELSE list[j]
      BY <1>1, <2>2
    <2> QED
      BY <1>1, <2>1, <2>2, <2>3
  <1>4. RevocationTypeOK'
    BY <1>1, <1>2, <1>3 DEF RevocationTypeOK, Entries, Times, Never
  <1>5. Dated'
    BY <1>1, <1>2 DEF IInv, Dated
  <1>6. StoreCovers'
    BY <1>1, <1>2 DEF IInv, StoreCovers, Covers, Over, Times, Never
  <1>7. FetchCovers'
    BY <1>1, <1>2 DEF IInv, Dated, FetchCovers, Covers, Over, Times, Never, RevocationTypeOK
  <1>8. ListCovers'
    <2> SUFFICES ASSUME NEW j \in Instances, NEW t \in Sids,
                        cut'[t] # Never, cut'[t] < last'[j], ~Over(t)'
                 PROVE  list'[j][t] >= cut'[t] + Access
      BY DEF ListCovers
    <2>1. t # s
      BY <1>1, <1>2, Numbers DEF IInv, Dated
    <2>2. cut'[t] = cut[t]
      BY <1>1, <1>2, <2>1
    <2>3. list[j][t] >= cut[t] + Access
      BY <2>2 DEF IInv, ListCovers, Over
    <2> QED
      BY <1>3, <2>2, <2>3, Numbers
  <1> QED
    BY <1>4, <1>5, <1>6, <1>7, <1>8

\* The write of a revocation under way.
LEMMA RevokeIInv ==
  ASSUME IInv, NEW i \in Instances, Revoke(i)
  PROVE  IInv'
  <1> USE RevocationAssumption
  <1>1. /\ revoking[i].sid \in Sids /\ revoking[i].at \in Nat
        /\ revoking[i].at <= now /\ now <= revoking[i].at + Skew
    BY DEF IInv, Timely, Revoke, RevocationTypeOK
  <1>2. Revoked(i, revoking[i].sid, revoking[i].at) /\ UNCHANGED <<now, last, fetch>>
    BY DEF Revoke
  <1>3. /\ revoking' = [revoking EXCEPT ![i] = NoRevocation]
        /\ revoking' \in [Instances -> [sid: Sids \cup {None}, at: Nat]]
    BY DEF Revoke, IInv, RevocationTypeOK, NoRevocation
  <1>4. Timely'
    BY <1>2, <1>3 DEF IInv, Timely, RevocationTypeOK
  <1> QED
    BY <1>1, <1>2, <1>3, <1>4, RevokedIInv DEF IInv

\* The replacement of a session by the creation of another.
LEMMA ReplaceIInv ==
  ASSUME IInv, NEW i \in Instances, NEW s \in Sids, Replace(i, s)
  PROVE  IInv'
  <1>1. now \in Nat /\ now <= now /\ now <= now + Skew
    BY RevocationAssumption DEF IInv, RevocationTypeOK
  <1>2. Revoked(i, s, now) /\ UNCHANGED <<now, last, fetch, revoking>>
    BY DEF Replace
  <1>3. revoking' \in [Instances -> [sid: Sids \cup {None}, at: Nat]] /\ Timely'
    BY <1>2 DEF IInv, Timely, RevocationTypeOK
  <1> QED
    BY <1>1, <1>2, <1>3, RevokedIInv DEF IInv

\* A refresh that begins has read nothing.
LEMMA BeginFetchIInv ==
  ASSUME IInv, NEW i \in Instances, BeginFetch(i)
  PROVE  IInv'
  <1> USE RevocationAssumption DEF IInv, BeginFetch
  <1>1. RevocationTypeOK'
    BY DEF RevocationTypeOK, Times
  <1>2. Dated' /\ Timely'
    BY DEF Dated, Timely, RevocationTypeOK
  <1>3. StoreCovers' /\ ListCovers'
    BY DEF StoreCovers, ListCovers, Covers, Over
  <1>4. FetchCovers'
    BY DEF FetchCovers, Covers, Over, RevocationTypeOK
  <1> QED
    BY <1>1, <1>2, <1>3, <1>4

\* Reading the store drops only entries whose tokens have expired, and copies the
\* others.
LEMMA ReadStoreIInv ==
  ASSUME IInv, NEW i \in Instances, ReadStore(i)
  PROVE  IInv'
  <1> USE RevocationAssumption
  <1> DEFINE kept == [s \in Sids |-> IF revoked[s] < fetch[i].since - Retention
                                      THEN Never ELSE revoked[s]]
  <1>1. /\ revoked' = kept
        /\ fetch' = [fetch EXCEPT ![i].entries = kept, ![i].read = TRUE]
        /\ fetch[i].since # Never
        /\ UNCHANGED <<now, revoking, list, last, cut>>
    BY DEF ReadStore
  <1>2. /\ now \in Nat /\ fetch[i].since \in Times /\ fetch[i].since <= now
        /\ revoked \in [Sids -> Times] /\ cut \in [Sids -> Times]
    BY DEF IInv, RevocationTypeOK, Entries, Dated
  <1>3. kept \in [Sids -> Times]
    BY <1>2 DEF Times
  <1>4. \A s \in Sids : cut[s] # Never => (Covers(kept[s], s) \/ Over(s))
    <2> SUFFICES ASSUME NEW s \in Sids, cut[s] # Never, ~Over(s)
                 PROVE  Covers(kept[s], s)
      OBVIOUS
    <2>1. Covers(revoked[s], s)
      BY DEF IInv, StoreCovers
    <2>2. ~(revoked[s] < fetch[i].since - Retention)
      BY <1>2, <2>1 DEF Covers, Over, Retention, Times, Never
    <2> QED
      BY <2>1, <2>2
  <1> HIDE DEF kept
  <1>5. RevocationTypeOK'
    BY <1>1, <1>2, <1>3 DEF IInv, RevocationTypeOK, Entries
  <1>6. Dated' /\ Timely'
    BY <1>1 DEF IInv, Dated, Timely, RevocationTypeOK
  <1>7. StoreCovers' /\ ListCovers'
    BY <1>1, <1>4 DEF IInv, StoreCovers, ListCovers, Covers, Over
  <1>8. FetchCovers'
    BY <1>1, <1>4 DEF IInv, FetchCovers, Covers, Over, RevocationTypeOK
  <1> QED
    BY <1>5, <1>6, <1>7, <1>8 DEF IInv

\* A refresh that ends makes the list cover what it read, and vouches for no more
\* than the time it began.
LEMMA EndFetchIInv ==
  ASSUME IInv, NEW i \in Instances, EndFetch(i)
  PROVE  IInv'
  <1> USE RevocationAssumption
  <1> DEFINE entries == fetch[i].entries
             merged == [s \in Sids |-> IF entries[s] = Never THEN list[i][s]
                                       ELSE Added(list[i], s, entries[s])[s]]
  <1>1. /\ list' = [list EXCEPT ![i] = merged]
        /\ last' = [last EXCEPT ![i] = fetch[i].since]
        /\ fetch' = [fetch EXCEPT ![i] = NoFetch]
        /\ fetch[i].read
        /\ UNCHANGED <<now, revoked, revoking, cut>>
    BY DEF EndFetch, Vouched
  <1>2. /\ now \in Nat /\ fetch[i].since \in Times /\ fetch[i].since <= now
        /\ entries \in [Sids -> Times] /\ cut \in [Sids -> Times]
        /\ list \in [Instances -> [Sids -> Nat]]
        /\ last \in [Instances -> Times]
    BY DEF IInv, RevocationTypeOK, Entries, Dated
  <1>3. ASSUME NEW s \in Sids
        PROVE  /\ merged[s] \in Nat
               /\ merged[s] >= list[i][s]
               /\ entries[s] # Never => merged[s] >= entries[s] + Retention
    <2>1. entries[s] \in Nat \/ entries[s] = Never
      BY <1>2, <1>3 DEF Times
    <2>2. CASE entries[s] = Never
      BY <1>2, <1>3, <2>2
    <2>3. CASE entries[s] # Never
      <3>1. list[i] \in [Sids -> Nat] /\ entries[s] \in Nat
        BY <1>2, <2>1, <2>3
      <3>2. /\ Added(list[i], s, entries[s]) \in [Sids -> Nat]
            /\ Added(list[i], s, entries[s])[s] >= list[i][s]
            /\ Added(list[i], s, entries[s])[s] >= entries[s] + Retention
        BY <1>3, <3>1, AddedExtends
      <3>3. merged[s] = Added(list[i], s, entries[s])[s]
        BY <1>3, <2>3
      <3> QED
        BY <1>3, <2>3, <3>2, <3>3
    <2> QED
      BY <2>2, <2>3
  <1>4. \A s \in Sids : (cut[s] # Never /\ cut[s] < fetch[i].since)
                         => (merged[s] >= cut[s] + Access \/ Over(s))
    <2> SUFFICES ASSUME NEW s \in Sids, cut[s] # Never, cut[s] < fetch[i].since, ~Over(s)
                 PROVE  merged[s] >= cut[s] + Access
      OBVIOUS
    <2>1. Covers(entries[s], s)
      BY <1>1 DEF IInv, FetchCovers
    <2> QED
      BY <1>2, <1>3, <2>1 DEF Covers, Retention, Times, Never
  <1>5. merged \in [Sids -> Nat]
    BY <1>3
  <1> HIDE DEF merged, entries
  <1>6. RevocationTypeOK'
    BY <1>1, <1>2, <1>5 DEF IInv, RevocationTypeOK, NoFetch, Entries, NoEntries, Times, Never
  <1>7. Dated'
    BY <1>1, <1>2 DEF IInv, Dated, NoFetch, Never, RevocationTypeOK
  <1>8. Timely' /\ StoreCovers'
    BY <1>1 DEF IInv, Timely, StoreCovers, Covers, Over, RevocationTypeOK
  <1>9. FetchCovers'
    BY <1>1 DEF IInv, FetchCovers, Covers, Over, NoFetch, RevocationTypeOK
  <1>10. ListCovers'
    BY <1>1, <1>2, <1>4 DEF IInv, ListCovers, Over
  <1> QED
    BY <1>6, <1>7, <1>8, <1>9, <1>10 DEF IInv

\* A failed refresh and a crash only forget.
LEMMA ForgetIInv ==
  ASSUME IInv, NEW i \in Instances, FailFetch(i) \/ Crash(i)
  PROVE  IInv'
  <1> USE RevocationAssumption
  <1>1. /\ UNCHANGED <<now, revoked, cut>>
        /\ revoking' \in {revoking, [revoking EXCEPT ![i] = NoRevocation]}
        /\ fetch' = [fetch EXCEPT ![i] = NoFetch]
        /\ \/ UNCHANGED <<list, last>>
           \/ /\ list' = [list EXCEPT ![i] = [s \in Sids |-> 0]]
              /\ last' = [last EXCEPT ![i] = Never]
    BY DEF FailFetch, Crash
  <1>2. NoRevocation \in [sid: Sids \cup {None}, at: Nat]
    BY DEF NoRevocation
  <1>3. NoFetch \in [since: Times, read: BOOLEAN, entries: Entries]
    BY DEF NoFetch, NoEntries, Entries, Times
  <1>4. NoFetch.since = Never /\ NoFetch.read = FALSE /\ Never \in Times /\ Never = -1
    BY DEF NoFetch, Times, Never
  <1> HIDE DEF NoFetch, NoRevocation
  <1>5. RevocationTypeOK'
    <2>1. revoking' \in [Instances -> [sid: Sids \cup {None}, at: Nat]]
      BY <1>1, <1>2 DEF IInv, RevocationTypeOK
    <2>2. fetch' \in [Instances -> [since: Times, read: BOOLEAN, entries: Entries]]
      BY <1>1, <1>3 DEF IInv, RevocationTypeOK
    <2>3. list' \in [Instances -> [Sids -> Nat]]
      <3> DEFINE empty == [s \in Sids |-> 0]
      <3>1. empty \in [Sids -> Nat]
        OBVIOUS
      <3>2. list' = list \/ list' = [list EXCEPT ![i] = empty]
        BY <1>1
      <3> HIDE DEF empty
      <3> QED
        BY <3>1, <3>2 DEF IInv, RevocationTypeOK
    <2>4. last' \in [Instances -> Times]
      BY <1>1, <1>4 DEF IInv, RevocationTypeOK
    <2> QED
      BY <1>1, <2>1, <2>2, <2>3, <2>4 DEF IInv, RevocationTypeOK
  <1>6. Dated'
    BY <1>1, <1>4, Numbers DEF IInv, Dated, RevocationTypeOK
  <1>7. Timely'
    BY <1>1 DEF IInv, Timely, RevocationTypeOK
  <1>8. StoreCovers'
    BY <1>1 DEF IInv, StoreCovers, Covers, Over
  <1>9. FetchCovers'
    BY <1>1, <1>4 DEF IInv, FetchCovers, Covers, Over, RevocationTypeOK
  <1>10. ListCovers'
    <2> SUFFICES ASSUME NEW j \in Instances, NEW s \in Sids,
                        cut[s] # Never, cut[s] < last'[j]
                 PROVE  list'[j][s] >= cut[s] + Access \/ Over(s)
      BY <1>1 DEF ListCovers, Over
    <2>1. cut[s] \in Nat
      BY DEF IInv, RevocationTypeOK, Entries, Times
    <2>2. last'[j] = last[j] /\ list'[j] = list[j]
      BY <1>1, <1>4, <2>1 DEF IInv, RevocationTypeOK
    <2> QED
      BY <2>2 DEF IInv, ListCovers
  <1> QED
    BY <1>5, <1>6, <1>7, <1>8, <1>9, <1>10 DEF IInv

\* Time passes unless a revocation under way has used up the skew.
LEMMA TickIInv ==
  ASSUME IInv, Tick
  PROVE  IInv'
  <1> USE RevocationAssumption DEF IInv, Tick
  <1>1. RevocationTypeOK'
    BY DEF RevocationTypeOK
  <1>2. Dated'
    <2>1. now' = now + 1 /\ UNCHANGED <<cut, last, fetch>>
      OBVIOUS
    <2> QED
      BY <2>1, Numbers DEF Dated
  <1>3. Timely'
    BY DEF Timely, RevocationTypeOK
  <1>4. \A s \in Sids : Over(s) => Over(s)'
    BY DEF Over, RevocationTypeOK, Entries, Times, Never
  <1>5. StoreCovers' /\ FetchCovers' /\ ListCovers'
    BY <1>4 DEF StoreCovers, FetchCovers, ListCovers, Covers
  <1> QED
    BY <1>1, <1>2, <1>3, <1>5

\* Every step preserves the inductive invariant.
LEMMA NextIInv == IInv /\ [Next]_vars => IInv'
  <1> SUFFICES ASSUME IInv, [Next]_vars PROVE IInv'
    OBVIOUS
  <1>1. CASE UNCHANGED vars
    BY <1>1 DEF vars, IInv, RevocationTypeOK, Dated, Timely, StoreCovers, FetchCovers,
                ListCovers, Covers, Over
  <1>2. CASE Next
    BY <1>2, BeginRevokeIInv, RevokeIInv, ReplaceIInv, BeginFetchIInv, ReadStoreIInv,
       EndFetchIInv, ForgetIInv, TickIInv DEF Next
  <1> QED
    BY <1>1, <1>2

\* The inductive invariant holds in every reachable state.
THEOREM Invariance == Spec => []IInv
  BY InitIInv, NextIInv, PTL DEF Spec

\* The state of the store and of the processes keeps its type.
THEOREM TypeCorrect == Spec => []RevocationTypeOK
  <1>1. IInv => RevocationTypeOK
    BY DEF IInv
  <1> QED
    BY <1>1, Invariance, PTL

\* A revocation cuts off every access token issued before it within
\* maxStalenessMs, in every process: a list that is not stale was refreshed after
\* the revocation, so it names the session until the tokens have expired.
THEOREM RevocationCorrect == Spec => []RevocationReaches
  <1>1. ASSUME IInv, NEW i \in Instances, NEW s \in Sids, NEW iat \in 0 .. cut[s],
               Accepts(i, s, iat), ~(now - cut[s] <= MaxStale)
        PROVE  FALSE
    <2>1. /\ now \in Nat /\ last[i] \in Times /\ cut[s] \in Times /\ list[i][s] \in Nat
          /\ cut[s] # Never /\ iat \in Nat /\ iat <= cut[s]
      BY <1>1 DEF IInv, RevocationTypeOK, Entries, Times, Never
    <2>2. last[i] # Never /\ now - last[i] <= MaxStale
      BY <1>1, <2>1, RevocationAssumption DEF Accepts, Stale, Times
    <2>3. cut[s] < last[i]
      BY <1>1, <2>1, <2>2, RevocationAssumption DEF Times
    <2>4. list[i][s] >= cut[s] + Access \/ Over(s)
      BY <1>1, <2>1, <2>3 DEF IInv, ListCovers
    <2> QED
      BY <1>1, <2>1, <2>4, RevocationAssumption DEF Accepts, Over, Times
  <1>2. IInv => RevocationReaches
    BY <1>1 DEF RevocationReaches
  <1> QED
    BY <1>2, Invariance, PTL
=============================================================================
