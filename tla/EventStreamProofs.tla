--------------------------- MODULE EventStreamProofs ---------------------------
(***************************************************************************)
(* Proofs about EventStream, for any number of transactions, keys and      *)
(* connections, any batch size and any wall clock: the lock of the tenant  *)
(* clock makes a cursor safe.                                              *)
(***************************************************************************)
EXTENDS EventStream, FiniteSetTheorems, FunctionTheorems, TLAPS

Typed ==
  /\ StreamTypeOK
  /\ tx \in [Appenders -> [ms : 0 .. MaxWall, rows : Seq(Row)]]
  /\ pending \in [Connections -> SUBSET Row]
  /\ seen \in [Connections -> SUBSET Row]

\* Only the holder of the clock row has uncommitted rows, later ones after earlier ones.
Alone ==
  \A a \in Appenders :
    /\ holder # a => tx[a] = Idle
    /\ holder = a =>
         /\ clock <= tx[a].ms
         /\ \A i \in 1 .. Len(tx[a].rows) : tx[a].rows[i].ms <= tx[a].ms /\ tx[a].rows[i].id <= seq
         /\ \A i, j \in 1 .. Len(tx[a].rows) : i < j => After(tx[a].rows[j], tx[a].rows[i])

\* Whatever is committed from now on comes after position p.
Behind(p) ==
  /\ p.ms <= clock /\ p.id <= seq
  /\ \A a \in Appenders : \A i \in 1 .. Len(tx[a].rows) : After(tx[a].rows[i], p)

Stamped == \A i \in 1 .. Len(log) : Behind(log[i])

Cursors == \A c \in Connections : /\ Behind(cursor[c])
                                  /\ lastId[c] # NULL => Behind(lastId[c])

\* An open connection is not behind the frame its client has.
Resumes ==
  \A c \in Connections :
    (phase[c] = "open" /\ lastId[c] # NULL) => (lastId[c] = cursor[c] \/ After(cursor[c], lastId[c]))

\* A tick has the visible rows after the cursor up to some row, without a gap.
Batch ==
  \A c \in Connections :
    /\ phase[c] # "open" => pending[c] = {}
    /\ pending[c] \subseteq RowsOf(log)
    /\ \A r \in pending[c] : After(r, cursor[c])
    /\ \A r \in pending[c] : \A q \in RowsOf(log) :
         (After(q, cursor[c]) /\ After(r, q)) => q \in pending[c]

Reserved == {c \in Connections : reserved[c]}

Slots == IsFiniteSet(Reserved) /\ SlotsAccounted

DatabaseInv == Alone /\ Stamped /\ CommitOrder

IInv ==
  /\ Typed
  /\ DatabaseInv
  /\ Cursors /\ Resumes /\ Batch /\ NothingMissed
  /\ Slots

-----------------------------------------------------------------------------
\* The constants, one by one.
LEMMA Parameters ==
  /\ MaxPerActor \in Nat /\ MaxPerActor >= 1 /\ BatchSize \in Nat
  /\ MaxWall \in Nat /\ MaxSeq \in Nat /\ MaxOpens \in Nat
  /\ NULL \notin Appenders
  BY StreamAssumption

\* The initial state satisfies the inductive invariant.
LEMMA InitIInv == StreamInit => IInv
  <1> SUFFICES ASSUME StreamInit PROVE IInv
    OBVIOUS
  <1> USE Parameters DEF StreamInit
  <1>1. <<>> \in Seq(Row) /\ Len(<<>>) = 0
    OBVIOUS
  <1>2. Typed
    <2>1. Idle \in [ms : 0 .. MaxWall, rows : Seq(Row)]
      BY <1>1 DEF Idle
    <2>2. [ms |-> 0, id |-> 0] \in Position
      BY DEF Position
    <2>3. /\ tx \in [Appenders -> [ms : 0 .. MaxWall, rows : Seq(Row)]]
          /\ \A a \in Appenders : tx[a].ms \in 0 .. MaxWall /\ tx[a].rows \in Seq(Row)
      BY <2>1
    <2>4. /\ lastId \in [Connections -> Position \cup {NULL}]
          /\ cursor \in [Connections -> Position]
          /\ pending \in [Connections -> SUBSET Row] /\ seen \in [Connections -> SUBSET Row]
          /\ \A c \in Connections : pending[c] \subseteq Row /\ seen[c] \subseteq Row
      BY <2>2
    <2>5. /\ reserved \in [Connections -> BOOLEAN]
          /\ phase \in [Connections -> {"closed", "preflight", "open", "gone"}]
          /\ since \in [Connections -> Nat] /\ opens \in [Connections -> 0 .. MaxOpens]
      OBVIOUS
    <2> QED
      BY <1>1, <2>3, <2>4, <2>5 DEF Typed, StreamTypeOK
  <1>3. DatabaseInv
    BY <1>1 DEF DatabaseInv, Alone, Stamped, CommitOrder
  <1>4. Cursors
    BY <1>1 DEF Cursors, Behind, Idle
  <1>5. Resumes /\ Batch /\ NothingMissed
    BY <1>1 DEF Resumes, Batch, NothingMissed
  <1>6. Slots
    <2>1. Reserved = {} /\ {c \in Connections : reserved[c]} = {}
      BY DEF Reserved
    <2>2. slots = 0 /\ 0 <= MaxPerActor
      OBVIOUS
    <2>3. \A c \in Connections : /\ phase[c] = "open" => reserved[c]
                                 /\ phase[c] \in {"closed", "gone"} => ~reserved[c]
      OBVIOUS
    <2> QED
      BY <2>1, <2>2, <2>3, FS_EmptySet DEF Slots, SlotsAccounted
  <1> QED
    BY <1>2, <1>3, <1>4, <1>5, <1>6 DEF IInv

-----------------------------------------------------------------------------
(***************************************************************************)
(* The order of positions                                                  *)
(***************************************************************************)
Pos(p) == p.ms \in Nat /\ p.id \in Nat

LEMMA AfterTransitive ==
  ASSUME NEW p, NEW q, NEW r, Pos(p), Pos(q), Pos(r), After(r, q), After(q, p)
  PROVE  After(r, p)
  BY DEF After, Pos

LEMMA AfterAsymmetric ==
  ASSUME NEW p, NEW q, Pos(p), Pos(q), After(p, q)
  PROVE  ~After(q, p)
  BY DEF After, Pos

LEMMA AfterTotal ==
  ASSUME NEW p, NEW q, Pos(p), Pos(q), ~After(p, q), ~After(q, p)
  PROVE  p.ms = q.ms /\ p.id = q.id
  BY DEF After, Pos

LEMMA RowPos == \A r \in Row : Pos(r) /\ PositionOf(r) \in Position /\ Pos(PositionOf(r))
  BY Parameters DEF Row, Pos, PositionOf, Position

LEMMA PositionPos == \A p \in Position : Pos(p)
  BY Parameters DEF Position, Pos

\* The rows of the log are rows.
LEMMA LogRows ==
  ASSUME IInv
  PROVE  /\ \A i \in 1 .. Len(log) : log[i] \in Row
         /\ RowsOf(log) \subseteq Row
         /\ Len(log) \in Nat
  BY DEF IInv, Typed, StreamTypeOK, RowsOf

\* Two rows of the log at one position are one row.
LEMMA LogUnique ==
  ASSUME IInv, NEW q \in RowsOf(log), NEW r \in RowsOf(log), ~After(q, r), ~After(r, q)
  PROVE  q = r
  <1>1. PICK i \in 1 .. Len(log) : q = log[i]
    BY DEF RowsOf
  <1>2. PICK j \in 1 .. Len(log) : r = log[j]
    BY DEF RowsOf
  <1>3. ~(i < j) /\ ~(j < i)
    BY <1>1, <1>2 DEF IInv, DatabaseInv, CommitOrder
  <1>4. i = j
    BY <1>3, LogRows
  <1> QED
    BY <1>1, <1>2, <1>4

\* The log is finite.
LEMMA LogFinite ==
  ASSUME IInv
  PROVE  IsFiniteSet(RowsOf(log))
  <1>1. Len(log) \in Nat /\ log \in [1 .. Len(log) -> RowsOf(log)]
    BY LogRows DEF IInv, Typed, StreamTypeOK, RowsOf
  <1>2. log \in Surjection(1 .. Len(log), RowsOf(log))
    BY <1>1 DEF Surjection, RowsOf
  <1>3. IsFiniteSet(1 .. Len(log))
    BY <1>1, FS_Interval
  <1> QED
    BY <1>2, <1>3, FS_Surjection

\* What listSince returns has no gap: a row before a listed one is listed.
LEMMA ListSinceClosed ==
  ASSUME IInv, NEW p \in Position
  PROVE  /\ ListSince(p) \subseteq RowsOf(log)
         /\ \A r \in ListSince(p) : After(r, p)
         /\ \A r \in ListSince(p) : \A q \in RowsOf(log) :
              (After(q, p) /\ After(r, q)) => q \in ListSince(p)
  <1> DEFINE later == {r \in RowsOf(log) : After(r, p)}
             UpTo(r) == {s \in later : ~After(s, r)}
  <1>1. ListSince(p) = {r \in later : Cardinality(UpTo(r)) <= BatchSize}
    BY DEF ListSince
  <1>2. ASSUME NEW r \in ListSince(p), NEW q \in RowsOf(log), After(q, p), After(r, q)
        PROVE  q \in ListSince(p)
    <2>1. r \in later /\ q \in later /\ Cardinality(UpTo(r)) <= BatchSize
      BY <1>1, <1>2
    <2>2. later \subseteq Row
      BY LogRows
    <2>3. UpTo(q) \subseteq UpTo(r)
      <3> SUFFICES ASSUME NEW s \in later, After(s, r) PROVE After(s, q)
        OBVIOUS
      <3> QED
        BY <1>2, <2>1, <2>2, RowPos, AfterTransitive
    <2>4. IsFiniteSet(UpTo(r))
      BY LogFinite, FS_Subset
    <2> HIDE DEF later, UpTo
    <2>5. /\ Cardinality(UpTo(q)) <= Cardinality(UpTo(r))
          /\ Cardinality(UpTo(q)) \in Nat /\ Cardinality(UpTo(r)) \in Nat
      BY <2>3, <2>4, FS_Subset, FS_CardinalityType
    <2>6. Cardinality(UpTo(q)) <= BatchSize
      BY <2>1, <2>5, Parameters
    <2> QED
      BY <1>1, <2>1, <2>6
  <1> QED
    BY <1>1, <1>2

-----------------------------------------------------------------------------
(***************************************************************************)
(* The database                                                            *)
(***************************************************************************)

\* Positions stay behind what is to come while the clock and the sequence advance and
\* no row is added to a transaction.
LEMMA BehindKept ==
  ASSUME IInv, NEW p, Behind(p), Pos(p),
         clock' \in Nat, clock <= clock', seq' \in Nat, seq <= seq',
         \A a \in Appenders : tx'[a] = tx[a] \/ tx'[a] = Idle
  PROVE  p.ms <= clock' /\ p.id <= seq'
         /\ \A a \in Appenders : \A i \in 1 .. Len(tx'[a].rows) : After(tx'[a].rows[i], p)
  <1>1. clock \in Nat /\ seq \in Nat
    BY Parameters DEF IInv, Typed, StreamTypeOK
  <1>2. Len(Idle.rows) = 0
    BY DEF Idle
  <1> QED
    BY <1>1, <1>2 DEF Behind, Pos

\* Nothing of the connections changes but the positions of Behind.
LEMMA ConnectionsKept ==
  ASSUME IInv, UNCHANGED <<conns, log>>,
         clock' \in Nat, clock <= clock', seq' \in Nat, seq <= seq',
         \A a \in Appenders : tx'[a] = tx[a] \/ tx'[a] = Idle
  PROVE  Stamped' /\ Cursors' /\ Resumes' /\ Batch' /\ NothingMissed' /\ Slots' /\ CommitOrder'
  <1>1. UNCHANGED <<slots, reserved, phase, lastId, cursor, pending, since, seen, log>>
    BY DEF conns
  <1>2. Resumes' /\ Batch' /\ NothingMissed' /\ CommitOrder'
    BY <1>1 DEF IInv, DatabaseInv, Resumes, Batch, NothingMissed, CommitOrder, RowsOf, After
  <1>3. Slots'
    BY <1>1 DEF IInv, Slots, SlotsAccounted, Reserved
  <1>4. Stamped'
    <2>1. ASSUME NEW i \in 1 .. Len(log) PROVE Behind(log[i])'
      <3>1. Behind(log[i]) /\ Pos(log[i]) /\ log'[i] = log[i]
        BY <1>1, LogRows, RowPos DEF IInv, DatabaseInv, Stamped
      <3> QED
        BY <3>1, BehindKept DEF Behind, After
    <2> QED
      BY <1>1, <2>1 DEF Stamped
  <1>5. Cursors'
    <2> SUFFICES ASSUME NEW c \in Connections
                 PROVE  Behind(cursor[c])' /\ (lastId[c] # NULL => Behind(lastId[c])')
      BY <1>1 DEF Cursors
    <2>1. Pos(cursor[c]) /\ (lastId[c] # NULL => Pos(lastId[c]))
      BY PositionPos DEF IInv, Typed, StreamTypeOK
    <2>2. Behind(cursor[c]) /\ (lastId[c] # NULL => Behind(lastId[c]))
      BY DEF IInv, Cursors
    <2>3. Behind(cursor[c])'
      BY <1>1, <2>1, <2>2, BehindKept DEF Behind, After
    <2>4. lastId[c] # NULL => Behind(lastId[c])'
      BY <1>1, <2>1, <2>2, BehindKept DEF Behind, After
    <2> QED
      BY <2>3, <2>4
  <1> QED
    BY <1>2, <1>3, <1>4, <1>5

\* The wall clock is read, never compared with what is stored.
LEMMA WallIInv ==
  ASSUME IInv, NEW t \in 0 .. MaxWall, WallClock(t)
  PROVE  IInv'
  <1>1. wall' = t /\ UNCHANGED <<clock, holder, tx, seq, log, conns>>
    BY DEF WallClock
  <1>2. Typed'
    BY <1>1 DEF IInv, Typed, StreamTypeOK, conns
  <1>3. Alone'
    BY <1>1 DEF IInv, DatabaseInv, Alone, After
  <1>4. clock' \in Nat /\ clock <= clock' /\ seq' \in Nat /\ seq <= seq'
    BY <1>1, Parameters DEF IInv, Typed, StreamTypeOK
  <1> QED
    BY <1>1, <1>2, <1>3, <1>4, ConnectionsKept DEF IInv, DatabaseInv

\* A rollback gives nothing back but the lock.
LEMMA RollbackIInv ==
  ASSUME IInv, NEW a \in Appenders, Rollback(a)
  PROVE  IInv'
  <1>1. /\ holder = a /\ holder' = NULL
        /\ tx' = [tx EXCEPT ![a] = Idle]
        /\ UNCHANGED <<wall, clock, seq, log, conns>>
    BY DEF Rollback
  <1>2. Idle \in [ms : 0 .. MaxWall, rows : Seq(Row)] /\ Idle.ms \in 0 .. MaxWall
        /\ Idle.rows \in Seq(Row)
    BY Parameters DEF Idle
  <1>3. \A b \in Appenders : tx'[b] = IF b = a THEN Idle ELSE tx[b]
    BY <1>1 DEF IInv, Typed
  <1>4. Typed'
    <2>1. tx' \in [Appenders -> [ms : 0 .. MaxWall, rows : Seq(Row)]]
      BY <1>1, <1>2 DEF IInv, Typed
    <2> QED
      BY <1>1, <1>2, <1>3, <2>1 DEF IInv, Typed, StreamTypeOK, conns
  <1>5. Alone'
    BY <1>1, <1>3, Parameters DEF IInv, DatabaseInv, Alone
  <1>6. clock' \in Nat /\ clock <= clock' /\ seq' \in Nat /\ seq <= seq'
    BY <1>1, Parameters DEF IInv, Typed, StreamTypeOK
  <1> QED
    BY <1>1, <1>3, <1>4, <1>5, <1>6, ConnectionsKept DEF IInv, DatabaseInv

\* The greatest of the clock and the wall clock.
LEMMA AdvanceOK ==
  ASSUME IInv, NEW ms \in 0 .. MaxWall
  PROVE  Advance(ms) \in 0 .. MaxWall /\ ms <= Advance(ms)
  BY Parameters DEF Advance, IInv, Typed, StreamTypeOK

\* A row gets a time that is not before the clock, and the next id: it comes after
\* everything visible, after every cursor and after the rows of its own transaction.
LEMMA AppendIInv ==
  ASSUME IInv, NEW a \in Appenders, NEW k \in Keys, AppendManyInTransaction(a, k)
  PROVE  IInv'
  <1> DEFINE ms == Advance(IF holder = a THEN tx[a].ms ELSE clock)
             row == [ms |-> ms, id |-> seq + 1, key |-> k]
             rows == IF Taken(a, k) THEN tx[a].rows ELSE Append(tx[a].rows, row)
             new == [ms |-> ms, rows |-> rows]
  <1>1. /\ holder \in {NULL, a} /\ holder' = a
        /\ seq < MaxSeq /\ seq' = seq + 1
        /\ tx' = [tx EXCEPT ![a] = new]
        /\ UNCHANGED <<wall, clock, log, conns>>
    BY DEF AppendManyInTransaction
  <1>2. /\ tx[a].ms \in 0 .. MaxWall /\ clock \in 0 .. MaxWall /\ seq \in 0 .. MaxSeq
        /\ tx[a].rows \in Seq(Row)
    BY DEF IInv, Typed, StreamTypeOK
  <1>3. ms \in 0 .. MaxWall /\ clock <= ms /\ (holder = a => tx[a].ms <= ms)
    <2>1. CASE holder = a
      <3>1. clock <= tx[a].ms
        BY <2>1 DEF IInv, DatabaseInv, Alone
      <3>2. tx[a].ms <= ms /\ ms \in 0 .. MaxWall
        BY <1>2, <2>1, AdvanceOK
      <3> HIDE DEF ms
      <3> QED
        BY <1>2, <3>1, <3>2, Parameters
    <2>2. CASE holder # a
      BY <1>2, <2>2, AdvanceOK
    <2> QED
      BY <2>1, <2>2
  <1> HIDE DEF ms
  <1>4. row \in Row /\ row.ms = ms /\ row.id = seq + 1
    BY <1>1, <1>2, <1>3, Parameters DEF Row
  <1> HIDE DEF row
  <1>5. /\ rows \in Seq(Row)
        /\ \/ rows = tx[a].rows
           \/ /\ Len(rows) = Len(tx[a].rows) + 1
              /\ rows[Len(rows)] = row
              /\ \A i \in 1 .. Len(tx[a].rows) : rows[i] = tx[a].rows[i]
    BY <1>2, <1>4
  <1> HIDE DEF rows
  <1>6. new \in [ms : 0 .. MaxWall, rows : Seq(Row)] /\ new.ms = ms /\ new.rows = rows
    BY <1>3, <1>5
  <1> HIDE DEF new
  <1>7. /\ \A b \in Appenders \ {a} : tx'[b] = tx[b]
        /\ tx'[a].ms = ms /\ tx'[a].rows = rows
    BY <1>1, <1>6 DEF IInv, Typed
  <1>8. Typed'
    <2>1. tx' \in [Appenders -> [ms : 0 .. MaxWall, rows : Seq(Row)]]
      BY <1>1, <1>6 DEF IInv, Typed
    <2>2. \A b \in Appenders : tx'[b].ms \in 0 .. MaxWall /\ tx'[b].rows \in Seq(Row)
      BY <2>1
    <2>3. seq' \in 0 .. MaxSeq /\ holder' \in Appenders \cup {NULL}
      BY <1>1, <1>2, Parameters
    <2> QED
      BY <1>1, <2>1, <2>2, <2>3 DEF IInv, Typed, StreamTypeOK, conns
  <1>9. Len(tx[a].rows) \in Nat /\ (holder # a => Len(tx[a].rows) = 0)
    BY <1>2 DEF IInv, DatabaseInv, Alone, Idle
  <1>10. \A i \in 1 .. Len(tx[a].rows) :
           /\ tx[a].rows[i].ms <= ms /\ tx[a].rows[i].id <= seq /\ tx[a].rows[i] \in Row
           /\ After(row, tx[a].rows[i])
    <2> SUFFICES ASSUME NEW i \in 1 .. Len(tx[a].rows)
                 PROVE  /\ tx[a].rows[i].ms <= ms /\ tx[a].rows[i].id <= seq /\ tx[a].rows[i] \in Row
                        /\ After(row, tx[a].rows[i])
      OBVIOUS
    <2>1. holder = a /\ tx[a].rows[i] \in Row
      BY <1>2, <1>9
    <2>2. tx[a].rows[i].ms <= tx[a].ms /\ tx[a].rows[i].id <= seq
      BY <2>1 DEF IInv, DatabaseInv, Alone
    <2>3. Pos(tx[a].rows[i])
      BY <2>1, RowPos
    <2>4. ms \in Nat /\ tx[a].ms \in Nat /\ seq \in Nat /\ tx[a].ms <= ms
      BY <1>2, <1>3, <2>1, Parameters
    <2>5. tx[a].rows[i].ms <= ms
      BY <2>2, <2>3, <2>4 DEF Pos
    <2>6. row.ms = ms /\ row.id > tx[a].rows[i].id
      BY <1>4, <2>2, <2>3, <2>4 DEF Pos
    <2>7. After(row, tx[a].rows[i])
      BY <2>3, <2>4, <2>5, <2>6 DEF After, Pos
    <2> QED
      BY <2>1, <2>2, <2>5, <2>7
  <1>11. Alone'
    <2> SUFFICES ASSUME NEW b \in Appenders
                 PROVE  /\ holder' # b => tx'[b] = Idle
                        /\ holder' = b =>
                             /\ clock' <= tx'[b].ms
                             /\ \A i \in 1 .. Len(tx'[b].rows) :
                                  tx'[b].rows[i].ms <= tx'[b].ms /\ tx'[b].rows[i].id <= seq'
                             /\ \A i, j \in 1 .. Len(tx'[b].rows) :
                                  i < j => After(tx'[b].rows[j], tx'[b].rows[i])
      BY DEF Alone, After
    <2>1. CASE b # a
      BY <1>1, <1>7, <2>1, Parameters DEF IInv, DatabaseInv, Alone
    <2>2. CASE b = a
      <3>1. clock' <= ms
        BY <1>1, <1>3
      <3>2. \A i \in 1 .. Len(rows) : rows[i].ms <= ms /\ rows[i].id <= seq'
        <4>1. row.ms <= ms /\ row.id <= seq' /\ seq <= seq'
          BY <1>1, <1>2, <1>3, <1>4, Parameters
        <4>2. \A i \in 1 .. Len(tx[a].rows) : tx[a].rows[i].id <= seq'
          BY <1>1, <1>2, <1>10, RowPos DEF Pos
        <4> QED
          BY <1>5, <1>9, <1>10, <4>1, <4>2
      <3>3. \A i, j \in 1 .. Len(rows) : i < j => After(rows[j], rows[i])
        <4>1. \A i, j \in 1 .. Len(tx[a].rows) : i < j => After(tx[a].rows[j], tx[a].rows[i])
          BY <1>9 DEF IInv, DatabaseInv, Alone
        <4> QED
          BY <1>5, <1>9, <1>10, <4>1
      <3> QED
        BY <1>1, <1>7, <2>2, <3>1, <3>2, <3>3
    <2> QED
      BY <2>1, <2>2
  <1>12. ASSUME NEW p, Pos(p), Behind(p)
         PROVE  p.ms <= clock' /\ p.id <= seq'
                /\ \A b \in Appenders : \A i \in 1 .. Len(tx'[b].rows) : After(tx'[b].rows[i], p)
    <2>1. p.ms <= clock /\ p.id <= seq
          /\ \A b \in Appenders : \A i \in 1 .. Len(tx[b].rows) : After(tx[b].rows[i], p)
      BY <1>12 DEF Behind
    <2>2. After(row, p)
      BY <1>2, <1>3, <1>4, <1>12, <2>1, Parameters DEF After, Pos
    <2>3. p.ms <= clock' /\ p.id <= seq'
      BY <1>1, <1>2, <1>12, <2>1, Parameters DEF Pos
    <2>4. \A i \in 1 .. Len(rows) : After(rows[i], p)
      BY <1>5, <1>9, <2>1, <2>2
    <2> QED
      BY <1>7, <2>1, <2>3, <2>4
  <1>13. Stamped'
    <2>1. ASSUME NEW i \in 1 .. Len(log) PROVE Behind(log[i])'
      <3>1. Pos(log[i]) /\ Behind(log[i]) /\ log'[i] = log[i]
        BY <1>1, LogRows, RowPos DEF IInv, DatabaseInv, Stamped
      <3> QED
        BY <1>12, <3>1 DEF Behind, After
    <2> QED
      BY <1>1, <2>1 DEF Stamped
  <1>14. Cursors'
    <2> SUFFICES ASSUME NEW c \in Connections
                 PROVE  Behind(cursor[c])' /\ (lastId[c] # NULL => Behind(lastId[c])')
      BY <1>1 DEF Cursors, conns
    <2>1. UNCHANGED <<cursor, lastId>>
      BY <1>1 DEF conns
    <2>2. Pos(cursor[c]) /\ (lastId[c] # NULL => Pos(lastId[c]))
      BY PositionPos DEF IInv, Typed, StreamTypeOK
    <2>3. Behind(cursor[c]) /\ (lastId[c] # NULL => Behind(lastId[c]))
      BY DEF IInv, Cursors
    <2>4. Behind(cursor[c])'
      BY <1>12, <2>1, <2>2, <2>3 DEF Behind, After
    <2>5. lastId[c] # NULL => Behind(lastId[c])'
      BY <1>12, <2>1, <2>2, <2>3 DEF Behind, After
    <2> QED
      BY <2>4, <2>5
  <1>15. Resumes' /\ Batch' /\ NothingMissed' /\ CommitOrder'
    <2>1. UNCHANGED <<phase, lastId, cursor, pending, since, seen, log>>
      BY <1>1 DEF conns
    <2> QED
      BY <2>1 DEF IInv, DatabaseInv, Resumes, Batch, NothingMissed, CommitOrder, RowsOf, After
  <1>16. Slots'
    BY <1>1 DEF conns, IInv, Slots, SlotsAccounted, Reserved
  <1> QED
    BY <1>8, <1>11, <1>13, <1>14, <1>15, <1>16 DEF IInv, DatabaseInv

\* A commit makes rows visible that come after all others and after every cursor.
LEMMA CommitIInv ==
  ASSUME IInv, NEW a \in Appenders, Commit(a)
  PROVE  IInv'
  <1> DEFINE rows == tx[a].rows
  <1>1. /\ holder = a /\ holder' = NULL
        /\ log' = log \o rows /\ clock' = tx[a].ms
        /\ tx' = [tx EXCEPT ![a] = Idle]
        /\ UNCHANGED <<wall, seq, conns>>
    BY DEF Commit
  <1>2. /\ tx[a].ms \in 0 .. MaxWall /\ clock \in 0 .. MaxWall /\ seq \in 0 .. MaxSeq
        /\ rows \in Seq(Row) /\ log \in Seq(Row) /\ Len(rows) \in Nat /\ Len(log) \in Nat
    BY DEF IInv, Typed, StreamTypeOK
  <1>3. /\ clock <= tx[a].ms
        /\ \A i \in 1 .. Len(rows) : rows[i].ms <= tx[a].ms /\ rows[i].id <= seq
        /\ \A i, j \in 1 .. Len(rows) : i < j => After(rows[j], rows[i])
    BY <1>1 DEF IInv, DatabaseInv, Alone
  <1>4. /\ Idle \in [ms : 0 .. MaxWall, rows : Seq(Row)] /\ Idle.ms \in 0 .. MaxWall
        /\ Idle.rows \in Seq(Row) /\ Len(Idle.rows) = 0
    BY Parameters DEF Idle
  <1>5. \A b \in Appenders : tx'[b] = Idle
    BY <1>1 DEF IInv, Typed, DatabaseInv, Alone
  <1>6. ASSUME NEW p, Pos(p), Behind(p)
        PROVE  /\ p.ms <= clock' /\ p.id <= seq'
               /\ \A b \in Appenders : \A i \in 1 .. Len(tx'[b].rows) : After(tx'[b].rows[i], p)
               /\ \A i \in 1 .. Len(rows) : After(rows[i], p)
    BY <1>1, <1>2, <1>3, <1>4, <1>5, <1>6, Parameters DEF Behind, Pos
  <1> HIDE DEF rows
  <1>7. /\ log' \in Seq(Row) /\ Len(log') = Len(log) + Len(rows)
        /\ \A i \in 1 .. Len(log) : log'[i] = log[i]
        /\ \A i \in 1 .. Len(log') : i > Len(log) =>
             (i - Len(log) \in 1 .. Len(rows) /\ log'[i] = rows[i - Len(log)])
    BY <1>1, <1>2
  <1>8. Typed'
    <2>1. tx' \in [Appenders -> [ms : 0 .. MaxWall, rows : Seq(Row)]]
      BY <1>1, <1>4 DEF IInv, Typed
    <2> QED
      BY <1>1, <1>2, <1>4, <1>5, <1>7, <2>1 DEF IInv, Typed, StreamTypeOK, conns
  <1>9. Alone'
    BY <1>1, <1>5, Parameters DEF Alone
  <1>10. \A i \in 1 .. Len(log) : log[i] \in Row /\ Pos(log[i]) /\ Behind(log[i])
    BY LogRows, RowPos DEF IInv, DatabaseInv, Stamped
  <1>11. Stamped'
    <2> SUFFICES ASSUME NEW i \in 1 .. Len(log') PROVE Behind(log[i])'
      BY DEF Stamped
    <2>1. CASE i \in 1 .. Len(log)
      <3>1. log'[i] = log[i] /\ Pos(log[i]) /\ Behind(log[i])
        BY <1>7, <1>10, <2>1
      <3>2. /\ log[i].ms <= clock' /\ log[i].id <= seq'
            /\ \A b \in Appenders : \A j \in 1 .. Len(tx'[b].rows) : After(tx'[b].rows[j], log[i])
        BY <1>6, <3>1
      <3> QED
        BY <3>1, <3>2 DEF Behind, After
    <2>2. CASE i > Len(log)
      <3>1. log'[i].ms <= clock' /\ log'[i].id <= seq'
        BY <1>1, <1>3, <1>7, <2>2
      <3> QED
        BY <1>4, <1>5, <3>1 DEF Behind
    <2> QED
      BY <1>2, <2>1, <2>2
  <1>12. CommitOrder'
    <2> SUFFICES ASSUME NEW i \in 1 .. Len(log'), NEW j \in 1 .. Len(log'), i < j
                 PROVE  After(log'[j], log'[i])
      BY DEF CommitOrder, After
    <2>1. CASE j \in 1 .. Len(log)
      <3>1. i \in 1 .. Len(log)
        BY <1>2, <1>7, <2>1
      <3> QED
        BY <1>7, <2>1, <3>1 DEF IInv, DatabaseInv, CommitOrder
    <2>2. CASE j > Len(log) /\ i \in 1 .. Len(log)
      <3>1. After(rows[j - Len(log)], log[i])
        BY <1>6, <1>7, <1>10, <2>2
      <3> QED
        BY <1>7, <2>2, <3>1
    <2>3. CASE j > Len(log) /\ i > Len(log)
      <3>1. i - Len(log) < j - Len(log)
        BY <1>2, <1>7, <2>3
      <3>2. After(rows[j - Len(log)], rows[i - Len(log)])
        BY <1>3, <1>7, <2>3, <3>1
      <3> QED
        BY <1>7, <2>3, <3>2
    <2> QED
      BY <1>2, <2>1, <2>2, <2>3
  <1>13. \A c \in Connections : /\ Pos(cursor[c]) /\ Behind(cursor[c])
                                /\ lastId[c] # NULL => (Pos(lastId[c]) /\ Behind(lastId[c]))
    BY PositionPos DEF IInv, Typed, StreamTypeOK, Cursors
  <1>14. UNCHANGED <<slots, reserved, phase, lastId, cursor, pending, since, seen>>
    BY <1>1 DEF conns
  <1>15. Cursors'
    <2> SUFFICES ASSUME NEW c \in Connections
                 PROVE  Behind(cursor[c])' /\ (lastId[c] # NULL => Behind(lastId[c])')
      BY <1>14 DEF Cursors
    <2>1. Behind(cursor[c])'
      BY <1>6, <1>13, <1>14 DEF Behind, After
    <2>2. lastId[c] # NULL => Behind(lastId[c])'
      BY <1>6, <1>13, <1>14 DEF Behind, After
    <2> QED
      BY <2>1, <2>2
  <1>16. Resumes' /\ Slots'
    <2>1. Resumes'
      BY <1>14 DEF IInv, Resumes, After
    <2>2. Slots'
      BY <1>14 DEF IInv, Slots, SlotsAccounted, Reserved
    <2> QED
      BY <2>1, <2>2
  <1>17. /\ RowsOf(log) \subseteq RowsOf(log)'
         /\ \A q \in RowsOf(log)' : \/ q \in RowsOf(log)
                                    \/ \E i \in 1 .. Len(rows) : q = rows[i]
    <2>1. \A i \in 1 .. Len(log) : i \in 1 .. Len(log') /\ log'[i] = log[i]
      BY <1>2, <1>7
    <2>2. \A i \in 1 .. Len(log') : i \in 1 .. Len(log) \/ i > Len(log)
      BY <1>2, <1>7
    <2>3. RowsOf(log) \subseteq RowsOf(log)'
      BY <2>1 DEF RowsOf
    <2>4. ASSUME NEW q \in RowsOf(log)'
          PROVE  q \in RowsOf(log) \/ \E i \in 1 .. Len(rows) : q = rows[i]
      <3>1. PICK i \in 1 .. Len(log') : q = log'[i]
        BY DEF RowsOf
      <3>2. CASE i \in 1 .. Len(log)
        BY <2>1, <3>1, <3>2 DEF RowsOf
      <3>3. CASE i > Len(log)
        BY <1>7, <3>1, <3>3
      <3> QED
        BY <2>2, <3>2, <3>3
    <2> QED
      BY <2>3, <2>4
  <1>18. Batch'
    <2>1. ASSUME NEW c \in Connections, NEW r \in pending[c], NEW q \in RowsOf(log)',
                 After(q, cursor[c]), After(r, q)
          PROVE  q \in pending[c]
      <3>1. r \in RowsOf(log)
        BY DEF IInv, Batch
      <3>2. PICK i \in 1 .. Len(log) : r = log[i]
        BY <3>1 DEF RowsOf
      <3>3. CASE q \in RowsOf(log)
        BY <2>1, <3>3 DEF IInv, Batch
      <3>4. CASE \E j \in 1 .. Len(rows) : q = rows[j]
        <4>1. PICK j \in 1 .. Len(rows) : q = rows[j]
          BY <3>4
        <4>2. Pos(q) /\ Pos(r) /\ After(q, r)
          BY <1>2, <1>6, <1>10, <3>2, <4>1, RowPos
        <4> QED
          BY <2>1, <4>2, AfterAsymmetric
      <3> QED
        BY <1>17, <3>3, <3>4
    <2> QED
      BY <1>14, <1>17, <2>1 DEF IInv, Batch, After
  <1>19. NothingMissed'
    <2> SUFFICES ASSUME NEW c \in Connections, NEW i \in (since[c] + 1) .. Len(log')
                 PROVE  \/ log'[i] \in seen[c]
                        \/ phase[c] = "open" /\ After(log'[i], cursor[c])
                        \/ phase[c] # "open" /\ (lastId[c] = NULL \/ After(log'[i], lastId[c]))
      BY <1>14 DEF NothingMissed, After
    <2>1. since[c] \in Nat
      BY DEF IInv, Typed, StreamTypeOK
    <2>2. CASE i <= Len(log)
      <3>1. i \in (since[c] + 1) .. Len(log) /\ i \in 1 .. Len(log)
        BY <1>2, <1>7, <2>1, <2>2
      <3> QED
        BY <1>7, <3>1 DEF IInv, NothingMissed
    <2>3. CASE i > Len(log)
      <3>1. i \in 1 .. Len(log')
        BY <1>2, <1>7, <2>1
      <3>2. /\ After(log'[i], cursor[c])
            /\ lastId[c] # NULL => After(log'[i], lastId[c])
        BY <1>6, <1>7, <1>13, <2>3, <3>1
      <3> QED
        BY <3>2
    <2> QED
      BY <1>2, <1>7, <2>1, <2>2, <2>3
  <1> QED
    BY <1>8, <1>9, <1>11, <1>12, <1>15, <1>16, <1>18, <1>19 DEF IInv, DatabaseInv

-----------------------------------------------------------------------------
(***************************************************************************)
(* The connections                                                         *)
(***************************************************************************)

\* The invariants of one connection.
Local(c) ==
  /\ Behind(cursor[c])
  /\ lastId[c] # NULL => Behind(lastId[c])
  /\ (phase[c] = "open" /\ lastId[c] # NULL) => (lastId[c] = cursor[c] \/ After(cursor[c], lastId[c]))
  /\ phase[c] # "open" => pending[c] = {}
  /\ pending[c] \subseteq RowsOf(log)
  /\ \A r \in pending[c] : After(r, cursor[c])
  /\ \A r \in pending[c] : \A q \in RowsOf(log) :
       (After(q, cursor[c]) /\ After(r, q)) => q \in pending[c]
  /\ \A i \in (since[c] + 1) .. Len(log) :
       \/ log[i] \in seen[c]
       \/ phase[c] = "open" /\ After(log[i], cursor[c])
       \/ phase[c] # "open" /\ (lastId[c] = NULL \/ After(log[i], lastId[c]))

LEMMA LocalHolds ==
  ASSUME IInv, NEW c \in Connections
  PROVE  Local(c)
  BY DEF IInv, Local, Cursors, Resumes, Batch, NothingMissed

\* A step of one connection leaves the others alone.
LEMMA ConnectionStep ==
  ASSUME IInv, NEW c \in Connections, Typed', Slots', Local(c)',
         UNCHANGED <<holder, tx, seq, log>>,
         clock' = clock \/ (holder = NULL /\ clock <= clock'),
         \A d \in Connections \ {c} :
           /\ phase'[d] = phase[d] /\ lastId'[d] = lastId[d] /\ cursor'[d] = cursor[d]
           /\ pending'[d] = pending[d] /\ since'[d] = since[d] /\ seen'[d] = seen[d]
  PROVE  IInv'
  <1>1. clock \in Nat /\ clock' \in Nat /\ clock <= clock' /\ seq \in Nat /\ seq' \in Nat /\ seq <= seq'
    BY Parameters DEF IInv, Typed, StreamTypeOK
  <1>2. \A a \in Appenders : tx'[a] = tx[a]
    OBVIOUS
  <1>3. Alone'
    BY <1>1, Parameters DEF IInv, DatabaseInv, Alone, After
  <1>4. CommitOrder'
    BY DEF IInv, DatabaseInv, CommitOrder, After
  <1>5. ASSUME NEW p, Pos(p), Behind(p)
        PROVE  /\ p.ms <= clock' /\ p.id <= seq'
               /\ \A a \in Appenders : \A i \in 1 .. Len(tx'[a].rows) : After(tx'[a].rows[i], p)
    BY <1>1, <1>2, <1>5, BehindKept
  <1>6. Stamped'
    <2>1. ASSUME NEW i \in 1 .. Len(log) PROVE Behind(log[i])'
      <3>1. Pos(log[i]) /\ Behind(log[i]) /\ log'[i] = log[i]
        BY LogRows, RowPos DEF IInv, DatabaseInv, Stamped
      <3> QED
        BY <1>5, <3>1 DEF Behind, After
    <2> QED
      BY <2>1 DEF Stamped
  <1>7. ASSUME NEW d \in Connections PROVE Local(d)'
    <2>1. CASE d = c
      BY <2>1
    <2>2. CASE d # c
      <3>1. Local(d) /\ Pos(cursor[d]) /\ (lastId[d] # NULL => Pos(lastId[d]))
        BY LocalHolds, PositionPos DEF IInv, Typed, StreamTypeOK
      <3>2. /\ phase'[d] = phase[d] /\ lastId'[d] = lastId[d] /\ cursor'[d] = cursor[d]
            /\ pending'[d] = pending[d] /\ since'[d] = since[d] /\ seen'[d] = seen[d]
        BY <2>2
      <3>3. Behind(cursor[d])' /\ (lastId[d] # NULL => Behind(lastId[d])')
        <4>1. Behind(cursor[d])'
          BY <1>5, <3>1, <3>2 DEF Local, Behind, After
        <4>2. lastId[d] # NULL => Behind(lastId[d])'
          BY <1>5, <3>1, <3>2 DEF Local, Behind, After
        <4> QED
          BY <4>1, <4>2
      <3> QED
        BY <3>1, <3>2, <3>3 DEF Local, RowsOf, After
    <2> QED
      BY <2>1, <2>2
  <1>8. Cursors' /\ Resumes' /\ Batch' /\ NothingMissed'
    BY <1>7 DEF Local, Cursors, Resumes, Batch, NothingMissed
  <1> QED
    BY <1>3, <1>4, <1>6, <1>8 DEF IInv, DatabaseInv

\* A slot that is given back was taken, or nothing changes.
LEMMA ReleaseSlots ==
  ASSUME IInv, NEW c \in Connections, Release(c), phase'[c] # "open",
         \A d \in Connections \ {c} : phase'[d] = phase[d]
  PROVE  Slots' /\ slots' \in 0 .. MaxPerActor /\ reserved' \in [Connections -> BOOLEAN]
  <1>1. /\ slots' = IF reserved[c] THEN slots - 1 ELSE slots
        /\ reserved' = [reserved EXCEPT ![c] = FALSE]
        /\ reserved \in [Connections -> BOOLEAN] /\ slots \in 0 .. MaxPerActor
    BY DEF Release, IInv, Typed, StreamTypeOK
  <1>2. \A d \in Connections : reserved'[d] = IF d = c THEN FALSE ELSE reserved[d]
    BY <1>1
  <1>3. Reserved' = Reserved \ {c} /\ (c \in Reserved <=> reserved[c])
    BY <1>2 DEF Reserved
  <1>4. IsFiniteSet(Reserved) /\ slots = Cardinality(Reserved)
    BY DEF IInv, Slots, SlotsAccounted, Reserved
  <1>5. /\ IsFiniteSet(Reserved \ {c})
        /\ Cardinality(Reserved \ {c}) = IF c \in Reserved THEN Cardinality(Reserved) - 1
                                                          ELSE Cardinality(Reserved)
        /\ Cardinality(Reserved \ {c}) \in Nat
    BY <1>4, FS_RemoveElement, FS_CardinalityType
  <1>6. slots' = Cardinality(Reserved') /\ slots' \in 0 .. MaxPerActor
    BY <1>1, <1>3, <1>4, <1>5, Parameters
  <1>7. \A d \in Connections : /\ phase'[d] = "open" => reserved'[d]
                               /\ phase'[d] \in {"closed", "gone"} => ~reserved'[d]
    BY <1>2 DEF IInv, Slots, SlotsAccounted
  <1>8. reserved' \in [Connections -> BOOLEAN]
    BY <1>1
  <1> QED
    BY <1>3, <1>5, <1>6, <1>7, <1>8, Parameters DEF Slots, SlotsAccounted, Reserved

\* A connection takes a slot that is free.
LEMMA OpenIInv ==
  ASSUME IInv, NEW c \in Connections, Open(c)
  PROVE  IInv'
  <1>1. /\ phase[c] = "closed" /\ opens[c] < MaxOpens /\ slots < MaxPerActor
        /\ slots' = slots + 1 /\ reserved' = [reserved EXCEPT ![c] = TRUE]
        /\ phase' = [phase EXCEPT ![c] = "preflight"] /\ opens' = [opens EXCEPT ![c] = @ + 1]
        /\ UNCHANGED <<wall, clock, holder, tx, seq, log, lastId, cursor, pending, since, seen>>
    BY DEF Open, database
  <1>2. /\ slots \in 0 .. MaxPerActor /\ reserved \in [Connections -> BOOLEAN]
        /\ opens \in [Connections -> 0 .. MaxOpens]
        /\ phase \in [Connections -> {"closed", "preflight", "open", "gone"}]
    BY DEF IInv, Typed, StreamTypeOK
  <1>3. /\ phase'[c] = "preflight" /\ \A d \in Connections \ {c} : phase'[d] = phase[d]
        /\ phase' \in [Connections -> {"closed", "preflight", "open", "gone"}]
    BY <1>1, <1>2
  <1>4. Typed'
    <2>1. opens' \in [Connections -> 0 .. MaxOpens]
      <3>1. opens[c] + 1 \in 0 .. MaxOpens
        BY <1>1, <1>2, Parameters
      <3> QED
        BY <1>1, <1>2, <3>1
    <2>2. slots' \in 0 .. MaxPerActor /\ reserved' \in [Connections -> BOOLEAN]
      BY <1>1, <1>2, Parameters
    <2> QED
      BY <1>1, <1>3, <2>1, <2>2 DEF IInv, Typed, StreamTypeOK
  <1>5. Slots'
    <2>1. \A d \in Connections : reserved'[d] = IF d = c THEN TRUE ELSE reserved[d]
      BY <1>1, <1>2
    <2>2. Reserved' = Reserved \cup {c}
      BY <2>1 DEF Reserved
    <2>3. c \notin Reserved
      BY <1>1 DEF IInv, Slots, SlotsAccounted, Reserved
    <2>4. IsFiniteSet(Reserved) /\ slots = Cardinality(Reserved)
      BY DEF IInv, Slots, SlotsAccounted, Reserved
    <2>5. IsFiniteSet(Reserved') /\ slots' = Cardinality(Reserved')
      BY <1>1, <2>2, <2>3, <2>4, FS_AddElement
    <2>6. \A d \in Connections : /\ phase'[d] = "open" => reserved'[d]
                                 /\ phase'[d] \in {"closed", "gone"} => ~reserved'[d]
      BY <1>3, <2>1 DEF IInv, Slots, SlotsAccounted
    <2>7. slots' <= MaxPerActor
      BY <1>1, <1>2, Parameters
    <2> QED
      BY <2>5, <2>6, <2>7 DEF Slots, SlotsAccounted, Reserved
  <1>6. Local(c)'
    BY <1>1, <1>3, LocalHolds DEF Local, Behind, RowsOf, After
  <1> QED
    BY <1>1, <1>3, <1>4, <1>5, <1>6, ConnectionStep

\* A connection that ends, or whose preflight fails, keeps only the last frame's id.
LEMMA CloseIInv ==
  ASSUME IInv, NEW c \in Connections, PreflightFails(c) \/ Disconnect(c)
  PROVE  IInv'
  <1>1. /\ Release(c)
        /\ UNCHANGED <<wall, clock, holder, tx, seq, log, lastId, cursor, since, seen, opens>>
        /\ pending' \in {pending, [pending EXCEPT ![c] = {}]}
        /\ phase' \in {phase, [phase EXCEPT ![c] = "closed"]}
    BY DEF PreflightFails, Disconnect, database
  <1>2. /\ phase \in [Connections -> {"closed", "preflight", "open", "gone"}]
        /\ pending \in [Connections -> SUBSET Row]
    BY DEF IInv, Typed, StreamTypeOK
  <1>3. phase'[c] # "open" /\ (phase[c] # "open" => pending[c] = {})
    BY <1>2, LocalHolds DEF PreflightFails, Disconnect, Local
  <1>4. /\ \A d \in Connections \ {c} : phase'[d] = phase[d] /\ pending'[d] = pending[d]
        /\ phase' \in [Connections -> {"closed", "preflight", "open", "gone"}]
        /\ pending' \in [Connections -> SUBSET Row]
    BY <1>1, <1>2
  <1>5. pending'[c] = {}
    BY <1>2, <1>3 DEF PreflightFails, Disconnect
  <1>6. Slots' /\ slots' \in 0 .. MaxPerActor /\ reserved' \in [Connections -> BOOLEAN]
    BY <1>1, <1>3, <1>4, ReleaseSlots
  <1>7. Typed'
    BY <1>1, <1>4, <1>6 DEF IInv, Typed, StreamTypeOK
  <1>8. ASSUME NEW i \in (since[c] + 1) .. Len(log)
        PROVE  log[i] \in seen[c] \/ lastId[c] = NULL \/ After(log[i], lastId[c])
    <2>1. CASE phase[c] # "open"
      BY <2>1, LocalHolds DEF Local
    <2>2. CASE phase[c] = "open" /\ lastId[c] # NULL /\ After(log[i], cursor[c])
      <3>1. since[c] \in Nat /\ Len(log) \in Nat
        BY LogRows DEF IInv, Typed, StreamTypeOK
      <3>2. i \in 1 .. Len(log)
        BY <3>1
      <3>3. Pos(log[i]) /\ Pos(cursor[c]) /\ Pos(lastId[c])
        BY <2>2, <3>2, LogRows, RowPos, PositionPos DEF IInv, Typed, StreamTypeOK
      <3>4. lastId[c] = cursor[c] \/ After(cursor[c], lastId[c])
        BY <2>2, LocalHolds DEF Local
      <3> QED
        BY <2>2, <3>3, <3>4, AfterTransitive
    <2> QED
      BY <2>1, <2>2, LocalHolds DEF Local
  <1>9. Local(c)'
    <2>1. Behind(cursor[c])' /\ (lastId[c] # NULL => Behind(lastId[c])')
      BY <1>1, LocalHolds DEF Local, Behind, After
    <2> QED
      BY <1>1, <1>3, <1>5, <1>8, <2>1 DEF Local, After
  <1> QED
    BY <1>1, <1>4, <1>6, <1>7, <1>9, ConnectionStep

\* The list of a tick, and its failure.
LEMMA TickIInv ==
  ASSUME IInv, NEW c \in Connections, Tick(c) \/ TickFails(c)
  PROVE  IInv'
  <1>1. PICK rows \in {ListSince(cursor[c]), {}} : pending' = [pending EXCEPT ![c] = rows]
    BY DEF Tick, TickFails
  <1>2. /\ phase[c] = "open"
        /\ UNCHANGED <<wall, clock, holder, tx, seq, log, slots, reserved, phase, lastId, cursor,
                       since, seen, opens>>
    BY DEF Tick, TickFails, database
  <1>3. cursor[c] \in Position
    BY DEF IInv, Typed, StreamTypeOK
  <1>4. /\ rows \subseteq RowsOf(log)
        /\ \A r \in rows : After(r, cursor[c])
        /\ \A r \in rows : \A q \in RowsOf(log) : (After(q, cursor[c]) /\ After(r, q)) => q \in rows
    BY <1>1, <1>3, ListSinceClosed
  <1>5. rows \subseteq Row
    BY <1>4, LogRows
  <1>6. /\ pending'[c] = rows /\ \A d \in Connections \ {c} : pending'[d] = pending[d]
        /\ pending' \in [Connections -> SUBSET Row]
    BY <1>1, <1>5 DEF IInv, Typed
  <1>7. Typed'
    BY <1>2, <1>6 DEF IInv, Typed, StreamTypeOK
  <1>8. Slots'
    BY <1>2 DEF IInv, Slots, SlotsAccounted, Reserved
  <1>9. Local(c)'
    <2>1. Behind(cursor[c])' /\ (lastId[c] # NULL => Behind(lastId[c])')
      BY <1>2, LocalHolds DEF Local, Behind, After
    <2> QED
      BY <1>2, <1>4, <1>6, <2>1, LocalHolds DEF Local, RowsOf, After
  <1> QED
    BY <1>2, <1>6, <1>7, <1>8, <1>9, ConnectionStep

\* A row that is processed is the first after the cursor that is visible, so the cursor
\* passes over nothing else.
LEMMA ProcessIInv ==
  ASSUME IInv, NEW c \in Connections, NEW row \in pending[c], NEW framed \in BOOLEAN,
         ProcessRow(c, row, framed)
  PROVE  IInv'
  <1> DEFINE p == PositionOf(row)
  <1>1. /\ phase[c] = "open" /\ \A o \in pending[c] : o = row \/ After(o, row)
        /\ cursor' = [cursor EXCEPT ![c] = p]
        /\ seen' = [seen EXCEPT ![c] = @ \cup {row}]
        /\ lastId' \in {lastId, [lastId EXCEPT ![c] = p]}
        /\ pending' = [pending EXCEPT ![c] = @ \ {row}]
        /\ UNCHANGED <<wall, clock, holder, tx, seq, log, slots, reserved, phase, since, opens>>
    BY DEF ProcessRow, database
  <1>2. row \in RowsOf(log) /\ row \in Row /\ p \in Position /\ Pos(row) /\ Pos(p)
    BY LocalHolds, LogRows, RowPos DEF Local
  <1>3. p.ms = row.ms /\ p.id = row.id
    BY DEF PositionOf
  <1>4. /\ \A q : After(q, p) <=> After(q, row)
        /\ \A q : After(p, q) <=> After(row, q)
    BY <1>3 DEF After
  <1> HIDE DEF p
  <1>5. /\ cursor'[c] = p /\ pending'[c] = pending[c] \ {row} /\ seen'[c] = seen[c] \cup {row}
        /\ lastId'[c] \in {lastId[c], p}
        /\ \A d \in Connections \ {c} : /\ cursor'[d] = cursor[d] /\ pending'[d] = pending[d]
                                        /\ seen'[d] = seen[d] /\ lastId'[d] = lastId[d]
    BY <1>1 DEF IInv, Typed, StreamTypeOK
  <1>6. Typed'
    <2>1. cursor' \in [Connections -> Position] /\ lastId' \in [Connections -> Position \cup {NULL}]
      BY <1>1, <1>2 DEF IInv, Typed, StreamTypeOK
    <2>2. pending' \in [Connections -> SUBSET Row] /\ seen' \in [Connections -> SUBSET Row]
      BY <1>1, <1>2 DEF IInv, Typed
    <2> QED
      BY <1>1, <2>1, <2>2 DEF IInv, Typed, StreamTypeOK
  <1>7. Slots'
    BY <1>1 DEF IInv, Slots, SlotsAccounted, Reserved
  <1>8. Local(c) /\ cursor[c] \in Position /\ Pos(cursor[c])
    BY LocalHolds, PositionPos DEF IInv, Typed, StreamTypeOK
  <1>9. After(row, cursor[c])
    BY <1>8 DEF Local
  <1>10. Behind(p)'
    <2>1. PICK i \in 1 .. Len(log) : row = log[i]
      BY <1>2 DEF RowsOf
    <2>2. Behind(row)
      BY <2>1 DEF IInv, DatabaseInv, Stamped
    <2> QED
      BY <1>1, <1>3, <2>2 DEF Behind, After
  <1>11. ASSUME NEW q \in RowsOf(log), After(q, cursor[c])
         PROVE  q = row \/ After(q, row)
    <2>1. q \in Row /\ Pos(q)
      BY LogRows, RowPos
    <2>2. CASE After(row, q)
      <3>1. q \in pending[c]
        BY <1>8, <1>11, <2>2 DEF Local
      <3> QED
        BY <1>1, <3>1
    <2>3. CASE ~After(row, q) /\ ~After(q, row)
      BY <1>2, <2>3, LogUnique
    <2> QED
      BY <2>2, <2>3
  <1>12. Behind(cursor[c])' /\ (lastId'[c] # NULL => Behind(lastId[c])')
    <2>1. Behind(cursor[c])'
      BY <1>5, <1>10 DEF Behind, After
    <2>2. ASSUME lastId'[c] = p
          PROVE  Behind(lastId[c])'
      BY <1>10, <2>2 DEF Behind, After
    <2>3. ASSUME lastId'[c] = lastId[c], lastId[c] # NULL
          PROVE  Behind(lastId[c])'
      <3>1. Behind(lastId[c])
        BY <1>8, <2>3 DEF Local
      <3> QED
        BY <1>1, <2>3, <3>1 DEF Behind, After
    <2> QED
      BY <1>5, <2>1, <2>2, <2>3
  <1>13. lastId'[c] # NULL => (lastId'[c] = p \/ After(p, lastId'[c]))
    <2>1. CASE lastId'[c] = lastId[c] /\ lastId[c] # NULL
      <3>1. lastId[c] \in Position /\ Pos(lastId[c])
        BY <2>1, PositionPos DEF IInv, Typed, StreamTypeOK
      <3>2. lastId[c] = cursor[c] \/ After(cursor[c], lastId[c])
        BY <1>1, <1>8, <2>1 DEF Local
      <3>3. After(row, lastId[c])
        BY <1>2, <1>8, <1>9, <3>1, <3>2, AfterTransitive
      <3> QED
        BY <1>4, <2>1, <3>3
    <2> QED
      BY <1>5, <2>1
  <1>14. /\ pending'[c] \subseteq RowsOf(log)
         /\ \A r \in pending'[c] : After(r, p)
    BY <1>1, <1>4, <1>5, <1>8 DEF Local
  <1>15. ASSUME NEW r \in pending'[c], NEW q \in RowsOf(log), After(q, p), After(r, q)
         PROVE  q \in pending'[c]
    <2>1. q \in Row /\ Pos(q) /\ After(q, row)
      BY <1>4, <1>15, LogRows, RowPos
    <2>2. After(q, cursor[c])
      BY <1>2, <1>8, <1>9, <2>1, AfterTransitive
    <2>3. q \in pending[c]
      BY <1>5, <1>8, <1>15, <2>2 DEF Local
    <2>4. q # row
      BY <1>2, <2>1, AfterAsymmetric
    <2> QED
      BY <1>5, <2>3, <2>4
  <1>16. ASSUME NEW i \in (since[c] + 1) .. Len(log)
         PROVE  log[i] \in seen'[c] \/ After(log[i], p)
    <2>1. since[c] \in Nat /\ Len(log) \in Nat
      BY LogRows DEF IInv, Typed, StreamTypeOK
    <2>2. log[i] \in RowsOf(log)
      BY <2>1 DEF RowsOf
    <2>3. log[i] \in seen[c] \/ After(log[i], cursor[c])
      BY <1>1, <1>8 DEF Local
    <2> QED
      BY <1>4, <1>5, <1>11, <2>2, <2>3
  <1>17. Local(c)'
    <2>1. RowsOf(log)' = RowsOf(log)
      BY <1>1 DEF RowsOf
    <2> QED
      BY <1>1, <1>5, <1>12, <1>13, <1>14, <1>15, <1>16, <2>1 DEF Local, After
  <1> QED
    BY <1>1, <1>5, <1>6, <1>7, <1>17, ConnectionStep

\* The preflight takes the lock of the clock row, so no transaction has rows that the
\* position it starts from would pass over.
LEMMA PreflightIInv ==
  ASSUME IInv, NEW c \in Connections, Preflight(c)
  PROVE  IInv'
  <1> DEFINE start == [ms |-> Now, id |-> 0]
  <1>1. /\ phase[c] = "preflight" /\ holder = NULL /\ clock' = Now
        /\ UNCHANGED <<wall, holder, tx, seq, log, lastId, pending, opens>>
    BY DEF Preflight
  <1>2. clock \in 0 .. MaxWall /\ clock' \in 0 .. MaxWall /\ clock <= clock' /\ seq \in Nat
    BY <1>1, AdvanceOK, Parameters DEF Now, IInv, Typed, StreamTypeOK
  <1>3. start \in Position /\ start.ms = clock' /\ start.id = 0
    BY <1>1, <1>2, Parameters DEF Position
  <1> HIDE DEF start
  <1>4. PICK ph \in {"closed", "gone", "open"} :
          /\ phase' = [phase EXCEPT ![c] = ph]
          /\ \/ ph \in {"closed", "gone"} /\ UNCHANGED <<cursor, since, seen>>
             \/ /\ ph = "open" /\ lastId[c] # NULL
                /\ cursor' = [cursor EXCEPT ![c] = lastId[c]]
                /\ UNCHANGED <<since, seen>>
             \/ /\ ph = "open" /\ lastId[c] = NULL
                /\ cursor' = [cursor EXCEPT ![c] = start]
                /\ since' = [since EXCEPT ![c] = Len(log)]
                /\ seen' = [seen EXCEPT ![c] = {}]
          /\ \/ ph = "gone" /\ Release(c)
             \/ ph = "closed" /\ ~reserved[c] /\ UNCHANGED <<slots, reserved>>
             \/ ph = "open" /\ reserved[c] /\ UNCHANGED <<slots, reserved>>
    <2>1. CASE ~reserved[c] /\ phase' = [phase EXCEPT ![c] = "closed"]
               /\ UNCHANGED <<slots, reserved, cursor, since, seen>>
      BY <2>1
    <2>2. CASE phase' = [phase EXCEPT ![c] = "gone"] /\ Release(c) /\ UNCHANGED <<cursor, since, seen>>
      BY <2>2
    <2>3. CASE /\ reserved[c] /\ lastId[c] # NULL /\ phase' = [phase EXCEPT ![c] = "open"]
               /\ cursor' = [cursor EXCEPT ![c] = lastId[c]]
               /\ UNCHANGED <<slots, reserved, since, seen>>
      BY <2>3
    <2>4. CASE /\ reserved[c] /\ lastId[c] = NULL /\ phase' = [phase EXCEPT ![c] = "open"]
               /\ cursor' = [cursor EXCEPT ![c] = start]
               /\ since' = [since EXCEPT ![c] = Len(log)]
               /\ seen' = [seen EXCEPT ![c] = {}]
               /\ UNCHANGED <<slots, reserved>>
      BY <2>4
    <2> QED
      BY <2>1, <2>2, <2>3, <2>4 DEF Preflight, start
  <1>5. /\ phase'[c] = ph /\ \A d \in Connections \ {c} : phase'[d] = phase[d]
        /\ phase' \in [Connections -> {"closed", "preflight", "open", "gone"}]
    BY <1>4 DEF IInv, Typed, StreamTypeOK
  <1>6. /\ \A d \in Connections \ {c} :
             cursor'[d] = cursor[d] /\ since'[d] = since[d] /\ seen'[d] = seen[d]
        /\ cursor' \in [Connections -> Position]
        /\ since' \in [Connections -> Nat] /\ seen' \in [Connections -> SUBSET Row]
    <2>1. Len(log) \in Nat /\ (lastId[c] # NULL => lastId[c] \in Position)
      BY LogRows DEF IInv, Typed, StreamTypeOK
    <2>2. /\ cursor \in [Connections -> Position]
          /\ since \in [Connections -> Nat] /\ seen \in [Connections -> SUBSET Row]
      BY DEF IInv, Typed, StreamTypeOK
    <2>3. CASE UNCHANGED <<cursor, since, seen>>
      BY <2>2, <2>3
    <2>4. CASE /\ lastId[c] # NULL /\ cursor' = [cursor EXCEPT ![c] = lastId[c]]
               /\ UNCHANGED <<since, seen>>
      BY <2>1, <2>2, <2>4
    <2>5. CASE /\ cursor' = [cursor EXCEPT ![c] = start]
               /\ since' = [since EXCEPT ![c] = Len(log)]
               /\ seen' = [seen EXCEPT ![c] = {}]
      <3>1. cursor' \in [Connections -> Position] /\ \A d \in Connections \ {c} : cursor'[d] = cursor[d]
        BY <1>3, <2>2, <2>5
      <3>2. since' \in [Connections -> Nat] /\ \A d \in Connections \ {c} : since'[d] = since[d]
        BY <2>1, <2>2, <2>5
      <3>3. seen' \in [Connections -> SUBSET Row] /\ \A d \in Connections \ {c} : seen'[d] = seen[d]
        BY <2>2, <2>5
      <3> QED
        BY <3>1, <3>2, <3>3
    <2> QED
      BY <1>4, <2>3, <2>4, <2>5
  <1>7. Slots' /\ slots' \in 0 .. MaxPerActor /\ reserved' \in [Connections -> BOOLEAN]
    <2>1. CASE ph = "gone" /\ Release(c)
      BY <1>5, <2>1, ReleaseSlots
    <2>2. CASE UNCHANGED <<slots, reserved>> /\ ph \in {"closed", "open"} /\ (ph = "open" <=> reserved[c])
      <3>1. \A d \in Connections : /\ phase'[d] = "open" => reserved'[d]
                                   /\ phase'[d] \in {"closed", "gone"} => ~reserved'[d]
        BY <1>5, <2>2 DEF IInv, Slots, SlotsAccounted
      <3>2. Reserved' = Reserved /\ slots' = slots
        BY <2>2 DEF Reserved
      <3> QED
        BY <2>2, <3>1, <3>2 DEF IInv, Typed, StreamTypeOK, Slots, SlotsAccounted, Reserved
    <2> QED
      BY <1>4, <2>1, <2>2
  <1>8. Typed'
    BY <1>1, <1>2, <1>5, <1>6, <1>7 DEF IInv, Typed, StreamTypeOK
  <1>9. \A a \in Appenders : Len(tx'[a].rows) = 0
    BY <1>1, Parameters DEF IInv, DatabaseInv, Alone, Idle
  <1>10. \A p : (Pos(p) /\ p.ms <= clock' /\ p.id <= seq') => Behind(p)'
    BY <1>9 DEF Behind
  <1>11. Local(c) /\ Pos(cursor[c]) /\ (lastId[c] # NULL => Pos(lastId[c]))
    BY LocalHolds, PositionPos DEF IInv, Typed, StreamTypeOK
  <1>12. /\ cursor[c].ms <= clock' /\ cursor[c].id <= seq'
         /\ lastId[c] # NULL => (lastId[c].ms <= clock' /\ lastId[c].id <= seq')
    BY <1>1, <1>2, <1>11, Parameters DEF Local, Behind, Pos
  <1>13. Local(c)'
    <2>1. lastId'[c] = lastId[c] /\ pending'[c] = {}
      BY <1>1, <1>11 DEF Local
    <2>2. (lastId[c] # NULL => Behind(lastId[c])')
      BY <1>1, <1>10, <1>11, <1>12, <2>1
    <2>3. RowsOf(log)' = RowsOf(log) /\ Len(log') = Len(log)
      BY <1>1 DEF RowsOf
    <2>4. CASE ph \in {"closed", "gone"}
      <3>1. cursor'[c] = cursor[c] /\ since'[c] = since[c] /\ seen'[c] = seen[c]
        BY <1>4, <2>4
      <3>2. Behind(cursor[c])'
        BY <1>10, <1>11, <1>12, <3>1
      <3> QED
        BY <1>1, <1>5, <1>11, <2>1, <2>2, <2>3, <2>4, <3>1, <3>2 DEF Local, After
    <2>5. CASE ph = "open" /\ lastId[c] # NULL
      <3>1. cursor'[c] = lastId[c] /\ since'[c] = since[c] /\ seen'[c] = seen[c]
        BY <1>4, <2>5 DEF IInv, Typed, StreamTypeOK
      <3>2. Behind(cursor[c])'
        BY <1>10, <1>11, <1>12, <2>5, <3>1
      <3>3. \A i \in (since[c] + 1) .. Len(log) : log[i] \in seen[c] \/ After(log[i], lastId[c])
        BY <1>1, <1>11, <2>5 DEF Local
      <3> QED
        BY <1>1, <1>5, <2>1, <2>2, <2>3, <2>5, <3>1, <3>2, <3>3 DEF Local, After
    <2>6. CASE ph = "open" /\ lastId[c] = NULL
      <3>1. cursor'[c] = start /\ since'[c] = Len(log)
        BY <1>4, <2>6 DEF IInv, Typed, StreamTypeOK
      <3>2. Pos(start) /\ start.ms <= clock' /\ start.id <= seq'
        BY <1>1, <1>2, <1>3, PositionPos, Parameters
      <3>3. Behind(cursor[c])'
        BY <1>10, <3>1, <3>2
      <3>4. (since'[c] + 1) .. Len(log') = {}
        BY <2>3, <3>1, LogRows
      <3> QED
        BY <1>5, <2>1, <2>6, <3>3, <3>4 DEF Local
    <2> QED
      BY <1>4, <2>4, <2>5, <2>6
  <1> QED
    BY <1>1, <1>2, <1>5, <1>6, <1>7, <1>8, <1>13, ConnectionStep

-----------------------------------------------------------------------------
\* Every step preserves the inductive invariant.
LEMMA NextIInv == IInv /\ [StreamNext]_svars => IInv'
  <1> SUFFICES ASSUME IInv, [StreamNext]_svars PROVE IInv'
    OBVIOUS
  <1>1. CASE UNCHANGED svars
    <2>1. UNCHANGED <<wall, clock, holder, tx, seq, log, conns>>
      BY <1>1 DEF svars, database
    <2>2. Typed' /\ Alone'
      BY <2>1 DEF IInv, DatabaseInv, Typed, StreamTypeOK, Alone, After, conns
    <2>3. clock' \in Nat /\ clock <= clock' /\ seq' \in Nat /\ seq <= seq'
      BY <2>1, Parameters DEF IInv, Typed, StreamTypeOK
    <2> QED
      BY <2>1, <2>2, <2>3, ConnectionsKept DEF IInv, DatabaseInv
  <1>2. CASE StreamNext
    BY <1>2, WallIInv, CommitIInv, RollbackIInv, AppendIInv, OpenIInv, PreflightIInv, CloseIInv,
       TickIInv, ProcessIInv DEF StreamNext
  <1> QED
    BY <1>1, <1>2

\* The inductive invariant holds in every reachable state.
THEOREM Invariance == StreamSpec => []IInv
  BY InitIInv, NextIInv, PTL DEF StreamSpec

\* The log, the clock and the connections keep their types; no bound is exceeded.
THEOREM TypeCorrect == StreamSpec => []StreamTypeOK
  <1>1. IInv => StreamTypeOK
    BY DEF IInv, Typed
  <1> QED
    BY <1>1, Invariance, PTL

\* Events become visible in (created_at,id) order, whatever the wall clock does.
THEOREM OrderCorrect == StreamSpec => []CommitOrder
  <1>1. IInv => CommitOrder
    BY DEF IInv, DatabaseInv
  <1> QED
    BY <1>1, Invariance, PTL

\* A client that follows the log misses no event, over reconnects and failed ticks.
THEOREM StreamCorrect == StreamSpec => []NothingMissed
  <1>1. IInv => NothingMissed
    BY DEF IInv
  <1> QED
    BY <1>1, Invariance, PTL

\* The slots of the actor are exactly its live connections.
THEOREM SlotsCorrect == StreamSpec => []SlotsAccounted
  <1>1. IInv => SlotsAccounted
    BY DEF IInv, Slots
  <1> QED
    BY <1>1, Invariance, PTL
=============================================================================
