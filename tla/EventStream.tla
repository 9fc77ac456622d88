----------------------------- MODULE EventStream -----------------------------
(***************************************************************************)
(* The event log of one tenant as a stream: transactions that append to    *)
(* outbox.events under the tenant clock, and the server-sent-event         *)
(* connections of one actor that follow the log with a (created_at,id)     *)
(* cursor (OutboxEventStreamSource and StynxEventStreamService).           *)
(*                                                                         *)
(* The row of outbox.tenant_clock stays locked from the first append of a  *)
(* transaction to its end, and now() takes the same lock: that is what     *)
(* makes a cursor safe.  A connection is an EventSource of a browser: it   *)
(* reconnects with the id of the last frame it was sent.                   *)
(***************************************************************************)
EXTENDS Integers, Sequences, FiniteSets

CONSTANTS
  Appenders,      \* concurrent transactions that append events
  Keys,           \* idempotency keys
  Connections,    \* event-stream connections of the actor
  MaxPerActor,    \* maxConnectionsPerActor
  BatchSize,      \* rows of one tick
  ReplayWindow,   \* replayWindowMs
  MaxWall,        \* bound: wall clock of the database, in ms
  MaxSeq,         \* bound: values of outbox.event_order_seq
  MaxOpens,       \* bound: times a connection is opened
  NULL

ASSUME StreamAssumption ==
  /\ MaxPerActor \in Nat \ {0}
  /\ BatchSize \in Nat \ {0}
  /\ ReplayWindow \in Nat
  /\ MaxWall \in Nat /\ MaxSeq \in Nat /\ MaxOpens \in Nat
  /\ NULL \notin Appenders

VARIABLES
  wall,      \* clock_timestamp() of the primary; it may step back
  clock,     \* committed outbox.tenant_clock.last_ms
  holder,    \* the transaction that holds the tenant_clock row
  tx,        \* clock value and uncommitted rows of each transaction
  seq,       \* last value of outbox.event_order_seq
  log,       \* committed rows of outbox.events, in commit order
  slots,     \* StynxEventStreamService.slots of the actor
  reserved,  \* whether a connection still holds its slot
  phase,     \* "closed", "preflight", "open", or "gone" (204: do not reconnect)
  lastId,    \* id of the last frame the client received, NULL for none
  cursor,    \* position of the connection
  pending,   \* rows of the tick under way that are not processed yet
  since,     \* length of the log when the client started to follow it
  seen,      \* rows processed for the client, sent or dropped
  opens      \* times the connection was opened

database == <<wall, clock, holder, tx, seq, log>>
conns == <<slots, reserved, phase, lastId, cursor, pending, since, seen, opens>>
svars == <<database, conns>>

Position == [ms : 0 .. MaxWall, id : 0 .. MaxSeq]
Row == [ms : 0 .. MaxWall, id : 1 .. MaxSeq, key : Keys]
Idle == [ms |-> 0, rows |-> <<>>]
-----------------------------------------------------------------------------
\* The (created_at,id) order of listSince; an id of 0 is the empty cursor id,
\* which admits every row of its millisecond.
After(r, p) == r.ms > p.ms \/ (r.ms = p.ms /\ r.id > p.id)

PositionOf(r) == [ms |-> r.ms, id |-> r.id]

\* greatest(last_ms, clock_timestamp()).
Advance(ms) == IF ms > wall THEN ms ELSE wall

RowsOf(s) == {s[i] : i \in 1 .. Len(s)}

\* The key was used by a committed event or earlier in the transaction.
Taken(a, k) == \E r \in RowsOf(log) \cup RowsOf(tx[a].rows) : r.key = k

ListSinceStrictlyLater(p) ==
  LET later == {r \in RowsOf(log) : r.ms > p.ms}
  IN  {r \in later : Cardinality({s \in later : ~After(s, r)}) <= BatchSize}

\* The first BatchSize rows after a position: listSince.
ListSince(p) ==
  LET later == {r \in RowsOf(log) : After(r, p)}
  IN  {r \in later : Cardinality({s \in later : ~After(s, r)}) <= BatchSize}
-----------------------------------------------------------------------------
StreamInit ==
  /\ wall = 0
  /\ clock = 0
  /\ holder = NULL
  /\ tx = [a \in Appenders |-> Idle]
  /\ seq = 0
  /\ log = <<>>
  /\ slots = 0
  /\ reserved = [c \in Connections |-> FALSE]
  /\ phase = [c \in Connections |-> "closed"]
  /\ lastId = [c \in Connections |-> NULL]
  /\ cursor = [c \in Connections |-> [ms |-> 0, id |-> 0]]
  /\ pending = [c \in Connections |-> {}]
  /\ since = [c \in Connections |-> 0]
  /\ seen = [c \in Connections |-> {}]
  /\ opens = [c \in Connections |-> 0]

\* The wall clock moves, also backwards.
WallClock(t) ==
  /\ t # wall
  /\ wall' = t
  /\ UNCHANGED <<clock, holder, tx, seq, log, conns>>

AppendUnlocked(a, k) ==
  /\ seq < MaxSeq
  /\ LET ms == Advance(clock)
         row == [ms |-> ms, id |-> seq + 1, key |-> k]
     IN  tx' = [tx EXCEPT ![a] =
                  [ms |-> ms, rows |-> IF Taken(a, k) THEN @.rows ELSE Append(@.rows, row)]]
  /\ holder' = a
  /\ seq' = seq + 1
  /\ UNCHANGED <<wall, clock, log, conns>>

\* One event through appendManyInTransaction: the clock row is locked and read
\* first; a taken key inserts nothing (replay or conflict) but uses up a value
\* of the sequence.
AppendManyInTransaction(a, k) ==
  /\ holder \in {NULL, a}
  /\ seq < MaxSeq
  /\ LET ms == Advance(IF holder = a THEN tx[a].ms ELSE clock)
         row == [ms |-> ms, id |-> seq + 1, key |-> k]
     IN  tx' = [tx EXCEPT ![a] =
                  [ms |-> ms, rows |-> IF Taken(a, k) THEN @.rows ELSE Append(@.rows, row)]]
  /\ holder' = a
  /\ seq' = seq + 1
  /\ UNCHANGED <<wall, clock, log, conns>>

\* The transaction commits: its rows and its clock value become visible.
Commit(a) ==
  /\ holder = a
  /\ log' = log \o tx[a].rows
  /\ clock' = tx[a].ms
  /\ tx' = [tx EXCEPT ![a] = Idle]
  /\ holder' = NULL
  /\ UNCHANGED <<wall, seq, conns>>

\* It rolls back; values of the sequence are not returned.
Rollback(a) ==
  /\ holder = a
  /\ tx' = [tx EXCEPT ![a] = Idle]
  /\ holder' = NULL
  /\ UNCHANGED <<wall, clock, seq, log, conns>>

ReleaseTwice(c) ==
  /\ slots' = IF slots > 0 THEN slots - 1 ELSE 0
  /\ reserved' = [reserved EXCEPT ![c] = FALSE]

\* release(): gives the slot back once.
Release(c) ==
  /\ slots' = IF reserved[c] THEN slots - 1 ELSE slots
  /\ reserved' = [reserved EXCEPT ![c] = FALSE]

OpenUnchecked(c) ==
  /\ phase[c] = "closed"
  /\ opens[c] < MaxOpens
  /\ slots' = slots + 1
  /\ reserved' = [reserved EXCEPT ![c] = TRUE]
  /\ phase' = [phase EXCEPT ![c] = "preflight"]
  /\ opens' = [opens EXCEPT ![c] = @ + 1]
  /\ UNCHANGED <<database, lastId, cursor, pending, since, seen>>

\* open() up to the preflight: a full actor gets a 429 and nothing changes.
Open(c) ==
  /\ phase[c] = "closed"
  /\ opens[c] < MaxOpens
  /\ slots < MaxPerActor
  /\ slots' = slots + 1
  /\ reserved' = [reserved EXCEPT ![c] = TRUE]
  /\ phase' = [phase EXCEPT ![c] = "preflight"]
  /\ opens' = [opens EXCEPT ![c] = @ + 1]
  /\ UNCHANGED <<database, lastId, cursor, pending, since, seen>>

\* now() of the source: an upsert that waits for the clock row.
Now == Advance(clock)

\* The preflight succeeds. With a Last-Event-ID the connection resumes after
\* it, or is told to stop when it is too old; without, it starts from now().
\* A connection whose client left meanwhile ends here.
Preflight(c) ==
  /\ phase[c] = "preflight"
  /\ holder = NULL
  /\ clock' = Now
  /\ \/ /\ ~reserved[c]
        /\ phase' = [phase EXCEPT ![c] = "closed"]
        /\ UNCHANGED <<slots, reserved, cursor, since, seen>>
     \/ /\ reserved[c] /\ lastId[c] # NULL /\ Now - lastId[c].ms > ReplayWindow
        /\ phase' = [phase EXCEPT ![c] = "gone"]
        /\ Release(c)
        /\ UNCHANGED <<cursor, since, seen>>
     \/ /\ reserved[c] /\ lastId[c] # NULL /\ Now - lastId[c].ms <= ReplayWindow
        /\ phase' = [phase EXCEPT ![c] = "open"]
        /\ cursor' = [cursor EXCEPT ![c] = lastId[c]]
        /\ UNCHANGED <<slots, reserved, since, seen>>
     \/ /\ reserved[c] /\ lastId[c] = NULL
        /\ phase' = [phase EXCEPT ![c] = "open"]
        /\ cursor' = [cursor EXCEPT ![c] = [ms |-> Now, id |-> 0]]
        /\ since' = [since EXCEPT ![c] = Len(log)]
        /\ seen' = [seen EXCEPT ![c] = {}]
        /\ UNCHANGED <<slots, reserved>>
  /\ UNCHANGED <<wall, holder, tx, seq, log, lastId, pending, opens>>

\* The preflight fails (lock timeout, lost connection): 503.
PreflightFails(c) ==
  /\ phase[c] = "preflight"
  /\ Release(c)
  /\ phase' = [phase EXCEPT ![c] = "closed"]
  /\ UNCHANGED <<database, lastId, cursor, pending, since, seen, opens>>

\* A tick lists the rows after the cursor; it does not start while the
\* previous one is running.
Tick(c) ==
  /\ phase[c] = "open"
  /\ pending[c] = {}
  /\ ListSince(cursor[c]) # {}
  /\ pending' = [pending EXCEPT ![c] = ListSince(cursor[c])]
  /\ UNCHANGED <<database, slots, reserved, phase, lastId, cursor, since, seen, opens>>

\* The next row of the tick, in order: written as a frame, or filtered out or
\* dropped without one. The cursor advances in every case.
ProcessRow(c, row, framed) ==
  /\ phase[c] = "open"
  /\ \A o \in pending[c] : o = row \/ After(o, row)
  /\ cursor' = [cursor EXCEPT ![c] = PositionOf(row)]
  /\ seen' = [seen EXCEPT ![c] = @ \cup {row}]
  /\ lastId' = IF framed THEN [lastId EXCEPT ![c] = PositionOf(row)] ELSE lastId
  /\ pending' = [pending EXCEPT ![c] = @ \ {row}]
  /\ UNCHANGED <<database, slots, reserved, phase, since, opens>>

TickFailsSkipping(c) ==
  /\ phase[c] = "open"
  /\ \E row \in pending[c] :
       /\ \A o \in pending[c] : o = row \/ After(row, o)
       /\ cursor' = [cursor EXCEPT ![c] = PositionOf(row)]
  /\ pending' = [pending EXCEPT ![c] = {}]
  /\ UNCHANGED <<database, slots, reserved, phase, lastId, since, seen, opens>>

\* The tick throws: the connection stays open and keeps its cursor.
TickFails(c) ==
  /\ phase[c] = "open"
  /\ pending[c] # {}
  /\ pending' = [pending EXCEPT ![c] = {}]
  /\ UNCHANGED <<database, slots, reserved, phase, lastId, cursor, since, seen, opens>>

\* The client goes away, or the module is destroyed. During the preflight the
\* slot is freed at once and the preflight runs on.
Disconnect(c) ==
  /\ phase[c] = "open" \/ (phase[c] = "preflight" /\ reserved[c])
  /\ Release(c)
  /\ phase' = IF phase[c] = "open" THEN [phase EXCEPT ![c] = "closed"] ELSE phase
  /\ pending' = [pending EXCEPT ![c] = {}]
  /\ UNCHANGED <<database, lastId, cursor, since, seen, opens>>

StreamNext ==
  \/ \E t \in 0 .. MaxWall : WallClock(t)
  \/ \E a \in Appenders : Commit(a) \/ Rollback(a) \/ \E k \in Keys : AppendManyInTransaction(a, k)
  \/ \E c \in Connections :
       \/ Open(c) \/ Preflight(c) \/ PreflightFails(c) \/ Disconnect(c)
       \/ Tick(c) \/ TickFails(c)
       \/ \E row \in pending[c], framed \in BOOLEAN : ProcessRow(c, row, framed)

StreamSpec == StreamInit /\ [][StreamNext]_svars
-----------------------------------------------------------------------------
(* Properties *)

\* Every variable holds what its table or process memory can hold.
StreamTypeOK ==
  /\ wall \in 0 .. MaxWall /\ clock \in 0 .. MaxWall /\ seq \in 0 .. MaxSeq
  /\ holder \in Appenders \cup {NULL}
  /\ \A a \in Appenders : tx[a].ms \in 0 .. MaxWall /\ tx[a].rows \in Seq(Row)
  /\ log \in Seq(Row)
  /\ slots \in 0 .. MaxPerActor
  /\ reserved \in [Connections -> BOOLEAN]
  /\ phase \in [Connections -> {"closed", "preflight", "open", "gone"}]
  /\ lastId \in [Connections -> Position \cup {NULL}]
  /\ cursor \in [Connections -> Position]
  /\ \A c \in Connections : pending[c] \subseteq Row
  /\ since \in [Connections -> Nat]
  /\ \A c \in Connections : seen[c] \subseteq Row
  /\ opens \in [Connections -> 0 .. MaxOpens]

\* Events become visible in their (created_at,id) order, also when the wall
\* clock steps back: nothing is ever committed behind a visible event.
CommitOrder ==
  \A i, j \in 1 .. Len(log) : i < j => After(log[j], log[i])

\* A client that follows the log over reconnects, failed ticks and dropped frames
\* misses nothing committed since it opened: such an event was processed for it,
\* or is still ahead of its cursor, or ahead of the frame it will resume from.  A
\* client that opens again before it received a frame has no Last-Event-ID and
\* follows the log from there.
NothingMissed ==
  \A c \in Connections : \A i \in (since[c] + 1) .. Len(log) :
    \/ log[i] \in seen[c]
    \/ phase[c] = "open" /\ After(log[i], cursor[c])
    \/ phase[c] # "open" /\ (lastId[c] = NULL \/ After(log[i], lastId[c]))

\* The slots of the actor are the connections that are alive, so none leaks
\* when a client leaves during the preflight and none is freed twice.
SlotsAccounted ==
  /\ slots = Cardinality({c \in Connections : reserved[c]})
  /\ slots <= MaxPerActor
  /\ \A c \in Connections : /\ phase[c] = "open" => reserved[c]
                            /\ phase[c] \in {"closed", "gone"} => ~reserved[c]

\* Liveness: ticks run while the connection is open, and neither the source
\* nor the frames fail for ever.
StreamFairness ==
  /\ \A c \in Connections : WF_svars(Tick(c))
  /\ \A c \in Connections : WF_svars(\E row \in pending[c], framed \in BOOLEAN : ProcessRow(c, row, framed))
  /\ \A c \in Connections : <>[][~TickFails(c)]_svars

FairStreamSpec == StreamSpec /\ StreamFairness

\* Every event committed while a client follows the log is processed for it,
\* unless it goes away.
EventuallyStreamed ==
  \A c \in Connections : \A i \in 1 .. MaxSeq :
    (phase[c] = "open" /\ i \in (since[c] + 1) .. Len(log)) ~>
      (phase[c] # "open" \/ (i <= Len(log) /\ log[i] \in seen[c]))
=============================================================================
