------------------------------ MODULE OfflineBatch ------------------------------
(***************************************************************************)
(* The durable submission of batches of offline items                      *)
(* (packages/offline-sync: pgSubmit of postgres-durable.ts, pre-apply.ts,  *)
(* resolveWithPort of postgres-offline-sync.store.ts), over the official   *)
(* numbers of OfflineNumbering.                                            *)
(*                                                                         *)
(* A request submits one batch.  It takes the lease of the batch, and then *)
(* every item goes through up to three transactions: the preflight that    *)
(* stores the item or recognizes it, the application of its effect, and    *)
(* the record of a failure.  Each transaction renews the lease first and   *)
(* fails if the batch was taken over; it does not ask whether the lease    *)
(* expired.  A request may die between any two of them.                    *)
(*                                                                         *)
(* Every item has an idempotency key of its own and a canonical hash.  The *)
(* token of a lease is its request, which takes a lease once, so the       *)
(* generation says nothing more.  An attempt row, which only listings      *)
(* read, is left out.                                                      *)
(***************************************************************************)
EXTENDS OfflineNumbering, Sequences

CONSTANTS Requests,
          Keys,       \* idempotency keys of items
          Hashes,
          Batches,    \* [device, sequence, items]: the batches that devices submit
          MaxFaults   \* crashes, failed transactions and lost answers of a commit

Items == [key : Keys, hash : Hashes, number : 0 .. Last]  \* number 0: no reservedNumber

ASSUME BatchAssumption ==
  /\ \A b \in Batches :
       /\ b.device \in Devices /\ b.sequence \in Nat  \* 0: no batchSequence
       /\ b.items \in Seq(Items) /\ b.items # <<>>
  /\ MaxFaults \in Nat
  /\ None \notin Requests \cup Batches \cup Hashes

VARIABLES
  batch,     \* the rows of sync_batches
  receipt,   \* the rows of sync_item_receipts
  queue,     \* the status of the row of sync_queue_items of each key
  open,      \* the number of open conflicts of each item
  tampered,  \* the hashes of each key with an integrity conflict
  req,       \* the requests
  initial,   \* initialQueueStatus
  effects,   \* history: the committed applications
  faults     \* the faults so far

submission == <<batch, receipt, queue, open, tampered, req, initial, effects, faults>>
vars == <<numbering, submission>>

Statuses == {"received", "pending", "applied", "conflict", "rejected"}

NoReceipt == [status |-> "absent", batch |-> None, hash |-> None, number |-> 0,
              applied |-> FALSE, final |-> FALSE]

NoRefusal == [status |-> "none", conflict |-> FALSE, retry |-> FALSE]

Idle == [pc |-> "idle", batch |-> None, i |-> 1, again |-> FALSE,
         said |-> <<>>, retry |-> FALSE, refusal |-> NoRefusal]

NoBatch == [status |-> "absent", holder |-> None, response |-> <<>>]

Init ==
  /\ NumberingInit
  /\ batch = [b \in Batches |-> NoBatch]
  /\ receipt = [k \in Keys |-> NoReceipt]
  /\ queue = [k \in Keys |-> "absent"]
  /\ open = [k \in Keys |-> 0]
  /\ tampered = [k \in Keys |-> {}]
  /\ req = [q \in Requests |-> Idle]
  /\ initial \in {"received", "pending"}
  /\ effects = {}
  /\ faults = 0

-----------------------------------------------------------------------------
(***************************************************************************)
(* The lease of a batch.  Whoever finds it held may find it expired: a     *)
(* holder can be slow at any point.                                        *)
(***************************************************************************)
items == <<receipt, queue, open, tampered, initial, effects>>

\* q acquires the lease of b and starts with the first item.
Acquired(q, b) ==
  /\ batch' = [batch EXCEPT ![b] = [@ EXCEPT !.status = "open", !.holder = q]]
  /\ req' = [req EXCEPT ![q] = [Idle EXCEPT !.pc = "preflight", !.batch = b]]

Done(q) == req' = [req EXCEPT ![q] = [Idle EXCEPT !.pc = "done"]]

Ended(q) == Done(q) /\ UNCHANGED batch

\* The sequence numbers of a device leave no gap.
InSequence(b) ==
  \/ b.sequence = 0
  \/ b.sequence = 1 + Cardinality({c \in Batches : /\ c.device = b.device
                                                   /\ c.sequence # 0
                                                   /\ batch[c].status # "absent"})

\* The first transaction.  A closed batch is answered with its stored response.
Open(q, b) ==
  /\ req[q].pc = "idle"
  /\ \/ /\ batch[b].status = "open" \/ (batch[b].status = "absent" /\ InSequence(b))
        /\ Acquired(q, b)
     \/ /\ batch[b].status = "closed" \/ (batch[b].status = "absent" /\ ~InSequence(b))
        /\ Ended(q)
     \/ /\ batch[b].holder # None
        /\ req' = [req EXCEPT ![q].pc = "wait", ![q].batch = b]
        /\ UNCHANGED batch
  /\ UNCHANGED <<items, faults>>

\* The lock of the device was not free in time: an unknown batch is refused, an
\* open one is waited for.
Contended(q, b) ==
  /\ req[q].pc = "idle"
  /\ IF batch[b].status = "open"
       THEN /\ req' = [req EXCEPT ![q].pc = "wait", ![q].batch = b]
            /\ UNCHANGED batch
       ELSE Ended(q)
  /\ UNCHANGED <<items, faults>>

\* The wait loop takes the batch over, finds it closed or gives up.
Wait(q) ==
  /\ req[q].pc = "wait"
  /\ \/ batch[req[q].batch].status = "open" /\ Acquired(q, req[q].batch)
     \/ Ended(q)
  /\ UNCHANGED <<items, faults>>

\* renewLease finds the batch open and under the token of q.
Holds(q) == batch[req[q].batch].status = "open" /\ batch[req[q].batch].holder = q

Working(q) == req[q].pc \in {"preflight", "apply", "record", "close"}

\* A request that was fenced off ends; so does one whose transaction fails,
\* which releases the lease first.
Abort(q) ==
  /\ Working(q)
  /\ \/ ~Holds(q) /\ Ended(q) /\ UNCHANGED faults
     \/ /\ Holds(q) /\ faults < MaxFaults
        /\ faults' = faults + 1
        /\ batch' = [batch EXCEPT ![req[q].batch].holder = None]
        /\ Done(q)
  /\ UNCHANGED items

Die(q) ==
  /\ Working(q) /\ faults < MaxFaults
  /\ faults' = faults + 1
  /\ Ended(q)
  /\ UNCHANGED items

-----------------------------------------------------------------------------
(***************************************************************************)
(* The transactions of an item                                             *)
(***************************************************************************)
Item(q) == req[q].batch.items[req[q].i]

\* The request answers the item and goes to the next one.
Answered(q, status, retry) ==
  LET last == req[q].i = Len(req[q].batch.items) IN
  req' = [req EXCEPT ![q].pc = IF last THEN "close" ELSE "preflight",
                     ![q].i = IF last THEN @ ELSE @ + 1,
                     ![q].again = FALSE,
                     ![q].refusal = NoRefusal,
                     ![q].said = Append(@, status),
                     ![q].retry = @ \/ retry]

\* Only a later batch of the same device applies a pending item again.
Reapplies(row, b) ==
  row.status = "pending" /\ row.batch # b /\ row.batch.device = b.device

Preflight(q) ==
  LET b == req[q].batch
      item == Item(q)
      k == item.key
      row == IF receipt[k].status # "absent" THEN receipt[k]
             ELSE [NoReceipt EXCEPT !.status = initial, !.batch = b,
                                    !.hash = item.hash, !.number = item.number]
      same == row.hash = item.hash
  IN
  /\ req[q].pc = "preflight" /\ Holds(q)
  /\ receipt' = [receipt EXCEPT ![k] = row]
  /\ queue' = [queue EXCEPT ![k] = IF @ = "absent" THEN initial ELSE @]
  /\ \/ /\ ~same
        /\ open' = [open EXCEPT ![k] = IF item.hash \in tampered[k] THEN @ ELSE @ + 1]
        /\ tampered' = [tampered EXCEPT ![k] = @ \cup {item.hash}]
        /\ Answered(q, "rejected", FALSE)
     \/ /\ same
        /\ IF Reapplies(row, b) \/ (row.batch = b /\ row.status = initial /\ ~row.final)
             THEN req' = [req EXCEPT ![q].pc = "apply", ![q].again = Reapplies(row, b)]
             ELSE Answered(q, row.status, row.status = initial /\ ~row.final)
        /\ UNCHANGED <<open, tampered>>
  /\ UNCHANGED <<batch, initial, effects, faults>>

Expected(q) == IF req[q].again THEN "pending" ELSE initial

\* The application locks the receipt and looks again.
Current(q) ==
  LET row == receipt[Item(q).key] IN
  /\ row.batch.device = req[q].batch.device
  /\ row.hash = Item(q).hash
  /\ row.status = Expected(q)
  /\ req[q].again \/ row.batch = req[q].batch

Applying(q) == req[q].pc = "apply" /\ Holds(q)

\* Another submission was faster.
ApplyDuplicate(q) ==
  LET status == receipt[Item(q).key].status IN
  /\ Applying(q) /\ ~Current(q)
  /\ Answered(q, status, status = initial)
  /\ UNCHANGED <<batch, items, faults>>

Stored == {k \in Keys : queue[k] # "absent"}

\* The pairs of items that a detector may suspect.
Pairs == {p \in SUBSET Stored : Cardinality(p) = 2}

\* pgRecordConcurrency: the items of all pairs become conflicts, whatever they were,
\* and each pair opens a conflict for both of its items.
Suspected(rows, suspects) ==
  [k \in Keys |-> IF k \in suspects THEN [rows[k] EXCEPT !.status = "conflict"] ELSE rows[k]]

Opened(pairs) ==
  open' = [k \in Keys |-> open[k] + Cardinality({p \in pairs : k \in p})]

\* The detector suspects the item before it is applied, in each pair it names.
Deferred(q, pairs) ==
  LET k == Item(q).key
      suspects == UNION pairs
  IN
  /\ pairs # {} /\ \A p \in pairs : k \in p
  /\ receipt' = [Suspected(receipt, suspects) EXCEPT ![k].applied = FALSE, ![k].final = FALSE]
  /\ queue' = [j \in Keys |-> IF j \in suspects THEN "conflict" ELSE queue[j]]
  /\ Opened(pairs)
  /\ UNCHANGED <<tampered, initial, effects>>

Defer(q) ==
  /\ Applying(q) /\ Current(q)
  /\ \E pairs \in SUBSET Pairs : Deferred(q, pairs)
  /\ Answered(q, "conflict", FALSE)
  /\ UNCHANGED <<batch, faults>>

Verdict(q, late) ==
  IF Item(q).number = 0 THEN "free"
  ELSE NumberVerdict(req[q].batch.device, Item(q).number, late)

\* The application throws and is rolled back: the number, the domain or the
\* database refuses it.
Refuse(q) ==
  /\ Applying(q) /\ Current(q)
  /\ \E late \in BOOLEAN :
       LET verdict == Verdict(q, late) IN
       \E r \in IF verdict # "free"
                  THEN {[status |-> verdict, conflict |-> TRUE, retry |-> FALSE]}
                  ELSE [status : {"rejected", "conflict"}, conflict : BOOLEAN, retry : {FALSE}]
                         \cup [status : {"received"}, conflict : {FALSE}, retry : {FALSE}] :
         req' = [req EXCEPT ![q].pc = "record", ![q].refusal = r]
  /\ UNCHANGED <<batch, items, faults>>

\* The committed application, with the pairs that the detectors suspect.
Apply(q, pairs) ==
  LET k == Item(q).key
      n == Item(q).number
      suspects == UNION pairs
  IN
  /\ Verdict(q, FALSE) = "free"
  /\ IF n = 0 THEN UNCHANGED used ELSE UseNumber(req[q].batch.device, n)
  /\ effects' = effects \cup {[key |-> k, number |-> n, by |-> q]}
  /\ receipt' = [Suspected(receipt, suspects) EXCEPT
                   ![k].status = IF k \in suspects THEN "conflict" ELSE "applied",
                   ![k].applied = TRUE, ![k].final = FALSE]
  /\ queue' = [j \in Keys |-> IF j \in suspects THEN "conflict"
                              ELSE IF j = k THEN "applied" ELSE queue[j]]
  /\ Opened(pairs)
  /\ UNCHANGED <<tampered, initial>>

ApplyItem(q) ==
  /\ Applying(q) /\ Current(q)
  /\ \E pairs \in SUBSET Pairs :
       /\ Apply(q, pairs)
       /\ Answered(q, IF Item(q).key \in UNION pairs THEN "conflict" ELSE "applied", FALSE)
  /\ UNCHANGED <<batch, faults>>

\* A failure that says nothing of the item, before the commit or after it.
Fail(q) ==
  /\ Applying(q) /\ Current(q) /\ faults < MaxFaults
  /\ faults' = faults + 1
  /\ req' = [req EXCEPT ![q].pc = "record",
                        ![q].refusal = [status |-> Expected(q), conflict |-> FALSE, retry |-> TRUE]]
  /\ \/ UNCHANGED <<items, used>>
     \/ \E pairs \in SUBSET Pairs : \/ Deferred(q, pairs) /\ UNCHANGED used
                                  \/ Apply(q, pairs)
  /\ UNCHANGED batch

\* The transaction that records a failure.  The receipt is written if it still has
\* the expected status, the queue item in any case.
Record(q) ==
  LET k == Item(q).key
      r == req[q].refusal
      stands == /\ receipt[k].batch.device = req[q].batch.device
                /\ receipt[k].status = Expected(q)
  IN
  /\ req[q].pc = "record" /\ Holds(q)
  /\ open' = [open EXCEPT ![k] = IF r.conflict THEN @ + 1 ELSE @]
  /\ receipt' = [receipt EXCEPT ![k] =
       IF stands THEN [@ EXCEPT !.status = r.status, !.applied = FALSE,
                                !.final = r.status = "received" /\ ~r.retry]
       ELSE @]
  /\ queue' = [queue EXCEPT ![k] = IF r.retry THEN @ ELSE r.status]
  /\ Answered(q, r.status, r.retry)
  /\ UNCHANGED <<batch, tampered, initial, effects, faults>>

\* A mutant of Close: an item to retry does not keep the batch open.
CloseDespiteRetry(q) ==
  LET b == req[q].batch IN
  /\ req[q].pc = "close" /\ Holds(q)
  /\ batch' = [batch EXCEPT ![b] =
       [status |-> "closed", holder |-> None, response |-> req[q].said]]
  /\ Done(q)
  /\ UNCHANGED <<items, faults>>

\* A batch with an item to retry stays open and free.
Close(q) ==
  LET b == req[q].batch IN
  /\ req[q].pc = "close" /\ Holds(q)
  /\ batch' = [batch EXCEPT ![b] =
       IF req[q].retry THEN [@ EXCEPT !.holder = None]
       ELSE [status |-> "closed", holder |-> None, response |-> req[q].said]]
  /\ Done(q)
  /\ UNCHANGED <<items, faults>>

-----------------------------------------------------------------------------
(***************************************************************************)
(* The resolution of conflicts                                             *)
(***************************************************************************)
resolution == <<batch, tampered, req, initial, effects, faults>>

\* A mutant of Returnable: an item that was applied and suspected returns.
ReturnableApplied(k) ==
  /\ queue[k] = "conflict" /\ receipt[k].status = "conflict"
  /\ open[k] = 1

\* No effect was committed for the item, and this is its last open conflict.
Returnable(k) ==
  /\ queue[k] = "conflict" /\ receipt[k].status = "conflict"
  /\ ~receipt[k].applied
  /\ \A r \in Reservations :
       (/\ res[r].status # "absent"
        /\ DeviceOf[res[r].scope] = receipt[k].batch.device
        /\ receipt[k].number # 0)
         => used[r][receipt[k].number] # "applied"
  /\ open[k] = 1

RetryAfterCorrection(k) ==
  /\ open[k] > 0 /\ Returnable(k)
  /\ open' = [open EXCEPT ![k] = @ - 1]
  /\ queue' = [queue EXCEPT ![k] = "pending"]
  /\ receipt' = [receipt EXCEPT ![k].status = "pending"]
  /\ UNCHANGED resolution

\* Any other action closes the conflict and leaves the item as it is.
Resolve(k) ==
  /\ open[k] > 0
  /\ open' = [open EXCEPT ![k] = @ - 1]
  /\ UNCHANGED <<resolution, queue, receipt>>

-----------------------------------------------------------------------------
SubmissionStep(q) ==
  \/ \E b \in Batches : Open(q, b) \/ Contended(q, b)
  \/ Wait(q)
  \/ Preflight(q)
  \/ ApplyDuplicate(q)
  \/ Defer(q)
  \/ Refuse(q)
  \/ Record(q)
  \/ Close(q)
  \/ Abort(q)
  \/ Die(q)

Next ==
  \/ NumberingNext /\ UNCHANGED submission
  \/ /\ \/ \E q \in Requests : SubmissionStep(q)
        \/ \E k \in Keys : RetryAfterCorrection(k) \/ Resolve(k)
     /\ UNCHANGED numbering
  \/ /\ \E q \in Requests : ApplyItem(q) \/ Fail(q)
     /\ UNCHANGED <<range, res, changes>>

Spec == Init /\ [][Next]_vars

-----------------------------------------------------------------------------
(***************************************************************************)
(* An item takes effect once, whatever batches carry its key, whoever      *)
(* takes a lease over, and however its conflicts are resolved; and no two  *)
(* effects carry one official number.                                      *)
(***************************************************************************)
AppliedOnce ==
  \A e, f \in effects :
    (e.key = f.key \/ (e.number = f.number /\ e.number # 0)) => e = f

(***************************************************************************)
(* A closed batch, whose answer is final, left nothing to be done: an item *)
(* it answers as applied took effect, and an item it stored is not waiting *)
(* for a submission that will never run it (only a pending item is applied *)
(* again by a later batch).                                                *)
(***************************************************************************)
ClosedBatchSettled ==
  \A b \in Batches : batch[b].status = "closed" =>
    /\ \A i \in DOMAIN b.items :
         batch[b].response[i] = "applied" => \E e \in effects : e.key = b.items[i].key
    /\ \A k \in Keys :
         (receipt[k].batch = b /\ receipt[k].status = "received") => receipt[k].final
=============================================================================
