--------------------------- MODULE AggregateQueue ---------------------------
(***************************************************************************)
(* What the event mode of the outbox promises its users: an append-only    *)
(* log of events, each queued behind the open events of its aggregate.     *)
(* Only the head of an aggregate is handed to the transport, possibly many *)
(* times; an open event is settled once, by an ACK or by an operator, and  *)
(* only then is its successor handed over.                                 *)
(***************************************************************************)
EXTENDS Naturals, Sequences

CONSTANTS
  Aggregates,
  MaxEvents

VARIABLES
  events,   \* the aggregate of each event, in log order
  outcome,  \* "NONE" (no destination), "OPEN", "ACKED" or "RETIRED"
  handed    \* events handed to the transport at least once

qvars == <<events, outcome, handed>>

Slot == 1 .. MaxEvents

\* No earlier event of the aggregate is open.
AtHead(e) == \A p \in 1 .. (e - 1) : events[p] = events[e] => outcome[p] # "OPEN"

QueueInit ==
  /\ events = <<>>
  /\ outcome = [e \in Slot |-> "NONE"]
  /\ handed = {}

Publish(a, o) ==
  /\ Len(events) < MaxEvents
  /\ events' = Append(events, a)
  /\ outcome' = [outcome EXCEPT ![Len(events) + 1] = o]
  /\ UNCHANGED handed

Hand(S) ==
  /\ \A e \in S : outcome[e] = "OPEN" /\ AtHead(e)
  /\ handed' = handed \cup S
  /\ UNCHANGED <<events, outcome>>

Settle(e, o) ==
  /\ outcome[e] = "OPEN"
  /\ outcome' = [outcome EXCEPT ![e] = o]
  /\ UNCHANGED <<events, handed>>

QueueNext ==
  \/ \E a \in Aggregates, o \in {"NONE", "OPEN"} : Publish(a, o)
  \/ \E S \in SUBSET Slot : Hand(S)
  \/ \E e \in Slot, o \in {"ACKED", "RETIRED"} : Settle(e, o)

QueueSpec == QueueInit /\ [][QueueNext]_qvars
=============================================================================
