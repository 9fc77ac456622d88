SPECIFICATION CutoverSpec
CONSTANTS
  a1 = a1
  a2 = a2
  d1 = d1
  p1 = p1
  p2 = p2
  k1 = k1
  Aggregates = {a1}
  Dispatchable = {a1}
  Ported = {a1}
  Dispatchers = {d1}
  AppDispatchers = {d1}
  RetireKeys = {k1}
  UnboundReasons = {}
  Senders = {p1}
  Lease = 1
  Backoffs = {1}
  BatchSize = 1
  MaxEvents = 2
  MaxAttempts = 2
  NULL = NULL
INVARIANTS
  NoStrandedMessage
  UnresolvedUntilOutcome
  AckCarriedOver
  MigratedOrder
CHECK_DEADLOCK FALSE
