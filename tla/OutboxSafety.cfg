SPECIFICATION Spec
CONSTANTS
  a1 = a1
  a2 = a2
  a3 = a3
  d1 = d1
  d2 = d2
  k1 = k1
  k2 = k2
  Aggregates = {a1, a2}
  Dispatchable = {a1, a2}
  Ported = {a1, a2}
  Dispatchers = {d1, d2}
  AppDispatchers = {d2}
  RetireKeys = {k1, k2}
  UnboundReasons = {}
  Lease = 1
  Backoffs = {1}
  BatchSize = 2
  MaxEvents = 2
  MaxAttempts = 2
  NULL = NULL
SYMMETRY Symmetry
INVARIANTS
  TypeOK
  AggregateOrder
  AttemptOwnership
  LedgerComplete
  SentHasLease
  AckNotLost
  ErrorExplained
  RetirementReceipts
PROPERTIES
  FinishedIsFinal
  EvidenceImmutable
  LeasedOnlyAckFinishes
CHECK_DEADLOCK FALSE
