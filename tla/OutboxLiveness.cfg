SPECIFICATION FairSpec
CONSTANTS
  a1 = a1
  a2 = a2
  a3 = a3
  d1 = d1
  d2 = d2
  k1 = k1
  k2 = k2
  Aggregates = {a1, a2, a3}
  Dispatchable = {a1, a2}
  Ported = {a1}
  Dispatchers = {d1}
  AppDispatchers = {}
  RetireKeys = {k1}
  UnboundReasons = {"invalid-hmac"}
  Lease = 1
  Backoffs = {0, 1}
  BatchSize = 2
  MaxEvents = 2
  MaxAttempts = 2
  NULL = NULL
PROPERTIES
  NeverStranded
  ImplementsQueue
CHECK_DEADLOCK FALSE
