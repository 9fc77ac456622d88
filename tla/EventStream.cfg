SPECIFICATION FairStreamSpec
CONSTANTS
  t1 = t1
  t2 = t2
  c1 = c1
  c2 = c2
  k1 = k1
  k2 = k2
  k3 = k3
  NULL = NULL
  Appenders = {t1, t2}
  Keys = {k1, k2, k3}
  Connections = {c1, c2}
  MaxPerActor = 1
  BatchSize = 2
  ReplayWindow = 1
  MaxWall = 1
  MaxSeq = 2
  MaxOpens = 2
INVARIANTS
  StreamTypeOK
  CommitOrder
  NothingMissed
  SlotsAccounted
PROPERTIES
  EventuallyStreamed
CHECK_DEADLOCK FALSE
