SPECIFICATION FairSpec
CONSTANTS
  k1 = k1
  f1 = f1
  f2 = f2
  r1 = r1
  r2 = r2
  r3 = r3
  Requests = {r1, r2, r3}
  Keys = {k1}
  Fingerprints = {f1, f2}
  KeyOf <- MCKeyOf
  FingerprintOf <- MCFingerprintOf
  Ttl = 1
  MaxTime = 2
  None = None
INVARIANTS
  SerialExecutions
  AnswersTruthful
  NoStrandedReservation
PROPERTIES
  WaitBounded
CHECK_DEADLOCK FALSE
