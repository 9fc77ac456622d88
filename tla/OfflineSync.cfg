SPECIFICATION Spec
CONSTANTS
  d1 = d1
  d2 = d2
  s1 = s1
  s2 = s2
  r1 = r1
  r2 = r2
  q1 = q1
  q2 = q2
  k1 = k1
  k2 = k2
  h1 = h1
  h2 = h2
  None = None
  Devices = {d1, d2}
  Scopes = {s1, s2}
  DeviceOf <- MCDeviceOf
  Reservations = {r1, r2}
  Sizes = {1}
  Last = 1
  Requests = {q1, q2}
  Keys = {k1, k2}
  Hashes = {h1, h2}
  Batches <- MCBatches
  MaxFaults = 1
  MaxChanges = 2
SYMMETRY Symmetry
INVARIANTS
  OfficialNumberOnce
  AppliedOnce
  ClosedBatchSettled
CHECK_DEADLOCK FALSE
