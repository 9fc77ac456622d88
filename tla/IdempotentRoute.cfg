SPECIFICATION Spec
CONSTANTS
  r1 = r1
  r2 = r2
  r3 = r3
  f1 = f1
  f2 = f2
  None = None
  Requests = {r1, r2, r3}
  Fingerprints = {f1, f2}
  FingerprintOf <- MCFingerprintOf
  Modes = {TRUE, FALSE}
  MaxFaults = 1
  MaxExpiries = 2
SYMMETRY MCSymmetry
INVARIANTS
  StrictExclusion
  StrictRecord
CHECK_DEADLOCK FALSE
