SPECIFICATION Spec
CONSTANTS
  s1 = s1
  i1 = i1
  i2 = i2
  None = None
  Sids = {s1}
  Instances = {i1, i2}
  Access = 2
  Skew = 1
  MaxStale = 0
  MaxTime = 4
SYMMETRY Symmetry
INVARIANTS
  RevocationReaches
CHECK_DEADLOCK FALSE
