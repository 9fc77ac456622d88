SPECIFICATION Spec
CONSTANTS
  s1 = s1
  s2 = s2
  s3 = s3
  t1 = t1
  t2 = t2
  h1 = h1
  h2 = h2
  h3 = h3
  c1 = c1
  c2 = c2
  None = None
  Sids = {s1, s2, s3}
  Tenants = {t1, t2}
  Tokens = {h1, h2, h3}
  Calls = {c1, c2}
  Mode = "revoke-existing"
  Idle = 2
  Absolute = 3
  MaxTime = 2
SYMMETRY Symmetry
INVARIANTS
  TokenSpentOnce
  RevokedStaysGone
  SingleSession
CHECK_DEADLOCK FALSE
