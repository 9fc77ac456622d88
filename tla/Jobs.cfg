SPECIFICATION FairSpec
CONSTANTS
  a = a
  s = s
  w1 = w1
  w2 = w2
  c1 = c1
  c2 = c2
  None = None
  OneShots = {a}
  Schedules = {s}
  Workers = {w1, w2}
  Schedulers = {c1, c2}
  MaxAttempts = 2
  BatchSize = 2
  Visibility = 1
  Delays = {0, 1}
  Interval = 1
  MaxOccurrences = 1
  MaxFaults = 1
  MaxSlow = 1
  MaxEdits = 2
INVARIANTS
  AwaitedAttemptCurrent
  AttemptBudget
  ScheduleInForce
PROPERTIES
  TerminalFinal
  EveryJobSettles
CHECK_DEADLOCK FALSE
