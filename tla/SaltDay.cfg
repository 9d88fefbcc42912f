SPECIFICATION Spec
CONSTANTS
  p1 = p1
  p2 = p2
  c1 = c1
  c2 = c2
  Processes = {p1, p2}
  Callers = {c1}
  Day = 2
  PoolSize = 1
  MaxTime = 1
  MaxCalls = 2
  MaxFaults = 0
CHECK_DEADLOCK FALSE
INVARIANTS
  OneSaltForTheDay
