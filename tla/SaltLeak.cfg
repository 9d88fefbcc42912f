SPECIFICATION FairSpec
CONSTANTS
  p1 = p1
  p2 = p2
  c1 = c1
  c2 = c2
  Processes = {p1}
  Callers = {c1}
  Day = 1
  PoolSize = 1
  MaxTime = 1
  MaxCalls = 2
  MaxFaults = 1
CHECK_DEADLOCK FALSE
PROPERTIES
  Answered
