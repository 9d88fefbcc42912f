SPECIFICATION FairSpec
CONSTANTS
  p1 = p1
  p2 = p2
  c1 = c1
  c2 = c2
  Processes = {p1, p2}
  Callers = {c1, c2}
  Day = 1
  PoolSize = 2
  MaxTime = 2
  MaxCalls = 3
  MaxFaults = 1
CHECK_DEADLOCK FALSE
INVARIANTS
  TypeOK
  MemoryIsTable
  RowsBounded
PROPERTIES
  ReplacedOnlyWhenExpired
  Answered
