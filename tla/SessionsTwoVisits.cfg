SPECIFICATION Spec
CONSTANTS
  w1 = w1
  w2 = w2
  Workers = {w1, w2}
  Events <- MCOneVisitor
  Timeout = 2
  SessionIds = {1, 2, 3, 4}
  MaxTime = 1
  MaxReceived = 2
  MaxFaults = 0
CHECK_DEADLOCK FALSE
INVARIANTS
  OneVisitAtATime
