SPECIFICATION PruningFairSpec
CONSTANTS
  w1 = w1
  w2 = w2
  Workers = {w1}
  Events <- MCOneVisitor
  Timeout = 1
  SessionIds = {1, 2, 3, 4}
  MaxTime = 2
  MaxReceived = 2
  MaxFaults = 0
  PruneDays = 1
CHECK_DEADLOCK FALSE
PROPERTIES
  Pruned
