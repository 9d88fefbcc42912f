SPECIFICATION SavingFairSpec
CONSTANTS
  w1 = w1
  w2 = w2
  Workers = {w1, w2}
  Events <- MCOneReader
  Timeout = 1
  SessionIds = {1, 2, 3, 4}
  MaxTime = 1
  MaxReceived = 2
  MaxFaults = 1
  PruneDays = 0
CHECK_DEADLOCK FALSE
INVARIANTS
  LiveSessionsBounded
PROPERTIES
  KeptForever
  BounceStaysCleared
  Saved
