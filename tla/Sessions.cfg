SPECIFICATION Spec
CONSTANTS
  w1 = w1
  w2 = w2
  Workers = {w1}
  Events <- MCTwoVisitors
  Timeout = 2
  SessionIds = {1, 2, 3, 4}
  MaxTime = 3
  MaxReceived = 3
  MaxFaults = 1
CHECK_DEADLOCK FALSE
INVARIANTS
  TypeOK
  RowsConsistent
  OneVisitAtATime
  EventsConserved
  IdleVisitorGetsNewSession
  ActiveVisitorKeepsSession
  BounceUntilReadOn
PROPERTIES
  RefinesVisits
