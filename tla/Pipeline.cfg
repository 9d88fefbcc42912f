SPECIFICATION FairSpec
CONSTANTS
  e1 = e1
  e2 = e2
  e3 = e3
  e4 = e4
  Events = {e1, e2, e3, e4}
  Name <- MCName
  Located <- MCLocated
  ValidEventNames <- MCValidEventNames
  Unsaveable <- MCOneUnsaveable
  QueueSize = 2
  BatchMaxSize = 2
  MaxSaveErrors = 2
CHECK_DEADLOCK FALSE
INVARIANTS
  TypeOK
  Accounting
  ExactlyOnce
  DuplicatesOnlyAfterError
  FullBatchOnlyAfterError
PROPERTIES
  NothingForgotten
  Delivered
  RefinesEventLog
