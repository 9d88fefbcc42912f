SPECIFICATION FairSpec
CONSTANTS
  Sources <- MCSources
  PgConnAttempts = 7
  SkipMigrations = FALSE
  MaxDuration = 16
  MaxRequests = 2
  MaxSignals = 2
CHECK_DEADLOCK FALSE
INVARIANTS
  TypeOK
  StepsInOrder
  SchemaFirst
  RequestsServedFirst
  GracefulExit
  GivesUpLate
PROPERTIES
  StartEnds
  ExitsAfterSignal
