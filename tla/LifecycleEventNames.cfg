SPECIFICATION Spec
CONSTANTS
  Sources <- MCSources
  PgConnAttempts = 1
  SkipMigrations = FALSE
  MaxDuration = 16
  MaxRequests = 1
  MaxSignals = 0
CHECK_DEADLOCK FALSE
INVARIANTS
  EmptyMeansDefault
