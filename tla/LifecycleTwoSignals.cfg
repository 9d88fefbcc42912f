SPECIFICATION FairSpec
CONSTANTS
  Sources <- MCSources
  PgConnAttempts = 1
  SkipMigrations = FALSE
  MaxDuration = 16
  MaxRequests = 1
  MaxSignals = 2
CHECK_DEADLOCK FALSE
PROPERTIES
  Exits
