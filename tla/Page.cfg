SPECIFICATION FairSpec
CONSTANTS
  Pages = {p1, p2}
  PingInterval = 2
  RequestRateLimit = 2
  ValidEventNames = {"load", "visible", "hidden", "hashchange", "ping"}
  MaxActions = 1
  MaxLost = 1
  MaxMisses = 2
INVARIANTS
  TypeOK
  SilenceBounded
PROPERTIES
  FirstIsAView
  WatchedIsHeard
