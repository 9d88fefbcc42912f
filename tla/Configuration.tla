--------------------------- MODULE Configuration ----------------------------
(***************************************************************************)
(* The configuration of a server process: how getConfig (main package)     *)
(* merges its sources, and what the parts of New accept.  Only the keys    *)
(* are here whose value decides how the start goes or which events are     *)
(* taken; values are reduced to the cases that the code tells apart.       *)
(*                                                                         *)
(* A source is a function from the keys that it sets to their values.      *)
(* viper (external) takes an environment variable that is empty as one     *)
(* that is not set, so that no environment maps a key to an empty value.   *)
(***************************************************************************)
EXTENDS Integers

Tracked == {"load", "visible", "hidden", "hashchange", "ping"}

\* SetConfigDefaults.  Connection settings have none.
Defaults ==
  [pgConnString |-> "", pgHost |-> "", pgPassword |-> "",
   pgSslMode |-> "prefer", ipExtractor |-> "direct", trustedProxies |-> {},
   logFormat |-> "json", queueSize |-> 640000, batchMaxMsec |-> 500,
   pruneCheckHours |-> 24, validEventNames |-> Tracked]

Keys == DOMAIN Defaults

\* getConfig: defaults < config file < environment variables, key by key.
Merged(file, env) ==
  [k \in Keys |-> IF k \in DOMAIN env THEN env[k]
                  ELSE IF k \in DOMAIN file THEN file[k]
                  ELSE Defaults[k]]

\* validateConfig on the connection: PGCONNSTRING begins with postgres://, or
\* every part of it is given.  (PGDATABASE and PGUSER are like PGPASSWORD.)
ValidConnection(config) ==
  IF config.pgConnString = ""
  THEN config.pgHost # "" /\ config.pgPassword # ""
  ELSE config.pgConnString = "postgres://"

\* validateConfig.
ValidConfig(config) ==
  /\ config.pgSslMode \in {"disable", "allow", "prefer", "require",
                           "verify-ca", "verify-full"}
  /\ ValidConnection(config)
  /\ config.ipExtractor \in {"direct", "xff", "realip"}

\* setupLogger.
ValidLogger(config) == config.logFormat \in {"text", "json"}

\* pgxpool.New parses the connection string.  That of validateConfig has a port
\* after PGHOST, and a PGHOST with a port of its own makes it two.
ValidPool(config) ==
  config.pgConnString # "" \/ config.pgHost # "localhost:5432"

\* make(chan PicolyticsEvent, QueueSize) panics for a negative size.
ValidQueue(config) == config.queueSize >= 0

\* proxySetup parses each trusted proxy as a CIDR.
ValidProxies(config) == config.trustedProxies \subseteq {"10.0.0.0/8"}

\* time.NewTicker panics for an interval that is not positive.
ValidWorkerTicker(config) == config.batchMaxMsec > 0
ValidPrunerTicker(config) == config.pruneCheckHours > 0
=============================================================================
