---------------------------- MODULE MCLifecycle -----------------------------
(***************************************************************************)
(* The configurations that the runs of Lifecycle choose from.              *)
(***************************************************************************)
EXTENDS Lifecycle, TLC

From(file, env) == [file |-> file, env |-> env]

Nothing == <<>>
Dsn == [pgConnString |-> "postgres://"]
\* config.yaml of the repository, with pgsslmode once: YAML does not take the
\* key a second time.
Sample == [pgHost |-> "localhost:5432", pgPassword |-> "SECURE_PASSWORD",
           pgSslMode |-> "prefer", logFormat |-> "json",
           ipExtractor |-> "direct", validEventNames |-> {},
           queueSize |-> 640000, batchMaxMsec |-> 500, pruneCheckHours |-> 24]

MCSources ==
  { From(Nothing, Dsn),
    \* The sample as it is, and with the host from the environment.
    From(Sample, Nothing),
    From(Sample, [pgHost |-> "localhost"]),
    \* A file that would be rejected, and an environment that repairs it.
    From([logFormat |-> "xml", ipExtractor |-> "proxy"],
         Dsn @@ [logFormat |-> "text", ipExtractor |-> "xff"]),
    \* Rejected by validateConfig and by setupLogger.
    From(Nothing, [pgHost |-> "localhost"]),
    From(Nothing, Dsn @@ [logFormat |-> "xml"]),
    \* Rejected after the migrations, or by a goroutine.
    From(Nothing, Dsn @@ [trustedProxies |-> {"proxy.internal"}]),
    From(Nothing, Dsn @@ [queueSize |-> -1]),
    From(Nothing, Dsn @@ [batchMaxMsec |-> 0]),
    From(Nothing, Dsn @@ [pruneCheckHours |-> 0]) }
=============================================================================
