----------------------------- MODULE Lifecycle ------------------------------
(***************************************************************************)
(* How a server process starts and ends (main.go, picolytics.go,           *)
(* setupdb.go).  New checks the configuration, connects to the database    *)
(* with retries, migrates it and constructs the parts, some of which check *)
(* more of the configuration; Run starts their goroutines.  A signal wakes *)
(* HandleShutdown, which starts a goroutine that stops the API, the worker *)
(* and the connection pool one after the other, and waits for it for two   *)
(* seconds.  main has deferred Picolytics.Shutdown, which sends to the     *)
(* signal channel itself when HandleShutdown has returned.                 *)
(*                                                                         *)
(* Of the requests and of the worker only what can hold the shutdown up is *)
(* here: a request in flight, and a connection held by a save.             *)
(***************************************************************************)
EXTENDS Integers, Configuration

CONSTANTS
  Sources,         \* the [file, env] from which the configuration may come
  PgConnAttempts,  \* configuration: the attempt after which New gives up
  SkipMigrations,  \* configuration
  MaxDuration,     \* the largest time.Duration, in seconds
  MaxRequests,     \* bound: requests in flight
  MaxSignals       \* bound: signals sent to the process

ASSUME LifecycleAssumption ==
  /\ PgConnAttempts \in Nat
  /\ SkipMigrations \in BOOLEAN
  /\ MaxDuration \in Nat
  /\ MaxRequests \in Nat
  /\ MaxSignals \in Nat

VARIABLES
  source,     \* the sources of the configuration
  main,       \* the main goroutine
  tries,      \* how often setupDB has tried in vain to acquire a connection
  slept,      \* for how long it has slept between tries, in units of 50 ms
  schema,     \* the schema of the database, as far as the process knows
  sent,       \* how many signals were sent to the process
  quit,       \* how many values are in p.quit, a channel of capacity one
  stopper,    \* the shutdown goroutine, by the variable `step`
  expired,    \* are the two seconds of the context over?
  api,        \* the server of the API
  inFlight,   \* how many requests are being handled
  workerQuit, \* the token of w.quit
  worker,     \* the worker goroutine
  conn,       \* does its save hold a connection?
  pool        \* the connection pool

vars == <<source, main, tries, slept, schema, sent, quit, stopper, expired,
          api, inFlight, workerQuit, worker, conn, pool>>
startVars == <<source, tries, slept, schema>>
mainVars == <<source, main, tries, slept, schema, quit, expired>>
apiVars == <<api, inFlight>>
workerVars == <<worker, conn>>

Starting == {"config", "connect", "backoff", "migrate", "construct"}
Running == {"run", "receive", "select", "deferred"}
Ended == {"exit 0", "exit 1", "exit 2", "killed"}

Exited == main \in Ended

config == Merged(source.file, source.env)

Init ==
  /\ source \in Sources
  /\ main = "config"
  /\ tries = 0
  /\ slept = 0
  /\ schema = "unknown"
  /\ sent = 0
  /\ quit = 0
  /\ stopper = "none"
  /\ expired = FALSE
  /\ api = "none"
  /\ inFlight = 0
  /\ workerQuit = "unsent"
  /\ worker = "none"
  /\ conn = FALSE
  /\ pool = "none"
-----------------------------------------------------------------------------
(***************************************************************************)
(* The main goroutine, up to the end of Run.                               *)
(***************************************************************************)
\* A part of New has returned without an error.
StartStep(from, to) ==
  /\ main = from
  /\ main' = to
  /\ UNCHANGED <<source, sent, quit, stopper, expired, inFlight, workerQuit,
                 conn>>

\* What New asks of the configuration before it turns to the database.
Accepted(c) == ValidConfig(c) /\ ValidLogger(c) /\ ValidPool(c)

\* The configuration is valid and pgxpool.New makes a pool; it does not
\* connect.
AcceptConfig ==
  /\ StartStep("config", "connect")
  /\ Accepted(config)
  /\ pool' = "open"
  /\ UNCHANGED <<startVars, api, worker>>

RejectConfig ==
  /\ StartStep("config", "exit 1")
  /\ ~Accepted(config)
  /\ UNCHANGED <<startVars, api, worker, pool>>

\* setupDB gets a connection for the migrations, and returns at once when they
\* are to be skipped.  The count of the attempts ends with their loop.
AcquireSucceeds ==
  /\ StartStep("connect", IF SkipMigrations THEN "construct" ELSE "migrate")
  /\ tries' = 0
  /\ slept' = 0
  /\ UNCHANGED <<schema, api, worker, pool>>

\* Fault: each attempt counts as the first.
AcquireFailsUncounted ==
  /\ StartStep("connect", IF tries >= PgConnAttempts THEN "exit 1" ELSE "backoff")
  /\ tries' = 1
  /\ UNCHANGED <<slept, schema, api, worker, pool>>
\* setupDB sleeps and tries again, or gives up.
AcquireFails ==
  /\ StartStep("connect", IF tries >= PgConnAttempts THEN "exit 1" ELSE "backoff")
  /\ tries' = tries + 1
  /\ UNCHANGED <<slept, schema, api, worker, pool>>

MaxDelay == 10

\* A delay of d seconds with its jitter of 5 per cent, up or down, in units.
Jittered(d) == (19 * d)..(21 * d)

\* Fault: the delay is that of the first attempt each time.
DelaysOfFirst(attempt) == {0}
\* backoffWithJitter: half a second, cut to a whole number of seconds, and
\* doubled for each attempt.  It is capped after it was made a Duration: one
\* that does not fit has wrapped around, and may be anything up to the cap and
\* its jitter, or negative (no sleep).
Delays(attempt) ==
  LET seconds == IF attempt = 0 THEN 0 ELSE 2^(attempt - 1)
  IN IF seconds > MaxDuration
     THEN 0..(21 * MaxDelay)
     ELSE Jittered(IF seconds > MaxDelay THEN MaxDelay ELSE seconds)

\* time.Sleep(backoffWithJitter(attempt)), where attempts count from 0.
BackoffOver ==
  /\ StartStep("backoff", "connect")
  /\ \E delay \in Delays(tries - 1) : slept' = slept + delay
  /\ UNCHANGED <<tries, schema, api, worker, pool>>

\* Fault: setupDB returns before it has migrated.
MigrateNothing ==
  /\ StartStep("migrate", "construct")
  /\ UNCHANGED <<startVars, api, worker, pool>>
\* setupDB migrates and returns; the connection is released.  The statements
\* of the migrations, and the lock that they begin with, have no timeout.
Migrate ==
  /\ StartStep("migrate", "construct")
  /\ schema' = "migrated"
  /\ UNCHANGED <<tries, slept, api, worker, pool>>

MigrateFails ==
  /\ StartStep("migrate", "exit 1")
  /\ UNCHANGED <<startVars, api, worker, pool>>

\* Worker, API and pruner are made; from now on signals go to p.quit.
Construct ==
  /\ StartStep("construct", "run")
  /\ ValidQueue(config) /\ ValidProxies(config)
  /\ UNCHANGED <<startVars, api, worker, pool>>

\* NewWorker cannot open the GeoIP file, or NewEchoAPI has no static files or
\* cannot read the list of proxies: New returns an error, main ends.
ConstructFails ==
  /\ StartStep("construct", "exit 1")
  /\ UNCHANGED <<startVars, api, worker, pool>>

\* NewWorker panics.
ConstructPanics ==
  /\ StartStep("construct", "exit 2")
  /\ ~ValidQueue(config)
  /\ UNCHANGED <<startVars, api, worker, pool>>

\* Run starts the goroutines of API, worker, pruner and admin API.
Run ==
  /\ StartStep("run", "receive")
  /\ api' = "starting"
  /\ worker' = "starting"
  /\ UNCHANGED <<startVars, pool>>

\* A goroutine that panics ends the process.
Panic ==
  /\ main \in Running \ {"run"}
  /\ main' = "exit 2"
  /\ UNCHANGED <<startVars, sent, quit, stopper, expired, apiVars, workerQuit,
                 workerVars, pool>>

\* The worker or the pruner cannot make its ticker.
WorkerPanics == worker = "starting" /\ ~ValidWorkerTicker(config) /\ Panic
PrunerPanics == ~ValidPrunerTicker(config) /\ Panic

\* runAdmin ends the process when the admin API cannot listen any more.
AdminFails ==
  /\ main \in Running \ {"run"}
  /\ main' = "exit 1"
  /\ UNCHANGED <<startVars, sent, quit, stopper, expired, apiVars, workerQuit,
                 workerVars, pool>>
-----------------------------------------------------------------------------
(***************************************************************************)
(* Signals, and the main goroutine from HandleShutdown on.                 *)
(***************************************************************************)
\* Before signal.Notify a signal kills the process.
SignalKills ==
  /\ main \in Starting
  /\ sent < MaxSignals
  /\ sent' = sent + 1
  /\ main' = "killed"
  /\ UNCHANGED <<startVars, quit, stopper, expired, apiVars, workerQuit,
                 workerVars, pool>>

\* Fault: the channel has room for every signal.
SignalQueued ==
  /\ main \in Running
  /\ sent < MaxSignals
  /\ sent' = sent + 1
  /\ quit' = quit + 1
  /\ UNCHANGED <<main, startVars, stopper, expired, apiVars, workerQuit,
                 workerVars, pool>>
\* The runtime drops a signal for which the channel has no room.
Signal ==
  /\ main \in Running
  /\ sent < MaxSignals
  /\ sent' = sent + 1
  /\ quit' = 1
  /\ UNCHANGED <<main, startVars, stopper, expired, apiVars, workerQuit,
                 workerVars, pool>>

\* `<-p.quit`, and the shutdown goroutine is started.
ReceiveSignal ==
  /\ main = "receive"
  /\ quit = 1
  /\ quit' = 0
  /\ main' = "select"
  /\ stopper' = "stopMetrics"
  /\ UNCHANGED <<startVars, sent, expired, apiVars, workerQuit, workerVars,
                 pool>>

TimeoutExpires ==
  /\ main = "select"
  /\ ~expired
  /\ expired' = TRUE
  /\ UNCHANGED <<startVars, sent, quit, main, stopper, apiVars, workerQuit,
                 workerVars, pool>>

\* `case <-done`: HandleShutdown returns.
ShutdownCompleted ==
  /\ main = "select"
  /\ stopper = "done"
  /\ main' = "deferred"
  /\ UNCHANGED <<startVars, sent, quit, stopper, expired, apiVars, workerQuit,
                 workerVars, pool>>

\* Fault: the timeout is for the API alone.
ShutdownTimedOutInAPI ==
  /\ main = "select"
  /\ expired
  /\ stopper = "api.Shutdown"
  /\ main' = "exit 1"
  /\ UNCHANGED <<startVars, sent, quit, stopper, expired, apiVars, workerQuit,
                 workerVars, pool>>
\* `case <-ctx.Done()`.
ShutdownTimedOut ==
  /\ main = "select"
  /\ expired
  /\ main' = "exit 1"
  /\ UNCHANGED <<startVars, sent, quit, stopper, expired, apiVars, workerQuit,
                 workerVars, pool>>

\* main's deferred Shutdown sends to p.quit, and waits while there is no room.
DeferredShutdown ==
  /\ main = "deferred"
  /\ quit = 0
  /\ quit' = 1
  /\ main' = "exit 0"
  /\ UNCHANGED <<startVars, sent, stopper, expired, apiVars, workerQuit,
                 workerVars, pool>>
-----------------------------------------------------------------------------
(***************************************************************************)
(* The shutdown goroutine.                                                 *)
(***************************************************************************)
\* Fault: the listeners stay open while requests are waited for.
StopListeningLate ==
  /\ ~Exited
  /\ stopper = "stopMetrics"
  /\ stopper' = "api.Shutdown"
  /\ UNCHANGED <<sent, mainVars, apiVars, workerQuit, workerVars, pool>>
\* stopMetrics, and api.Shutdown closes the listeners.
StopListening ==
  /\ ~Exited
  /\ stopper = "stopMetrics"
  /\ stopper' = "api.Shutdown"
  /\ api' = "stopped"
  /\ UNCHANGED <<sent, mainVars, inFlight, workerQuit, workerVars, pool>>

\* Fault: requests in flight are not waited for.
ApiStopsAtOnce ==
  /\ ~Exited
  /\ stopper = "api.Shutdown"
  /\ stopper' = "worker.Shutdown"
  /\ UNCHANGED <<sent, mainVars, apiVars, workerQuit, workerVars, pool>>
\* api.Shutdown returns when no request is in flight or its context is done.
ApiStops ==
  /\ ~Exited
  /\ stopper = "api.Shutdown"
  /\ inFlight = 0 \/ expired
  /\ stopper' = "worker.Shutdown"
  /\ UNCHANGED <<sent, mainVars, apiVars, workerQuit, workerVars, pool>>

\* worker.Shutdown sends the token and does not wait for the worker.
StopWorker ==
  /\ ~Exited
  /\ stopper = "worker.Shutdown"
  /\ workerQuit' = "sent"
  /\ stopper' = "pool.Close"
  /\ UNCHANGED <<sent, mainVars, apiVars, workerVars, pool>>

\* pool.Close is called: the pool gives no connections from now on.
PoolCloseStarts ==
  /\ ~Exited
  /\ stopper = "pool.Close"
  /\ pool = "open"
  /\ pool' = "closing"
  /\ UNCHANGED <<sent, mainVars, stopper, apiVars, workerQuit, workerVars>>

\* Fault: connections in use are not waited for.
PoolClosesAtOnce ==
  /\ ~Exited
  /\ stopper = "pool.Close"
  /\ pool = "closing"
  /\ pool' = "closed"
  /\ stopper' = "done"
  /\ UNCHANGED <<sent, mainVars, apiVars, workerQuit, workerVars>>
\* pool.Close returns when every connection was given back.
PoolCloses ==
  /\ ~Exited
  /\ stopper = "pool.Close"
  /\ pool = "closing"
  /\ ~conn
  /\ pool' = "closed"
  /\ stopper' = "done"
  /\ UNCHANGED <<sent, mainVars, apiVars, workerQuit, workerVars>>
-----------------------------------------------------------------------------
(***************************************************************************)
(* Requests and the worker.                                                *)
(***************************************************************************)
\* The API goroutine listens; after a Shutdown it does not any more.
ApiStarts ==
  /\ ~Exited
  /\ api = "starting"
  /\ api' = "serving"
  /\ UNCHANGED <<sent, mainVars, stopper, inFlight, workerQuit, workerVars,
                 pool>>

\* It cannot listen: this is logged, and the process goes on without an API.
ApiStartFails ==
  /\ ~Exited
  /\ api = "starting"
  /\ api' = "failed"
  /\ UNCHANGED <<sent, mainVars, stopper, inFlight, workerQuit, workerVars,
                 pool>>

RequestArrives ==
  /\ ~Exited
  /\ api = "serving"
  /\ inFlight < MaxRequests
  /\ inFlight' = inFlight + 1
  /\ UNCHANGED <<sent, mainVars, stopper, api, workerQuit, workerVars, pool>>

RequestAnswered ==
  /\ ~Exited
  /\ inFlight > 0
  /\ inFlight' = inFlight - 1
  /\ UNCHANGED <<sent, mainVars, stopper, api, workerQuit, workerVars, pool>>

\* processQueuedEvents reaches its loop.
WorkerStarts ==
  /\ ~Exited
  /\ worker = "starting"
  /\ ValidWorkerTicker(config)
  /\ worker' = "select"
  /\ UNCHANGED <<sent, mainVars, stopper, apiVars, workerQuit, conn, pool>>

\* processBatch is called.
SaveStarts ==
  /\ ~Exited
  /\ worker = "select"
  /\ worker' = "saving"
  /\ UNCHANGED <<sent, mainVars, stopper, apiVars, workerQuit, conn, pool>>

\* A statement or transaction of saveEvents takes a connection.
AcquireConn ==
  /\ ~Exited
  /\ worker = "saving"
  /\ ~conn
  /\ pool = "open"
  /\ conn' = TRUE
  /\ UNCHANGED <<sent, mainVars, stopper, apiVars, workerQuit, worker, pool>>

\* It ends.  There is no timeout on it.
ReleaseConn ==
  /\ ~Exited
  /\ conn
  /\ conn' = FALSE
  /\ UNCHANGED <<sent, mainVars, stopper, apiVars, workerQuit, worker, pool>>

\* saveEvents returns: it is done, or a statement failed, as all do once the
\* pool is closing.
SaveEnds ==
  /\ ~Exited
  /\ worker = "saving"
  /\ ~conn
  /\ worker' = "select"
  /\ UNCHANGED <<sent, mainVars, stopper, apiVars, workerQuit, conn, pool>>

HandleQuit ==
  /\ ~Exited
  /\ worker = "select"
  /\ workerQuit = "sent"
  /\ workerQuit' = "taken"
  /\ worker' = "stopped"
  /\ UNCHANGED <<sent, mainVars, stopper, apiVars, conn, pool>>
-----------------------------------------------------------------------------
Start ==
  \/ AcceptConfig \/ RejectConfig \/ AcquireSucceeds \/ AcquireFails
  \/ BackoffOver \/ Construct \/ ConstructFails
  \/ ConstructPanics \/ Run

Migration == Migrate \/ MigrateFails

Main ==
  \/ ReceiveSignal \/ ShutdownCompleted \/ ShutdownTimedOut
  \/ DeferredShutdown

Stopper ==
  \/ StopListening \/ ApiStops \/ StopWorker \/ PoolCloseStarts
  \/ PoolCloses

Load ==
  \/ ApiStarts \/ ApiStartFails \/ RequestArrives \/ RequestAnswered
  \/ WorkerStarts \/ SaveStarts \/ AcquireConn \/ ReleaseConn \/ SaveEnds
  \/ HandleQuit

Next ==
  \/ SignalKills \/ Signal \/ AdminFails \/ WorkerPanics \/ PrunerPanics
  \/ TimeoutExpires
  \/ Start \/ Migration \/ Main \/ Stopper \/ Load

Spec == Init /\ [][Next]_vars

\* The goroutines of start and shutdown run and time passes.  Nothing is
\* assumed of clients and database, but that an attempt to connect ends, in a
\* connection or an error (pgx gives up on one after a time of its own): a
\* request, a statement or the migrations may last forever.
FairSpec ==
  /\ Spec
  /\ WF_vars(Start) /\ WF_vars(Main) /\ WF_vars(Stopper)
  /\ WF_vars(TimeoutExpires)
-----------------------------------------------------------------------------
(***************************************************************************)
(* Properties.                                                             *)
(***************************************************************************)
\* The parts of the type invariant, counters and states.
CountersOK ==
  /\ tries \in 0..(PgConnAttempts + 1)
  /\ slept \in Nat
  /\ sent \in 0..MaxSignals
  /\ quit \in 0..1
  /\ inFlight \in 0..MaxRequests

StatesOK ==
  /\ source \in Sources
  /\ main \in Starting \cup Running \cup Ended
  /\ schema \in {"unknown", "migrated"}
  /\ stopper \in {"none", "stopMetrics", "api.Shutdown", "worker.Shutdown",
                  "pool.Close", "done"}
  /\ expired \in BOOLEAN
  /\ api \in {"none", "starting", "serving", "failed", "stopped"}
  /\ workerQuit \in {"unsent", "sent", "taken"}
  /\ worker \in {"none", "starting", "select", "saving", "stopped"}
  /\ conn \in BOOLEAN
  /\ pool \in {"none", "open", "closing", "closed"}

\* The types of the variables; the signal channel holds at most one value.
TypeOK == CountersOK /\ StatesOK

\* What New and Run have done when main has reached a place.
StartOrder ==
  /\ main \in {"config", "connect", "backoff"} => tries <= PgConnAttempts
  /\ main = "backoff" => tries > 0
  /\ main \in Starting \cup {"run"} => api = "none" /\ worker = "none"
  /\ main \in Starting \cup {"run", "receive"} => stopper = "none"
  /\ main \in {"construct"} \cup Running /\ ~SkipMigrations =>
       schema = "migrated"
  /\ main \in (Starting \ {"config"}) \cup Running => pool # "none"
  /\ stopper # "none" => pool # "none"

\* What the shutdown goroutine has done when it has reached a step.
StopOrder ==
  /\ stopper \in {"none", "stopMetrics", "api.Shutdown", "worker.Shutdown"}
       => workerQuit = "unsent" /\ pool \in {"none", "open"}
  /\ stopper = "pool.Close"
       => workerQuit # "unsent" /\ pool \in {"open", "closing"}
  /\ stopper = "done" => workerQuit # "unsent" /\ pool = "closed" /\ ~conn
  /\ stopper \notin {"none", "stopMetrics"} => api = "stopped"
  /\ stopper \in {"worker.Shutdown", "pool.Close", "done"}
       => inFlight = 0 \/ expired
  /\ main \in {"deferred", "exit 0"} => stopper = "done"
  /\ conn => worker = "saving"

\* New, Run and HandleShutdown take their steps in this order, each when the
\* one before has returned, whatever fails, hangs or is signalled meanwhile;
\* and main exits with 0 only when the shutdown goroutine is done.
StepsInOrder == StartOrder /\ StopOrder

\* No request is taken and no event saved before setupDB has migrated the
\* database: Run comes after New, and New returns early on every error.
SchemaFirst ==
  (api # "none" \/ worker # "none") /\ ~SkipMigrations => schema = "migrated"

\* While a request is in flight within the two seconds, neither worker nor
\* pool is taken from it.
RequestsServedFirst ==
  workerQuit # "unsent" \/ pool \in {"closing", "closed"}
    => inFlight = 0 \/ expired

\* A process that exits with status 0 has cut no statement off: the pool is
\* closed, the worker was told to stop and holds no connection.
GracefulExit ==
  main \in {"deferred", "exit 0"} =>
    pool = "closed" /\ workerQuit # "unsent" /\ ~conn

\* The seconds that n failed attempts are worth, if no delay wraps around.
Pauses(n) ==
  IF n = 0 THEN 0 ELSE IF n <= 5 THEN 2^(n - 1) - 1 ELSE 15 + 10 * (n - 5)

\* README.md:130: PGCONNATTEMPTS is "Useful if started in docker-compose", where
\* the database comes up late.  A process does not give up before it has
\* waited, less what the jitter may take away: with the default of 5 attempts,
\* for 15 seconds less 5 per cent.  Delays that wrap around take nothing off
\* what was waited before them.
GivesUpLate ==
  main = "exit 1" /\ tries > PgConnAttempts =>
    \A n \in 0..PgConnAttempts :
      n >= 2 /\ 2^(n - 2) <= MaxDuration => slept >= 19 * Pauses(n)

\* The start stays nowhere but in the migrations: it ends in a server or an
\* error, also when the database never answers an attempt to connect (the
\* retries of setupDB are counted), unless migrations wait forever.
StartEnds == <>[](main \in Starting => main = "migrate")

\* A process that gets one signal exits, even if requests or statements hang
\* (HandleShutdown's timeout), and whenever it comes: while New still runs,
\* before main receives, or later.
ExitsAfterSignal == <>[](sent = 1) => <>Exited

\* picolytics.go:133, "exit signal handling": after a signal the process exits,
\* however many follow it.
Exits == sent > 0 ~> Exited

\* README.md:123: VALID_EVENT_NAMES and validEventNames are, "default if empty",
\* the names the tracker sends.  A server for which neither source names an
\* event takes them.
NamesNone(from) ==
  "validEventNames" \in DOMAIN from => from.validEventNames = {}
EmptyMeansDefault ==
  api = "serving" /\ NamesNone(source.file) /\ NamesNone(source.env)
    => config.validEventNames = Tracked
=============================================================================
