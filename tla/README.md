# A TLA+ model of picolytics

Picolytics is a web analytics server: a script in the page posts events, a Go
server queues them, and a worker writes them to Postgres, grouped into sessions
of anonymous visitors. This directory holds TLA+ modules of the parts where
order, failure and concurrency matter, TLC runs that check them on small
instances, and proofs of the main theorems that TLAPS checks.

`PROJECT.json` is the index: components, runs, the code lines every definition
stands for (`map`), findings, hazards, theorems, and for each property a mutated
definition that breaks it. The mutated definitions stand in the modules before
the definition they change, under a comment that starts with `Fault:`; no
specification uses them.

## The system

| Part | Code | State | Operations |
|---|---|---|---|
| Browser tracker | `static/picolytics.js` | page visibility, interval | load, ping, visibilitychange, popstate, hashchange: send a beacon |
| HTTP API | `api.go` | rate limiter's buckets, static files, listener | serve the script, limit requests, start, shut down |
| Tracker handler | `trackers.go` | none | `POST /p`: refuse, or `go SaveEvent` and 202 |
| Event saver | `event.go` | one goroutine per event | parse, visitor id, send to the channel or drop |
| Daily salt | `salter.go` | salt and its time under a mutex; table `salt` | `getSalt`: from memory, or refreshed in a transaction |
| Worker loop | `worker.go` | channel, batch, ticker, quit token | receive, tick, save the batch, quit |
| Session store | `worker_db.go`, `db/`, `query.sql`, migrations | tables `domains`, `sessions`, `events` | upsert domains; a transaction per event; COPY of the events |
| Pruner | `prune.go` | ticker | delete old events, then old sessions |
| Configuration | `config.go`, `cmd/picolytics/config.go` | defaults, file, environment | merge, validate |
| Database setup | `setupdb.go` | attempts | connect with backoff, migrate |
| Lifecycle | `picolytics.go`, `main.go` | signal channel, shutdown goroutine, timeout | construct, run, wait for a signal, stop everything, exit |
| Autocert cache, enrichment, metrics | `autocert.go`, `enrich.go`, `metrics.go` | | see "Not modelled" |

How they interact:

- A page loads the script from the API and posts beacons to it; the pages behind
  one address share the bucket of its rate limiter.
- A handler starts a goroutine per event and never waits for it. The goroutine
  calls `getSalt` (and may wait there for a mutex, a connection, a transaction),
  then sends to the channel `w.events` without blocking.
- The one worker goroutine of a process owns the batch. It calls `saveEvents`
  synchronously: while the database is slow nothing is received and the channel
  fills up.
- Worker, salt and pruner share the connection pool; several processes may share
  the database (the Helm chart scales the deployment). They coordinate by nothing
  but its transactions.
- `New` reads the configuration, and the parts it constructs check more of it. A
  signal ends `HandleShutdown`'s wait; a goroutine stops metrics, API, worker and
  pool in this order, against a timeout of two seconds.

What is hard about each, and the properties that make it correct:

- *Pipeline*: a bounded queue that drops, a batch kept after a failed save, two
  triggers of a save, an answer that gets lost. Every accepted event is counted
  or kept; it is stored once; the order is kept; none waits for ever.
- *Session store*: one event is several statements in several transactions, other
  workers' statements come between them, an error leaves part of the work done.
  Rows agree with one another; a visitor has one visit at a time; a new session
  starts exactly after the idle timeout; row locks do not block for ever.
- *Pruner*: it deletes what others write, and nothing when it is told to keep.
- *Daily salt*: a cache over a table that several processes rewrite. Memory and
  table agree; a salt lives for a day; every caller gets an answer.
- *Lifecycle*: everything is started and stopped in order, a database that comes up
  late is waited for, nothing in progress is cut off before the timeout, and the
  process does exit.
- *Page tracker*: timers fire in hidden pages, beacons are lost, overtaken or
  refused. A page that is watched is heard of, and first by a view.

## Modules

| Module | What it is |
|---|---|
| `Pipeline` | one process from `POST /p` to the events table, with `saveEvents` as one step that succeeds, fails, or succeeds without an answer |
| `EventLog` | abstract: queued events form a log; rows are written in its order, a lost answer writes some again; `Pipeline` implements it |
| `SessionStore` | `saveEvents` statement by statement, for several workers on one database |
| `CopySource` | the iterator from which COPY takes its rows; `SessionStore` writes what it yields |
| `Visits` | abstract: the visits of each visitor do not overlap; with one worker `SessionStore` implements it |
| `Retention` | the pruner composed with the workers of `SessionStore` |
| `DailySalt` | `getSalt` for several goroutines of several processes, and the transaction of a refresh |
| `Configuration` | defaults, file and environment merged, and what accepts a configuration (operators only) |
| `Lifecycle` | the start and the end of a process, from a `Configuration` |
| `PageTracker` | the script in several pages of one address, the API's rate limiter and static files |
| `PipelineProofs`, `DailySaltProofs`, `LifecycleProofs`, `PageTrackerProofs` | theorems and proofs of the module of that name |
| `SessionStoreProofs`, `SessionRowsProofs`, `SessionPromptProofs` | the same of `SessionStore`, each extending the one before: types and the refinement; rows, live sessions, updates that overlap, and the pruner; what a visitor sees of prompt saves |
| `CopySourceProofs` | what COPY gets from the iterator, for a batch of any length |
| `MCPipeline`, `MCSessionStore`, `MCRetention`, `MCDailySalt`, `MCLifecycle` | values of constants for TLC |

### State and actions against the code

`Pipeline`: `req[e]` is where the handler, then the goroutine of event `e`,
stands; `queue` is `w.events`, `toProcess` the batch, `worker` tells `select`,
`processBatch` and the moment after a failed save from each other, `tick` is the value in `ticker.C`, `quit` the token in `w.quit`.
One action per stage of `SaveEvent`, per case of `select`, and per outcome of
`saveEvents`: a goroutine counts its event, sends it or finds the channel full, and counts the
drop, in steps of their own, since other goroutines run in between. `HandleQuit` empties
`toProcess`, a local variable of the loop that has returned; the history `lost` says which
events went with it. A failed save keeps `toProcess`, as `processBatch` does; a Go ticker
keeps a waiting tick over `Reset`, so does the model. The metrics `ingestedEvents`
and `eventErrors` are part of the state, because what they promise to an operator
is a property; their kinds `salt` and `enrich`, which do not change an event's path,
are left out.

`SessionStore`: `save[w]` holds the local variables of `saveEvents` (`eventDomains`,
`eventSessions`, the index of the loop, `sessionID`), the time its transaction
began, and the row its transaction has written and nobody else sees yet. One action
per SQL statement, plus begin and commit. Events carry the time of their request,
which the code reads only for a metric; the properties use it to say what the
sessions ought to be. The table of events keeps it as a ghost. Of the columns of a session there
are visitor, domain, times and bounce; the duration is left out, since every statement that writes it
computes it from the same two times and nothing reads it.
Domains are upserted in any order, as Go iterates over a map. COPY writes
`Copied(Rows(w))`, what pgx gets from the iterator of `copyfrom.go`.

`Retention` adds one variable, `pruner`, and the two statements as actions. The
condition is that of the SQL, on the interval that `prune()` builds: since `Valid` is
not set it is NULL and the comparison selects no row. The module has the row lock
and the foreign key that a valid interval would meet; the mutated definition
`IntervalMarkedValid` uses them. That the table of events stays when no row is old is
written out in `PruneEvents`, since the provers do not look into `SelectSeq`.

`DailySalt`: `running` are the processes there are, one or several. `call[p][c]` is a
goroutine's place in `getSalt`, `tx[p]` the refresh
of the one inside the mutex, `conns[p]` the connections the pool has given out for
refreshes. The DO block of `UpdateSalt` is three steps, since each of its statements
sees what was committed when it started. `UpdateSaltFails` leaves `conns` as it is:
the `err` of `salter.go:49` is a variable of its own, so the deferred function does
not roll back. Salts are numbers in the order in which they are drawn.

`Lifecycle`: `source` is a pair of config file and environment, and `config` what
`getConfig` makes of it. `main` walks through `New` (configuration, the retries of `setupDB` counted by
`tries`, migration, construction), `Run` and `HandleShutdown`; `slept` adds up the
backoff of attempts in vain (with a connection, the loop and its counts are over) in units of 50 ms, in which the jitter of 5 per cent of a delay of d seconds is anything
from `19 * d` to `21 * d`, as `backoffWithJitter` computes it, with a Duration that may overflow.
Sending the token to the worker and the start of `pool.Close` are two steps. A signal before
`signal.Notify`, the last thing `New` does, kills the process; a later one goes to `p.quit`.
The API may fail to listen, which is only logged; tickers may panic. `quit` counts the values
in `p.quit`, and `stopper` is the shutdown goroutine, by its variable `step`. Of the rest of
the process there is what can hold the shutdown up: requests in flight, and the one
connection a save may hold (a refresh of the salt or the pruner would hold one in
the same way).

`PageTracker`: for each page the state of its script tag, its visibility and its
interval; `network` is the bag of beacons under way. One action per listener of the
script; `SendMetrics` is its early return and the beacon. The API serves or refuses
the script and records, discards or refuses a beacon, or answers it with 202 and drops its event,
when the queue is full. `silence`, `misses` and `first` are history
and say what the database will know of a page. Time is in seconds; beacons arrive
within the second they were sent in, or not at all. A bucket holds as many tokens
as the rate and is filled up each second; the limiter fills it up little by little.

### What is assumed of the environment

The database runs at READ COMMITTED, pgx's default. A statement may fail at any
point; a COMMIT or COPY may take effect and still return an error (the connection
broke before the answer came). A process may die at any point of a save and start
again. Server and database clocks are one. These definitions are marked `external`
in the map, or take their lines from where the code meets the error. External are
also browser, network, echo's token bucket and viper's rule that an empty environment
variable is one that is not set.

## Runs

The cfgs say `CHECK_DEADLOCK FALSE`, except `Page.cfg`: the inputs are bounded, a worker or a process
may stop for good, and then nothing is left to do. What must not stop is a liveness
property.

| Run | Instance | Shows |
|---|---|---|
| `pipeline` | 4 events (one name not accepted, one always rejected by the database), queue 2, batch 2, errors counted to 2, answers lost, fairness | accounting of the metrics between any two steps, each queued event once, duplicates and overlong batches only after a counted error, only the return of the worker loses queued events and only its batch, implements `EventLog`, every event that has its visitor id is stored or counted |
| `sessions` | 1 worker, 2 visitors, 3 events, timeout 2, times 0..3, 1 fault | consistent rows, visits do not overlap, COPY takes each row once, sessions of prompt saves split exactly at the idle timeout, bounce right, implements `Visits` |
| `sessions_two_visits` | 2 workers, 2 events, no faults | **violated**: two sessions for one visit |
| `retention` | 2 workers and the pruner with `PRUNE_DAYS` 0, 1 visitor who reads on or leaves, 2 events, timeout 1, 1 fault, fairness | live sessions bounded, no row taken away, a bounce that was cleared stays so however the updates of two workers overlap, every batch is saved in spite of row locks |
| `retention_never` | 1 worker, `PRUNE_DAYS` 1, 2 events, fairness | **violated**: rows that are too old stay |
| `salt` | 1 or 2 processes, 2 goroutines each, pool 2, 3 calls, 1 fault, 3 days, fairness | memory is the table's row, one refresh per day, at most one row per process, every call is answered |
| `salt_leak` | 1 process, pool 1, 1 fault, fairness | **violated**: a leaked connection blocks every later call |
| `salt_day` | 2 processes, no faults | **violated**: two salts on one day |
| `lifecycle` | 10 configurations, 7 attempts, Durations up to 16 s, 2 signals, 2 requests, fairness | order of start and shutdown, waiting before giving up, migrations first, requests served first, exit 0 cuts nothing off, the start ends, one signal ends the process |
| `lifecycle_two_signals` | 2 signals, fairness | **violated**: it hangs after a second signal |
| `lifecycle_event_names` | the same configurations, no signal | **violated**: a server with no accepted event name |
| `page` | 2 pages, interval 2, limit 2, 1 event lost, 1 action of the visitors in each second, fairness | silence of a watched page bounded by what was refused or lost, a view comes first, a watched page is heard of for ever when the visitors rest |

### Why the bounds are enough

- *Pipeline*: with four events a channel of two is filled, overflows, and a third
  event is received while a full batch waits after a failed save. Errors are counted
  up to `MaxSaveErrors`; beyond it saves may still fail, the counter just stays.
- *SessionStore*: `MaxTime` exceeds `Timeout`, so a session expires and a second visit
  opens; three events make a batch of several events, and two batches in turn. Four
  ids, as each transaction that creates a row needs one. One fault, of any
  kind and at any place, is followed by a full retry. Behaviours of `sessions` without a
  fault are those about which the properties of prompt saves speak.
- *SessionStore* in `retention`: each of two workers saves an event, and the one whose save fails
  after its first transaction looks up and updates the session that it has made itself, while the
  other updates it too: one update comes between the look-up and the update of the other.
- *DailySalt*: `MaxTime` lets the salt expire and be replaced twice. `Day` is one unit,
  except in `salt_day`, where the point is that no day is over.
- *Lifecycle*: seven delays are 0, 1, 2, 4 and 8 seconds, the cap of 10 (16
  s fit in a Duration), and one that has overflowed (in a process the attempt numbered 35 is the first
  to overflow). Behaviours with one signal and with two are told apart, and a third would find the
  channel full like the second. `SKIP_MIGRATIONS` is off, as by default; the theorems hold for both values.
- *PageTracker*: two pages with two tokens use up a bucket when both report and one is
  asked for its script; the interval of 2 leaves seconds in which nothing fires, as the real
  5 does. The visitors may act in each second for ever, and two pings and one navigation are more
  than the bucket holds, so contention can last: without its condition that the visitors rest,
  `WatchedIsHeard` is false in this instance. `MaxMisses` misses in a row are told apart, a page
  that missed more is not spoken of.

### Fairness

- *Pipeline*: `GoFairness` is what the Go scheduler and the clock give: weak for each `SaveEvent`
  goroutine from its visitor id on and for the ticker, strong for the cases of `select`, which
  chooses at random among those that are ready. There is none for the visitor id, because
  `getSalt` may wait for ever (finding 2); `Delivered` starts after it. `DatabaseFairness` is
  assumed, not given by the code: a save ends (no timeout makes it), and the database is not down for
  ever and accepts the batch.
- *SessionStore*: weak for the next step of a save, strong for `UpdateSession`, because
  Postgres queues those that wait for a row lock. In `retention_never` also for the
  pruner, strong for its statements, so that it cannot be said that they were not tried.
- *DailySalt*: weak for the transaction, strong for taking the mutex: Go's mutex hands
  itself over to a goroutine that has waited for a millisecond.
- *Lifecycle*: weak for the start, for main, the shutdown goroutine and the timeout, none at all for
  clients, worker and database. A request, a statement or the migrations may last for ever: tern's
  lock and statements have no timeout, so `StartEnds` excepts a process that waits in them. It is
  assumed that an attempt to connect ends; the code sets no timeout, but pgx has one of its own.
- *PageTracker*: weak for the script of each page, for delivery and for time. The
  visitors owe nothing; network and queue may lose `MaxLost` events.

## Findings

1. `OneVisitAtATime` (two workers): look-up and creation of a session are not
   atomic. With one worker the property holds.
2. `Answered` with a pool of one: the shadowed `err` of `salter.go:49` leaks a
   connection. With one more connection than errors it holds.
3. `OneSaltForTheDay`: `UpdateSalt` compares the age with 0 hours, so that each
   restart or further process draws a new salt.
4. `Exits` with two signals: main's deferred send to the signal channel blocks.
   With one signal (`ExitsAfterSignal`) the process exits.
5. `Pruned`: the pruner sends NULL as its interval and deletes nothing. Its statements
   also run with `PRUNE_DAYS=0`, where only this defect keeps them from deleting
   everything (`KeptForever`, and the mutant of it).
6. `EmptyMeansDefault`: an empty list of event names in the config file is not
   replaced by the default.

These properties are stated from README and comments; the quotations are in
`PROJECT.json`. More differences between code and documents are visible in the
models and have no run of their own:

- After a failed save the batch stays full and grows with each event, so it passes
  `BATCH_MAX_SIZE`, the "Maximum batch size" of the README (`worker.go:56`).
- A batch that waits because a save failed is stamped with the time of the later save
  (`query.sql:19`, `45`): two visits an idle timeout apart become one session. This is why
  `IdleVisitorGetsNewSession` speaks of prompt saves.
- `setupDB` makes one attempt more than `PGCONNATTEMPTS`, the "Number of DB connection attempts
  before failing", since it counts from 0 and looks after the attempt (`setupdb.go:46`); the
  first pause is half a second cut to 0.
- `PGHOST`, documented as "server host and port", must not have a port: `validateConfig`
  appends `PGPORT` (`config.go:153`). `config.yaml` has one; it also gives `pgsslmode` twice,
  which a YAML map does not take, and which the model's sample leaves out.
- On an error `getSalt` returns the empty string (`salter.go:41,50,54,57`), which the comments
  at `salter.go:32` and `event.go:56` exclude.
- `REQUEST_RATE_LIMIT`, "events per second per IP", counts every request, that for
  the script too (`api.go:53`).
- The tracker never sends `hidden`, one of the accepted names: the listener runs when the
  page is hidden already, and `sendMetrics` returns. It does send `popstate`, which is not
  accepted by default. A `doNotTrack` of `"0"`, by which a visitor agrees, counts as a refusal,
  since the script asks only whether the string is empty.
- `worker_latency` is observed but not registered (`metrics.go:132`).

## Proofs

The theorems hold for every value of the constants that
satisfies the named assumption of the module. tlapm checks every step.

| Theorem | Statement | Argument |
|---|---|---|
| `PipelineTypeOK` | `Spec => []TypeOK` | TypeOK is inductive: a send needs room, a receive only shortens the channel |
| `PipelineExactlyOnce` | `Spec => []ExactlyOnce` | inductive with TypeOK, the relation of log, rows, what waits and what was lost, and that nothing is lost before the worker returns |
| `PipelineNothingForgotten` | `Spec => NothingForgotten` | every action but `HandleQuit` leaves `Held`, or appends to it; a lost answer repeats part of it; what `HandleQuit` takes is the batch |
| `PipelineRefinesEventLog` | `Spec => RefinesEventLog` | a send maps to `Accept`, a save to `Persist`, one without answer to `PersistUnacknowledged`, everything else to a stutter |
| `PipelineAccounting` | `Spec => []Accounting` | each action moves one event from one set of stages to another, and events from one place to another; the cardinalities follow |
| `PipelineFullBatchOnlyAfterError`, `PipelineDuplicatesOnlyAfterError` | `Spec => [](...)` | inductive with clauses on a save in progress and on the moment between a failed save and its count, and with `ExactlyOnce` |
| `SessionTypeOK` | `Spec => []TypeOK`, any number of workers | tables, local variables and the row of a transaction typed together |
| `SessionOneVisitAtATime` | one worker: `Spec => []OneVisitAtATime` | a transaction that creates has found no live session, and nobody else has made one since; rows are never younger than the clock |
| `SessionRefinesVisits` | one worker: `Spec => RefinesVisits` | a commit of a new row maps to `OpenVisit`, that of an update to `ExtendVisit` |
| `CopiedIsRows` | `Copied(rows) = rows`, for every sequence of rows | see below |
| `SessionRowsConsistent` | `Spec => []RowsConsistent`, any number of workers | `KeptInv`: what a worker remembers of the tables is still so, as tables only grow and no two transactions write one session |
| `SessionEventsConserved` | `Spec => []EventsConserved`, any number of workers | COPY adds as many rows as it takes events from the batch (`CopiedIsRows`); a set of the events in batches, one more or all of a batch less |
| `SessionLiveSessionsBounded` | `Spec => []LiveSessionsBounded`, any number of workers | `ClaimsInv`: the sessions of a visitor that are live, or that a transaction is about to make so, inject into the workers, and into none that is about to create one |
| `SessionBounceStaysCleared` | `Spec => BounceStaysCleared`, any number of workers | `MarkInv`: what a transaction has written is no bounce if the committed row is none, and nobody else writes that row before it commits |
| `RetentionImplementsStore` | `RetentionSpec => Spec` | a statement of the pruner with a NULL interval is a stutter; so the theorems of `SessionStore` hold beside the pruner (`RetentionLiveSessionsBounded`, `RetentionBounceStaysCleared` are two of them) |
| `RetentionKeptForever` | `RetentionSpec => KeptForever` | the same, and what COPY appends |
| `SessionIdleVisitorGetsNewSession`, `SessionActiveVisitorKeepsSession`, `SessionBounceUntilReadOn` | one worker: `Spec => [](...)` | `SoleWorkerInv`, see below |
| `SaltTypeOK` | `Spec => []TypeOK` | one goroutine is inside exactly while a refresh runs, which holds the connection |
| `SaltReplacedOnlyWhenExpired` | `Spec => ReplacedOnlyWhenExpired` | while a refresh runs, the salt in memory is expired |
| `SaltMemoryIsTable` | `Spec => []MemoryIsTable` | a process alone sees the table's one row through each phase of its transaction |
| `SaltRowsBounded` | `Spec => []RowsBounded` | there is a function that gives each row to the process that inserted it, and no process owns two: its DELETE has found the row it had. So the rows inject into the processes |
| `LifecycleTypeOK`, `LifecycleStepsInOrder`, `LifecycleSchemaFirst` | `Spec => [](...)` | together inductive, one step per action; counters are dealt with in a lemma of their own |
| `LifecycleRequestsServedFirst`, `LifecycleGracefulExit` | safety of the shutdown | from `StepsInOrder` |
| `LifecycleGivesUpLate` | `Spec => []GivesUpLate` | `WaitInv`: what was slept after each number of failed attempts, less the 5 per cent of jitter. The sum of the delays is in powers of two, of which the proof needs that they grow: 2^n is the number of subsets of `1..n` |
| `PageTypeOK` | `Spec => []TypeOK` | inductive with what an interval may be set to |
| `PageSilenceBounded` | "visible" and "ping" accepted: `Spec => []SilenceBounded` | `QuietInv`: the seconds of silence and those until the interval fires make no more than the intervals that the misses account for, unless a beacon is on its way |
| `PageFirstIsAView` | the default names accepted, misses counted: `Spec => FirstIsAView` | `ViewInv`: a watched page of which nothing was heard has a view on its way, or a beacon of it was missed |

Strengthenings worth knowing: `ExactlyOnce` says two things because either alone is not
inductive, that no event is in
`Held` twice is kept by a send only if the event sent is not there yet, which is what
"the members of `Held`, with those lost by a worker that returned, are the events whose goroutine has
queued them" tells.
`StepsInOrder` ties each place of main and of the shutdown goroutine to what they have done;
`RequestsServedFirst` and `GracefulExit` do not mention the goroutine and so could not
carry the induction. `OneVisitAtATime` needs what a transaction has found (`FoundInv`) between
its look-up and its commit. `RowsBounded` counts rows, and a count is not inductive: the owner
of each row is. For the same reason `LiveSessionsBounded` goes by an injection of sessions into
workers; it has to count also what a transaction will make live at its commit, and with the time at
which the transaction began, which is earlier than the clock.

The three properties of prompt saves speak of the rows of events, which come last, when the
sessions are written already. `SessionPromptProofs` has the *trail* of the worker for that: the rows
of events, and behind them the part of the batch whose transactions are committed. `Told` says
that the sessions table is what the trail tells: the time of a session is that of its last event, it
is a bounce as the names after its first event have it. `Parted` says that two events of a visitor that
follow each other are in different sessions exactly if the timeout lies between them. A commit adds one event
to the trail and keeps the table in step; COPY turns the trail into rows. Since the whole batch of
a prompt save is of the moment at which it is saved, the event in turn is later than what is on the
trail. A batch of which an event has waited for a tick of the clock is not of this moment, and
its rows will say so: then `Prompt` is over for good, and nothing need be known of its trail.

`CopiedIsRows` is about a recursive function, the calls of the iterator. The theorems on induction
cannot be used, so the proof is by the least number: a closed form solves the equation of the
function, and the least call at which another solution would differ is one at
which its predecessor agrees, and so must it. Hence `CHOOSE` yields the closed form.

Assumed of the constants: events, processes and workers are finitely many, the channel and the pool have a
capacity of at least one, timeout and day are positive, a visitor id belongs to one domain, batch
and bounds are natural numbers. "One worker" is an assumption of the theorems that need it;
`sessions_two_visits` shows that two of them do, and the properties of prompt saves are of one
worker because two that overlap make two sessions of one visit. The theorems of the tracker
assume that the server accepts the names it is about, as it does by default
(`VALID_EVENT_NAMES`, README.md:123): a server that discards pings hears nothing of a reader. `PageFirstIsAView`
assumes `MaxMisses > 0`, the bound of the history that counts misses; with 0 there would be no miss to
point at.

Only model-checked: liveness (`Delivered`, `Saved`, `Answered`, `StartEnds`, `ExitsAfterSignal`,
`WatchedIsHeard`), which is beyond the prover. Every other property of a passing run is
stated by a theorem. The properties of the findings (`Pruned`, `Exits`, `OneSaltForTheDay`,
`EmptyMeansDefault`, `OneVisitAtATime` for two workers, `Answered` for a pool of one) are false and
have their counterexamples in the runs.

## Not modelled, and why

- Decoding of requests, extraction of the client's address, CORS, admin routes: I/O around
  libraries, without state. Enrichment: a stateless look-up whose error changes nothing.
- The hash of the visitor id: modelled as an identity. Collisions, among them those of
  fields that are concatenated without separators (`event.go:61-68`), are excluded by
  the assumption `SessionAssumption`.
- Autocert cache: three single statements, run by a protocol of the acme library. `GetEvent` and `ListEvents`: called
  by tests only.
- What the migrations do: tern runs them under its own lock.
- Configuration keys that are passed on as numbers, and `--write-default-config`.
- Gauges, histograms and host metrics: observation only. Compose files and charts: no program logic.

## Plan

Done, most important first: `Pipeline` with `EventLog`, `SessionStore` with `Visits` and
`CopySource`, `DailySalt`, `Lifecycle` with `Configuration`, `Retention`, `PageTracker`; proofs of
the safety of all of them.

What could follow:

1. Proofs: `SessionRowsConsistent` carries over to the pruner of today; for a pruner whose
   interval is valid (the repair of finding 5) the foreign key has to take the place of "tables
   only grow", and a run should say first which of the properties remain.
2. `Server`: `Pipeline` and `Lifecycle` composed, to say what exactly a shutdown may lose (events in
   `SaveEvent` goroutines, channel and batch); no document promises anything of it so far.
3. `OneVisitAtATime` for the repair of finding 1 (a lock on the visitor), for any number of workers.
