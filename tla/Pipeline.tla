------------------------------ MODULE Pipeline ------------------------------
(***************************************************************************)
(* The path of a tracking event through one server process: the POST       *)
(* handler (trackers.go), the SaveEvent goroutine it spawns (event.go),    *)
(* the bounded channel w.events, and the worker loop that collects a batch *)
(* and writes it to the database (worker.go).                              *)
(*                                                                         *)
(* saveEvents, the database part of processBatch, is one step here with    *)
(* three outcomes; SessionStore models it statement by statement.  The     *)
(* visitor id is one step too; DailySalt models what happens inside it.    *)
(***************************************************************************)
EXTENDS Naturals, Sequences, FiniteSets

CONSTANTS
  Events,           \* the POST /p requests that will be made
  Name,             \* Name[e]: the event name in the request's body
  Located,          \* the events whose location is a URL that parses
  ValidEventNames,  \* configuration: the accepted event names
  Unsaveable,       \* the events whose values the database always rejects
  QueueSize,        \* configuration: capacity of w.events
  BatchMaxSize,     \* configuration: batch length that triggers a save
  MaxSaveErrors     \* bound: failed saves are counted up to here

ASSUME PipelineAssumption ==
  /\ IsFiniteSet(Events)
  /\ Name \in [Events -> STRING]
  /\ QueueSize \in Nat \ {0}
  /\ BatchMaxSize \in Nat
  /\ MaxSaveErrors \in Nat \ {0}

VARIABLES
  req,          \* where each request, then its SaveEvent goroutine, stands
  queue,        \* the channel w.events
  toProcess,    \* the worker's batch
  worker,       \* the worker's place in processQueuedEvents
  tick,         \* is a tick waiting in ticker.C?
  quit,         \* the token of w.quit
  events,       \* the rows of the events table, in insertion order
  eventErrors,  \* the eventErrors metric, by kind
  ingested,     \* the ingestedEvents metric
  log,          \* history, no variable of the code: every event ever queued
  lost          \* history: the batch that was thrown away when the worker quit

vars == <<req, queue, toProcess, worker, tick, quit, events, eventErrors,
          ingested, log, lost>>
requestVars == <<req, ingested, log>>
workerVars == <<toProcess, worker, tick, quit, events, lost>>

Stages == {"none", "refused", "parse", "visit", "count", "enqueue", "queued",
           "full", "dropped"}
ErrorKinds == {"parse", "enqueue", "save"}

Init ==
  /\ req = [e \in Events |-> "none"]
  /\ queue = <<>>
  /\ toProcess = <<>>
  /\ worker = "select"
  /\ tick = FALSE
  /\ quit = "unsent"
  /\ events = <<>>
  /\ eventErrors = [k \in ErrorKinds |-> 0]
  /\ ingested = 0
  /\ log = <<>>
  /\ lost = <<>>
-----------------------------------------------------------------------------
(***************************************************************************)
(* The request handler and the SaveEvent goroutine.                        *)
(***************************************************************************)
\* The goroutine of e moves from one stage to the next.
Step(e, from, to) ==
  /\ req[e] = from
  /\ req' = [req EXCEPT ![e] = to]

CountError(kind) ==
  eventErrors' = [eventErrors EXCEPT ![kind] = @ + 1]

\* recordPicolyticsEvent answers 400: the body is empty, too long or not JSON.
RefuseRequest(e) ==
  /\ Step(e, "none", "refused")
  /\ UNCHANGED <<queue, workerVars, eventErrors, ingested, log>>

\* recordPicolyticsEvent starts `go SaveEvent` and answers 202.
RecordEvent(e) ==
  /\ Step(e, "none", "parse")
  /\ UNCHANGED <<queue, workerVars, eventErrors, ingested, log>>

ValidEventName(n) == n # "" /\ n \in ValidEventNames

Parses(e) == ValidEventName(Name[e]) /\ e \in Located

ParseFails(e) ==
  /\ ~Parses(e)
  /\ Step(e, "parse", "dropped")
  /\ CountError("parse")
  /\ UNCHANGED <<queue, workerVars, ingested, log>>

ParseEvent(e) ==
  /\ Parses(e)
  /\ Step(e, "parse", "visit")
  /\ UNCHANGED <<queue, workerVars, eventErrors, ingested, log>>

\* The salt may come late (its lock, a transaction) or never, so that
\* goroutines overtake one another here.
CreateVisitID(e) ==
  /\ Step(e, "visit", "count")
  /\ UNCHANGED <<queue, workerVars, eventErrors, ingested, log>>

\* The event counts as ingested before it is known whether the channel has
\* room for it.
CountIngested(e) ==
  /\ Step(e, "count", "enqueue")
  /\ ingested' = ingested + 1
  /\ UNCHANGED <<queue, workerVars, eventErrors, log>>

\* Fault: off by one in the room left in the channel.
QueueHasRoomOffByOne == Len(queue) <= QueueSize
\* The send of queueEvent's select can proceed.
QueueHasRoom == Len(queue) < QueueSize

\* Fault: the event is sent and the default case sends it again.
QueueEventTwice(e) ==
  /\ QueueHasRoom
  /\ Step(e, "enqueue", "queued")
  /\ queue' = queue \o <<e, e>>
  /\ log' = Append(log, e)
  /\ UNCHANGED <<workerVars, eventErrors, ingested>>
QueueEvent(e) ==
  /\ QueueHasRoom
  /\ Step(e, "enqueue", "queued")
  /\ queue' = Append(queue, e)
  /\ log' = Append(log, e)
  /\ UNCHANGED <<workerVars, eventErrors, ingested>>

\* The default case of queueEvent's select: the channel is full.
QueueFull(e) ==
  /\ ~QueueHasRoom
  /\ Step(e, "enqueue", "full")
  /\ UNCHANGED <<queue, workerVars, eventErrors, ingested, log>>

\* Fault: a full queue drops the event without counting it.
CountDropForgotten(e) ==
  /\ Step(e, "full", "dropped")
  /\ UNCHANGED <<queue, workerVars, eventErrors, ingested, log>>
CountDrop(e) ==
  /\ Step(e, "full", "dropped")
  /\ CountError("enqueue")
  /\ UNCHANGED <<queue, workerVars, ingested, log>>
-----------------------------------------------------------------------------
(***************************************************************************)
(* The worker: `select` over the channel, the ticker and the quit token,   *)
(* and processBatch.  While it saves, nothing else of the worker runs.     *)
(***************************************************************************)
\* Fault: the batch may exceed its size by one.
BatchFullOffByOne(batch) == Len(batch) > BatchMaxSize
BatchFull(batch) == Len(batch) >= BatchMaxSize

\* Fault: the batch is built at the wrong end.
AddToBatchInFront(e) == <<e>> \o toProcess
AddToBatch(e) == Append(toProcess, e)

\* `case e := <-w.events`.  enrichEvent may fail: the event is saved anyway.
\* ticker.Reset does not empty ticker.C, so a waiting tick stays.
ReceiveEvent ==
  /\ worker = "select"
  /\ queue # <<>>
  /\ queue' = Tail(queue)
  /\ toProcess' = AddToBatch(Head(queue))
  /\ worker' = IF BatchFull(toProcess') THEN "saving" ELSE "select"
  /\ UNCHANGED <<requestVars, tick, quit, events, eventErrors, lost>>

\* The runtime puts a tick in ticker.C, unless one is already waiting.
TickerFires ==
  /\ worker # "stopped"
  /\ ~tick
  /\ tick' = TRUE
  /\ UNCHANGED <<requestVars, queue, toProcess, worker, quit, events,
                 eventErrors, lost>>

\* Fault: the tick is taken and the waiting batch is left alone.
HandleTickIdle ==
  /\ worker = "select"
  /\ tick
  /\ tick' = FALSE
  /\ UNCHANGED <<requestVars, queue, toProcess, worker, quit, events,
                 eventErrors, lost>>
\* `case <-ticker.C`: a batch that is not empty is saved.
HandleTick ==
  /\ worker = "select"
  /\ tick
  /\ tick' = FALSE
  /\ worker' = IF toProcess # <<>> THEN "saving" ELSE "select"
  /\ UNCHANGED <<requestVars, queue, toProcess, quit, events, eventErrors,
                 lost>>

\* saveEvents succeeds: the rows are in and the batch starts again empty.
SaveSucceeds ==
  /\ worker = "saving"
  /\ \A i \in 1..Len(toProcess) : toProcess[i] \notin Unsaveable
  /\ events' = events \o toProcess
  /\ toProcess' = <<>>
  /\ worker' = "select"
  /\ UNCHANGED <<requestVars, queue, tick, quit, eventErrors, lost>>

\* Fault: processBatch empties the batch before it looks at the error.
SaveFailsAndClears ==
  /\ worker = "saving"
  /\ toProcess' = <<>>
  /\ worker' = "failed"
  /\ UNCHANGED <<requestVars, queue, tick, quit, events, eventErrors, lost>>
\* saveEvents fails: no row is written and the batch is kept for the next
\* event or tick to try again.
SaveFails ==
  /\ worker = "saving"
  /\ worker' = "failed"
  /\ UNCHANGED <<requestVars, queue, toProcess, tick, quit, events, eventErrors,
                 lost>>

\* Fault: a save whose answer was lost passes for a good one, its batch kept.
SaveUnacknowledgedUncounted ==
  /\ worker = "saving"
  /\ eventErrors["save"] < MaxSaveErrors
  /\ \A i \in 1..Len(toProcess) : toProcess[i] \notin Unsaveable
  /\ events' = events \o toProcess
  /\ worker' = "select"
  /\ UNCHANGED <<requestVars, queue, toProcess, tick, quit, eventErrors, lost>>
\* The rows are written but CopyFrom returns an error (the connection broke
\* before the answer came): for the worker this is a failed save.  The guard
\* on the error count bounds how often this happens.
SaveUnacknowledged ==
  /\ worker = "saving"
  /\ eventErrors["save"] < MaxSaveErrors
  /\ \A i \in 1..Len(toProcess) : toProcess[i] \notin Unsaveable
  /\ events' = events \o toProcess
  /\ worker' = "failed"
  /\ UNCHANGED <<requestVars, queue, toProcess, tick, quit, eventErrors, lost>>

\* processBatch returned an error: it is counted, up to MaxSaveErrors.
CountSaveError ==
  /\ worker = "failed"
  /\ worker' = "select"
  /\ eventErrors' = [eventErrors EXCEPT
                       !["save"] = IF @ < MaxSaveErrors THEN @ + 1 ELSE @]
  /\ UNCHANGED <<requestVars, queue, toProcess, tick, quit, events, lost>>

\* Worker.Shutdown puts the token in w.quit.
Shutdown ==
  /\ quit = "unsent"
  /\ quit' = "sent"
  /\ UNCHANGED <<requestVars, queue, toProcess, worker, tick, events,
                 eventErrors, lost>>

\* `case <-w.quit`: the loop returns, and its batch is gone.
HandleQuit ==
  /\ worker = "select"
  /\ quit = "sent"
  /\ quit' = "taken"
  /\ worker' = "stopped"
  /\ toProcess' = <<>>
  /\ lost' = toProcess
  /\ UNCHANGED <<requestVars, queue, tick, events, eventErrors>>
-----------------------------------------------------------------------------
Request(e) == RefuseRequest(e) \/ RecordEvent(e)

SaveEvent(e) ==
  \/ ParseFails(e)
  \/ ParseEvent(e)
  \/ CreateVisitID(e)
  \/ CountIngested(e)
  \/ QueueEvent(e)
  \/ QueueFull(e)
  \/ CountDrop(e)

Save == SaveSucceeds \/ SaveFails \/ SaveUnacknowledged

Worker == ReceiveEvent \/ HandleTick \/ Save \/ CountSaveError \/ HandleQuit

Next ==
  \/ \E e \in Events : Request(e) \/ SaveEvent(e)
  \/ Worker
  \/ TickerFires
  \/ Shutdown

Spec == Init /\ [][Next]_vars

\* The Go scheduler runs every goroutine that can run.  `select` chooses at
\* random among its ready cases, so a case that is ready again and again is
\* taken (strong fairness).  Time passes, so the ticker fires.  Nothing is
\* said of CreateVisitID: getSalt may wait for ever for its lock or for a
\* connection (see the run salt_leak).
GoFairness ==
  /\ \A e \in Events :
       WF_vars(CountIngested(e) \/ QueueEvent(e) \/ QueueFull(e) \/ CountDrop(e))
  /\ SF_vars(ReceiveEvent) /\ SF_vars(HandleTick) /\ SF_vars(HandleQuit)
  /\ WF_vars(CountSaveError)
  /\ WF_vars(TickerFires)

\* What is assumed of the database and is not the code's doing: a save ends,
\* though no timeout makes it end, and one that is tried again and again
\* succeeds, unless the database rejects an event of the batch.
DatabaseFairness == WF_vars(Save) /\ SF_vars(SaveSucceeds)

Fairness == GoFairness /\ DatabaseFairness

FairSpec == Spec /\ Fairness
-----------------------------------------------------------------------------
(***************************************************************************)
(* Properties.                                                             *)
(***************************************************************************)
\* The events the process still holds to save, and with them the rows.
Waiting == toProcess \o queue
Held == events \o Waiting

\* The queued events that are not known to be in the table: the batch lost
\* when the worker quit is not saved any more.
Unsaved == lost \o Waiting

Members(s) == {s[i] : i \in 1..Len(s)}

NoRepetition(s) == \A i, j \in 1..Len(s) : s[i] = s[j] => i = j

InStage(stage) == {e \in Events : req[e] = stage}

\* How many queued events are known to be in the table.
Saved == Len(log) - Len(Unsaved)

\* The types of the variables; the channel never holds more than its
\* capacity.
TypeOK ==
  /\ req \in [Events -> Stages]
  /\ queue \in Seq(Events) /\ Len(queue) <= QueueSize
  /\ toProcess \in Seq(Events)
  /\ worker \in {"select", "saving", "failed", "stopped"}
  /\ tick \in BOOLEAN
  /\ quit \in {"unsent", "sent", "taken"}
  /\ events \in Seq(Events)
  /\ eventErrors \in [ErrorKinds -> Nat]
  /\ ingested \in Nat
  /\ log \in Seq(Events)
  /\ lost \in Seq(Events)

\* The metrics account for the requests that were answered 202, at any moment:
\* the parse and enqueue errors are the goroutines that gave up; an ingested
\* event is still in its goroutine between the count and the send or the drop,
\* or was counted as an enqueue error, or is in the channel, in the batch or in
\* the table, or went with the batch of the worker that quit (SaveEvent,
\* queueEvent and the worker lose and invent nothing else).
Accounting ==
  /\ Cardinality(InStage("dropped"))
       = eventErrors["parse"] + eventErrors["enqueue"]
  /\ ingested = Cardinality(InStage("enqueue")) + Cardinality(InStage("full"))
                  + eventErrors["enqueue"]
                  + Cardinality(Members(Held) \cup Members(lost))

\* The events in channel, batch, table and in the batch lost at the end are
\* those whose goroutine queued them; none is to be saved twice, however often
\* a save fails and is retried, and unless the answer to a save got lost none
\* is stored twice, or stored and still to be saved (processBatch).
ExactlyOnce ==
  /\ Members(Held) \cup Members(lost) = InStage("queued")
  /\ NoRepetition(Unsaved)
  /\ Len(events) = Saved => NoRepetition(events \o Unsaved)

\* The step in which the worker returns.
WorkerReturns == worker # "stopped" /\ worker' = "stopped"

\* Whatever the database does, an event that was queued stays in the channel,
\* in the batch or in the table (processBatch keeps the batch of a failed
\* save).  Only the return of the worker takes events away, and then only
\* such as were in its batch: those in the channel stay there.
NothingForgotten ==
  [][Members(Held) \ Members(Held')
       \subseteq (IF WorkerReturns THEN Members(toProcess) ELSE {})]_vars

\* An event that is stored twice, or stored and still to be saved, is so
\* because the answer to a save got lost; then a save error was counted, or is
\* about to be, and an operator can know.
DuplicatesOnlyAfterError ==
  ~NoRepetition(events \o Unsaved)
    => worker = "failed" \/ eventErrors["save"] > 0

\* When the worker waits for its next event the batch has BATCH_MAX_SIZE events
\* or more only if a save failed.
FullBatchOnlyAfterError ==
  worker = "select" /\ BatchMaxSize > 0 /\ Len(toProcess) >= BatchMaxSize
    => eventErrors["save"] > 0

\* The queued events are the log of EventLog: they reach the table in the
\* order they were queued, and none is skipped, whatever fails.
Log == INSTANCE EventLog WITH saved <- Saved, table <- events
RefinesEventLog == Log!Spec

\* The batch holds an event that no save can store.
Blocked == \E i \in 1..Len(toProcess) : toProcess[i] \in Unsaveable

\* An event that has its visitor id is at last counted as dropped or stored,
\* unless the worker stops or an event that the database always rejects blocks
\* the batch (HandleTick saves a batch that never fills up).
Delivered ==
  \A e \in Events :
    req[e] = "count" ~> \/ req[e] = "dropped"
                       \/ e \in Members(events)
                       \/ worker = "stopped"
                       \/ Blocked
=============================================================================
