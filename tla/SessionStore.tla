---------------------------- MODULE SessionStore ----------------------------
(***************************************************************************)
(* saveEvents (worker_db.go): how a worker turns its batch into rows of    *)
(* the domains, sessions and events tables, statement by statement, with   *)
(* the statements of other workers in between.  A worker is the one        *)
(* processQueuedEvents goroutine of a server process; several processes    *)
(* may share the database.                                                 *)
(*                                                                         *)
(* The database (external) runs at READ COMMITTED, pgx's default:          *)
(*   - a statement sees the rows committed before it started;              *)
(*   - CURRENT_TIMESTAMP is the time its transaction began;                *)
(*   - UPDATE waits for the lock of a row another transaction has changed, *)
(*     and then changes the row that transaction committed;                *)
(*   - a row cannot refer to a row that is not there (FOREIGN KEY).        *)
(* Any statement may fail, and COMMIT and COPY may take effect and still   *)
(* return an error.                                                        *)
(*                                                                         *)
(* Paths, durations, geographic and user agent columns are left out: no    *)
(* statement reads them.                                                   *)
(***************************************************************************)
EXTENDS Integers, Sequences, FiniteSets, CopySource

CONSTANTS
  Workers,      \* the server processes that share the database
  Events,       \* what may be received: records [visitor, domain, name]
  Timeout,      \* configuration: SESSION_TIMEOUT_MIN
  SessionIds,   \* bound: the ids that sessions can get
  MaxTime,      \* bound: the clock stops here
  MaxReceived,  \* bound: how many events are received in all
  MaxFaults     \* bound: how many errors and crashes there are in all

Visitors == {e.visitor : e \in Events}
Domains == {e.domain : e \in Events}

\* createVisitID hashes the domain into the visitor id: a visitor id belongs
\* to one domain (up to collisions of the hash).
ASSUME SessionAssumption ==
  /\ \A e, f \in Events : e.visitor = f.visitor => e.domain = f.domain
  /\ Timeout \in Nat \ {0}
  /\ SessionIds \subseteq Nat \ {0}
  /\ {MaxTime, MaxReceived, MaxFaults} \subseteq Nat
  /\ IsFiniteSet(Workers)

VARIABLES
  now,        \* the database's clock
  domains,    \* table domains: the id of each domain name
  sessions,   \* table sessions: the row of each session id
  events,     \* table events, in insertion order
  batch,      \* batch[w]: toProcess of worker w
  save,       \* save[w]: the local state of saveEvents
  received,   \* how many events were received
  faults      \* how many errors and crashes there were

vars == <<now, domains, sessions, events, batch, save, received, faults>>
tables == <<domains, sessions, events>>
bounds == <<received, faults>>

NoRow == [visitor |-> "none"]

\* Outside saveEvents.
Idle == [phase |-> "idle",
         todo |-> {},              \* domains still to upsert
         eventDomains |-> <<>>,    \* domain -> id
         eventSessions |-> <<>>,   \* visitor -> session id
         next |-> 1,               \* the event of the batch in turn
         start |-> 0,              \* CURRENT_TIMESTAMP of its transaction
         session |-> 0,            \* its sessionID
         row |-> NoRow]            \* what its transaction has written

Init ==
  /\ now = 0
  /\ domains = <<>>
  /\ sessions = <<>>
  /\ events = <<>>
  /\ batch = [w \in Workers |-> <<>>]
  /\ save = [w \in Workers |-> Idle]
  /\ received = 0
  /\ faults = 0

\* A Go map or a table with one more entry.
Put(map, key, value) ==
  [k \in DOMAIN map \cup {key} |-> IF k = key THEN value ELSE map[k]]

\* A Go map yields the zero value for a key it does not have.
Get(map, key) == IF key \in DOMAIN map THEN map[key] ELSE 0

Phase(w, phase) == save[w].phase = phase

\* The event whose transaction is in progress.
Current(w) == batch[w][save[w].next]
-----------------------------------------------------------------------------
(***************************************************************************)
(* The worker: receiving, and the statements of saveEvents.                *)
(***************************************************************************)
\* processQueuedEvents appends an event; its creation time is kept with it.
ReceiveEvent(w, e) ==
  /\ Phase(w, "idle")
  /\ received < MaxReceived
  /\ received' = received + 1
  /\ batch' = [batch EXCEPT ![w] =
                Append(@, [visitor |-> e.visitor, domain |-> e.domain,
                           name |-> e.name, created |-> now])]
  /\ UNCHANGED <<now, tables, save, faults>>

\* processBatch calls saveEvents, which starts with the domains of the batch.
StartSave(w) ==
  /\ Phase(w, "idle")
  /\ batch[w] # <<>>
  /\ save' = [save EXCEPT ![w] =
               [Idle EXCEPT !.phase = "domains",
                            !.todo = {batch[w][i].domain : i \in 1..Len(batch[w])}]]
  /\ UNCHANGED <<now, tables, batch, bounds>>

\* INSERT ... ON CONFLICT DO UPDATE: a known name keeps its id.  The gaps that
\* conflicts leave in the ids of the SERIAL column are left out.
WithDomain(d) ==
  IF d \in DOMAIN domains THEN domains
  ELSE Put(domains, d, Cardinality(DOMAIN domains) + 1)

\* upsertDomains: each domain in a transaction of its own, in any order.
UpsertDomain(w, d) ==
  /\ Phase(w, "domains")
  /\ d \in save[w].todo
  /\ domains' = WithDomain(d)
  /\ save' = [save EXCEPT ![w].todo = @ \ {d},
                          ![w].eventDomains = Put(@, d, domains'[d])]
  /\ UNCHANGED <<now, sessions, events, batch, bounds>>

\* pool.Begin: one transaction for each event of the batch.
BeginTx(w) ==
  /\ \/ Phase(w, "domains") /\ save[w].todo = {}
     \/ Phase(w, "begin")
  /\ save' = [save EXCEPT ![w].phase = "get", ![w].start = now]
  /\ UNCHANGED <<now, tables, batch, bounds>>

\* Fault: the visitor is left out of the condition.
LiveOfAnyVisitor(s, v, time) == sessions[s].updated > time - Timeout
\* Fault: a session is still live when the timeout is over.
LiveInclusive(s, v, time) ==
  /\ sessions[s].visitor = v
  /\ sessions[s].updated >= time - Timeout
\* Fault: a session ends one unit of time early.
LiveTooShort(s, v, time) ==
  /\ sessions[s].visitor = v
  /\ sessions[s].updated > time - (Timeout - 1)
\* `updated_at > CURRENT_TIMESTAMP - timeout`.
Live(s, v, time) ==
  /\ sessions[s].visitor = v
  /\ sessions[s].updated > time - Timeout

\* Fault: the answer of the query is not looked at.
GetSessionBlind(w) ==
  /\ Phase(w, "get")
  /\ save' = [save EXCEPT ![w].phase = "create"]
  /\ UNCHANGED <<now, tables, batch, bounds>>
\* GetSession: the live session that was updated last, if there is one.
GetSession(w) ==
  /\ Phase(w, "get")
  /\ LET live == {s \in DOMAIN sessions :
                    Live(s, Current(w).visitor, save[w].start)}
     IN \/ /\ live = {}
           /\ save' = [save EXCEPT ![w].phase = "create"]
        \/ \E s \in live :
             /\ \A t \in live : sessions[t].updated <= sessions[s].updated
             /\ save' = [save EXCEPT ![w].phase = "update", ![w].session = s]
  /\ UNCHANGED <<now, tables, batch, bounds>>

\* The ids that no session has, committed or not.
FreshIds == SessionIds \ (DOMAIN sessions \cup {save[w].session : w \in Workers})

\* The VALUES of CreateSession, and the defaults of the table.
NewSession(visitor, domain, time) ==
  [visitor |-> visitor, domain |-> domain, created |-> time, updated |-> time,
   bounce |-> TRUE]

\* CreateSession takes the next id and writes a row that only its transaction
\* sees.
CreateSession(w) ==
  /\ Phase(w, "create")
  /\ \E s \in FreshIds :
       /\ \A t \in FreshIds : s <= t
       /\ save' = [save EXCEPT
                    ![w].phase = "commit",
                    ![w].session = s,
                    ![w].row = NewSession(
                                 Current(w).visitor,
                                 Get(save[w].eventDomains, Current(w).domain),
                                 save[w].start)]
  /\ UNCHANGED <<now, tables, batch, bounds>>

\* Another transaction has changed session s and not yet ended.
Locked(s) ==
  \E w \in Workers : save[w].session = s /\ save[w].row # NoRow

\* Fault: the row is written over at once, with what was computed from it
\* before another transaction ended.
WriteSessionUnlocked(w, row) ==
  /\ Phase(w, "update")
  /\ save' = [save EXCEPT ![w].phase = "commit", ![w].row = row]
  /\ UNCHANGED <<now, tables, batch, bounds>>
\* The transaction of w writes `row` over the session it has found.
WriteSession(w, row) ==
  /\ Phase(w, "update")
  /\ ~Locked(save[w].session)
  /\ save' = [save EXCEPT ![w].phase = "commit", ![w].row = row]
  /\ UNCHANGED <<now, tables, batch, bounds>>

\* Fault: updated_at is not set.
UpdatedRowKeepsTime(old, time, name) ==
  [old EXCEPT !.bounce = @ /\ name \in {"hidden", "ping"}]
\* Fault: every event clears bounce.
UpdatedRowAnyName(old, time, name) ==
  [old EXCEPT !.bounce = FALSE, !.updated = time]
\* The SET clause of UpdateSession.
UpdatedRow(old, time, name) ==
  [old EXCEPT !.bounce = @ /\ name \in {"hidden", "ping"}, !.updated = time]

\* UpdateSession changes the row as it is now, not as GetSession saw it.
UpdateSession(w) ==
  WriteSession(w, UpdatedRow(sessions[save[w].session], save[w].start,
                             Current(w).name))

\* Fault: the loop does not end with the batch.
AfterCommitForever(w) ==
  [save[w] EXCEPT
    !.eventSessions = Put(@, Current(w).visitor, save[w].session),
    !.phase = "begin",
    !.next = @ + 1,
    !.start = 0,
    !.session = 0,
    !.row = NoRow]
\* Fault: the session of the event is not remembered.
AfterCommitForgetful(w) ==
  [save[w] EXCEPT
    !.phase = IF save[w].next < Len(batch[w]) THEN "begin" ELSE "copy",
    !.next = IF save[w].next < Len(batch[w]) THEN @ + 1 ELSE @,
    !.start = 0,
    !.session = 0,
    !.row = NoRow]
\* What follows a commit: the next event's transaction, or the events table.
AfterCommit(w) ==
  [save[w] EXCEPT
    !.eventSessions = Put(@, Current(w).visitor, save[w].session),
    !.phase = IF save[w].next < Len(batch[w]) THEN "begin" ELSE "copy",
    !.next = IF save[w].next < Len(batch[w]) THEN @ + 1 ELSE @,
    !.start = 0,
    !.session = 0,
    !.row = NoRow]

Commit(w) ==
  /\ Phase(w, "commit")
  /\ sessions' = Put(sessions, save[w].session, save[w].row)
  /\ save' = [save EXCEPT ![w] = AfterCommit(w)]
  /\ UNCHANGED <<now, domains, events, batch, bounds>>

\* The rows createEvents hands to COPY; `stored` is the column created_at, the
\* time of the COPY.  `created` is the time of the request (event.Created),
\* which is no column; properties refer to it.
Rows(w) ==
  [i \in 1..Len(batch[w]) |->
    [visitor |-> batch[w][i].visitor,
     domain |-> Get(save[w].eventDomains, batch[w][i].domain),
     session |-> Get(save[w].eventSessions, batch[w][i].visitor),
     name |-> batch[w][i].name,
     created |-> batch[w][i].created,
     stored |-> now]]

\* COPY writes all the rows of the batch or none.
CopyRows(w) ==
  /\ Phase(w, "copy")
  /\ \A i \in 1..Len(batch[w]) : Rows(w)[i].session \in DOMAIN sessions
  /\ events' = events \o Copied(Rows(w))

\* COPY succeeds, and processBatch empties the batch.
CreateEvents(w) ==
  /\ CopyRows(w)
  /\ save' = [save EXCEPT ![w] = Idle]
  /\ batch' = [batch EXCEPT ![w] = <<>>]
  /\ UNCHANGED <<now, domains, sessions, bounds>>
-----------------------------------------------------------------------------
(***************************************************************************)
(* Errors, crashes and time.                                               *)
(***************************************************************************)
\* saveEvents returns an error: the open transaction is rolled back, what the
\* batch has committed so far stays, and the batch is kept for another try.
ReturnError(w) ==
  /\ faults < MaxFaults
  /\ faults' = faults + 1
  /\ save' = [save EXCEPT ![w] = Idle]
  /\ UNCHANGED <<now, domains, batch, received>>

StatementFails(w) ==
  /\ ~Phase(w, "idle")
  /\ ReturnError(w)
  /\ UNCHANGED <<sessions, events>>

\* COMMIT took effect, but its answer was an error.
CommitUnacknowledged(w) ==
  /\ Phase(w, "commit")
  /\ sessions' = Put(sessions, save[w].session, save[w].row)
  /\ ReturnError(w)
  /\ UNCHANGED events

\* COPY took effect, but its answer was an error.
CopyUnacknowledged(w) ==
  /\ CopyRows(w)
  /\ ReturnError(w)
  /\ UNCHANGED sessions

\* The process dies and is started again: its batch is lost.
Crash(w) ==
  /\ batch[w] # <<>>
  /\ faults < MaxFaults
  /\ faults' = faults + 1
  /\ save' = [save EXCEPT ![w] = Idle]
  /\ batch' = [batch EXCEPT ![w] = <<>>]
  /\ UNCHANGED <<now, tables, received>>

Tick ==
  /\ now < MaxTime
  /\ now' = now + 1
  /\ UNCHANGED <<tables, batch, save, bounds>>
-----------------------------------------------------------------------------
SaveStep(w) ==
  \/ StartSave(w)
  \/ \E d \in Domains : UpsertDomain(w, d)
  \/ BeginTx(w)
  \/ GetSession(w)
  \/ CreateSession(w)
  \/ UpdateSession(w)
  \/ Commit(w)
  \/ CreateEvents(w)

Fault(w) ==
  \/ StatementFails(w)
  \/ CommitUnacknowledged(w)
  \/ CopyUnacknowledged(w)
  \/ Crash(w)

Next ==
  \/ \E w \in Workers :
       \/ \E e \in Events : ReceiveEvent(w, e)
       \/ SaveStep(w)
       \/ Fault(w)
  \/ Tick

Spec == Init /\ [][Next]_vars

\* A save that was started goes on, and a batch that is there is saved again
\* after an error.  Postgres grants a row lock in the order of the requests,
\* so a transaction that waits for one gets it.
Fairness ==
  \A w \in Workers : WF_vars(SaveStep(w)) /\ SF_vars(UpdateSession(w))

FairSpec == Spec /\ Fairness
-----------------------------------------------------------------------------
(***************************************************************************)
(* Properties.                                                             *)
(***************************************************************************)
SessionRow == [visitor : Visitors, domain : Nat, created : Nat, updated : Nat,
               bounce : BOOLEAN]

Phases == {"idle", "domains", "begin", "get", "create", "update", "commit", "copy"}

\* The types of the variables; a transaction works on an event of the batch.
TypeOK ==
  /\ now \in 0..MaxTime
  /\ DOMAIN domains \subseteq Domains
  /\ DOMAIN sessions \subseteq SessionIds
  /\ \A s \in DOMAIN sessions : sessions[s] \in SessionRow
  /\ \A w \in Workers :
       /\ save[w].phase \in Phases
       /\ save[w].todo \subseteq Domains
       /\ save[w].row \in SessionRow \cup {NoRow}
       /\ save[w].phase \in {"begin", "get", "create", "update", "commit", "copy"}
            => save[w].next \in 1..Len(batch[w])
  /\ received \in 0..MaxReceived
  /\ faults \in 0..MaxFaults

\* A row of events names a session of its own visitor, and row and session
\* name the domain of the event, whatever failed and was retried and whatever
\* other workers did (the maps eventDomains and eventSessions of saveEvents
\* are never stale).
RowsConsistent ==
  \A i \in 1..Len(events) :
    /\ sessions[events[i].session].visitor = events[i].visitor
    /\ sessions[events[i].session].domain = events[i].domain
    /\ \A e \in Events :
         e.visitor = events[i].visitor => domains[e.domain] = events[i].domain

\* The events in the batches.
Unsaved == UNION {{w} \X (1..Len(batch[w])) : w \in Workers}

\* As long as nothing fails, every event that was received is in one batch or
\* is one row: the iterator that COPY reads leaves none out and sends none
\* twice (copyfrom.go), and the batch is emptied when its rows are stored.
EventsConserved ==
  faults = 0 => Len(events) + Cardinality(Unsaved) = received

\* The timeout is long (minutes) against the time that an event waits for its
\* batch and that a save takes (BATCH_MAX_MSEC).  Nothing has failed, and no
\* event has waited for a time the clock can tell.
Prompt ==
  faults = 0 /\ \A i \in 1..Len(events) : events[i].stored = events[i].created

\* Once an event has shown that a session is no bounce, no later update makes
\* it one again, in whatever order several workers find the session, update
\* it and commit (UpdateSession computes bounce from the row that the
\* transaction before it left, not from what GetSession saw).
BounceStaysCleared ==
  [][\A s \in DOMAIN sessions \cap DOMAIN sessions' :
       ~sessions[s].bounce => ~sessions'[s].bounce]_vars

\* Between saves, a session is a bounce exactly as long as it has no event,
\* after the one that created it, that is neither hidden nor ping (the CASE of
\* UpdateSession, run once for each event but the first).  A retry would run
\* it again: this is about prompt saves.
BounceUntilReadOn ==
  Prompt /\ (\A w \in Workers : Phase(w, "idle")) =>
    \A s \in DOMAIN sessions :
      ~sessions[s].bounce <=>
        \E i, j \in 1..Len(events) :
          /\ i < j
          /\ events[i].session = s
          /\ events[j].session = s
          /\ events[j].name \notin {"hidden", "ping"}

\* A visitor has no more live sessions than there are workers.
LiveSessionsBounded ==
  \A v \in Visitors :
    Cardinality({s \in DOMAIN sessions : Live(s, v, now)}) <= Cardinality(Workers)

\* Two sessions of a visitor are at least the timeout apart: README.md:145
\* calls it "Idle minutes before a visit is considered a new session".
OneVisitAtATime ==
  \A s, t \in DOMAIN sessions :
    s # t /\ sessions[s].visitor = sessions[t].visitor =>
      \/ sessions[s].updated + Timeout <= sessions[t].created
      \/ sessions[t].updated + Timeout <= sessions[s].created

\* Rows i and j are successive events of a visitor.
Successive(i, j) ==
  /\ i < j
  /\ events[i].visitor = events[j].visitor
  /\ \A k \in i + 1..j - 1 : events[k].visitor # events[j].visitor

\* README.md:145, seen by the visitor: an event that comes after an idle time
\* of the timeout is in a new session.  The idle time is that between the
\* requests (event.Created), not that between the saves.
IdleVisitorGetsNewSession ==
  Prompt => \A i, j \in 1..Len(events) :
    Successive(i, j) /\ events[i].created + Timeout <= events[j].created
      => events[i].session # events[j].session

\* And one that comes sooner is in the same session: no visit is cut in two.
ActiveVisitorKeepsSession ==
  Prompt => \A i, j \in 1..Len(events) :
    Successive(i, j) /\ events[j].created < events[i].created + Timeout
      => events[i].session = events[j].session

\* With one worker, the sessions table is a log of visits.
Visit == INSTANCE Visits WITH
         VisitIds <- SessionIds,
         visits <- [s \in DOMAIN sessions |->
                     [visitor |-> sessions[s].visitor,
                      first |-> sessions[s].created,
                      last |-> sessions[s].updated]]
RefinesVisits == Visit!Spec

\* A batch is saved at last (or lost in a crash), also when several workers
\* wait for each other's row locks.
Saved == \A w \in Workers : batch[w] # <<>> ~> batch[w] = <<>>
=============================================================================
