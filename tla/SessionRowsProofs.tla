------------------------- MODULE SessionRowsProofs --------------------------
(***************************************************************************)
(* The rows of SessionStore, for any number of workers, any events,        *)
(* timeout and bounds: they name each other correctly, none is lost, a     *)
(* session never becomes a bounce again, and a visitor has no more live    *)
(* sessions than there are workers; and the pruner of Retention leaves all *)
(* of that as it is.                                                       *)
(*                                                                         *)
(* KeptInv says of each worker that what it remembers of the tables is     *)
(* still so.  It relies on the tables only growing, and on no two          *)
(* transactions writing the same session.                                  *)
(***************************************************************************)
EXTENDS Retention, SessionStoreProofs, CopySourceProofs

\* The domain of visitor v has this id.
At(v, id) ==
  \E e \in Events : /\ e.visitor = v
                    /\ e.domain \in DOMAIN domains
                    /\ domains[e.domain] = id

\* The events in the batches were received.
BatchesInv ==
  \A w \in Workers : \A i \in 1..Len(batch[w]) :
    \E e \in Events : /\ e.visitor = batch[w][i].visitor
                      /\ e.domain = batch[w][i].domain

\* eventDomains agrees with the table; no domain is left out.
DomainsKnown(w) ==
  /\ \A d \in DOMAIN save[w].eventDomains :
       d \in DOMAIN domains /\ save[w].eventDomains[d] = domains[d]
  /\ \A i \in 1..Len(batch[w]) :
       batch[w][i].domain \in save[w].todo \cup DOMAIN save[w].eventDomains
  /\ save[w].phase # "domains" => save[w].todo = {}

\* eventSessions agrees with the table; no event behind is left out.
SessionsKnown(w) ==
  /\ \A v \in DOMAIN save[w].eventSessions :
       /\ save[w].eventSessions[v] \in DOMAIN sessions
       /\ sessions[save[w].eventSessions[v]].visitor = v
  /\ \A i \in 1..Len(batch[w]) :
       i < save[w].next \/ save[w].phase = "copy" =>
         batch[w][i].visitor \in DOMAIN save[w].eventSessions

\* The session that w is about to write is one of its visitor, or a new one.
Writes(w) ==
  /\ save[w].row # NoRow <=> save[w].phase = "commit"
  /\ save[w].phase = "update" =>
       /\ save[w].session \in DOMAIN sessions
       /\ sessions[save[w].session].visitor = Current(w).visitor
  /\ save[w].phase = "commit" =>
       /\ save[w].row.visitor = Current(w).visitor
       /\ At(save[w].row.visitor, save[w].row.domain)
       /\ save[w].session \in DOMAIN sessions =>
            sessions[save[w].session].visitor = Current(w).visitor

WorkerInv(w) ==
  /\ save[w].phase # "idle" => DomainsKnown(w) /\ SessionsKnown(w)
  /\ Writes(w)

\* No two transactions have written the same session.
WritersApart ==
  \A u, w \in Workers :
    u # w /\ save[u].phase = "commit" /\ save[w].phase = "commit"
      => save[u].session # save[w].session

\* The rows of the tables.
RowsKept ==
  /\ \A s \in DOMAIN sessions : At(sessions[s].visitor, sessions[s].domain)
  /\ \A i \in 1..Len(events) :
       /\ events[i].session \in DOMAIN sessions
       /\ sessions[events[i].session].visitor = events[i].visitor
       /\ At(events[i].visitor, events[i].domain)

\* The table of events.
EventRow == [visitor : Visitors, domain : Nat, session : Nat, name : Names,
             created : Nat, stored : Nat]

EventsInv == events \in Seq(EventRow)

KeptInv ==
  /\ BatchesInv
  /\ \A w \in Workers : WorkerInv(w)
  /\ WritersApart
  /\ RowsKept

\* The tables only grow, and a session stays with its visitor.
Grows ==
  /\ DOMAIN domains \subseteq DOMAIN domains'
  /\ \A d \in DOMAIN domains : domains'[d] = domains[d]
  /\ DOMAIN sessions \subseteq DOMAIN sessions'
  /\ \A s \in DOMAIN sessions : sessions'[s].visitor = sessions[s].visitor

LEMMA AtGrows ==
  ASSUME Grows, NEW v, NEW id, At(v, id)
  PROVE  At(v, id)'
BY DEF Grows, At

\* A visitor is at one domain: the ids of At are unique.
LEMMA AtUnique ==
  ASSUME NEW v, NEW i, NEW j, At(v, i), At(v, j)
  PROVE  i = j
BY SessionAssumption DEF At

-----------------------------------------------------------------------------
(***************************************************************************)
(* What the steps do to the local state.                                   *)
(***************************************************************************)
\* A statement of a transaction leaves the tables and the maps alone.
Within(w) ==
  /\ OnlyMoves(w)
  /\ save'[w].eventDomains = save[w].eventDomains
  /\ save'[w].eventSessions = save[w].eventSessions
  /\ save'[w].todo = save[w].todo
  /\ save'[w].next = save[w].next
  /\ UNCHANGED <<now, domains, sessions, events, batch, received, faults>>

LEMMA BeginTxWithin ==
  ASSUME TypeInv, NEW w \in Workers, BeginTx(w)
  PROVE  /\ Within(w)
         /\ save[w].phase \in {"domains", "begin"}
         /\ save[w].phase = "domains" => save[w].todo = {}
         /\ save'[w].phase = "get" /\ save'[w].start = now
         /\ save'[w].row = save[w].row /\ save'[w].session = save[w].session
<1>1. save \in [Workers -> SaveState]
  BY DEF TypeInv, SavesInv
<1>2. save' = [save EXCEPT ![w].phase = "get", ![w].start = now]
  BY DEF BeginTx
<1>3. QED
  BY <1>1, <1>2 DEF BeginTx, Phase, Within, OnlyMoves, SaveState, tables, bounds

LEMMA GetSessionWithin ==
  ASSUME TypeInv, NEW w \in Workers, GetSession(w)
  PROVE  /\ Within(w)
         /\ save[w].phase = "get"
         /\ save'[w].start = save[w].start /\ save'[w].row = save[w].row
         /\ \/ /\ save'[w].phase = "create" /\ save'[w].session = save[w].session
               /\ \A s \in DOMAIN sessions :
                    ~Live(s, Current(w).visitor, save[w].start)
            \/ /\ save'[w].phase = "update"
               /\ save'[w].session \in DOMAIN sessions
               /\ Live(save'[w].session, Current(w).visitor, save[w].start)
               /\ \A s \in DOMAIN sessions :
                    Live(s, Current(w).visitor, save[w].start) =>
                      sessions[s].updated <= sessions[save'[w].session].updated
<1>1. save \in [Workers -> SaveState] /\ save[w].phase = "get"
      /\ UNCHANGED <<now, domains, sessions, events, batch, received, faults>>
  BY DEF TypeInv, SavesInv, GetSession, Phase, tables, bounds
<1> DEFINE live == {s \in DOMAIN sessions :
                      Live(s, Current(w).visitor, save[w].start)}
<1>2. \/ live = {} /\ save' = [save EXCEPT ![w].phase = "create"]
      \/ \E s \in live :
           /\ \A t \in live : sessions[t].updated <= sessions[s].updated
           /\ save' = [save EXCEPT ![w].phase = "update", ![w].session = s]
  BY DEF GetSession
<1>3. \A s : s \in live <=> s \in DOMAIN sessions
                           /\ Live(s, Current(w).visitor, save[w].start)
  OBVIOUS
<1> HIDE DEF live
<1>4. CASE live = {} /\ save' = [save EXCEPT ![w].phase = "create"]
  <2>1. /\ Within(w) /\ save'[w].start = save[w].start /\ save'[w].row = save[w].row
        /\ save'[w].phase = "create" /\ save'[w].session = save[w].session
    BY <1>1, <1>4 DEF Within, OnlyMoves, SaveState
  <2>2. QED
    BY Zenon, <1>1, <1>3, <1>4, <2>1
<1>5. ASSUME NEW s \in live,
             \A t \in live : sessions[t].updated <= sessions[s].updated,
             save' = [save EXCEPT ![w].phase = "update", ![w].session = s]
      PROVE  /\ Within(w)
             /\ save'[w].start = save[w].start /\ save'[w].row = save[w].row
             /\ save'[w].phase = "update" /\ save'[w].session = s
  BY <1>1, <1>5 DEF Within, OnlyMoves, SaveState
<1>6. QED
  BY Zenon, <1>1, <1>2, <1>3, <1>4, <1>5

LEMMA CreateSessionWithin ==
  ASSUME TypeInv, NEW w \in Workers, CreateSession(w)
  PROVE  /\ Within(w)
         /\ save[w].phase = "create" /\ save'[w].phase = "commit"
         /\ save'[w].start = save[w].start
         /\ save'[w].session \notin DOMAIN sessions
         /\ \A u \in Workers : save'[w].session # save[u].session
         /\ save'[w].row = NewSession(Current(w).visitor,
                                      Get(save[w].eventDomains, Current(w).domain),
                                      save[w].start)
<1>1. save \in [Workers -> SaveState] /\ save[w].phase = "create"
      /\ UNCHANGED <<now, domains, sessions, events, batch, received, faults>>
  BY DEF TypeInv, SavesInv, CreateSession, Phase, tables, bounds
<1> DEFINE row == NewSession(Current(w).visitor,
                             Get(save[w].eventDomains, Current(w).domain),
                             save[w].start)
<1>2. PICK s \in FreshIds :
        save' = [save EXCEPT ![w].phase = "commit", ![w].session = s, ![w].row = row]
  BY DEF CreateSession
<1> HIDE DEF row
<1>3. /\ save'[w].phase = "commit" /\ save'[w].session = s /\ save'[w].row = row
      /\ save'[w].start = save[w].start /\ Within(w)
  BY <1>1, <1>2 DEF SaveState, OnlyMoves, Within
<1>4. s \notin DOMAIN sessions /\ \A u \in Workers : s # save[u].session
  BY DEF FreshIds
<1>5. QED
  BY Zenon, <1>1, <1>3, <1>4 DEF row

LEMMA UpdateSessionWithin ==
  ASSUME TypeInv, NEW w \in Workers, UpdateSession(w)
  PROVE  /\ Within(w)
         /\ save[w].phase = "update" /\ save'[w].phase = "commit"
         /\ save'[w].start = save[w].start
         /\ save'[w].session = save[w].session
         /\ ~Locked(save[w].session)
         /\ sessions[save[w].session] \in SessionRow
         /\ save'[w].row = UpdatedRow(sessions[save[w].session], save[w].start,
                                      Current(w).name)
<1>1. save \in [Workers -> SaveState] /\ save[w].phase = "update"
      /\ ~Locked(save[w].session)
      /\ UNCHANGED <<now, domains, sessions, events, batch, received, faults>>
  BY DEF TypeInv, SavesInv, UpdateSession, WriteSession, Phase, tables, bounds
<1> DEFINE row == UpdatedRow(sessions[save[w].session], save[w].start,
                             Current(w).name)
<1>2. save' = [save EXCEPT ![w].phase = "commit", ![w].row = row]
  BY DEF UpdateSession, WriteSession
<1>3. sessions[save[w].session] \in SessionRow
  BY <1>1 DEF TypeInv, WritesInv, TablesInv
<1> HIDE DEF row
<1>4. /\ save'[w].phase = "commit" /\ save'[w].session = save[w].session
      /\ save'[w].row = row /\ save'[w].start = save[w].start /\ Within(w)
  BY <1>1, <1>2 DEF SaveState, OnlyMoves, Within
<1>5. QED
  BY Zenon, <1>1, <1>3, <1>4 DEF row

LEMMA AfterCommitIs ==
  ASSUME TypeInv, NEW w \in Workers, Commit(w)
  PROVE  /\ OnlyMoves(w)
         /\ UNCHANGED <<now, domains, events, batch, received, faults>>
         /\ save'[w].eventSessions =
              Put(save[w].eventSessions, Current(w).visitor, save[w].session)
         /\ save'[w].eventDomains = save[w].eventDomains
         /\ save'[w].todo = save[w].todo
         /\ save'[w].row = NoRow
         /\ \/ /\ save[w].next < Len(batch[w])
               /\ save'[w].phase = "begin" /\ save'[w].next = save[w].next + 1
            \/ /\ save[w].next = Len(batch[w])
               /\ save'[w].phase = "copy" /\ save'[w].next = save[w].next
<1>1. save[w] \in SaveState /\ save[w].phase = "commit"
      /\ save[w].next \in 1..Len(batch[w]) /\ Len(batch[w]) \in Nat
  BY DEF Commit, Phase, TypeInv, SavesInv
<1>2. save'[w] = AfterCommit(w) /\ OnlyMoves(w)
  BY DEF Commit, OnlyMoves, TypeInv, SavesInv
<1> DEFINE m == Put(save[w].eventSessions, Current(w).visitor, save[w].session)
           more == save[w].next < Len(batch[w])
           p == IF more THEN "begin" ELSE "copy"
           n == IF more THEN save[w].next + 1 ELSE save[w].next
<1>3. AfterCommit(w) = [save[w] EXCEPT !.eventSessions = m, !.phase = p, !.next = n,
                                       !.start = 0, !.session = 0, !.row = NoRow]
  BY DEF AfterCommit
<1>4. \/ save[w].next < Len(batch[w]) /\ p = "begin" /\ n = save[w].next + 1
      \/ save[w].next = Len(batch[w]) /\ p = "copy" /\ n = save[w].next
  BY <1>1
<1> HIDE DEF m, p, n
<1>5. /\ save'[w].eventSessions = m /\ save'[w].phase = p /\ save'[w].next = n
      /\ save'[w].row = NoRow /\ save'[w].todo = save[w].todo
      /\ save'[w].eventDomains = save[w].eventDomains
  BY <1>1, <1>2, <1>3 DEF SaveState
<1>6. UNCHANGED <<now, domains, events, batch, received, faults>>
  BY DEF Commit, bounds
<1>7. QED
  BY <1>2, <1>4, <1>5, <1>6 DEF m

\* saveEvents returns, or has not been called.
LEMMA IdleIs ==
  ASSUME TypeInv, NEW w \in Workers, save' = [save EXCEPT ![w] = Idle]
  PROVE  /\ OnlyMoves(w) /\ save'[w].phase = "idle"
         /\ save'[w].row = NoRow /\ save'[w].session = 0
BY DEF TypeInv, SavesInv, OnlyMoves, Idle
-----------------------------------------------------------------------------
(***************************************************************************)
(* The tables grow.                                                        *)
(***************************************************************************)
LEMMA UpsertGrows ==
  ASSUME TypeInv, NEW w \in Workers, NEW d \in Domains, UpsertDomain(w, d)
  PROVE  /\ DOMAIN domains' = DOMAIN domains \cup {d}
         /\ \A c \in DOMAIN domains : domains'[c] = domains[c]
         /\ UNCHANGED <<now, sessions, events, batch, received, faults>>
<1>1. domains' = WithDomain(d)
  BY DEF UpsertDomain
<1>2. CASE d \in DOMAIN domains
  BY <1>1, <1>2 DEF WithDomain, UpsertDomain, bounds
<1>3. CASE d \notin DOMAIN domains
  BY <1>1, <1>3 DEF WithDomain, Put, UpsertDomain, bounds
<1>4. QED
  BY <1>2, <1>3

LEMMA CommitGrows ==
  ASSUME TypeInv, KeptInv, NEW w \in Workers, Commit(w) \/ CommitUnacknowledged(w)
  PROVE  Grows /\ UNCHANGED <<domains, events>>
<1>1. UNCHANGED <<domains, events>>
  BY DEF Commit, CommitUnacknowledged, ReturnError
<1>2. /\ save[w].phase = "commit"
      /\ DOMAIN sessions' = DOMAIN sessions \cup {save[w].session}
      /\ \A s \in DOMAIN sessions' :
           sessions'[s] = IF s = save[w].session THEN save[w].row ELSE sessions[s]
  BY CommitDoes
<1>3. /\ save[w].row.visitor = Current(w).visitor
      /\ save[w].session \in DOMAIN sessions =>
           sessions[save[w].session].visitor = Current(w).visitor
  BY <1>2 DEF KeptInv, WorkerInv, Writes
<1>4. QED
  BY <1>1, <1>2, <1>3 DEF Grows

LEMMA NextGrows ==
  ASSUME TypeInv, KeptInv, [Next]_vars
  PROVE  Grows
<1>1. ASSUME UNCHANGED <<domains, sessions>> PROVE Grows
  BY <1>1 DEF Grows
<1>2. ASSUME NEW w \in Workers, NEW d \in Domains, UpsertDomain(w, d) PROVE Grows
  BY <1>2, UpsertGrows DEF Grows
<1>3. ASSUME NEW w \in Workers, Commit(w) \/ CommitUnacknowledged(w) PROVE Grows
  BY <1>3, CommitGrows
<1>4. ASSUME NEW w \in Workers, NEW e \in Events, ReceiveEvent(w, e)
      PROVE  UNCHANGED <<domains, sessions>>
  BY <1>4 DEF ReceiveEvent, tables
<1>5. ASSUME NEW w \in Workers,
             \/ StartSave(w) \/ BeginTx(w) \/ GetSession(w) \/ CreateSession(w)
             \/ UpdateSession(w) \/ CreateEvents(w) \/ StatementFails(w)
             \/ CopyUnacknowledged(w) \/ Crash(w)
      PROVE  UNCHANGED <<domains, sessions>>
  BY Zenon, <1>5 DEF StartSave, BeginTx, GetSession, CreateSession, UpdateSession,
     WriteSession, CreateEvents, StatementFails, CopyUnacknowledged, Crash,
     ReturnError, tables
<1>6. CASE Tick \/ UNCHANGED vars
  BY <1>1, <1>6 DEF Tick, tables, vars
<1>7. QED
  BY Zenon, <1>1, <1>2, <1>3, <1>4, <1>5, <1>6 DEF Next, SaveStep, Fault
-----------------------------------------------------------------------------
(***************************************************************************)
(* KeptInv is inductive.  What a worker remembers stays so while others    *)
(* move, as the tables only grow.                                          *)
(***************************************************************************)
LEMMA OtherWorkers ==
  ASSUME Grows, NEW u \in Workers, WorkerInv(u), save'[u] = save[u],
         save[u].phase # "idle" => batch'[u] = batch[u],
         \A s \in DOMAIN sessions' :
           \/ s \in DOMAIN sessions
           \/ save[u].phase = "commit" => s # save[u].session
  PROVE  WorkerInv(u)'
<1>1. save[u].phase # "idle" => Current(u)' = Current(u)
  BY DEF Current
<1>2. save[u].phase # "idle" => DomainsKnown(u)'
  BY DEF WorkerInv, DomainsKnown, Grows
<1>3. save[u].phase # "idle" => SessionsKnown(u)'
  BY DEF WorkerInv, SessionsKnown, Grows
<1>4. At(save[u].row.visitor, save[u].row.domain)
        => At(save[u].row.visitor, save[u].row.domain)'
  BY DEF At, Grows
<1>5. Writes(u)'
  BY <1>1, <1>4 DEF WorkerInv, Writes, Grows
<1>6. QED
  BY <1>2, <1>3, <1>5 DEF WorkerInv

\* What a statement of a transaction leaves as it was.
LEMMA WithinKnown ==
  ASSUME NEW w \in Workers, WorkerInv(w), Within(w), Writes(w)',
         save[w].phase # "idle", save[w].phase = "domains" => save[w].todo = {},
         save'[w].phase # "copy"
  PROVE  WorkerInv(w)'
<1>1. DomainsKnown(w) /\ SessionsKnown(w)
  BY DEF WorkerInv
<1>2. DomainsKnown(w)'
  BY <1>1 DEF DomainsKnown, Within
<1>3. SessionsKnown(w)'
  BY <1>1 DEF SessionsKnown, Within
<1>4. QED
  BY <1>2, <1>3 DEF WorkerInv

LEMMA WithinCurrent ==
  ASSUME NEW w \in Workers, Within(w)
  PROVE  /\ Current(w)' = Current(w)
         /\ \A v, id : At(v, id)' <=> At(v, id)
BY DEF Within, Current, At

LEMMA StartSaveKept ==
  ASSUME TypeInv, NEW w \in Workers, StartSave(w)
  PROVE  WorkerInv(w)'
<1>1. /\ save'[w].phase = "domains" /\ save'[w].eventDomains = <<>>
      /\ save'[w].eventSessions = <<>> /\ save'[w].next = 1
      /\ save'[w].todo = {batch[w][i].domain : i \in 1..Len(batch[w])}
      /\ save'[w].row = NoRow
      /\ batch' = batch
  BY DEF StartSave, Idle, TypeInv, SavesInv
<1>2. DOMAIN <<>> = {}
  OBVIOUS
<1>3. DomainsKnown(w)'
  BY <1>1, <1>2 DEF DomainsKnown
<1>4. SessionsKnown(w)'
  BY <1>1, <1>2 DEF SessionsKnown
<1>5. Writes(w)'
  BY <1>1 DEF Writes
<1>6. QED
  BY <1>3, <1>4, <1>5 DEF WorkerInv

LEMMA UpsertDomainKept ==
  ASSUME TypeInv, NEW w \in Workers, NEW d \in Domains, UpsertDomain(w, d), WorkerInv(w)
  PROVE  WorkerInv(w)' /\ OnlyMoves(w)
<1>1. save[w] \in SaveState /\ save[w].phase = "domains"
  BY DEF UpsertDomain, Phase, TypeInv, SavesInv
<1> DEFINE m == Put(save[w].eventDomains, d, domains'[d])
           rest == save[w].todo \ {d}
<1>2. save' = [save EXCEPT ![w].todo = rest, ![w].eventDomains = m]
  BY DEF UpsertDomain
<1>3. /\ DOMAIN m = DOMAIN save[w].eventDomains \cup {d}
      /\ \A c \in DOMAIN m :
           m[c] = IF c = d THEN domains'[d] ELSE save[w].eventDomains[c]
  BY DEF Put
<1>4. \A c \in rest \cup DOMAIN m : c \in save[w].todo \cup DOMAIN save[w].eventDomains \cup {d}
  BY <1>3
<1>5. save[w].todo \cup DOMAIN save[w].eventDomains \subseteq rest \cup DOMAIN m
  BY <1>3
<1> HIDE DEF m, rest
<1>6. /\ save'[w].todo = rest /\ save'[w].eventDomains = m
      /\ save'[w].eventSessions = save[w].eventSessions
      /\ save'[w].next = save[w].next /\ save'[w].row = save[w].row
      /\ save'[w].phase = "domains" /\ OnlyMoves(w)
  BY <1>1, <1>2 DEF TypeInv, SavesInv, SaveState, OnlyMoves
<1>7. DomainsKnown(w) /\ SessionsKnown(w) /\ Writes(w)
  BY <1>1 DEF WorkerInv
<1>8. DomainsKnown(w)'
  <2>1. \A c \in DOMAIN m : c \in DOMAIN domains' /\ m[c] = domains'[c]
    BY <1>3, <1>7, UpsertGrows DEF DomainsKnown
  <2>2. QED
    BY <1>5, <1>6, <1>7, <2>1, UpsertGrows DEF DomainsKnown
<1>9. SessionsKnown(w)'
  BY <1>1, <1>6, <1>7, UpsertGrows DEF SessionsKnown
<1>10. Writes(w)'
  BY <1>1, <1>6, <1>7 DEF Writes
<1>11. QED
  BY <1>6, <1>8, <1>9, <1>10 DEF WorkerInv

\* The domain of an event of the batch, once upsertDomains is through.
LEMMA DomainFound ==
  ASSUME TypeInv, BatchesInv, NEW w \in Workers, WorkerInv(w),
         save[w].phase \notin {"idle", "domains"},
         NEW i \in 1..Len(batch[w])
  PROVE  At(batch[w][i].visitor, Get(save[w].eventDomains, batch[w][i].domain))
<1>1. DomainsKnown(w) /\ save[w].todo = {}
  BY DEF WorkerInv, DomainsKnown
<1>2. batch[w][i].domain \in DOMAIN save[w].eventDomains
  BY <1>1 DEF DomainsKnown
<1>3. PICK e \in Events : e.visitor = batch[w][i].visitor /\ e.domain = batch[w][i].domain
  BY DEF BatchesInv
<1>4. /\ e.domain \in DOMAIN domains
      /\ Get(save[w].eventDomains, e.domain) = domains[e.domain]
  BY <1>1, <1>2, <1>3 DEF DomainsKnown, Get
<1>5. QED
  BY <1>3, <1>4 DEF At

\* UpdateSession leaves a session at its domain.
LEMMA UpdatedRowDomain ==
  ASSUME NEW old \in SessionRow, NEW time, NEW name
  PROVE  UpdatedRow(old, time, name).domain = old.domain
<1> DEFINE stays == old.bounce /\ name \in {"hidden", "ping"}
<1>1. UpdatedRow(old, time, name) = [old EXCEPT !.bounce = stays, !.updated = time]
  BY Zenon DEF UpdatedRow
<1> HIDE DEF stays
<1>2. QED
  BY <1>1 DEF SessionRow

\* The statements of a transaction.
LEMMA StatementKept ==
  ASSUME TypeInv, TypeInv', KeptInv, NEW w \in Workers,
         BeginTx(w) \/ GetSession(w) \/ CreateSession(w) \/ UpdateSession(w)
  PROVE  WorkerInv(w)' /\ Within(w)
<1>1. WorkerInv(w) /\ Writes(w) /\ BatchesInv /\ RowsKept
  BY DEF KeptInv, WorkerInv
<1>2. CASE BeginTx(w)
  <2>1. Writes(w)'
    BY <1>1, <1>2, BeginTxWithin DEF Writes
  <2>2. /\ Within(w) /\ save[w].phase # "idle" /\ save'[w].phase # "copy"
        /\ save[w].phase = "domains" => save[w].todo = {}
    BY <1>2, BeginTxWithin
  <2>3. QED
    BY Zenon, <1>1, <2>1, <2>2, WithinKnown
<1>3. CASE GetSession(w)
  <2>1. Within(w) /\ Current(w)' = Current(w)
    BY <1>3, GetSessionWithin, WithinCurrent
  <2>2. Writes(w)'
    BY <1>1, <1>3, <2>1, GetSessionWithin DEF Writes, Live, Within
  <2>3. save[w].phase = "get" /\ save'[w].phase \in {"create", "update"}
    BY <1>3, GetSessionWithin
  <2>4. /\ save[w].phase # "idle" /\ save'[w].phase # "copy"
        /\ save[w].phase = "domains" => save[w].todo = {}
    BY <2>3
  <2>5. QED
    BY Zenon, <1>1, <2>1, <2>2, <2>4, WithinKnown
<1>4. CASE CreateSession(w)
  <2>1. Within(w) /\ Current(w)' = Current(w) /\ \A v, id : At(v, id)' <=> At(v, id)
    BY <1>4, CreateSessionWithin, WithinCurrent
  <2>2. /\ save[w].phase = "create" /\ save'[w].phase = "commit"
        /\ save'[w].session \notin DOMAIN sessions
        /\ save'[w].row.visitor = Current(w).visitor
        /\ save'[w].row.domain = Get(save[w].eventDomains, Current(w).domain)
    <3> DEFINE id == Get(save[w].eventDomains, Current(w).domain)
    <3>1. save'[w].row = NewSession(Current(w).visitor, id, save[w].start)
      BY Zenon, <1>4, CreateSessionWithin
    <3> HIDE DEF id
    <3>2. save'[w].row.visitor = Current(w).visitor /\ save'[w].row.domain = id
      BY <3>1 DEF NewSession
    <3>3. QED
      BY Zenon, <1>4, <3>2, CreateSessionWithin DEF id
  <2>3. At(save'[w].row.visitor, save'[w].row.domain)
    <3>1. save[w].next \in 1..Len(batch[w])
      BY <2>2 DEF TypeInv, SavesInv
    <3>2. QED
      BY <1>1, <2>2, <3>1, DomainFound DEF Current
  <2>4. save'[w].row # NoRow
    BY <2>2, NoRowDiffers DEF TypeInv, WritesInv
  <2>5. Writes(w)'
    BY <2>1, <2>2, <2>3, <2>4 DEF Writes, Within
  <2>6. /\ save[w].phase # "idle" /\ save'[w].phase # "copy"
        /\ save[w].phase = "domains" => save[w].todo = {}
    BY <2>2
  <2>7. QED
    BY Zenon, <1>1, <2>1, <2>5, <2>6, WithinKnown
<1>5. CASE UpdateSession(w)
  <2> DEFINE old == sessions[save[w].session]
  <2>1. Within(w) /\ Current(w)' = Current(w) /\ \A v, id : At(v, id)' <=> At(v, id)
    BY <1>5, UpdateSessionWithin, WithinCurrent
  <2>2. /\ save[w].phase = "update" /\ save'[w].phase = "commit"
        /\ save'[w].session = save[w].session
        /\ old \in SessionRow
        /\ save'[w].row = UpdatedRow(old, save[w].start, Current(w).name)
    BY <1>5, UpdateSessionWithin
  <2>3. old.visitor = Current(w).visitor /\ At(old.visitor, old.domain)
    BY <1>1, <2>2 DEF Writes, RowsKept
  <2> HIDE DEF old
  <2>4. save'[w].row.visitor = old.visitor /\ save'[w].row.domain = old.domain
    <3>1. save[w].start \in Nat
      BY DEF TypeInv, SavesInv, SaveState
    <3>2. /\ UpdatedRow(old, save[w].start, Current(w).name).visitor = old.visitor
          /\ UpdatedRow(old, save[w].start, Current(w).name).domain = old.domain
      BY <2>2, <3>1, UpdatedRowType, UpdatedRowDomain
    <3>3. QED
      BY Zenon, <2>2, <3>2
  <2>5. save'[w].row # NoRow
    BY <2>2, NoRowDiffers DEF TypeInv, WritesInv
  <2>6. /\ save'[w].row.visitor = Current(w).visitor
        /\ At(save'[w].row.visitor, save'[w].row.domain)
    BY Zenon, <2>3, <2>4
  <2>7. save[w].session \in DOMAIN sessions =>
          sessions[save[w].session].visitor = Current(w).visitor
    BY <1>1, <2>2 DEF Writes
  <2>8. Writes(w)'
    BY <2>1, <2>2, <2>5, <2>6, <2>7 DEF Writes, Within
  <2>9. /\ save[w].phase # "idle" /\ save'[w].phase # "copy"
        /\ save[w].phase = "domains" => save[w].todo = {}
    BY <2>2
  <2>10. QED
    BY Zenon, <1>1, <2>1, <2>8, <2>9, WithinKnown
<1>6. QED
  BY <1>2, <1>3, <1>4, <1>5

\* No other transaction has the session that w takes.
LEMMA StatementApart ==
  ASSUME TypeInv, KeptInv, NEW w \in Workers,
         BeginTx(w) \/ GetSession(w) \/ CreateSession(w) \/ UpdateSession(w)
  PROVE  WritersApart'
<1>1. SUFFICES ASSUME NEW u \in Workers, u # w,
                      save'[w].phase = "commit", save[u].phase = "commit"
               PROVE  save'[w].session # save[u].session
  <2>1. OnlyMoves(w)
    BY BeginTxWithin, GetSessionWithin, CreateSessionWithin, UpdateSessionWithin DEF Within
  <2>2. QED
    BY <1>1, <2>1 DEF WritersApart, KeptInv, OnlyMoves
<1>2. CASE CreateSession(w)
  BY <1>2, CreateSessionWithin
<1>3. CASE UpdateSession(w)
  BY <1>1, <1>3, UpdateSessionWithin DEF Locked, KeptInv, WorkerInv, Writes
<1>4. QED
  BY <1>1, <1>2, <1>3, BeginTxWithin, GetSessionWithin

LEMMA CommitKept ==
  ASSUME TypeInv, KeptInv, NEW w \in Workers, Commit(w), Grows
  PROVE  WorkerInv(w)'
<1> DEFINE m == save[w].eventSessions
           v == Current(w).visitor
           id == save[w].session
<1>1. /\ save[w].phase = "commit"
      /\ DOMAIN sessions' = DOMAIN sessions \cup {id}
      /\ \A s \in DOMAIN sessions' :
           sessions'[s] = IF s = id THEN save[w].row ELSE sessions[s]
  BY CommitDoes
<1>2. DomainsKnown(w) /\ SessionsKnown(w) /\ save[w].row.visitor = v
      /\ save[w].todo = {}
  BY <1>1 DEF KeptInv, WorkerInv, Writes, DomainsKnown
<1>3. /\ save'[w].eventSessions = Put(m, v, id)
      /\ save'[w].eventDomains = save[w].eventDomains
      /\ save'[w].todo = {} /\ save'[w].row = NoRow /\ batch' = batch
      /\ save'[w].phase \in {"begin", "copy"}
      /\ save'[w].phase = "begin" => save'[w].next = save[w].next + 1
      /\ save'[w].phase = "copy" => save[w].next = Len(batch[w])
  BY <1>2, AfterCommitIs
<1>4. save[w].next \in 1..Len(batch[w]) /\ Len(batch[w]) \in Nat
  BY <1>1 DEF TypeInv, SavesInv
<1>5. DomainsKnown(w)'
  BY <1>2, <1>3 DEF DomainsKnown, Grows
<1>6. /\ DOMAIN Put(m, v, id) = DOMAIN m \cup {v}
      /\ \A u \in DOMAIN Put(m, v, id) :
           Put(m, v, id)[u] = IF u = v THEN id ELSE m[u]
  BY DEF Put
<1>7. \A i \in 1..Len(batch[w]) :
        i < save'[w].next \/ save'[w].phase = "copy" =>
          i < save[w].next \/ i = save[w].next
  BY <1>3, <1>4
<1>8. \A i \in 1..Len(batch[w]) :
        i < save'[w].next \/ save'[w].phase = "copy" =>
          batch[w][i].visitor \in DOMAIN m \cup {v}
  BY <1>2, <1>7 DEF SessionsKnown, Current
<1>9. \A u \in DOMAIN m \cup {v} :
        LET s == IF u = v THEN id ELSE m[u]
        IN  s \in DOMAIN sessions' /\ sessions'[s].visitor = u
  BY <1>1, <1>2 DEF SessionsKnown, Grows
<1>10. SessionsKnown(w)'
  <2> DEFINE p == Put(m, v, id)
  <2>1. /\ DOMAIN p = DOMAIN m \cup {v}
        /\ \A u \in DOMAIN p : p[u] \in DOMAIN sessions' /\ sessions'[p[u]].visitor = u
    BY <1>6, <1>9
  <2> HIDE DEF p
  <2>2. save'[w].eventSessions = p
    BY Zenon, <1>3 DEF p
  <2> HIDE DEF m, v, id
  <2>3. QED
    BY <1>3, <1>8, <2>1, <2>2 DEF SessionsKnown
<1>11. Writes(w)'
  BY <1>3 DEF Writes
<1>12. QED
  BY <1>5, <1>10, <1>11 DEF WorkerInv

\* saveEvents returns: the maps are gone.
LEMMA IdleKept ==
  ASSUME TypeInv, NEW w \in Workers, save' = [save EXCEPT ![w] = Idle]
  PROVE  WorkerInv(w)' /\ OnlyMoves(w) /\ save'[w].phase # "commit"
BY IdleIs DEF WorkerInv, Writes

\* The rows that COPY adds: each names the session and the domain of its
\* visitor.
LEMMA CopyIs ==
  ASSUME TypeInv, KeptInv, EventsInv, NEW w \in Workers, CopyRows(w)
  PROVE  /\ EventsInv'
         /\ Len(events') = Len(events) + Len(batch[w])
         /\ \A i \in 1..Len(events) : events'[i] = events[i]
         /\ \A i \in 1..Len(batch[w]) :
              /\ events'[Len(events) + i] = Rows(w)[i]
              /\ Rows(w)[i].visitor = batch[w][i].visitor
              /\ Rows(w)[i].session = save[w].eventSessions[batch[w][i].visitor]
              /\ batch[w][i].visitor \in DOMAIN save[w].eventSessions
              /\ At(Rows(w)[i].visitor, Rows(w)[i].domain)
<1> DEFINE n == Len(batch[w])
           domain(i) == Get(save[w].eventDomains, batch[w][i].domain)
           session(i) == Get(save[w].eventSessions, batch[w][i].visitor)
           row(i) == [visitor |-> batch[w][i].visitor, domain |-> domain(i),
                      session |-> session(i), name |-> batch[w][i].name,
                      created |-> batch[w][i].created, stored |-> now]
<1>1. n \in Nat /\ save[w].phase = "copy" /\ events' = events \o Copied(Rows(w))
  BY DEF TypeInv, SavesInv, CopyRows, Phase
<1>2. \A i \in 1..n : row(i) \in EventRow
  <2>1. ASSUME NEW i \in 1..n PROVE batch[w][i] \in Queued
    BY DEF TypeInv, SavesInv
  <2>2. now \in Nat /\ save[w].eventDomains \in GoMap(Domains)
        /\ save[w].eventSessions \in GoMap(Visitors)
    BY ConstantTypes DEF TypeInv, BoundsInv, SavesInv, SaveState
  <2>3. \A i \in 1..n : domain(i) \in Nat /\ session(i) \in Nat
    BY <2>2, GetGoMap
  <2> HIDE DEF domain, session
  <2>4. QED
    BY <2>1, <2>2, <2>3 DEF Queued, EventRow
<1>3. WorkerInv(w) /\ BatchesInv
  BY DEF KeptInv
<1>4. \A i \in 1..n : At(batch[w][i].visitor, domain(i))
  BY <1>1, <1>3, DomainFound
<1>5. \A i \in 1..n : /\ batch[w][i].visitor \in DOMAIN save[w].eventSessions
                      /\ session(i) = save[w].eventSessions[batch[w][i].visitor]
  BY <1>1, <1>3 DEF WorkerInv, SessionsKnown, Get
<1>6. Rows(w) = [i \in 1..n |-> row(i)]
  BY Zenon DEF Rows
<1>7. \A i \in 1..n : /\ row(i).visitor = batch[w][i].visitor
                      /\ row(i).domain = domain(i)
                      /\ row(i).session = session(i)
  OBVIOUS
<1> HIDE DEF domain, session, row, n
<1>8. Rows(w) \in Seq(EventRow) /\ Len(Rows(w)) = n
      /\ \A i \in 1..n : Rows(w)[i] = row(i)
  BY <1>1, <1>2, <1>6
<1>9. Copied(Rows(w)) = Rows(w)
  BY <1>8, CopiedIsRows
<1>10. events' = events \o Rows(w)
  BY <1>1, <1>9
<1>11. /\ events' \in Seq(EventRow) /\ Len(events') = Len(events) + n
       /\ \A i \in 1..Len(events) : events'[i] = events[i]
       /\ \A i \in 1..n : events'[Len(events) + i] = Rows(w)[i]
  <2>1. /\ events \in Seq(EventRow) /\ Rows(w) \in Seq(EventRow)
        /\ Len(Rows(w)) = n /\ n \in Nat /\ Len(events) \in Nat
    BY <1>1, <1>8 DEF EventsInv
  <2>2. /\ events \o Rows(w) \in Seq(EventRow)
        /\ Len(events \o Rows(w)) = Len(events) + n
        /\ \A i \in 1..Len(events) + n :
             (events \o Rows(w))[i] = IF i <= Len(events) THEN events[i]
                                      ELSE Rows(w)[i - Len(events)]
    BY <2>1, ConcatProperties
  <2>3. /\ events' \in Seq(EventRow) /\ Len(events') = Len(events) + n
        /\ \A i \in 1..Len(events) : events'[i] = events[i]
    BY <1>10, <2>1, <2>2
  <2>4. ASSUME NEW i \in 1..n PROVE events'[Len(events) + i] = Rows(w)[i]
    BY <1>10, <2>1, <2>2
  <2>5. QED
    BY <2>3, <2>4
<1>12. EventsInv'
  BY Zenon, <1>11 DEF EventsInv
<1>13. \A i \in 1..n : /\ Rows(w)[i].visitor = batch[w][i].visitor
                       /\ Rows(w)[i].domain = domain(i)
                       /\ Rows(w)[i].session = session(i)
  BY Zenon, <1>7, <1>8
<1>14. QED
  BY Zenon, <1>4, <1>5, <1>11, <1>12, <1>13 DEF n
-----------------------------------------------------------------------------
(***************************************************************************)
(* The steps.                                                              *)
(***************************************************************************)
LEMMA RowsStay ==
  ASSUME RowsKept, Grows, sessions' = sessions, events' = events
  PROVE  RowsKept'
BY AtGrows DEF RowsKept

LEMMA CommitRowsKept ==
  ASSUME TypeInv, KeptInv, NEW w \in Workers, Commit(w) \/ CommitUnacknowledged(w)
  PROVE  RowsKept'
<1>1. /\ save[w].phase = "commit"
      /\ DOMAIN sessions' = DOMAIN sessions \cup {save[w].session}
      /\ \A s \in DOMAIN sessions' :
           sessions'[s] = IF s = save[w].session THEN save[w].row ELSE sessions[s]
  BY CommitDoes
<1>2. Grows /\ domains' = domains /\ events' = events
  BY CommitGrows
<1>3. At(save[w].row.visitor, save[w].row.domain) /\ RowsKept
  BY <1>1 DEF KeptInv, WorkerInv, Writes
<1>4. \A v, id : At(v, id)' <=> At(v, id)
  BY <1>2 DEF At
<1>5. \A s \in DOMAIN sessions' : At(sessions'[s].visitor, sessions'[s].domain)
  BY <1>1, <1>3 DEF RowsKept
<1>6. QED
  BY <1>2, <1>3, <1>4, <1>5 DEF RowsKept, Grows

LEMMA CopyRowsKept ==
  ASSUME TypeInv, KeptInv, EventsInv, NEW w \in Workers, CopyRows(w),
         UNCHANGED <<domains, sessions>>
  PROVE  RowsKept'
<1>1. \A v, id : At(v, id)' <=> At(v, id)
  BY DEF At
<1>2. SessionsKnown(w) /\ RowsKept
  BY DEF CopyRows, Phase, KeptInv, WorkerInv
<1>3. ASSUME NEW k \in 1..Len(events')
      PROVE  /\ events'[k].session \in DOMAIN sessions
             /\ sessions[events'[k].session].visitor = events'[k].visitor
             /\ At(events'[k].visitor, events'[k].domain)
  <2>1. CASE k \in 1..Len(events)
    BY <1>2, <2>1, CopyIs DEF RowsKept
  <2>2. CASE k \notin 1..Len(events)
    <3>1. Len(events) \in Nat /\ Len(batch[w]) \in Nat
      BY DEF EventsInv, TypeInv, SavesInv
    <3>2. Len(events') = Len(events) + Len(batch[w])
      BY CopyIs
    <3>3. PICK i \in 1..Len(batch[w]) : k = Len(events) + i
      <4>1. k \in 1..(Len(events) + Len(batch[w]))
        BY <3>2
      <4>2. k - Len(events) \in 1..Len(batch[w]) /\ k = Len(events) + (k - Len(events))
        BY <2>2, <3>1, <4>1
      <4>3. QED
        BY <4>2
    <3> DEFINE s == save[w].eventSessions[batch[w][i].visitor]
    <3>4. /\ events'[k] = Rows(w)[i] /\ Rows(w)[i].visitor = batch[w][i].visitor
          /\ Rows(w)[i].session = s
          /\ batch[w][i].visitor \in DOMAIN save[w].eventSessions
          /\ At(Rows(w)[i].visitor, Rows(w)[i].domain)
      BY <3>3, CopyIs
    <3>5. s \in DOMAIN sessions /\ sessions[s].visitor = batch[w][i].visitor
      BY <1>2, <3>4 DEF SessionsKnown
    <3>6. QED
      BY Zenon, <3>4, <3>5
  <2>3. QED
    BY <2>1, <2>2
<1>4. QED
  BY <1>1, <1>2, <1>3 DEF RowsKept

\* Workers that do not move.
LEMMA OthersKept ==
  ASSUME KeptInv, Grows, NEW w \in Workers, OnlyMoves(w),
         \A u \in Workers \ {w} : batch'[u] = batch[u],
         \A s \in DOMAIN sessions' :
           \/ s \in DOMAIN sessions
           \/ s = save[w].session /\ save[w].phase = "commit",
         WorkerInv(w)'
  PROVE  \A u \in Workers : WorkerInv(u)'
<1> SUFFICES ASSUME NEW u \in Workers, u # w PROVE WorkerInv(u)'
  OBVIOUS
<1>1. save'[u] = save[u] /\ batch'[u] = batch[u] /\ WorkerInv(u)
  BY DEF OnlyMoves, KeptInv
<1>2. \A s \in DOMAIN sessions' :
        \/ s \in DOMAIN sessions
        \/ save[u].phase = "commit" => s # save[u].session
  BY DEF KeptInv, WritersApart
<1>3. QED
  BY Zenon, <1>1, <1>2, OtherWorkers

LEMMA ApartStays ==
  ASSUME KeptInv, NEW w \in Workers, OnlyMoves(w), save'[w].phase # "commit"
  PROVE  WritersApart'
BY DEF KeptInv, WritersApart, OnlyMoves

LEMMA BatchesStay ==
  ASSUME TypeInv, KeptInv, NEW w \in Workers,
         batch' = batch \/ batch' = [batch EXCEPT ![w] = <<>>]
  PROVE  BatchesInv' /\ \A u \in Workers \ {w} : batch'[u] = batch[u]
<1>1. \A u \in Workers : batch'[u] \in {batch[u], <<>>}
  BY DEF TypeInv, SavesInv
<1>2. \A u \in Workers : \A i \in 1..Len(batch'[u]) :
        batch'[u] = batch[u] /\ i \in 1..Len(batch[u])
  BY <1>1
<1>3. BatchesInv'
  BY <1>2 DEF KeptInv, BatchesInv
<1>4. QED
  BY <1>3 DEF TypeInv, SavesInv

LEMMA SaveKept ==
  ASSUME TypeInv, TypeInv', EventsInv, KeptInv, Grows, NEW w \in Workers, SaveStep(w)
  PROVE  KeptInv'
<1>1. WorkerInv(w) /\ RowsKept
  BY DEF KeptInv
<1>2. ASSUME batch' = batch \/ batch' = [batch EXCEPT ![w] = <<>>],
             OnlyMoves(w), WorkerInv(w)', WritersApart', RowsKept',
             \A s \in DOMAIN sessions' :
               \/ s \in DOMAIN sessions
               \/ s = save[w].session /\ save[w].phase = "commit"
      PROVE  KeptInv'
  <2>1. BatchesInv' /\ \A u \in Workers \ {w} : batch'[u] = batch[u]
    BY <1>2, BatchesStay
  <2>2. \A u \in Workers : WorkerInv(u)'
    BY <1>2, <2>1, OthersKept
  <2>3. QED
    BY <1>2, <2>1, <2>2 DEF KeptInv
<1>3. CASE StartSave(w)
  <2>1. /\ OnlyMoves(w) /\ save'[w].phase = "domains"
        /\ UNCHANGED <<sessions, events, batch>>
    BY <1>3 DEF StartSave, OnlyMoves, TypeInv, SavesInv, Idle, tables
  <2>2. WorkerInv(w)' /\ WritersApart' /\ RowsKept'
    BY <1>1, <1>3, <2>1, StartSaveKept, ApartStays, RowsStay
  <2>3. QED
    BY <1>2, <2>1, <2>2
<1>4. ASSUME NEW d \in Domains, UpsertDomain(w, d) PROVE KeptInv'
  <2>1. UNCHANGED <<sessions, events, batch>> /\ save'[w].phase # "commit"
    BY <1>4, UpsertGrows DEF UpsertDomain, Phase, TypeInv, SavesInv, SaveState
  <2>2. WorkerInv(w)' /\ OnlyMoves(w)
    BY <1>1, <1>4, UpsertDomainKept
  <2>3. WritersApart' /\ RowsKept'
    BY <1>1, <2>1, <2>2, ApartStays, RowsStay
  <2>4. QED
    BY <1>2, <2>1, <2>2, <2>3
<1>5. CASE BeginTx(w) \/ GetSession(w) \/ CreateSession(w) \/ UpdateSession(w)
  <2>1. WorkerInv(w)' /\ Within(w) /\ WritersApart'
    BY Zenon, <1>5, StatementKept, StatementApart
  <2>2. OnlyMoves(w) /\ UNCHANGED <<sessions, events, batch>>
    BY <2>1 DEF Within
  <2>3. RowsKept'
    BY <1>1, <2>2, RowsStay
  <2>4. QED
    BY <1>2, <2>1, <2>2, <2>3
<1>6. CASE Commit(w)
  <2>1. WorkerInv(w)' /\ RowsKept'
    BY <1>6, CommitKept, CommitRowsKept
  <2>2. /\ OnlyMoves(w) /\ batch' = batch /\ save'[w].phase # "commit"
    BY <1>6, AfterCommitIs
  <2>3. WritersApart'
    BY <2>2, ApartStays
  <2>4. \A s \in DOMAIN sessions' :
          \/ s \in DOMAIN sessions
          \/ s = save[w].session /\ save[w].phase = "commit"
    BY <1>6, CommitDoes
  <2>5. QED
    BY <1>2, <2>1, <2>2, <2>3, <2>4
<1>7. CASE CreateEvents(w)
  <2>1. /\ CopyRows(w) /\ save' = [save EXCEPT ![w] = Idle]
        /\ batch' = [batch EXCEPT ![w] = <<>>] /\ UNCHANGED <<domains, sessions>>
    BY <1>7 DEF CreateEvents
  <2>2. WorkerInv(w)' /\ OnlyMoves(w) /\ save'[w].phase # "commit" /\ RowsKept'
    BY <2>1, IdleKept, CopyRowsKept
  <2>3. WritersApart'
    BY <2>2, ApartStays
  <2>4. QED
    BY <1>2, <2>1, <2>2, <2>3
<1>8. QED
  BY <1>3, <1>4, <1>5, <1>6, <1>7 DEF SaveStep

LEMMA FaultKept ==
  ASSUME TypeInv, EventsInv, KeptInv, Grows, NEW w \in Workers, Fault(w)
  PROVE  KeptInv'
<1>1. /\ save' = [save EXCEPT ![w] = Idle] /\ domains' = domains
      /\ batch' = batch \/ batch' = [batch EXCEPT ![w] = <<>>]
  BY DEF Fault, StatementFails, CommitUnacknowledged, CopyUnacknowledged, Crash,
     ReturnError, tables
<1>2. WorkerInv(w)' /\ OnlyMoves(w) /\ WritersApart'
  BY <1>1, IdleKept, ApartStays
<1>3. /\ RowsKept'
      /\ \A s \in DOMAIN sessions' :
           \/ s \in DOMAIN sessions
           \/ s = save[w].session /\ save[w].phase = "commit"
  <2>1. CASE StatementFails(w) \/ Crash(w)
    <3>1. UNCHANGED <<sessions, events>>
      BY <2>1 DEF StatementFails, Crash, tables
    <3>2. QED
      BY <3>1, RowsStay DEF KeptInv
  <2>2. CASE CommitUnacknowledged(w)
    BY <2>2, CommitDoes, CommitRowsKept
  <2>3. CASE CopyUnacknowledged(w)
    <3>1. CopyRows(w) /\ UNCHANGED <<domains, sessions>>
      BY <1>1, <2>3 DEF CopyUnacknowledged
    <3>2. QED
      BY <3>1, CopyRowsKept
  <2>4. QED
    BY <2>1, <2>2, <2>3 DEF Fault
<1>4. BatchesInv' /\ \A u \in Workers \ {w} : batch'[u] = batch[u]
  BY <1>1, BatchesStay
<1>5. \A u \in Workers : WorkerInv(u)'
  BY <1>2, <1>3, <1>4, OthersKept
<1>6. QED
  BY <1>2, <1>3, <1>4, <1>5 DEF KeptInv

\* Events arrive, and time passes.
LEMMA StillKept ==
  ASSUME TypeInv, KeptInv, Grows,
         \/ \E w \in Workers, e \in Events : ReceiveEvent(w, e)
         \/ Tick
         \/ UNCHANGED vars
  PROVE  KeptInv'
<1>1. /\ save' = save /\ sessions' = sessions /\ events' = events
      /\ \A w \in Workers : save[w].phase # "idle" => batch'[w] = batch[w]
  <2>1. events' = events
    BY DEF ReceiveEvent, Tick, vars, tables
  <2>2. QED
    BY <2>1, StillSteps
<1>2. ASSUME NEW w \in Workers PROVE WorkerInv(w)'
  <2>1. WorkerInv(w) /\ save'[w] = save[w]
    BY <1>1 DEF KeptInv
  <2>2. save[w].phase # "idle" => batch'[w] = batch[w]
    BY <1>1
  <2>3. \A s \in DOMAIN sessions' :
          \/ s \in DOMAIN sessions
          \/ save[w].phase = "commit" => s # save[w].session
    BY <1>1
  <2>4. QED
    BY Zenon, <2>1, <2>2, <2>3, OtherWorkers
<1>3. WritersApart' /\ RowsKept'
  BY <1>1, RowsStay DEF KeptInv, WritersApart
<1>4. BatchesInv'
  <2>1. CASE batch' = batch
    BY <2>1 DEF KeptInv, BatchesInv
  <2>2. ASSUME NEW w \in Workers, NEW e \in Events, ReceiveEvent(w, e)
        PROVE  BatchesInv'
    <3> DEFINE q == [visitor |-> e.visitor, domain |-> e.domain,
                     name |-> e.name, created |-> now]
    <3>1. batch' = [batch EXCEPT ![w] = Append(batch[w], q)]
          /\ batch \in [Workers -> Seq(Queued)]
      BY <2>2 DEF ReceiveEvent, TypeInv, SavesInv
    <3>2. q.visitor = e.visitor /\ q.domain = e.domain /\ q \in Queued
      BY EventFields, ConstantTypes DEF TypeInv, BoundsInv, Queued
    <3> HIDE DEF q
    <3>3. \A u \in Workers : \A i \in 1..Len(batch'[u]) :
            \/ batch'[u][i] = q
            \/ i \in 1..Len(batch[u]) /\ batch'[u][i] = batch[u][i]
      <4> SUFFICES ASSUME NEW u \in Workers, NEW i \in 1..Len(batch'[u])
                   PROVE  \/ batch'[u][i] = q
                          \/ i \in 1..Len(batch[u]) /\ batch'[u][i] = batch[u][i]
        OBVIOUS
      <4>1. CASE u # w
        BY <3>1, <4>1
      <4>2. CASE u = w
        <5>1. batch'[u] = Append(batch[u], q) /\ batch[u] \in Seq(Queued)
              /\ Len(batch[u]) \in Nat
          BY <3>1, <4>2
        <5>2. i \in 1..Len(batch[u]) + 1
          BY <5>1
        <5>3. CASE i = Len(batch[u]) + 1
          BY <3>2, <5>1, <5>3, AppendProperties
        <5>4. CASE i # Len(batch[u]) + 1
          BY <5>1, <5>2, <5>4
        <5>5. QED
          BY <5>3, <5>4
      <4>3. QED
        BY <4>1, <4>2
    <3>4. QED
      BY <3>2, <3>3 DEF KeptInv, BatchesInv
  <2>3. QED
    BY <2>1, <2>2 DEF Tick, vars
<1>5. QED
  BY <1>2, <1>3, <1>4 DEF KeptInv

LEMMA KeptStep ==
  ASSUME TypeInv, TypeInv', EventsInv, KeptInv, [Next]_vars
  PROVE  KeptInv'
<1>1. Grows
  BY NextGrows
<1>2. ASSUME NEW w \in Workers, SaveStep(w) \/ Fault(w) PROVE KeptInv'
  BY Zenon, <1>1, <1>2, SaveKept, FaultKept
<1>3. CASE \/ \E w \in Workers, e \in Events : ReceiveEvent(w, e)
           \/ Tick
           \/ UNCHANGED vars
  BY Zenon, <1>1, <1>3, StillKept
<1>4. QED
  BY Zenon, <1>2, <1>3 DEF Next

LEMMA EventsStep ==
  ASSUME TypeInv, EventsInv, KeptInv, [Next]_vars
  PROVE  EventsInv'
<1>1. CASE events' = events
  BY <1>1 DEF EventsInv
<1>2. ASSUME NEW w \in Workers, CopyRows(w) PROVE EventsInv'
  BY <1>2, CopyIs
<1>3. ASSUME NEW w \in Workers, NEW e \in Events, ReceiveEvent(w, e)
      PROVE  events' = events
  BY <1>3 DEF ReceiveEvent, tables
<1>4. ASSUME NEW w \in Workers, SaveStep(w) \/ Fault(w)
      PROVE  events' = events \/ CopyRows(w)
  BY <1>4 DEF SaveStep, Fault, StartSave, UpsertDomain, BeginTx, GetSession,
     CreateSession, UpdateSession, WriteSession, Commit, CreateEvents, StatementFails,
     CommitUnacknowledged, CopyUnacknowledged, Crash, tables
<1>5. CASE Tick \/ UNCHANGED vars
  BY <1>1, <1>5 DEF Tick, tables, vars
<1>6. QED
  BY Zenon, <1>1, <1>2, <1>3, <1>4, <1>5 DEF Next

LEMMA KeptInit == Init => EventsInv /\ KeptInv
<1> SUFFICES ASSUME Init PROVE EventsInv /\ KeptInv
  OBVIOUS
<1>1. EventsInv
  BY EmptySeq DEF Init, EventsInv
<1>2. DOMAIN <<>> = {} /\ Len(<<>>) = 0
  OBVIOUS
<1>3. \A w \in Workers : WorkerInv(w)
  BY DEF Init, WorkerInv, Writes, Idle
<1>4. BatchesInv /\ WritersApart /\ RowsKept
  BY <1>2 DEF Init, BatchesInv, WritersApart, RowsKept, Idle
<1>5. QED
  BY <1>1, <1>3, <1>4 DEF KeptInv

\* RowsConsistent: a row of events names a session of its own visitor and the
\* domain of that session, whatever fails and whatever other workers do.
THEOREM SessionRowsConsistent == Spec => []RowsConsistent
<1>1. RowsKept => RowsConsistent
  <2> SUFFICES ASSUME RowsKept, NEW i \in 1..Len(events)
               PROVE  /\ sessions[events[i].session].visitor = events[i].visitor
                      /\ sessions[events[i].session].domain = events[i].domain
                      /\ \A e \in Events : e.visitor = events[i].visitor =>
                           domains[e.domain] = events[i].domain
    BY DEF RowsConsistent
  <2> DEFINE s == events[i].session
             v == events[i].visitor
  <2>1. s \in DOMAIN sessions /\ sessions[s].visitor = v /\ At(v, events[i].domain)
    BY DEF RowsKept
  <2>2. At(v, sessions[s].domain)
    BY <2>1 DEF RowsKept
  <2>3. sessions[s].domain = events[i].domain
    BY <2>1, <2>2, AtUnique
  <2>4. ASSUME NEW e \in Events, e.visitor = v PROVE domains[e.domain] = events[i].domain
    BY <2>1, <2>4, SessionAssumption DEF At
  <2>5. QED
    BY <2>1, <2>3, <2>4
<1>2. KeptInv => RowsConsistent
  BY <1>1 DEF KeptInv
<1>3. TypeInv /\ TypeInv' /\ EventsInv /\ KeptInv /\ [Next]_vars => EventsInv' /\ KeptInv'
  BY Zenon, KeptStep, EventsStep
<1>4. QED
  BY <1>2, <1>3, TypeInit, TypeStep, KeptInit, PTL DEF Spec
-----------------------------------------------------------------------------
(***************************************************************************)
(* No event is lost or stored twice, as long as nothing fails.             *)
(***************************************************************************)
ConservedInv == IsFiniteSet(Unsaved) /\ EventsConserved

\* The events of worker w.
Of(w) == {w} \X (1..Len(batch[w]))

LEMMA OfSize ==
  ASSUME TypeInv, NEW w \in Workers
  PROVE  IsFiniteSet(Of(w)) /\ Cardinality(Of(w)) = Len(batch[w])
<1>1. Len(batch[w]) \in Nat
  BY DEF TypeInv, SavesInv
<1>2. /\ IsFiniteSet(1..Len(batch[w])) /\ Cardinality(1..Len(batch[w])) = Len(batch[w])
      /\ IsFiniteSet({w}) /\ Cardinality({w}) = 1
  <2>1. IsFiniteSet(1..Len(batch[w])) /\ Cardinality(1..Len(batch[w])) = Len(batch[w])
    BY <1>1, FS_Interval
  <2>2. IsFiniteSet({w}) /\ Cardinality({w}) = 1
    BY Zenon, FS_Singleton
  <2>3. QED
    BY <2>1, <2>2
<1>3. /\ IsFiniteSet({w} \X (1..Len(batch[w])))
      /\ Cardinality({w} \X (1..Len(batch[w]))) = 1 * Len(batch[w])
  BY <1>2, FS_Product
<1>4. QED
  BY <1>1, <1>3 DEF Of

\* Unsaved without its UNION.
LEMMA UnsavedIs ==
  \A p : p \in Unsaved <=> \E u \in Workers : p \in Of(u)
BY DEF Unsaved, Of

LEMMA ReceiveConserves ==
  ASSUME TypeInv, EventsInv, ConservedInv,
         NEW w \in Workers, NEW e \in Events, ReceiveEvent(w, e)
  PROVE  ConservedInv'
<1> DEFINE n == Len(batch[w])
           p == <<w, n + 1>>
<1>1. /\ n \in Nat /\ Len(batch'[w]) = n + 1
      /\ \A u \in Workers \ {w} : batch'[u] = batch[u]
      /\ UNCHANGED <<events, faults>> /\ received' = received + 1
  <2> DEFINE q == [visitor |-> e.visitor, domain |-> e.domain,
                   name |-> e.name, created |-> now]
  <2>1. batch \in [Workers -> Seq(Queued)] /\ batch' = [batch EXCEPT ![w] = Append(@, q)]
    BY DEF TypeInv, SavesInv, ReceiveEvent
  <2> HIDE DEF q
  <2>2. QED
    BY <2>1 DEF ReceiveEvent, tables
<1>2. Unsaved' = Unsaved \cup {p} /\ p \notin Unsaved
  <2>1. Of(w)' = Of(w) \cup {p} /\ p \notin Of(w)
    BY <1>1 DEF Of
  <2>2. \A u \in Workers \ {w} : Of(u)' = Of(u) /\ p \notin Of(u)
    BY <1>1 DEF Of
  <2>3. \A x : x \in Unsaved' <=> \E u \in Workers : x \in Of(u)'
    BY DEF Unsaved, Of
  <2> HIDE DEF p
  <2>4. QED
    BY <2>1, <2>2, <2>3, UnsavedIs
<1>3. IsFiniteSet(Unsaved') /\ Cardinality(Unsaved') = Cardinality(Unsaved) + 1
  BY <1>2, FS_AddElement DEF ConservedInv
<1>4. Len(events) \in Nat /\ Cardinality(Unsaved) \in Nat /\ received \in Nat
  BY FS_CardinalityType, ConstantTypes DEF EventsInv, ConservedInv, TypeInv, BoundsInv
<1>5. QED
  BY <1>1, <1>3, <1>4 DEF ConservedInv, EventsConserved

\* A batch leaves Unsaved as a whole.
LEMMA EmptiedUnsaved ==
  ASSUME TypeInv, ConservedInv, NEW w \in Workers, batch' = [batch EXCEPT ![w] = <<>>]
  PROVE  /\ IsFiniteSet(Unsaved')
         /\ Cardinality(Unsaved) = Cardinality(Unsaved') + Len(batch[w])
<1>1. Of(w)' = {} /\ \A u \in Workers \ {w} : Of(u)' = Of(u)
  BY DEF TypeInv, SavesInv, Of
<1>2. \A u \in Workers \ {w} : Of(u) \cap Of(w) = {}
  BY DEF Of
<1>3. \A x : x \in Unsaved' <=> \E u \in Workers : x \in Of(u)'
  BY DEF Unsaved, Of
<1>4. Unsaved = Unsaved' \cup Of(w) /\ Unsaved' \cap Of(w) = {}
  BY <1>1, <1>2, <1>3, UnsavedIs
<1>5. IsFiniteSet(Unsaved')
  <2>1. Unsaved' \subseteq Unsaved
    BY <1>4
  <2>2. QED
    BY <2>1, FS_Subset DEF ConservedInv
<1>6. Cardinality(Unsaved) = Cardinality(Unsaved') + Cardinality(Of(w))
  <2>1. Cardinality(Unsaved) = Cardinality(Unsaved') + Cardinality(Of(w))
                                 - Cardinality(Unsaved' \cap Of(w))
    BY <1>4, <1>5, OfSize, FS_Union
  <2>2. /\ Cardinality(Unsaved' \cap Of(w)) = 0
        /\ Cardinality(Unsaved') \in Nat /\ Cardinality(Of(w)) \in Nat
    BY <1>4, <1>5, OfSize, FS_EmptySet, FS_CardinalityType
  <2>3. QED
    BY <2>1, <2>2
<1>7. QED
  BY <1>5, <1>6, OfSize

LEMMA ConservedStep ==
  ASSUME TypeInv, EventsInv, KeptInv, ConservedInv, [Next]_vars
  PROVE  ConservedInv'
<1>1. ASSUME UNCHANGED <<events, batch, received>>, faults' = faults \/ faults' # 0
      PROVE  ConservedInv'
  BY <1>1 DEF ConservedInv, EventsConserved, Unsaved
<1>2. ASSUME NEW w \in Workers, NEW e \in Events, ReceiveEvent(w, e)
      PROVE  ConservedInv'
  BY <1>2, ReceiveConserves
<1>3. faults \in Nat /\ Len(events) \in Nat /\ received \in Nat
  BY ConstantTypes DEF TypeInv, BoundsInv, EventsInv
<1>4. ASSUME NEW w \in Workers, CreateEvents(w) PROVE ConservedInv'
  <2>1. /\ CopyRows(w) /\ batch' = [batch EXCEPT ![w] = <<>>]
        /\ UNCHANGED <<received, faults>>
    BY <1>4 DEF CreateEvents, bounds
  <2>2. /\ IsFiniteSet(Unsaved') /\ Len(batch[w]) \in Nat
        /\ Cardinality(Unsaved) = Cardinality(Unsaved') + Len(batch[w])
    <3>1. Len(batch[w]) \in Nat
      BY DEF TypeInv, SavesInv
    <3>2. QED
      BY Zenon, <2>1, <3>1, EmptiedUnsaved
  <2>3. Len(events') = Len(events) + Len(batch[w])
    BY <2>1, CopyIs
  <2>4. Cardinality(Unsaved') \in Nat
    BY <2>2, FS_CardinalityType
  <2>5. QED
    BY <1>3, <2>1, <2>2, <2>3, <2>4 DEF ConservedInv, EventsConserved
<1>5. ASSUME NEW w \in Workers, Fault(w) PROVE ConservedInv'
  <2>1. faults' = faults + 1 /\ (batch' = batch \/ batch' = [batch EXCEPT ![w] = <<>>])
    BY <1>5 DEF Fault, StatementFails, CommitUnacknowledged, CopyUnacknowledged, Crash,
       ReturnError
  <2>2. IsFiniteSet(Unsaved')
    BY <2>1, EmptiedUnsaved DEF ConservedInv, Unsaved
  <2>3. faults' # 0
    BY <1>3, <2>1
  <2>4. QED
    BY <2>2, <2>3 DEF ConservedInv, EventsConserved
<1>6. ASSUME NEW w \in Workers, SaveStep(w), ~CreateEvents(w)
      PROVE  UNCHANGED <<events, batch, received, faults>>
  BY <1>6 DEF SaveStep, StartSave, UpsertDomain, BeginTx, GetSession, CreateSession,
     UpdateSession, WriteSession, Commit, tables, bounds
<1>7. CASE Tick \/ UNCHANGED vars
  BY <1>1, <1>7 DEF Tick, tables, vars, bounds
<1>8. QED
  BY Zenon, <1>1, <1>2, <1>4, <1>5, <1>6, <1>7 DEF Next

LEMMA ConservedInit == Init => ConservedInv
<1> SUFFICES ASSUME Init PROVE ConservedInv
  OBVIOUS
<1>1. \A w \in Workers : Of(w) = {}
  BY DEF Init, Of
<1>2. Unsaved = {}
  BY <1>1, UnsavedIs
<1>3. Len(<<>>) = 0
  OBVIOUS
<1>4. QED
  BY <1>2, <1>3, FS_EmptySet DEF Init, ConservedInv, EventsConserved

\* EventsConserved: without errors, every event received is in one batch or is
\* one row; COPY leaves none out and sends none twice.
THEOREM SessionEventsConserved == Spec => []EventsConserved
<1>1. ConservedInv => EventsConserved
  BY DEF ConservedInv
<1>2. TypeInv /\ TypeInv' /\ EventsInv /\ KeptInv /\ ConservedInv /\ [Next]_vars
        => EventsInv' /\ KeptInv' /\ ConservedInv'
  BY Zenon, KeptStep, EventsStep, ConservedStep
<1>3. QED
  BY <1>1, <1>2, TypeInit, TypeStep, KeptInit, ConservedInit, PTL DEF Spec
-----------------------------------------------------------------------------
(***************************************************************************)
(* Bounce, for any number of workers.                                      *)
(***************************************************************************)
\* A transaction that has written a row did so over the row that is still in
\* the table: it keeps the mark of a session that is no bounce.
MarkInv ==
  \A w \in Workers :
    save[w].phase = "commit" /\ save[w].session \in DOMAIN sessions =>
      (~sessions[save[w].session].bounce => ~save[w].row.bounce)

\* No step marks a session as a bounce again.
MarksStay ==
  \A s \in DOMAIN sessions \cap DOMAIN sessions' :
    ~sessions[s].bounce => ~sessions'[s].bounce

LEMMA MarkStep ==
  ASSUME TypeInv, KeptInv, MarkInv, [Next]_vars
  PROVE  MarkInv' /\ MarksStay
<1>1. ASSUME NEW w \in Workers, OnlyMoves(w), sessions' = sessions,
             \/ save'[w].phase # "commit"
             \/ save'[w].session \notin DOMAIN sessions
             \/ ~sessions[save'[w].session].bounce => ~save'[w].row.bounce
      PROVE  MarkInv' /\ MarksStay
  BY <1>1 DEF MarkInv, MarksStay, OnlyMoves
<1>2. ASSUME NEW w \in Workers, SaveStep(w) \/ Fault(w)
      PROVE  MarkInv' /\ MarksStay
  <2>1. CASE BeginTx(w)
    BY <1>1, <2>1, BeginTxDoes
  <2>2. CASE GetSession(w)
    BY <1>1, <2>2, GetSessionDoes
  <2>3. CASE CreateSession(w)
    BY <1>1, <2>3, CreateSessionDoes
  <2>4. CASE UpdateSession(w)
    BY <1>1, <2>4, UpdateSessionDoes
  <2>5. CASE Commit(w) \/ CommitUnacknowledged(w)
    <3>1. /\ OnlyMoves(w)
          /\ save[w].phase = "commit" /\ save'[w].phase # "commit"
          /\ \A s \in DOMAIN sessions' : s = save[w].session \/ s \in DOMAIN sessions
          /\ \A s \in DOMAIN sessions' :
               sessions'[s] = IF s = save[w].session THEN save[w].row ELSE sessions[s]
      BY <2>5, CommitDoes
    <3>2. MarksStay
      BY <3>1 DEF MarkInv, MarksStay
    <3>3. ASSUME NEW u \in Workers, save'[u].phase = "commit",
                 save'[u].session \in DOMAIN sessions',
                 ~sessions'[save'[u].session].bounce
          PROVE  ~save'[u].row.bounce
      <4>1. u # w /\ save'[u] = save[u]
        BY <3>1, <3>3 DEF OnlyMoves
      <4>2. save[u].session # save[w].session
        BY <3>1, <3>3, <4>1 DEF KeptInv, WritersApart
      <4>3. QED
        BY <3>1, <3>3, <4>1, <4>2 DEF MarkInv
    <3>4. QED
      BY <3>2, <3>3 DEF MarkInv
  <2>6. QED
    BY <1>1, <1>2, <2>1, <2>2, <2>3, <2>4, <2>5, RowlessSteps DEF SaveStep, Fault
<1>3. CASE \/ \E w \in Workers, e \in Events : ReceiveEvent(w, e)
           \/ Tick
           \/ UNCHANGED vars
  BY <1>3, StillSteps DEF MarkInv, MarksStay
<1>4. QED
  BY <1>2, <1>3 DEF Next

\* BounceStaysCleared: however many workers update a session, and in whatever
\* order they find it, write it and commit, it never becomes a bounce again.
THEOREM SessionBounceStaysCleared == Spec => BounceStaysCleared
<1>1. Init => MarkInv
  BY DEF Init, MarkInv, Idle
<1>2. TypeInv /\ EventsInv /\ KeptInv /\ MarkInv /\ [Next]_vars
        => TypeInv' /\ EventsInv' /\ KeptInv' /\ MarkInv' /\ MarksStay
  BY Zenon, TypeStep, EventsStep, KeptStep, MarkStep
<1>3. MarksStay => [\A s \in DOMAIN sessions \cap DOMAIN sessions' :
                       ~sessions[s].bounce => ~sessions'[s].bounce]_vars
  BY DEF MarksStay
<1>4. QED
  BY <1>1, <1>2, <1>3, TypeInit, KeptInit, PTL DEF Spec, BounceStaysCleared
-----------------------------------------------------------------------------
(***************************************************************************)
(* The live sessions of a visitor.  A visitor has a second one if two      *)
(* transactions found none at the same time, and a worker is in one        *)
(* transaction.  The invariant gives each session that is live, or about   *)
(* to be, a worker of its own that is not creating another: a transaction  *)
(* that finds no live session starts with every session assigned to the    *)
(* worker that is writing it.                                              *)
(***************************************************************************)
\* w is about to create a session of v.
Creates(w, v) == save[w].phase = "create" /\ Current(w).visitor = v

\* w is about to write a session of v, or has.
Targets(w, v) == save[w].phase \in {"update", "commit"} /\ Current(w).visitor = v

\* The sessions of v that are live, or may be when a transaction commits.
Claimed(v) ==
  {s \in DOMAIN sessions : Live(s, v, now)}
    \cup {save[w].session : w \in {u \in Workers : Targets(u, v)}}

\* f gives each session of S a worker of its own.
Assigns(f, S) ==
  /\ f \in [S -> Workers]
  /\ \A s, t \in S : f[s] = f[t] => s = t

Assigned(v) ==
  \E f : Assigns(f, Claimed(v)) /\ \A s \in Claimed(v) : ~Creates(f[s], v)

\* A transaction has begun.
StartInv ==
  \A w \in Workers :
    save[w].phase \in {"get", "create", "update", "commit"} => save[w].start <= now

ClaimsInv == StartInv /\ \A v \in Visitors : Assigned(v)

LEMMA ClaimedIs ==
  ASSUME NEW v
  PROVE  \A s : s \in Claimed(v) <=>
           \/ s \in DOMAIN sessions /\ Live(s, v, now)
           \/ \E u \in Workers : Targets(u, v) /\ s = save[u].session
BY DEF Claimed

LEMMA ClaimedIsNext ==
  ASSUME NEW v
  PROVE  \A s : s \in Claimed(v)' <=>
           \/ s \in DOMAIN sessions' /\ Live(s, v, now)'
           \/ \E u \in Workers : Targets(u, v)' /\ s = save'[u].session
BY DEF Claimed

\* Sessions are given up, and no worker starts to create one.
LEMMA FewerClaims ==
  ASSUME NEW v, NEW C, C = Claimed(v)', Assigned(v), C \subseteq Claimed(v),
         \A u \in Workers : Creates(u, v)' => Creates(u, v)
  PROVE  Assigned(v)'
<1>1. PICK f : Assigns(f, Claimed(v)) /\ \A s \in Claimed(v) : ~Creates(f[s], v)
  BY DEF Assigned
<1> DEFINE g == [s \in C |-> f[s]]
<1>2. Assigns(g, C)
  BY <1>1 DEF Assigns
<1>3. \A s \in C : g[s] \in Workers /\ ~Creates(g[s], v)
  BY <1>1 DEF Assigns
<1>4. \A s \in C : ~Creates(g[s], v)'
  <2> HIDE DEF g
  <2>1. QED
    BY <1>3
<1>5. QED
  BY <1>2, <1>4 DEF Assigned

\* The worker that creates a session gets it.
LEMMA OneMoreClaim ==
  ASSUME NEW v, NEW C, C = Claimed(v)', Assigned(v), NEW new,
         NEW w \in Workers, Creates(w, v),
         new \notin Claimed(v), C \subseteq Claimed(v) \cup {new},
         \A u \in Workers : Creates(u, v)' => u # w /\ Creates(u, v)
  PROVE  Assigned(v)'
<1>1. PICK f : Assigns(f, Claimed(v)) /\ \A s \in Claimed(v) : ~Creates(f[s], v)
  BY DEF Assigned
<1> DEFINE g == [s \in C |-> IF s = new THEN w ELSE f[s]]
<1>2. \A s \in Claimed(v) : f[s] \in Workers /\ f[s] # w
  BY <1>1 DEF Assigns
<1>3. Assigns(g, C)
  BY <1>1, <1>2 DEF Assigns
<1>4. \A s \in C : g[s] \in Workers /\ (g[s] = w \/ ~Creates(g[s], v))
  BY <1>1, <1>2
<1>5. \A s \in C : ~Creates(g[s], v)'
  <2> HIDE DEF g
  <2>1. QED
    BY <1>4
<1>6. QED
  BY <1>3, <1>5 DEF Assigned

\* No session is live that no worker is writing.
LEMMA OnlyTargets ==
  ASSUME NEW v, NEW C, C = Claimed(v)',
         \A s \in C :
           \E u \in Workers : Targets(u, v)' /\ s = save'[u].session
  PROVE  Assigned(v)'
<1>1. PICK R : \A s \in C : \A u \in Workers :
        <<s, u>> \in R <=> Targets(u, v)' /\ s = save'[u].session
  <2>1. \E R : \A s \in C : \A u \in Workers :
          <<s, u>> \in R <=> Targets(u, v)' /\ s = save'[u].session
    <3> WITNESS {p \in C \X Workers : Targets(p[2], v)' /\ p[1] = save'[p[2]].session}
    <3>1. QED
      OBVIOUS
  <2>2. QED
    BY <2>1
<1> DEFINE g == [s \in C |-> CHOOSE u \in Workers : <<s, u>> \in R]
<1>2. \A s \in C : g[s] \in Workers /\ <<s, g[s]>> \in R
  BY <1>1
<1> HIDE DEF g
<1>3. \A s \in C :
        g[s] \in Workers /\ Targets(g[s], v)' /\ s = save'[g[s]].session
  BY <1>1, <1>2
<1>4. g \in [C -> Workers]
  BY <1>3 DEF g
<1>5. \A s \in C : ~Creates(g[s], v)'
  BY <1>3 DEF Targets, Creates
<1>6. Assigns(g, C)
  BY <1>3, <1>4 DEF Assigns
<1>7. QED
  BY <1>5, <1>6 DEF Assigned

\* What the other workers are about to do does not change.
LEMMA OthersClaim ==
  ASSUME NEW w \in Workers, OnlyMoves(w), \A u \in Workers \ {w} : batch'[u] = batch[u]
  PROVE  \A u \in Workers \ {w} : \A v :
           /\ Targets(u, v)' <=> Targets(u, v)
           /\ Creates(u, v)' <=> Creates(u, v)
           /\ save'[u].session = save[u].session
BY DEF OnlyMoves, Targets, Creates, Current

\* A step of w that is not one of the transaction, or ends it without effect.
LEMMA QuietClaims ==
  ASSUME NEW w \in Workers, NEW v, Assigned(v), OnlyMoves(w),
         \A u \in Workers \ {w} : batch'[u] = batch[u],
         UNCHANGED <<sessions, now>>,
         save'[w].phase \notin {"create", "update", "commit"}
  PROVE  Assigned(v)'
<1>1. PICK C : C = Claimed(v)'
  OBVIOUS
<1>2. ~Targets(w, v)' /\ ~Creates(w, v)'
  BY DEF Targets, Creates
<1>3. \A s : Live(s, v, now)' <=> Live(s, v, now)
  BY DEF Live
<1>4. C \subseteq Claimed(v)
  BY <1>1, <1>2, <1>3, OthersClaim, ClaimedIs, ClaimedIsNext
<1>5. \A u \in Workers : Creates(u, v)' => Creates(u, v)
  BY <1>2, OthersClaim
<1>6. QED
  BY <1>1, <1>4, <1>5, FewerClaims

LEMMA UpdateClaims ==
  ASSUME TypeInv, NEW w \in Workers, NEW v, Assigned(v), UpdateSession(w)
  PROVE  Assigned(v)'
<1>1. PICK C : C = Claimed(v)'
  OBVIOUS
<1>2. /\ Within(w) /\ save[w].phase = "update" /\ save'[w].phase = "commit"
      /\ save'[w].session = save[w].session
  BY UpdateSessionWithin
<1>3. /\ OnlyMoves(w) /\ UNCHANGED <<sessions, now, batch>> /\ Current(w)' = Current(w)
  BY <1>2, WithinCurrent DEF Within
<1>4. (Targets(w, v)' <=> Targets(w, v)) /\ ~Creates(w, v)'
  BY <1>2, <1>3 DEF Targets, Creates
<1>5. \A s : Live(s, v, now)' <=> Live(s, v, now)
  BY <1>3 DEF Live
<1>6. C \subseteq Claimed(v)
  BY <1>1, <1>2, <1>3, <1>4, <1>5, OthersClaim, ClaimedIs, ClaimedIsNext
<1>7. \A u \in Workers : Creates(u, v)' => Creates(u, v)
  BY <1>3, <1>4, OthersClaim
<1>8. QED
  BY <1>1, <1>6, <1>7, FewerClaims

LEMMA CreateClaims ==
  ASSUME TypeInv, NEW w \in Workers, NEW v, Assigned(v), CreateSession(w)
  PROVE  Assigned(v)'
<1>1. PICK C : C = Claimed(v)'
  OBVIOUS
<1>2. /\ Within(w) /\ save[w].phase = "create" /\ save'[w].phase = "commit"
      /\ save'[w].session \notin DOMAIN sessions
      /\ \A u \in Workers : save'[w].session # save[u].session
  BY CreateSessionWithin
<1>3. /\ OnlyMoves(w) /\ UNCHANGED <<sessions, now, batch>> /\ Current(w)' = Current(w)
  BY <1>2, WithinCurrent DEF Within
<1>4. (Targets(w, v)' <=> Creates(w, v)) /\ ~Creates(w, v)'
  BY <1>2, <1>3 DEF Targets, Creates
<1>5. \A s : Live(s, v, now)' <=> Live(s, v, now)
  BY <1>3 DEF Live
<1>6. \A u \in Workers : Creates(u, v)' => u # w /\ Creates(u, v)
  BY <1>3, <1>4, OthersClaim
<1>7. CASE Creates(w, v)
  <2> DEFINE new == save'[w].session
  <2>1. new \notin Claimed(v)
    BY <1>2, ClaimedIs
  <2>2. C \subseteq Claimed(v) \cup {new}
    BY <1>1, <1>3, <1>5, OthersClaim, ClaimedIs, ClaimedIsNext
  <2> HIDE DEF new
  <2>3. QED
    BY <1>1, <1>6, <1>7, <2>1, <2>2, OneMoreClaim
<1>8. CASE ~Creates(w, v)
  <2>1. C \subseteq Claimed(v)
    BY <1>1, <1>3, <1>4, <1>5, <1>8, OthersClaim, ClaimedIs, ClaimedIsNext
  <2>2. QED
    BY <1>1, <1>6, <2>1, FewerClaims
<1>9. QED
  BY <1>7, <1>8

\* GetSession finds no live session, or the one that was updated last: if that
\* one is over by now, so are all others.
LEMMA GetClaims ==
  ASSUME TypeInv, StartInv, NEW w \in Workers, NEW v, Assigned(v), GetSession(w)
  PROVE  Assigned(v)'
<1>1. PICK C : C = Claimed(v)'
  OBVIOUS
<1>2. Within(w) /\ save[w].phase = "get"
  BY GetSessionWithin
<1>3. /\ OnlyMoves(w) /\ UNCHANGED <<sessions, now, batch>> /\ Current(w)' = Current(w)
  BY <1>2, WithinCurrent DEF Within
<1>4. \A s : Live(s, v, now)' <=> Live(s, v, now)
  BY <1>3 DEF Live
<1>5. /\ save[w].start <= now /\ save[w].start \in Nat /\ now \in Nat /\ Timeout \in Nat
      /\ \A s \in DOMAIN sessions : sessions[s].updated \in Nat
  BY <1>2, ConstantTypes
     DEF StartInv, TypeInv, SavesInv, SaveState, BoundsInv, TablesInv, SessionRow
<1>6. \A s \in DOMAIN sessions : Live(s, v, now) => Live(s, v, save[w].start)
  BY <1>5 DEF Live
<1>7. CASE Current(w).visitor # v
  <2>1. ~Targets(w, v)' /\ ~Creates(w, v)'
    BY <1>3, <1>7 DEF Targets, Creates
  <2>2. C \subseteq Claimed(v)
    BY <1>1, <1>3, <1>4, <2>1, OthersClaim, ClaimedIs, ClaimedIsNext
  <2>3. \A u \in Workers : Creates(u, v)' => Creates(u, v)
    BY <1>3, <2>1, OthersClaim
  <2>4. QED
    BY <1>1, <2>2, <2>3, FewerClaims
<1>8. CASE Current(w).visitor = v /\ save'[w].phase = "create"
  <2>1. \A s \in DOMAIN sessions : ~Live(s, v, now)
    BY <1>6, <1>8, GetSessionWithin
  <2>2. \A s \in C : \E u \in Workers : Targets(u, v)' /\ s = save'[u].session
    BY <1>1, <1>3, <1>4, <2>1, ClaimedIsNext
  <2>3. QED
    BY <1>1, <2>2, OnlyTargets
<1>9. CASE Current(w).visitor = v /\ save'[w].phase = "update"
  <2> DEFINE last == save'[w].session
  <2>1. /\ last \in DOMAIN sessions
        /\ Live(last, v, save[w].start)
        /\ \A s \in DOMAIN sessions : Live(s, v, save[w].start) =>
             sessions[s].updated <= sessions[last].updated
    BY <1>9, GetSessionWithin
  <2> HIDE DEF last
  <2>2. CASE Live(last, v, now)
    <3>1. C \subseteq Claimed(v)
      BY <1>1, <1>3, <1>4, <2>1, <2>2, OthersClaim, ClaimedIs, ClaimedIsNext DEF last
    <3>2. \A u \in Workers : Creates(u, v)' => Creates(u, v)
      BY <1>3, <1>9, OthersClaim DEF Creates
    <3>3. QED
      BY <1>1, <3>1, <3>2, FewerClaims
  <2>3. CASE ~Live(last, v, now)
    <3>1. \A s \in DOMAIN sessions : ~Live(s, v, now)
      BY <1>5, <1>6, <2>1, <2>3 DEF Live
    <3>2. \A s \in C : \E u \in Workers : Targets(u, v)' /\ s = save'[u].session
      BY <1>1, <1>3, <1>4, <3>1, ClaimedIsNext
    <3>3. QED
      BY <1>1, <3>2, OnlyTargets
  <2>4. QED
    BY <2>2, <2>3
<1>10. QED
  BY <1>7, <1>8, <1>9, GetSessionWithin

LEMMA CommitClaims ==
  ASSUME TypeInv, KeptInv, NEW w \in Workers, NEW v, Assigned(v),
         Commit(w) \/ CommitUnacknowledged(w)
  PROVE  Assigned(v)'
<1>1. PICK C : C = Claimed(v)'
  OBVIOUS
<1>2. /\ OnlyMoves(w) /\ save[w].phase = "commit"
      /\ save'[w].phase \in {"idle", "begin", "copy"}
      /\ now' = now /\ batch' = batch
  BY CommitDoes
<1>3. /\ DOMAIN sessions' = DOMAIN sessions \cup {save[w].session}
      /\ \A s \in DOMAIN sessions' :
           sessions'[s] = IF s = save[w].session THEN save[w].row ELSE sessions[s]
  BY CommitDoes
<1>4. save[w].row.visitor = Current(w).visitor
  BY <1>2 DEF KeptInv, WorkerInv, Writes
<1>5. ~Targets(w, v)' /\ ~Creates(w, v)'
  BY <1>2 DEF Targets, Creates
<1>6. \A s \in DOMAIN sessions' : Live(s, v, now)' =>
        \/ s \in DOMAIN sessions /\ Live(s, v, now)
        \/ s = save[w].session /\ Targets(w, v)
  <2> SUFFICES ASSUME NEW s \in DOMAIN sessions', Live(s, v, now)', s # save[w].session
                      \/ ~Targets(w, v)
               PROVE  s \in DOMAIN sessions /\ Live(s, v, now)
    OBVIOUS
  <2>1. s # save[w].session
    BY <1>2, <1>3, <1>4 DEF Live, Targets
  <2>2. QED
    BY <1>2, <1>3, <2>1 DEF Live
<1>7. C \subseteq Claimed(v)
  BY <1>1, <1>2, <1>5, <1>6, OthersClaim, ClaimedIs, ClaimedIsNext
<1>8. \A u \in Workers : Creates(u, v)' => Creates(u, v)
  BY <1>2, <1>5, OthersClaim
<1>9. QED
  BY <1>1, <1>7, <1>8, FewerClaims

\* Events arrive, and time passes.
LEMMA StillClaims ==
  ASSUME TypeInv, NEW v, Assigned(v),
         \/ \E w \in Workers, e \in Events : ReceiveEvent(w, e)
         \/ Tick
         \/ UNCHANGED vars
  PROVE  Assigned(v)'
<1>1. PICK C : C = Claimed(v)'
  OBVIOUS
<1>2. /\ save' = save /\ sessions' = sessions /\ now' \in {now, now + 1}
      /\ \A u \in Workers : save[u].phase # "idle" => batch'[u] = batch[u]
  BY StillSteps
<1>3. \A u \in Workers : save[u].phase # "idle" => Current(u)' = Current(u)
  BY <1>2 DEF Current
<1>4. \A u \in Workers : /\ Targets(u, v)' <=> Targets(u, v)
                         /\ Creates(u, v)' <=> Creates(u, v)
  BY <1>2, <1>3 DEF Targets, Creates
<1>5. \A s \in DOMAIN sessions : Live(s, v, now)' => Live(s, v, now)
  <2>1. /\ now \in Nat /\ Timeout \in Nat
        /\ \A s \in DOMAIN sessions : sessions[s].updated \in Nat
    BY ConstantTypes DEF TypeInv, BoundsInv, TablesInv, SessionRow
  <2>2. QED
    BY <1>2, <2>1 DEF Live
<1>6. C \subseteq Claimed(v)
  BY <1>1, <1>2, <1>4, <1>5, ClaimedIs, ClaimedIsNext
<1>7. QED
  BY <1>1, <1>4, <1>6, FewerClaims

LEMMA StartStep ==
  ASSUME TypeInv, StartInv, [Next]_vars
  PROVE  StartInv'
<1>1. now \in Nat /\ \A u \in Workers : save[u].start \in Nat
  BY ConstantTypes DEF TypeInv, BoundsInv, SavesInv, SaveState
<1>2. ASSUME NEW w \in Workers, SaveStep(w) \/ Fault(w)
      PROVE  /\ OnlyMoves(w) /\ now' = now
             /\ save'[w].phase \in {"get", "create", "update", "commit"} =>
                  save'[w].start <= now
  <2>1. CASE BeginTx(w)
    BY <1>1, <2>1, BeginTxDoes
  <2>2. CASE GetSession(w)
    BY <2>2, GetSessionDoes DEF StartInv
  <2>3. CASE CreateSession(w)
    BY <2>3, CreateSessionDoes DEF StartInv
  <2>4. CASE UpdateSession(w)
    BY <2>4, UpdateSessionDoes DEF StartInv
  <2>5. CASE Commit(w) \/ CommitUnacknowledged(w)
    BY <2>5, CommitDoes
  <2>6. CASE \/ StartSave(w)
             \/ \E d \in Domains : UpsertDomain(w, d)
             \/ StatementFails(w)
             \/ CreateEvents(w)
             \/ CopyUnacknowledged(w)
             \/ Crash(w)
    BY <2>6, RowlessSteps
  <2>7. QED
    BY <1>2, <2>1, <2>2, <2>3, <2>4, <2>5, <2>6 DEF SaveStep, Fault
<1>3. ASSUME NEW w \in Workers, SaveStep(w) \/ Fault(w) PROVE StartInv'
  BY <1>2, <1>3 DEF StartInv, OnlyMoves
<1>4. CASE \/ \E w \in Workers, e \in Events : ReceiveEvent(w, e)
           \/ Tick
           \/ UNCHANGED vars
  <2>1. save' = save /\ now' \in {now, now + 1}
    BY <1>4, StillSteps
  <2>2. QED
    BY <1>1, <2>1 DEF StartInv
<1>5. QED
  BY Zenon, <1>3, <1>4 DEF Next

LEMMA ClaimsStep ==
  ASSUME TypeInv, KeptInv, ClaimsInv, [Next]_vars
  PROVE  ClaimsInv'
<1>1. StartInv'
  BY StartStep DEF ClaimsInv
<1>2. ASSUME NEW v \in Visitors PROVE Assigned(v)'
  <2>1. Assigned(v) /\ StartInv
    BY DEF ClaimsInv
  <2>2. ASSUME NEW w \in Workers, SaveStep(w) \/ Fault(w) PROVE Assigned(v)'
    <3>1. CASE BeginTx(w)
      <4>1. OnlyMoves(w) /\ save'[w].phase = "get" /\ UNCHANGED <<sessions, now, batch>>
        BY <3>1, BeginTxDoes
      <4>2. QED
        BY <2>1, <4>1, QuietClaims
    <3>2. CASE GetSession(w)
      BY Zenon, <2>1, <3>2, GetClaims
    <3>3. CASE CreateSession(w)
      BY Zenon, <2>1, <3>3, CreateClaims
    <3>4. CASE UpdateSession(w)
      BY Zenon, <2>1, <3>4, UpdateClaims
    <3>5. CASE Commit(w) \/ CommitUnacknowledged(w)
      BY Zenon, <2>1, <3>5, CommitClaims
    <3>6. CASE \/ StartSave(w)
               \/ \E d \in Domains : UpsertDomain(w, d)
               \/ StatementFails(w)
               \/ CreateEvents(w)
               \/ CopyUnacknowledged(w)
               \/ Crash(w)
      BY <2>1, <3>6, RowlessSteps, QuietClaims
    <3>7. QED
      BY Zenon, <2>2, <3>1, <3>2, <3>3, <3>4, <3>5, <3>6 DEF SaveStep, Fault
  <2>3. CASE \/ \E w \in Workers, e \in Events : ReceiveEvent(w, e)
             \/ Tick
             \/ UNCHANGED vars
    BY Zenon, <2>1, <2>3, StillClaims
  <2>4. QED
    BY Zenon, <2>2, <2>3 DEF Next
<1>3. QED
  BY <1>1, <1>2 DEF ClaimsInv

LEMMA ClaimsInit == Init => ClaimsInv
<1> SUFFICES ASSUME Init PROVE ClaimsInv
  OBVIOUS
<1>1. StartInv
  BY DEF Init, StartInv, Idle
<1>2. ASSUME NEW v \in Visitors PROVE Assigned(v)
  <2>1. \A u \in Workers : ~Targets(u, v)
    BY DEF Init, Targets, Idle
  <2>2. \A s : s \notin Claimed(v)
    BY <2>1, ClaimedIs DEF Init
  <2>3. Assigns(<<>>, Claimed(v))
    BY <2>2 DEF Assigns
  <2>4. QED
    BY <2>2, <2>3 DEF Assigned
<1>3. QED
  BY <1>1, <1>2 DEF ClaimsInv

\* LiveSessionsBounded: a visitor has no more live sessions than there are
\* workers, in whatever order their transactions run and whatever fails.
THEOREM SessionLiveSessionsBounded == Spec => []LiveSessionsBounded
<1>1. ClaimsInv => LiveSessionsBounded
  <2> SUFFICES ASSUME ClaimsInv, NEW v \in Visitors
               PROVE  Cardinality({s \in DOMAIN sessions : Live(s, v, now)})
                        <= Cardinality(Workers)
    BY DEF LiveSessionsBounded
  <2> DEFINE live == {s \in DOMAIN sessions : Live(s, v, now)}
  <2>1. PICK f : Assigns(f, Claimed(v))
    BY DEF ClaimsInv, Assigned
  <2>2. live \subseteq Claimed(v)
    BY ClaimedIs
  <2> HIDE DEF live
  <2> DEFINE g == [s \in live |-> f[s]]
  <2>3. g \in Injection(live, Workers)
    <3>1. g \in [live -> Workers]
      BY <2>1, <2>2 DEF Assigns
    <3>2. \A s, t \in live : g[s] = g[t] => s = t
      BY <2>1, <2>2 DEF Assigns
    <3> HIDE DEF g
    <3>3. QED
      BY <3>1, <3>2 DEF Injection, IsInjective
  <2>4. IsFiniteSet(Workers)
    BY SessionAssumption
  <2> HIDE DEF g
  <2>5. QED
    BY <2>3, <2>4, FS_Injection DEF live
<1>2. TypeInv /\ TypeInv' /\ EventsInv /\ KeptInv /\ ClaimsInv /\ [Next]_vars
        => EventsInv' /\ KeptInv' /\ ClaimsInv'
  BY Zenon, KeptStep, EventsStep, ClaimsStep
<1>3. QED
  BY <1>1, <1>2, TypeInit, TypeStep, KeptInit, ClaimsInit, PTL DEF Spec
-----------------------------------------------------------------------------
(***************************************************************************)
(* The pruner beside the workers: it takes no row away.                    *)
(***************************************************************************)
\* An interval that is NULL finds no row, so that a statement of the pruner is
\* a stutter of the store.
LEMMA PrunerStutters ==
  ASSUME TypeInv, [RetentionNext]_retentionVars
  PROVE  [Next]_vars
<1>1. OldEvents = {} /\ OldSessions = {}
  BY DEF OldEvents, OldSessions, Older, TheInterval
<1>2. CASE PruneEvents
  BY <1>1, <1>2 DEF PruneEvents, vars, bounds
<1>3. CASE PruneSessions
  <2>1. sessions' = [s \in DOMAIN sessions |-> sessions[s]]
    BY <1>1, <1>3 DEF PruneSessions
  <2>2. sessions' = sessions
    BY <2>1 DEF TypeInv, TablesInv
  <2>3. QED
    BY <1>3, <2>2 DEF PruneSessions, vars, bounds
<1>4. CASE PruneFails \/ UNCHANGED retentionVars
  BY Zenon, <1>4 DEF PruneFails, retentionVars
<1>5. QED
  BY Zenon, <1>2, <1>3, <1>4 DEF RetentionNext

\* A server with a pruner does to its tables what one without does: whatever
\* holds of SessionStore holds with the pruner that the code has.
THEOREM RetentionImplementsStore == RetentionSpec => Spec
<1>1. RetentionInit => Init
  BY DEF RetentionInit
<1>2. TypeInv /\ [RetentionNext]_retentionVars => [Next]_vars /\ TypeInv'
  BY PrunerStutters, TypeStep
<1>3. QED
  BY <1>1, <1>2, TypeInit, PTL DEF RetentionSpec, Spec

\* The bound on live sessions, with the pruner.
COROLLARY RetentionLiveSessionsBounded == RetentionSpec => []LiveSessionsBounded
BY RetentionImplementsStore, SessionLiveSessionsBounded, PTL

\* And so does what is said of bounce.
COROLLARY RetentionBounceStaysCleared == RetentionSpec => BounceStaysCleared
BY RetentionImplementsStore, SessionBounceStaysCleared, PTL

\* The table of events is only appended to.
LEMMA EventsAppended ==
  ASSUME TypeInv, EventsInv, KeptInv, [Next]_vars
  PROVE  IsPrefix(events, events')
<1>1. CASE events' = events
  BY <1>1 DEF EventsInv, IsPrefix
<1>2. ASSUME NEW w \in Workers, CopyRows(w) PROVE IsPrefix(events, events')
  <2>1. /\ events \in Seq(EventRow) /\ events' \in Seq(EventRow)
        /\ Len(events) <= Len(events')
        /\ \A i \in 1..Len(events) : events'[i] = events[i]
    <3>1. /\ Len(events') = Len(events) + Len(batch[w])
          /\ EventsInv' /\ \A i \in 1..Len(events) : events'[i] = events[i]
      BY <1>2, CopyIs
    <3>2. Len(batch[w]) \in Nat
      BY DEF TypeInv, SavesInv
    <3>3. QED
      BY <3>1, <3>2 DEF EventsInv
  <2>2. SubSeq(events, 1, Len(events)) = SubSeq(events', 1, Len(events))
    BY <2>1
  <2>3. QED
    BY <2>1, <2>2 DEF IsPrefix
<1>3. ASSUME NEW w \in Workers, NEW e \in Events, ReceiveEvent(w, e)
      PROVE  events' = events
  BY <1>3 DEF ReceiveEvent, tables
<1>4. ASSUME NEW w \in Workers, SaveStep(w) \/ Fault(w)
      PROVE  events' = events \/ CopyRows(w)
  BY <1>4 DEF SaveStep, Fault, StartSave, UpsertDomain, BeginTx, GetSession,
     CreateSession, UpdateSession, WriteSession, Commit, CreateEvents, StatementFails,
     CommitUnacknowledged, CopyUnacknowledged, Crash, tables
<1>5. CASE Tick \/ UNCHANGED vars
  BY <1>1, <1>5 DEF Tick, tables, vars
<1>6. QED
  BY Zenon, <1>1, <1>2, <1>3, <1>4, <1>5 DEF Next

\* KeptForever: no step of workers or pruner takes a row of events or sessions
\* away; so far as the pruner is concerned, for any PRUNE_DAYS.
THEOREM RetentionKeptForever == RetentionSpec => KeptForever
<1>1. TypeInv /\ EventsInv /\ KeptInv /\ [RetentionNext]_retentionVars =>
        /\ TypeInv' /\ EventsInv' /\ KeptInv'
        /\ IsPrefix(events, events') /\ DOMAIN sessions \subseteq DOMAIN sessions'
  <2> SUFFICES ASSUME TypeInv, EventsInv, KeptInv, [RetentionNext]_retentionVars
               PROVE  /\ TypeInv' /\ EventsInv' /\ KeptInv'
                      /\ IsPrefix(events, events')
                      /\ DOMAIN sessions \subseteq DOMAIN sessions'
    OBVIOUS
  <2>1. [Next]_vars
    BY PrunerStutters
  <2>2. TypeInv'
    BY <2>1, TypeStep
  <2>3. EventsInv' /\ KeptInv'
    BY Zenon, <2>1, <2>2, EventsStep, KeptStep
  <2>4. IsPrefix(events, events')
    BY Zenon, <2>1, EventsAppended
  <2>5. Grows
    BY Zenon, <2>1, NextGrows
  <2>6. QED
    BY <2>2, <2>3, <2>4, <2>5 DEF Grows
<1>2. RetentionInit => TypeInv /\ EventsInv /\ KeptInv
  BY TypeInit, KeptInit DEF RetentionInit
<1>3. TypeInv /\ EventsInv /\ KeptInv /\ [RetentionNext]_retentionVars =>
        [PruneDays = 0 => /\ IsPrefix(events, events')
                          /\ DOMAIN sessions \subseteq DOMAIN sessions']_retentionVars
  BY <1>1
<1>4. QED
  BY <1>1, <1>2, <1>3, PTL DEF RetentionSpec, KeptForever
=============================================================================
