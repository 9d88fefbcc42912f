----------------------------- MODULE Retention ------------------------------
(***************************************************************************)
(* The pruner (prune.go) beside the workers of SessionStore: on each tick  *)
(* it deletes the events, then the sessions, that are older than           *)
(* PRUNE_DAYS, while saves are under way.                                  *)
(*                                                                         *)
(* The database (external): a comparison with NULL selects no row, DELETE  *)
(* waits for the transaction that has changed one of its rows, and a       *)
(* session that a row of events refers to cannot be deleted: the statement *)
(* fails as a whole.                                                       *)
(***************************************************************************)
EXTENDS SessionStore, SequencesExt

CONSTANT PruneDays  \* configuration: PRUNE_DAYS, in units of the clock

ASSUME RetentionAssumption == PruneDays \in Nat

VARIABLE pruner  \* where prune() is: at the ticker or at one of its statements

retentionVars == <<vars, pruner>>

RetentionInit == Init /\ pruner = "ticker"

PrunerStep(from, to) ==
  /\ pruner = from
  /\ pruner' = to

\* Fault (or repair): the interval is marked as valid.
IntervalMarkedValid == [microseconds |-> PruneDays, valid |-> TRUE]
\* The pgtype.Interval of prune().  Valid is not set, so pgx sends NULL.
TheInterval == [microseconds |-> PruneDays, valid |-> FALSE]

\* `column <= CURRENT_TIMESTAMP - the_interval`.
Older(column) ==
  TheInterval.valid /\ column <= now - TheInterval.microseconds

OldEvents == {i \in 1..Len(events) : Older(events[i].stored)}
OldSessions == {s \in DOMAIN sessions : Older(sessions[s].updated)}

Referenced == {events[i].session : i \in 1..Len(events)}

\* The rows of events that stay, in their order.
YoungEvents == SelectSeq(events, LAMBDA e : ~Older(e.stored))

\* `range ticker.C`, every PRUNE_CHECK_HOURS, and the first statement.
PruneEvents ==
  /\ PrunerStep("ticker", "sessions")
  /\ events' = IF OldEvents = {} THEN events ELSE YoungEvents
  /\ UNCHANGED <<now, domains, sessions, batch, save, bounds>>

PruneSessions ==
  /\ PrunerStep("sessions", "ticker")
  /\ \A s \in OldSessions : ~Locked(s)
  /\ OldSessions \cap Referenced = {}
  /\ sessions' = [s \in DOMAIN sessions \ OldSessions |-> sessions[s]]
  /\ UNCHANGED <<now, domains, events, batch, save, bounds>>

\* An error is logged, and prune() goes on.
PruneFails ==
  /\ PrunerStep("ticker", "sessions") \/ PrunerStep("sessions", "ticker")
  /\ UNCHANGED vars
-----------------------------------------------------------------------------
RetentionNext ==
  \/ Next /\ UNCHANGED pruner
  \/ PruneEvents
  \/ PruneSessions
  \/ PruneFails

RetentionSpec == RetentionInit /\ [][RetentionNext]_retentionVars

\* The fairness of the workers.
SavingFairSpec == RetentionSpec /\ Fairness

\* The ticker goes on, and a statement of the pruner that is tried again and
\* again succeeds now and then.
PruningFairSpec ==
  /\ SavingFairSpec
  /\ WF_retentionVars(PruneFails)
  /\ SF_retentionVars(PruneEvents) /\ SF_retentionVars(PruneSessions)
-----------------------------------------------------------------------------
(***************************************************************************)
(* Properties.                                                             *)
(***************************************************************************)
\* README.md:143: PRUNE_DAYS "0 [keep forever]" (the default).  No step of the
\* pruner or of a worker takes a row away then.  prune() does not ask whether
\* it is 0: it is the missing Valid alone that keeps the rows.
KeptForever ==
  [][PruneDays = 0 => /\ IsPrefix(events, events')
                      /\ DOMAIN sessions \subseteq DOMAIN sessions']_retentionVars

\* README.md:143: "Number of days to retain events and sessions in DB".  A row
\* of events that is older is deleted at last.
Overdue == \E i \in 1..Len(events) : events[i].stored + PruneDays < now
Pruned == PruneDays > 0 => (Overdue ~> ~Overdue)
=============================================================================
