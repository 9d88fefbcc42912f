------------------------------ MODULE EventLog ------------------------------
(***************************************************************************)
(* What the ingest pipeline promises about the events it has queued: they  *)
(* form a log.  Accepting an event appends it, once.  Saving writes the    *)
(* events that follow the saved prefix of the log to the table, in their   *)
(* order, and makes the prefix longer.  Only when the answer to a save got *)
(* lost does the prefix stay, so that the same events are written again:   *)
(* at least once, never out of order, and none is skipped.                 *)
(***************************************************************************)
EXTENDS Naturals, Sequences

CONSTANT Events

VARIABLES
  log,      \* every queued event, in the order it was queued
  saved,    \* the length of the prefix that is known to be in the table
  table     \* the rows of the table, in insertion order

vars == <<log, saved, table>>

Logged == {log[i] : i \in 1..Len(log)}

Init ==
  /\ log = <<>>
  /\ saved = 0
  /\ table = <<>>

Accept(e) ==
  /\ e \notin Logged
  /\ log' = Append(log, e)
  /\ UNCHANGED <<saved, table>>

\* The next n events of the log become rows.
Write(n) == table' = table \o SubSeq(log, saved + 1, saved + n)

Persist(n) ==
  /\ Write(n)
  /\ saved' = saved + n
  /\ UNCHANGED log

PersistUnacknowledged(n) ==
  /\ Write(n)
  /\ UNCHANGED <<log, saved>>

Next ==
  \/ \E e \in Events : Accept(e)
  \/ \E n \in 1..Len(log) - saved : Persist(n) \/ PersistUnacknowledged(n)

Spec == Init /\ [][Next]_vars
=============================================================================
