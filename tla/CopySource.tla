----------------------------- MODULE CopySource -----------------------------
(***************************************************************************)
(* iteratorForCreateEvents (db/copyfrom.go), by which pgx's CopyFrom reads *)
(* the rows of a batch.  The first call of Next leaves the first row where *)
(* it is, every later call drops one row; pgx takes Values after each call *)
(* that answers true, and stops at the first one that does not.            *)
(***************************************************************************)
EXTENDS Naturals, Sequences, FiniteSets

Iterator(rows) == [rows |-> rows, skippedFirstNextCall |-> FALSE]

\* Fault: the first call drops a row like the others.
AfterNextDropsFirst(r) ==
  IF r.rows = <<>> THEN r ELSE [r EXCEPT !.rows = Tail(@)]
\* The iterator after a call of Next.
AfterNext(r) ==
  IF r.rows = <<>> THEN r
  ELSE IF ~r.skippedFirstNextCall THEN [r EXCEPT !.skippedFirstNextCall = TRUE]
  ELSE [r EXCEPT !.rows = Tail(@)]

\* Next answers true if there is a row left.
Answer(r) == r.rows # <<>>

Values(r) == Head(r.rows)

\* What CopyFrom sends of `rows`: the values after each call of Next, up to
\* the call that answers false.
Copied(rows) ==
  LET calls == 0..Len(rows) + 1
      after[n \in calls] ==
        IF n = 0 THEN Iterator(rows) ELSE AfterNext(after[n - 1])
      answered == {n \in calls \ {0} : Answer(after[n])}
  IN [n \in 1..Cardinality(answered) |-> Values(after[n])]
=============================================================================
