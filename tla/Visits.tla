------------------------------- MODULE Visits -------------------------------
(***************************************************************************)
(* What the sessions table is to mean: a visit of a visitor is a run of    *)
(* touches, each less than Timeout after the one before.  A touch that     *)
(* comes later than that opens a new visit.  So the visits of one visitor  *)
(* never overlap, and at most one can still be extended.                   *)
(***************************************************************************)
EXTENDS Naturals

CONSTANTS Visitors, VisitIds, Timeout

VARIABLES
  now,      \* the clock
  visits    \* visits[i]: the visitor, first and last touch of visit i

vars == <<now, visits>>

Init ==
  /\ now = 0
  /\ visits = <<>>

Tick ==
  /\ now' = now + 1
  /\ UNCHANGED visits

Of(v) == {i \in DOMAIN visits : visits[i].visitor = v}

\* Visit i can be extended at time t.
Open(i, t) == t < visits[i].last + Timeout

OpenVisit(v, t) ==
  /\ \A i \in Of(v) : ~Open(i, t)
  /\ \E i \in VisitIds \ DOMAIN visits :
       visits' = [j \in DOMAIN visits \cup {i} |->
                   IF j = i THEN [visitor |-> v, first |-> t, last |-> t]
                   ELSE visits[j]]
  /\ UNCHANGED now

ExtendVisit(v, t) ==
  /\ \A i \in Of(v) : visits[i].last <= t
  /\ \E i \in Of(v) :
       /\ Open(i, t)
       /\ visits' = [visits EXCEPT ![i].last = t]
  /\ UNCHANGED now

Next ==
  \/ Tick
  \/ \E v \in Visitors, t \in 0..now : OpenVisit(v, t) \/ ExtendVisit(v, t)

Spec == Init /\ [][Next]_vars
=============================================================================
