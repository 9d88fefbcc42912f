---------------------------- MODULE MCRetention -----------------------------
(***************************************************************************)
(* Values for the constants of Retention.                                  *)
(***************************************************************************)
EXTENDS Retention

CONSTANTS w1, w2

\* One visitor, whose requests reach one worker or several.
MCOneVisitor == {[visitor |-> "v1", domain |-> "a.org", name |-> "load"]}
\* The same visitor, reading on and leaving.
MCOneReader == {[visitor |-> "v1", domain |-> "a.org", name |-> n] : n \in {"load", "hidden"}}
=============================================================================
