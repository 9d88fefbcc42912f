--------------------------- MODULE MCSessionStore ---------------------------
(***************************************************************************)
(* Values for the constants of SessionStore.                               *)
(***************************************************************************)
EXTENDS SessionStore

CONSTANTS w1, w2

Seen(v, d, n) == [visitor |-> v, domain |-> d, name |-> n]

\* Two visitors of two sites, one of them reading on and leaving.
MCTwoVisitors == {Seen("v1", "a.org", "load"), Seen("v1", "a.org", "hidden"),
                  Seen("v2", "b.org", "load")}
\* One visitor, whose requests reach several workers.
MCOneVisitor == {Seen("v1", "a.org", "load")}
=============================================================================
