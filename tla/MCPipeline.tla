----------------------------- MODULE MCPipeline -----------------------------
(***************************************************************************)
(* Values for the constants of Pipeline.  Three requests carry an accepted *)
(* event; "popstate" is sent by the tracker but is no accepted name.       *)
(***************************************************************************)
EXTENDS Pipeline

CONSTANTS e1, e2, e3, e4

MCName == [e \in Events |-> IF e = e4 THEN "popstate" ELSE "load"]
MCLocated == Events
MCValidEventNames == {"load", "visible", "hidden", "hashchange", "ping"}
MCOneUnsaveable == {e2}
=============================================================================
