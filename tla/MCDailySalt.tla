---------------------------- MODULE MCDailySalt -----------------------------
(***************************************************************************)
(* Values for the constants of DailySalt.                                  *)
(***************************************************************************)
EXTENDS DailySalt
CONSTANTS p1, p2, c1, c2
=============================================================================
