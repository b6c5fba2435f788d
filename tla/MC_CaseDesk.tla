---------------------------- MODULE MC_CaseDesk ----------------------------
(* A small instance of CaseDesk. *)
EXTENDS CaseDesk

CONSTANTS u1, w1

\* An administrator, whose page has every button.
DeskRole == u1 :> "admin"
=============================================================================
