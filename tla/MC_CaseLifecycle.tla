-------------------------- MODULE MC_CaseLifecycle --------------------------
(* Small instances of CaseLifecycle. *)
EXTENDS CaseLifecycle, TLC

CONSTANTS c1, c2, w1, w2, w3

\* Two analysts whose runs can overlap and a reviewer.
TeamRole == w1 :> "analyst" @@ w2 :> "analyst" @@ w3 :> "reviewer"

\* One analyst and an administrator, who may do everything.
PairRole == w1 :> "analyst" @@ w2 :> "admin"
=============================================================================
