-------------------------- MODULE MC_RouteRegistry --------------------------
(* Small instances of RouteRegistry. *)
EXTENDS RouteRegistry

CONSTANTS r1, r2, k1, k2, t1, t2, w1, w2
=============================================================================
