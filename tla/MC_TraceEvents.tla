--------------------------- MODULE MC_TraceEvents ---------------------------
(* Small instances of TraceEvents. *)
EXTENDS TraceEvents

CONSTANTS t1, t2, w1, w2, w3
=============================================================================
