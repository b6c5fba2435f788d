------------------------- MODULE MC_SignalPipeline -------------------------
(* Small instances of SignalPipeline. *)
EXTENDS SignalPipeline

\* At the beginning of the trace, in its middle and at its end.
SomeStretches == {<<0, 4>>, <<6, 10>>, <<11, 15>>}
=============================================================================
