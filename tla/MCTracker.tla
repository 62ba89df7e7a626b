----------------------------- MODULE MCTracker -----------------------------
(* Values for model-checking IntervalTracker.                              *)
EXTENDS IntervalTracker

Errors == -1 .. 1

=============================================================================
