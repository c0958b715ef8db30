------------------------------ MODULE MCTrace ------------------------------
(* Values for model checking Trace: the threads, what they trace, what fails. *)
EXTENDS Trace

CONSTANTS main, worker, d1, d2, d3

Two == {main, worker}
TwoDurations == {d1, d2}
ThreeDurations == {d1, d2, d3}
Everywhere == {"stopOpen", "stopWrite", "stopEnd"}
Nowhere == {}
=============================================================================
