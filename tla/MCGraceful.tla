----------------------------- MODULE MCGraceful -----------------------------
(* Instances of Graceful for TLC: three steps. *)
EXTENDS Graceful

AllSteps == 1..3
=============================================================================
