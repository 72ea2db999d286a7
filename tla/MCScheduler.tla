----------------------------- MODULE MCScheduler -----------------------------
(* Model-checking instance of Scheduler; the constants are in the cfgs.    *)
EXTENDS Scheduler
=============================================================================
