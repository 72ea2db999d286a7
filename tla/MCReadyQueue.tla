---------------------------- MODULE MCReadyQueue ----------------------------
(* Model-checking instance of ReadyQueue; the constants are in the cfg.    *)
EXTENDS ReadyQueue
=============================================================================
