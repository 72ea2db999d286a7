---------------------------- MODULE MCKernelSync ----------------------------
(* Model-checking instance of KernelSync; the constants are in the cfgs.   *)
EXTENDS KernelSync
=============================================================================
