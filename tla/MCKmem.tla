------------------------------- MODULE MCKmem -------------------------------
(* Model-checking instance of Kmem. *)
EXTENDS Kmem
=============================================================================
