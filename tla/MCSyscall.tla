------------------------------ MODULE MCSyscall ------------------------------
(* Model-checking instance of Syscall. *)
EXTENDS Syscall
=============================================================================
