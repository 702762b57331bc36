---------------------------- MODULE MCEventMemory ---------------------------
(* An instance of EventMemory for TLC. *)
EXTENDS EventMemory
=============================================================================
