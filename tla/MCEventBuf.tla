----------------------------- MODULE MCEventBuf -----------------------------
(* Instances of EventBuf for TLC. *)
EXTENDS EventBuf
=============================================================================
