---------------------------- MODULE MCAlarmSystem ---------------------------
(* Instances of AlarmSystem for TLC. *)
EXTENDS AlarmSystem
=============================================================================
