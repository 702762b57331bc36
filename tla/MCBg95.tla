------------------------------- MODULE MCBg95 -------------------------------
(* An instance of Bg95 for TLC. *)
EXTENDS Bg95
=============================================================================
