------------------------------ MODULE MCModem -------------------------------
(* An instance of Modem for TLC. *)
EXTENDS Modem
=============================================================================
