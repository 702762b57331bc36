----------------------------- MODULE MCTracker ------------------------------
(* An instance of Tracker for TLC: its constants are in the configuration.  *)
EXTENDS Tracker
=============================================================================
