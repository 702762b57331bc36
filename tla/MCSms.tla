------------------------------- MODULE MCSms --------------------------------
(* An instance of Sms for TLC: two messages of two parts, one of a single *)
(* part with the reference of the first, and one that is not split.        *)
EXTENDS Sms

MCId == [a |-> 1, b |-> 2, c |-> 3, d |-> 1]
MCTotal == [a |-> 2, b |-> 2, c |-> 0, d |-> 1]
=============================================================================
