--------------------------- MODULE MCTracerBuffer ---------------------------
(* Instances of TracerBuffer for TLC. *)
EXTENDS TracerBuffer

\* lost stays TRUE, and the properties claim nothing from there on: behaviours
\* are followed up to that state, where PointsDelivered holds as well.
NothingLost == ~lost
=============================================================================
