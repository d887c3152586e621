--------------------------- MODULE MCConfigRefresh ---------------------------
(* Three releases of one config.                                           *)
EXTENDS ConfigRefresh

CONSTANTS t1, b1, b2, b3

OneFile == <<t1>>
Three == [v \in 1 .. 3 |-> [t \in Targets |-> CASE v = 1 -> b1 [] v = 2 -> b2 [] v = 3 -> b3]]
=============================================================================
