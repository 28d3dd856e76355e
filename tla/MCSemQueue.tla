---------------------------- MODULE MCSemQueue -----------------------------
(* Two producers and two consumers over a ring of two slots, in a vector   *)
(* that is larger, as when cap is below 10: both indices wrap around.      *)
EXTENDS SemQueue
CONSTANTS p1, p2, c1, c2
MCProducers == {p1, p2}
MCConsumers == {c1, c2}
=============================================================================
