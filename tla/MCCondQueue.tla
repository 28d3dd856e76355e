---------------------------- MODULE MCCondQueue ----------------------------
(* Two producers and two consumers: enough for a signal to reach the wrong *)
(* thread of a group, and for a third thread to take an item on the way.   *)
EXTENDS CondQueue
CONSTANTS p1, p2, c1, c2
MCProducers == {p1, p2}
MCConsumers == {c1, c2}
=============================================================================
