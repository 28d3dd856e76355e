--------------------------- MODULE MCPthreadPool ---------------------------
(* Three workers can lose two decrements; three tasks and two places make  *)
(* main wait for a worker.                                                 *)
EXTENDS PthreadPool
CONSTANTS w1, w2, w3
MCWorkers == {w1, w2, w3}
=============================================================================
