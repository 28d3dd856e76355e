-------------------------- MODULE MCPthreadServer --------------------------
(* Two clients on two elements and two descriptors, and a failed accept: a *)
(* descriptor can be closed and reused while another worker is at work.    *)
EXTENDS PthreadServer
CONSTANTS c1, c2
MCClients == {c1, c2}
MCWorkers == 1 .. 3
MCFds == 4 .. 5
=============================================================================
