---------------------------- MODULE MCTcpServers ----------------------------
(* Two clients on two descriptors: one can be closed and reused while the  *)
(* other is at work.                                                       *)
EXTENDS TcpServers
CONSTANTS c1, c2
MCClients == {c1, c2}
MCFds == 4 .. 5
MCPids == 1 .. 2

(* The programs treat all clients alike: what comes true of one of them in *)
(* the end, comes true of every one.                                       *)

(* Every message of c1 is read while c2 keeps reading (MessagesReadOf).    *)
MessagesRead == MessagesReadOf(c1)

(* In the epoll servers the messages of c1 are read once c2 is quiet and   *)
(* keeps reading (QuietMessagesReadOf).                                    *)
QuietMessagesRead == QuietMessagesReadOf(c1)

(* When c1 has left, its descriptor is closed (LeaverDismissed).           *)
LeaversDismissed == LeaverDismissed(c1)
=============================================================================
