-------------------------- MODULE ServerConstants --------------------------
(* The parameters of the TCP servers other than PthreadServer, and what is *)
(* assumed of them.                                                        *)
EXTENDS Integers, Sequences, FiniteSets

CONSTANTS Clients, NoClient,
          Fds,              \* the descriptors accept can return, as numbers
          lfd,              \* the listening socket
          MaxUnread,        \* bound: messages a client has under way
          Pids, Tids,       \* bound: children and threads, as numbers
          NumElements,      \* the length of allfd in poll_server.c: 1024
          NumEvents         \* elements of all in epoll_server.c: of 2000

ASSUME ClientAssumption == IsFiniteSet(Clients) /\ NoClient \notin Clients

(* Accepted connections have larger numbers than the listening socket.     *)
ASSUME DescriptorAssumption == /\ lfd \in Nat \ {0} /\ Fds \subseteq Nat
                               /\ IsFiniteSet(Fds) /\ \A f \in Fds : f > lfd
ASSUME BoundAssumption == MaxUnread \in Nat /\ Pids \subseteq Nat /\ Tids \subseteq Nat

(* The process has fewer descriptors than allfd has elements.              *)
ASSUME PollAssumption == NumElements \in Nat /\ Cardinality(Fds) < NumElements - 1

(* epoll_wait has room for all that is ready.                              *)
ASSUME EpollAssumption == NumEvents \in Nat /\ Cardinality(Clients) <= NumEvents
=============================================================================
