----------------------------- MODULE PollServer -----------------------------
(***************************************************************************)
(* poll_server.c: an echo server with an array of pollfd.  main sets fd of *)
(* every element, but events only of element 0: events and revents of the  *)
(* others are what the stack holds, until poll writes revents.  The first  *)
(* client that leaves ends the server.  The process is at "wait", "accept" *)
(* (the test of allfd[0]), "scan", "send", or has "exited".                *)
(***************************************************************************)
EXTENDS ServerConstants, FiniteSetsExt

VARIABLES peer, backlog, open, unread,
          allfd,            \* [0 .. NumElements-1 -> fd, events, revents]
          nfds,             \* the number of elements given to the last poll
          max_index, i, pc

INSTANCE Sockets

socketVars == <<peer, backlog, open, unread>>
vars == <<peer, backlog, open, unread, allfd, nfds, max_index, i, pc>>

(* events and revents say whether POLLIN is set.                           *)
Elements == 0 .. NumElements - 1
Pollfd == [fd : Fds \cup {lfd, -1}, events : BOOLEAN, revents : BOOLEAN]

Init == /\ SocketsInit
        /\ allfd = [k \in Elements |-> [fd |-> IF k = 0 THEN lfd ELSE -1,
                                        events |-> k = 0, revents |-> FALSE]]
        /\ nfds = 0 /\ max_index = 0 /\ i = 0
        /\ pc = "wait"

At(from, to) == pc = from /\ pc' = to
Over == pc = "exited"

-----------------------------------------------------------------------------
Ready(k) == /\ allfd[k].fd # -1 /\ allfd[k].events
            /\ IF k = 0 THEN backlog # <<>> ELSE Readable(open[allfd[k].fd])
poll == /\ At("wait", "accept")
        /\ \E k \in 0 .. max_index : Ready(k)
        /\ allfd' = [k \in Elements |-> IF k <= max_index
                                        THEN [allfd[k] EXCEPT !.revents = Ready(k)]
                                        ELSE allfd[k]]
        /\ nfds' = max_index + 1 /\ i' = 0
        /\ UNCHANGED <<socketVars, max_index>>

NoConnection == /\ At("accept", "scan") /\ ~allfd[0].revents
                /\ i' = 1
                /\ UNCHANGED <<socketVars, allfd, nfds, max_index>>

FirstFree == LET free == {k \in Elements : allfd[k].fd = -1}
             IN  IF free = {} THEN NumElements ELSE Min(free)
Advance == max_index' = Max({max_index, FirstFree}) /\ i' = 1

(* events is what the stack holds, and so is revents unless poll has       *)
(* written it; here both are chosen as they come to matter.                *)
Enter(f) == /\ \E e, r \in BOOLEAN :
                 /\ FirstFree < nfds => r = allfd[FirstFree].revents
                 /\ allfd' = [allfd EXCEPT ![FirstFree] =
                                [fd |-> f, events |-> e, revents |-> r]]
            /\ Advance

AcceptConnection == /\ At("accept", "scan") /\ allfd[0].revents
                    /\ \E f \in Fds : Accept(f) /\ Enter(f)
                    /\ UNCHANGED nfds

(* accept returns -1, which is stored like a descriptor.                   *)
AcceptFails == /\ At("accept", "scan") /\ allfd[0].revents
               /\ Advance
               /\ UNCHANGED <<socketVars, allfd, nfds>>

-----------------------------------------------------------------------------
Remaining == {k \in Elements \ {0} : /\ i <= k /\ k <= max_index
                                     /\ allfd[k].fd # -1 /\ allfd[k].revents}
Next_i(k) == k \in Remaining /\ \A m \in Remaining : k <= m
Peer(k) == open[allfd[k].fd]

RecvData(k) == /\ At("scan", "send") /\ Next_i(k)
               /\ ReadInput(Peer(k))
               /\ i' = k
               /\ UNCHANGED <<allfd, nfds, max_index>>

SendBack == /\ At("send", "scan")
            /\ Send(Peer(i))
            /\ i' = i + 1
            /\ UNCHANGED <<allfd, nfds, max_index>>

(* SIGPIPE                                                                 *)
BrokenPipe == /\ At("send", "exited")
              /\ peer[Peer(i)] = "rst"
              /\ UNCHANGED <<socketVars, allfd, nfds, max_index, i>>

(* Either way the process exits.                                           *)
RecvZero(k) == /\ At("scan", "exited") /\ Next_i(k)
               /\ AtEnd(Peer(k))
               /\ Close(allfd[k].fd)
               /\ allfd' = [allfd EXCEPT ![k].fd = -1]
               /\ UNCHANGED <<nfds, max_index, i>>

RecvFails(k) == /\ At("scan", "exited") /\ Next_i(k)
                /\ Failed(Peer(k))
                /\ UNCHANGED <<socketVars, allfd, nfds, max_index, i>>

ScanDone == /\ At("scan", "wait")
            /\ Remaining = {}
            /\ UNCHANGED <<socketVars, allfd, nfds, max_index, i>>

-----------------------------------------------------------------------------
loop == \/ poll \/ NoConnection \/ AcceptConnection
        \/ (\E k \in Elements : RecvData(k) \/ RecvZero(k) \/ RecvFails(k))
        \/ SendBack \/ BrokenPipe \/ ScanDone
Peers == ~Over /\ ClientStep /\ UNCHANGED <<allfd, nfds, max_index, i, pc>>

Next == loop \/ AcceptFails \/ Peers
Spec == Init /\ [][Next]_vars

-----------------------------------------------------------------------------
(* See SelectServer.  Only the first nfds elements were seen by poll.      *)
Tended == {allfd[k].fd : k \in Elements} \cap Fds
Owed == IF pc = "send" THEN {Peer(i)} ELSE {}
Reported == IF pc = "scan" THEN {allfd[k].fd : k \in {m \in Remaining : m < nfds}}
                           ELSE {}

(* What the stack holds may keep an element from ever being polled, or have*)
(* a new connection read at once, which blocks the server.                 *)
Unpolled(c) == \E k \in Elements : /\ allfd[k].fd \in Fds /\ Peer(k) = c
                                   /\ ~allfd[k].events
Blocked == pc = "scan" /\ \E k \in Remaining : Next_i(k) /\ ~Readable(Peer(k))

(* Every variable keeps its range, and no element past the array is used.  *)
TypeOK == /\ allfd \in [Elements -> Pollfd]
          /\ nfds \in 0 .. NumElements /\ max_index \in Elements
          /\ i \in 0 .. NumElements
          /\ pc \in {"wait", "accept", "scan", "send", "exited"}
=============================================================================
