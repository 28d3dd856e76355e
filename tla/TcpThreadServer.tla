--------------------------- MODULE TcpThreadServer ---------------------------
(***************************************************************************)
(* tcp_server_pthread: tcp_pthread.cpp on the class TcpSocket.  main makes *)
(* a TcpSocket on the heap for every accept, and a detached thread for     *)
(* each that succeeds; the thread looks at no result and never leaves its  *)
(* loop, so no connection is ever closed.  main is at "accept", "create"   *)
(* or "detach", or the process has "exited".  A thread is at "recv" or     *)
(* "answer", where it waits for the operator.                              *)
(***************************************************************************)
EXTENDS ServerConstants, FiniteSetsExt

VARIABLES peer, backlog, open, unread,
          thread,           \* [Tids -> its place, and _sock of its TcpSocket]
          csock,            \* csock->_sock
          faults,           \* history, and bound: pthread_create has failed
          pc

INSTANCE Sockets

socketVars == <<peer, backlog, open, unread>>
vars == <<peer, backlog, open, unread, thread, csock, faults, pc>>

Unborn == [at |-> "unborn", sock |-> -1]
Init == /\ SocketsInit
        /\ thread = [t \in Tids |-> Unborn]
        /\ csock = -1 /\ faults = {}
        /\ pc = "accept"

At(from, to) == pc = from /\ pc' = to
Over == pc = "exited"

-----------------------------------------------------------------------------
(* main.  When Accept fails the new TcpSocket is left, and nothing else.   *)
Accept_csock == /\ At("accept", "create")
                /\ \E f \in Fds : Accept(f) /\ csock' = f
                /\ UNCHANGED <<thread, faults>>

Free == {t \in Tids : thread[t] = Unborn}
SharedCsock == /\ At("create", "detach")                           \* mutant
               /\ Free # {}
               /\ thread' = [t \in Tids |-> IF t = Min(Free)
                               THEN [at |-> "recv", sock |-> csock]
                               ELSE IF thread[t] = Unborn THEN Unborn
                               ELSE [thread[t] EXCEPT !.sock = csock]]
               /\ csock' = -1
               /\ UNCHANGED <<socketVars, faults>>
pthread_create == /\ At("create", "detach")
                  /\ Free # {}
                  /\ thread' = [thread EXCEPT ![Min(Free)] = [at |-> "recv", sock |-> csock]]
                  /\ csock' = -1
                  /\ UNCHANGED <<socketVars, faults>>

pthread_detach == /\ At("detach", "accept")
                  /\ UNCHANGED <<socketVars, thread, csock, faults>>

(* No thread: pid is not set, and pthread_detach crashes or does nothing.  *)
(* The connection stays open.                                              *)
CreateFails == /\ pc = "create" /\ pc' \in {"accept", "exited"}
               /\ faults = {} /\ faults' = {"create"}
               /\ csock' = -1
               /\ UNCHANGED <<socketVars, thread>>

-----------------------------------------------------------------------------
(* A thread                                                                *)
Peer(t) == open[thread[t].sock]
Move(t, from, to) == /\ ~Over /\ thread[t].at = from
                     /\ thread' = [thread EXCEPT ![t].at = to]
                     /\ UNCHANGED <<csock, faults, pc>>

(* Recv returns with data, or false at the end or after a reset.           *)
Recv(t) == /\ Move(t, "recv", "answer")
           /\ Readable(Peer(t))
           /\ unread' = [unread EXCEPT ![Peer(t)] = 0]
           /\ UNCHANGED <<peer, backlog, open>>

SendAnswer(t) == Move(t, "answer", "recv") /\ Send(Peer(t))

(* SIGPIPE ends the process.                                               *)
BrokenPipe(t) == /\ ~Over /\ thread[t].at = "answer" /\ peer[Peer(t)] = "rst"
                 /\ pc' = "exited"
                 /\ UNCHANGED <<socketVars, thread, csock, faults>>

-----------------------------------------------------------------------------
main == Accept_csock \/ pthread_create \/ pthread_detach
start_thr(t) == Recv(t) \/ SendAnswer(t) \/ BrokenPipe(t)
Peers == ~Over /\ ClientStep /\ UNCHANGED <<thread, csock, faults, pc>>

Next == main \/ CreateFails \/ (\E t \in Tids : start_thr(t)) \/ Peers
Spec == Init /\ [][Next]_vars

-----------------------------------------------------------------------------
(* See SelectServer and ForkServer.                                        *)
Sock(at) == {thread[t].sock : t \in {u \in Tids : thread[u].at \in at}}
Arriving == IF pc = "create" THEN {open[csock]} ELSE {}
InService == {open[f] : f \in Sock({"recv", "answer"})}
Owed == {open[f] : f \in Sock({"answer"})}
NothingLeaked == Over \/ "create" \in faults \/
                 \A f \in Fds : open[f] # NoClient => open[f] \in InService \cup Arriving

(* Every variable keeps its range, and no two threads have one connection. *)
TypeOK == /\ thread \in [Tids -> [at : {"unborn", "recv", "answer"}, sock : Fds \cup {-1}]]
          /\ csock \in Fds \cup {-1} /\ faults \subseteq {"create"}
          /\ pc \in {"accept", "create", "detach", "exited"}
          /\ \A t, u \in Tids : t # u /\ thread[t].sock = thread[u].sock
                                  => thread[t] = Unborn
=============================================================================
