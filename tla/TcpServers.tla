----------------------------- MODULE TcpServers -----------------------------
(***************************************************************************)
(* The TCP servers of the repository that are one file or class each: one  *)
(* of them is started, for the same clients over the same kernel, and all  *)
(* are held to the same promises.  pc is where a process that waits for    *)
(* several descriptors stands, mainpc where one stands that waits in       *)
(* accept.  The variables of the programs not started keep their value.    *)
(***************************************************************************)
EXTENDS ServerConstants

VARIABLES program,
          peer, backlog, open, unread, pc, mainpc,
          i, reads, tmp, maxfd,                 \* select.c
          allfd, nfds, max_index,               \* poll_server.c, with i
          registered, all, reported, ret,       \* epoll_server.c, with i and faults
          batch, event,                         \* nonblock_epoll_server.c, with ret,
                                                \*   registered and faults
          child, sigchld, handler, cfd,         \* tcp_pro.cpp
          eintr, faults,                        \* fork_server.c, with those of tcp_pro
          thread,                               \* tcp_pthread.cpp, with cfd and faults
          bevs, output, input                   \* libevent_server.c

Select   == INSTANCE SelectServer
Poll     == INSTANCE PollServer
Epoll    == INSTANCE EpollServer
Nonblock == INSTANCE NonblockServer WITH MaxUnread <- MaxUnread + 1
Fork     == INSTANCE ForkServer WITH pc <- mainpc
Pro      == INSTANCE TcpProServer WITH pc <- mainpc, com <- cfd
Thread   == INSTANCE TcpThreadServer WITH pc <- mainpc, csock <- cfd
Http     == INSTANCE HttpServer WITH pc <- mainpc, cli <- cfd
Libevent == INSTANCE LibeventServer
INSTANCE Sockets

Programs == {"select", "poll", "epoll", "nonblock", "fork", "pro", "thread", "http",
             "libevent"}
Is(p) == program = p

vars == <<program, peer, backlog, open, unread, pc, mainpc, i, reads, tmp, maxfd,
          allfd, nfds, max_index, registered, all, reported, ret, batch, event,
          child, sigchld, handler, cfd, eintr, faults, thread, bevs, output, input>>

Init == /\ program \in Programs
        /\ Select!Init /\ Poll!Init /\ Epoll!Init /\ Nonblock!Init
        /\ Fork!Init /\ Pro!Init /\ Thread!Init /\ Http!Init /\ Libevent!Init

(* What the program that runs does not have stays the same.                *)
Others ==
  /\ UNCHANGED program
  /\ IF program \in {"select", "poll", "epoll", "nonblock", "libevent"}
     THEN UNCHANGED mainpc ELSE UNCHANGED pc
  /\ IF program \in {"select", "poll", "epoll"} THEN TRUE ELSE UNCHANGED i
  /\ IF program \in {"epoll", "nonblock"} THEN TRUE ELSE UNCHANGED <<registered, ret>>
  /\ IF Is("select") THEN TRUE ELSE UNCHANGED <<reads, tmp, maxfd>>
  /\ IF Is("poll") THEN TRUE ELSE UNCHANGED <<allfd, nfds, max_index>>
  /\ IF Is("epoll") THEN TRUE ELSE UNCHANGED <<all, reported>>
  /\ IF Is("nonblock") THEN TRUE ELSE UNCHANGED <<batch, event>>
  /\ IF program \in {"fork", "pro"} THEN TRUE ELSE UNCHANGED <<child, sigchld, handler>>
  /\ IF program \in {"fork", "pro", "thread", "http"} THEN TRUE ELSE UNCHANGED cfd
  /\ IF program \in {"epoll", "nonblock", "fork", "thread"} THEN TRUE ELSE UNCHANGED faults
  /\ IF Is("fork") THEN TRUE ELSE UNCHANGED eintr
  /\ IF Is("thread") THEN TRUE ELSE UNCHANGED thread
  /\ IF Is("libevent") THEN TRUE ELSE UNCHANGED <<bevs, output, input>>

Next == \/ Is("select") /\ Select!Next /\ Others
        \/ Is("poll") /\ Poll!Next /\ Others
        \/ Is("epoll") /\ Epoll!Next /\ Others
        \/ Is("nonblock") /\ Nonblock!Next /\ Others
        \/ Is("fork") /\ Fork!Next /\ Others
        \/ Is("pro") /\ Pro!Next /\ Others
        \/ Is("thread") /\ Thread!Next /\ Others
        \/ Is("http") /\ Http!Next /\ Others
        \/ Is("libevent") /\ Libevent!Next /\ Others

Spec == Init /\ [][Next]_vars

-----------------------------------------------------------------------------
(* The loop of main, and the event loop's listener.                        *)
Main == \/ Is("select") /\ Select!loop /\ Others
        \/ Is("poll") /\ Poll!loop /\ Others
        \/ Is("epoll") /\ Epoll!loop /\ Others
        \/ Is("nonblock") /\ Nonblock!loop /\ Others
        \/ Is("fork") /\ Fork!main /\ Others
        \/ Is("pro") /\ Pro!main /\ Others
        \/ Is("thread") /\ Thread!main /\ Others
        \/ Is("http") /\ Http!loop /\ Others
        \/ Is("libevent") /\ (\E f \in Fds : Libevent!listen_cb(f)) /\ Others

(* The handlers of SIGCHLD.                                                *)
Handler == \/ Is("fork") /\ Fork!worker /\ Others
           \/ Is("pro") /\ Pro!sigbc /\ Others

(* A child or a thread, while it does not wait for the operator, or the    *)
(* callbacks of a bufferevent.                                             *)
Worker(w) == \/ Is("fork") /\ w \in Pids /\ Fork!process(w) /\ Others
             \/ Is("pro") /\ w \in Pids /\ Pro!Recv(w) /\ Others
             \/ Is("thread") /\ w \in Tids /\ Thread!Recv(w) /\ Others
             \/ Is("libevent") /\ w \in Fds /\ Libevent!callbacks(w) /\ Others

(* accept does not fail for ever while a descriptor is free.               *)
Accepting == \/ Is("poll") /\ Poll!AcceptConnection /\ Others
             \/ Is("epoll") /\ Epoll!AcceptConnection /\ Others
             \/ Is("nonblock") /\ Nonblock!AcceptConnection /\ Others

FairSpec == /\ Spec /\ WF_vars(Main) /\ SF_vars(Accepting) /\ WF_vars(Handler)
            /\ \A w \in Pids \cup Tids \cup Fds : WF_vars(Worker(w))

-----------------------------------------------------------------------------
Over == program \notin {"fork", "pro"} /\ "exited" \in {pc, mainpc}
Queued == {c \in Clients : peer[c] = "idle" \/ \E k \in DOMAIN backlog : backlog[k] = c}
Connected == {open[f] : f \in Fds} \ {NoClient}
InService == CASE Is("fork") -> Fork!InService
               [] Is("pro") -> Pro!InService
               [] Is("thread") -> Thread!InService
               [] OTHER -> Connected
Arriving == Queued \cup CASE Is("fork") -> Fork!Arriving
                          [] Is("pro") -> Pro!Arriving
                          [] Is("thread") -> Thread!Arriving
                          [] OTHER -> {}
Owed == CASE Is("select") -> Select!Owed
          [] Is("poll") -> Poll!Owed
          [] Is("epoll") -> Epoll!Owed
          [] Is("nonblock") -> Nonblock!Owed
          [] Is("fork") -> Fork!Owed
          [] Is("pro") -> Pro!Owed
          [] Is("thread") -> Thread!Owed
          [] Is("http") -> Http!Owed
          [] Is("libevent") -> Libevent!Owed

(* Every variable keeps its range, in every program.                       *)
TypeOK == /\ peer \in [Clients -> {"idle", "up", "full", "fin", "rst"}]
          /\ backlog \in Seq(Clients)
          /\ open \in [Fds -> Clients \cup {NoClient}]
          /\ unread \in [Clients -> 0 .. MaxUnread + 1]
          /\ CASE Is("select") -> Select!TypeOK
               [] Is("poll") -> Poll!TypeOK
               [] Is("epoll") -> Epoll!TypeOK
               [] Is("nonblock") -> Nonblock!TypeOK
               [] Is("fork") -> Fork!TypeOK
               [] Is("pro") -> Pro!TypeOK
               [] Is("thread") -> Thread!TypeOK
               [] Is("http") -> Http!TypeOK
               [] Is("libevent") -> Libevent!TypeOK

(* A descriptor that select, poll or epoll_wait has reported is open and   *)
(* has something to read when its turn comes, although descriptors are     *)
(* accepted and closed in between: the read does not block.                *)
ReportedReadable ==
  LET reported_fds == CASE Is("select") -> Select!Reported
                        [] Is("poll") -> Poll!Reported
                        [] Is("epoll") -> Epoll!Reported
                        [] Is("nonblock") -> Nonblock!Reported
                        [] OTHER -> {}
  IN  \A f \in reported_fds : open[f] # NoClient /\ Readable(open[f])

(* The server knows of every connection it has open: somebody is waiting   *)
(* for its input and will close it, but for the one connection for which   *)
(* epoll_ctl, fork or pthread_create has failed.  No process keeps a copy  *)
(* of a descriptor it has no use for, so that a connection ends for its    *)
(* client with the child that served it, unless a fork has failed.         *)
NothingLeaked ==
  CASE Is("epoll") -> Epoll!NothingLeaked
    [] Is("nonblock") -> Nonblock!NothingLeaked
    [] Is("fork") -> Fork!NothingLeaked
    [] Is("pro") -> Pro!NothingLeaked
    [] Is("thread") -> Thread!NothingLeaked
    [] OTHER -> LET tended == CASE Is("select") -> Select!Tended
                                [] Is("poll") -> Poll!Tended
                                [] Is("http") -> Http!Tended
                                [] Is("libevent") -> Libevent!Tended
                IN  \A f \in Fds : open[f] # NoClient => f \in tended

(* Every server keeps the promise of ConnectionService: an answer only for *)
(* input that was read, nobody cut off before he has left, whatever        *)
(* descriptors are reused and whoever hangs up in between.  tcp_pro.cpp,   *)
(* tcp_pthread.cpp and http_easy.cpp do not look at what Recv returns, and *)
(* may answer a client that has left as if it had sent something.          *)
Service == INSTANCE ConnectionService WITH
  state <- [c \in Clients |-> IF Over THEN "done"
                              ELSE IF c \in InService
                              THEN IF Is("http") /\ mainpc = "close" THEN "answered"
                                                                     ELSE "in"
                              ELSE IF c \in Arriving THEN "out" ELSE "done"],
  sent <- unread,
  owed <- IF Over THEN {} ELSE Owed,
  blind <- program \in {"http", "pro", "thread"},
  gone <- {c \in Clients : peer[c] \in {"fin", "rst"}},
  running <- ~Over
ServicePromise == Service!Spec

-----------------------------------------------------------------------------
(* How a connection may wait for ever in these programs.                   *)
Dismissed(c) == Over \/ c \notin Queued \cup Arriving \cup InService
Unwatched(c) == \E f \in Epoll!Unwatched : open[f] = c
Excused(c) == CASE Is("poll") -> Poll!Unpolled(c) \/ Poll!Blocked
                [] Is("epoll") -> Unwatched(c) \/ Epoll!Blocked
                [] Is("nonblock") -> Unwatched(c)
                [] Is("fork") -> "fork" \in faults
                [] Is("http") -> Http!Blocked
                [] OTHER -> FALSE

(* Three programs send in the one thread they have, and block while the    *)
(* client does not read: what follows is promised to a client as long as   *)
(* the others keep reading.                                                *)
Reads(d) == program \in {"select", "poll", "epoll"} => peer[d] # "full"
OthersRead(c) == \A d \in Clients \ {c} : []<>Reads(d)

(* Every message is read (by libevent into its input buffer, from which    *)
(* libevent_server.c takes 1024 bytes for each that arrives), although     *)
(* others send without end, unless the connection is over, or an earlier   *)
(* message is not answered because the operator types nothing or the       *)
(* client does not read, or http_easy.cpp waits for a silent client, or    *)
(* poll_server.c was misled by what it left uninitialised, or a fork has   *)
(* failed.                                                                 *)
(* A change of errno between accept's EINTR and its test does not disturb  *)
(* the parent of fork_server.c for long.                                   *)
MessagesReadOf(c) == OthersRead(c) =>
  (program \notin {"epoll", "nonblock"} /\ HasInput(c)
     ~> c \in Owed \/ Dismissed(c) \/ Excused(c))

(* In the epoll servers, whose loop over a batch ends early, a message is  *)
(* read once the other clients are quiet, unless epoll_ctl has failed for  *)
(* the connection or epoll_server.c acts on an element that is not an      *)
(* event and blocks.                                                       *)
QuietMessagesReadOf(c) ==
  OthersRead(c) /\ <>[](\A d \in Clients \ {c} : ~HasInput(d)) =>
    (program \in {"epoll", "nonblock"} /\ HasInput(c)
       ~> c \in Owed \/ Dismissed(c) \/ Excused(c))

(* A client that has left is let go and its descriptor is free again, with *)
(* the exceptions of MessagesReadOf, where the program looks for the end   *)
(* of file: not in tcp_pro.cpp and tcp_pthread.cpp.                        *)
LeaverDismissed(c) == OthersRead(c) =>
  (program \notin {"epoll", "nonblock", "pro", "thread"} /\ peer[c] \in {"fin", "rst"}
     ~> Dismissed(c) \/ Excused(c))

(* Every child that ends is waited for, although one SIGCHLD may stand for *)
(* several and more may come while the handler runs.                       *)
ZombiesReaped == \A p \in Pids :
  program \in {"fork", "pro"} /\ p \in Fork!Zombies ~> p \notin Fork!Zombies
=============================================================================
