-------------------------- MODULE TcpServersProofs --------------------------
(***************************************************************************)
(* Proofs about the nine programs of TcpServers, for any number of         *)
(* clients, descriptors, children and threads: every variable keeps its    *)
(* range, what was reported stays readable until its turn comes, no        *)
(* connection is forgotten, and every program keeps the promise of         *)
(* ConnectionService.                                                      *)
(*                                                                         *)
(* A step of any program does to the sockets one of the few things that    *)
(* Sockets defines; what these preserve is proved first.  Then each        *)
(* program has an invariant of its own.                                    *)
(***************************************************************************)
EXTENDS TcpServers, FiniteSetsExt, FiniteSetTheorems, TLAPS

(* The kernel's side keeps its range.                                      *)
SocketsOK == /\ peer \in [Clients -> {"idle", "up", "full", "fin", "rst"}]
             /\ backlog \in Seq(Clients)
             /\ open \in [Fds -> Clients \cup {NoClient}]
             /\ unread \in [Clients -> 0 .. MaxUnread + 1]

(* A client has one connection: it is yet to come, in the backlog, or      *)
(* accepted.                                                               *)
OneConnection ==
  /\ \A f, g \in Fds : open[f] = open[g] /\ open[f] # NoClient => f = g
  /\ \A j, k \in DOMAIN backlog : backlog[j] = backlog[k] => j = k
  /\ \A k \in DOMAIN backlog : /\ peer[backlog[k]] # "idle"
                               /\ \A f \in Fds : open[f] # backlog[k]
  /\ \A f \in Fds : open[f] # NoClient => peer[open[f]] # "idle"

KernelInv == SocketsOK /\ OneConnection
IsOpen(f) == f \in Fds /\ open[f] # NoClient

-----------------------------------------------------------------------------
(* select.c.  reads is lfd and the connections that are open, and maxfd    *)
(* reaches them; what tmp still holds of them is readable.                 *)
SelectAhead == {f \in tmp \ {lfd} : \/ pc = "accept"
                                    \/ pc = "scan" /\ i <= f
                                    \/ pc = "send" /\ i < f}
SelectInv ==
  /\ Select!TypeOK
  /\ \A f \in Fds : f \in reads <=> open[f] # NoClient
  /\ \A f \in reads : f <= maxfd
  /\ \A f \in SelectAhead : f \in reads /\ Readable(open[f])
  /\ pc = "scan" => i > lfd
  /\ pc = "send" => IsOpen(i)

(* poll_server.c.  Every open connection has one element of allfd, not     *)
(* beyond max_index; the elements that poll saw and whose turn is to come  *)
(* are readable; and an element that poll saw free has no events.          *)
PollAhead == {k \in Poll!Elements \ {0} : /\ k < nfds /\ allfd[k].revents
                                          /\ \/ pc = "accept"
                                             \/ pc = "scan" /\ i <= k
                                             \/ pc = "send" /\ i < k}
PollElements ==
  /\ allfd[0].fd = lfd
  /\ \A k \in Poll!Elements \ {0} : allfd[k].fd # -1 => IsOpen(allfd[k].fd)
  /\ \A k \in Poll!Elements : allfd[k].fd # -1 => k <= max_index
  /\ \A j, k \in Poll!Elements : allfd[j].fd = allfd[k].fd /\ allfd[j].fd # -1 => j = k
  /\ \A f \in Fds : open[f] # NoClient => \E k \in Poll!Elements : allfd[k].fd = f
PollInv ==
  /\ Poll!TypeOK
  /\ PollElements
  /\ \A k \in PollAhead : allfd[k].fd # -1 => Readable(open[allfd[k].fd])
  /\ pc = "accept" => \A k \in PollAhead : allfd[k].fd # -1
  /\ pc = "send" => i \in Poll!Elements \ {0} /\ allfd[i].fd # -1

(* The two epoll servers.  What is registered is open; what is open and    *)
(* not registered is the one connection for which epoll_ctl has failed.    *)
Loose(f) == IsOpen(f) /\ f \notin registered
WatchInv == /\ registered \subseteq Fds /\ faults \subseteq {"epoll_ctl"}
            /\ \A f \in registered : open[f] # NoClient
            /\ \A f, g \in Fds : Loose(f) /\ Loose(g) => f = g /\ "epoll_ctl" \in faults

(* epoll_server.c.  The elements that epoll_wait wrote are different       *)
(* descriptors; those whose turn is to come are open and readable.         *)
EpollTypes == /\ all \in [Epoll!Indices -> Epoll!Values \cup {Epoll!Unset}]
              /\ reported \in 0 .. NumEvents /\ ret \in -1 .. NumEvents
              /\ i \in 0 .. NumEvents + 1
              /\ pc \in {"wait", "loop", "send", "exited"}
EpollAhead == {k \in 1 .. reported : \/ pc = "loop" /\ i <= ret /\ i <= k
                                     \/ pc = "send" /\ i < k}
EpollLoop ==
  /\ EpollTypes
  /\ \A k \in 1 .. reported : all[k] # Epoll!Unset
  /\ \A j, k \in 1 .. reported : all[j] = all[k] => j = k
  /\ \A k \in EpollAhead : all[k] \in Fds => open[all[k]] # NoClient /\ Readable(open[all[k]])
  /\ pc \in {"loop", "send"} => i >= 1
  /\ pc = "send" => i \in Epoll!Indices /\ IsOpen(all[i])
EpollInv == WatchInv /\ EpollLoop

(* nonblock_epoll_server.c.  Only right after epoll_wait is an element of  *)
(* the batch taken, so that nothing was accepted or closed since.          *)
NonblockTypes == /\ batch \subseteq Fds \cup {lfd} /\ event \in Fds \cup {lfd}
                 /\ ret \in -1 .. Nonblock!Cardinality(Fds) + 1
                 /\ pc \in {"wait", "loop", "drain", "send", "exited"}
                 /\ pc \in {"drain", "send"} => event \in registered
NonblockLoop ==
  /\ NonblockTypes
  /\ pc = "loop" /\ ret > 0 =>
       \A f \in batch \ {lfd} : f \in registered /\ Readable(open[f])
NonblockInv == WatchInv /\ NonblockLoop

(* fork_server.c.  What NothingLeaked says, and no two children serve one  *)
(* client, nor is a client served who is in the backlog or at the parent's *)
(* test.  The same holds in tcp_pro.cpp.                                   *)
Serves(p, c) == Fork!Alive(p) /\ child[p].serves = c
ServedOnce == /\ \A p, q \in Pids : \A c \in Clients : Serves(p, c) /\ Serves(q, c) => p = q
              /\ \A p \in Pids : \A c \in Clients : Serves(p, c) =>
                   peer[c] # "idle" /\ \A k \in DOMAIN backlog : backlog[k] # c

ForkInv ==
  /\ Fork!TypeOK
  /\ Fork!NothingLeaked
  /\ ServedOnce
  /\ mainpc = "accept" => cfd = -1
  /\ mainpc = "test" /\ cfd \in Fds =>
       open[cfd] # NoClient /\ \A p \in Pids : ~ Serves(p, open[cfd])
  /\ \A p \in Pids : child[p].at = "write" => child[p].serves # NoClient

ProInv ==
  /\ Pro!TypeOK
  /\ Pro!NothingLeaked
  /\ ServedOnce
  /\ mainpc = "fork" => IsOpen(cfd) /\ \A p \in Pids : ~ Serves(p, open[cfd])
  /\ \A p \in Pids : child[p].at \in {"recv", "answer"} => child[p].serves # NoClient

(* tcp_pthread.cpp.  A thread has an open descriptor, and so has main      *)
(* between accept and pthread_create: one that no thread has.              *)
NoneForgotten ==
  \/ mainpc = "exited" \/ "create" \in faults
  \/ \A f \in Fds : open[f] # NoClient =>
       \/ \E t \in Tids : /\ thread[t].at \in {"recv", "answer"}
                          /\ open[thread[t].sock] = open[f]
       \/ mainpc = "create" /\ open[cfd] = open[f]
ThreadInv ==
  /\ Thread!TypeOK
  /\ NoneForgotten
  /\ \A t \in Tids : IF thread[t].at = "unborn" THEN thread[t] = Thread!Unborn
                                                ELSE IsOpen(thread[t].sock)
  /\ mainpc = "create" => IsOpen(cfd) /\ \A t \in Tids : thread[t].sock # cfd

(* http_easy.cpp has at most one connection, between accept and close.     *)
HttpInv ==
  /\ Http!TypeOK
  /\ \A f \in Fds : open[f] # NoClient => f = cfd
  /\ mainpc = "accept" => cfd = -1
  /\ mainpc \in {"recv", "header", "body", "close"} => cfd \in Fds

(* libevent_server.c has a bufferevent for every open connection.          *)
LibeventInv == Libevent!TypeOK /\ \A f \in Fds : f \in bevs <=> open[f] # NoClient

(* The place of a program that does not run.                               *)
Watchers == {"select", "poll", "epoll", "nonblock", "libevent"}
PlaceInv == IF program \in Watchers THEN mainpc = "accept" ELSE pc = "wait"

IInv == /\ KernelInv /\ PlaceInv /\ program \in Programs
        /\ Is("select") => SelectInv
        /\ Is("poll") => PollInv
        /\ Is("epoll") => EpollInv
        /\ Is("nonblock") => NonblockInv
        /\ Is("fork") => ForkInv
        /\ Is("pro") => ProInv
        /\ Is("thread") => ThreadInv
        /\ Is("http") => HttpInv
        /\ Is("libevent") => LibeventInv

-----------------------------------------------------------------------------
(* The kernel's side: what each operation of Sockets preserves.            *)

(* A step of the clients, in any program: nonblock_epoll_server.c is the   *)
(* one that may see a message more.                                        *)
ClientMove == \E c \in Clients : \/ Connect(c) \/ Nonblock!SendMessage(c) \/ ReadAnswers(c)
                                 \/ \E how \in {"fin", "rst"} : Hangup(c, how)

(* In every program the clients do what ClientMove says.                   *)
LEMMA ClientMoves ==
  ASSUME SocketsOK
  PROVE  /\ Select!ClientStep \/ Poll!ClientStep \/ Epoll!ClientStep => ClientMove
         /\ Nonblock!ClientStep => ClientMove
         /\ Fork!ClientStep \/ Pro!ClientStep \/ Thread!ClientStep => ClientMove
         /\ Http!ClientStep \/ Libevent!ClientStep => ClientMove
<1> USE DEF ClientMove, Connect, Nonblock!SendMessage, ReadAnswers, Hangup, Up, Nonblock!Up
<1>1. \A c \in Clients : unread[c] < MaxUnread => unread[c] < MaxUnread + 1
  BY BoundAssumption DEF SocketsOK
<1>2. Select!ClientStep => ClientMove
  BY <1>1 DEF Select!ClientStep, Select!Connect, Select!SendMessage,
     Select!ReadAnswers, Select!Hangup, Select!Up
<1>3. Poll!ClientStep => ClientMove
  BY <1>1 DEF Poll!ClientStep, Poll!Connect, Poll!SendMessage,
     Poll!ReadAnswers, Poll!Hangup, Poll!Up
<1>4. Epoll!ClientStep => ClientMove
  BY <1>1 DEF Epoll!ClientStep, Epoll!Connect, Epoll!SendMessage,
     Epoll!ReadAnswers, Epoll!Hangup, Epoll!Up
<1>5. Nonblock!ClientStep => ClientMove
  BY DEF Nonblock!ClientStep, Nonblock!Connect, Nonblock!ReadAnswers, Nonblock!Hangup
<1>6. Fork!ClientStep => ClientMove
  BY <1>1 DEF Fork!ClientStep, Fork!Connect, Fork!SendMessage,
     Fork!ReadAnswers, Fork!Hangup, Fork!Up
<1>7. Pro!ClientStep => ClientMove
  BY <1>1 DEF Pro!ClientStep, Pro!Connect, Pro!SendMessage,
     Pro!ReadAnswers, Pro!Hangup, Pro!Up
<1>8. Thread!ClientStep => ClientMove
  BY <1>1 DEF Thread!ClientStep, Thread!Connect, Thread!SendMessage,
     Thread!ReadAnswers, Thread!Hangup, Thread!Up
<1>9. Http!ClientStep => ClientMove
  BY <1>1 DEF Http!ClientStep, Http!Connect, Http!SendMessage,
     Http!ReadAnswers, Http!Hangup, Http!Up
<1>10. Libevent!ClientStep => ClientMove
  BY <1>1 DEF Libevent!ClientStep, Libevent!Connect, Libevent!SendMessage,
     Libevent!ReadAnswers, Libevent!Hangup, Libevent!Up
<1> QED
  BY <1>2, <1>3, <1>4, <1>5, <1>6, <1>7, <1>8, <1>9, <1>10

(* No descriptor changes, what is readable stays so, and only a client     *)
(* that has no connection yet comes into the backlog.                      *)
LEMMA ClientMoveKernel ==
  ASSUME KernelInv, ClientMove
  PROVE  /\ KernelInv' /\ open' = open
         /\ \A c \in Clients : Readable(c) => Readable(c)'
         /\ \A c \in Clients : peer[c] # "idle" => peer'[c] # "idle"
         /\ \A c \in Clients : \/ peer[c] = "idle"
                               \/ (\E k \in DOMAIN backlog' : backlog'[k] = c)
                                    <=> (\E k \in DOMAIN backlog : backlog[k] = c)
<1> USE DEF KernelInv
<1>1. PICK c \in Clients : \/ Connect(c) \/ Nonblock!SendMessage(c) \/ ReadAnswers(c)
                           \/ \E how \in {"fin", "rst"} : Hangup(c, how)
  BY DEF ClientMove
<1>2. CASE Connect(c)
  <2>1. SocketsOK'
    BY <1>2 DEF SocketsOK, Connect
  <2>2. /\ \A k \in DOMAIN backlog : backlog[k] # c
        /\ \A f \in Fds : open[f] # c
    BY <1>2, ClientAssumption DEF Connect, OneConnection, SocketsOK
  <2>3. /\ DOMAIN backlog' = 1 .. Len(backlog) + 1 /\ DOMAIN backlog = 1 .. Len(backlog)
        /\ Len(backlog) \in Nat /\ backlog'[Len(backlog) + 1] = c
        /\ \A k \in 1 .. Len(backlog) : backlog'[k] = backlog[k]
    BY <1>2 DEF SocketsOK, Connect
  <2>4. OneConnection'
    BY <1>2, <2>2, <2>3, ClientAssumption DEF Connect, OneConnection, SocketsOK
  <2>5. \A d \in Clients : \/ peer[d] = "idle"
                           \/ (\E k \in DOMAIN backlog' : backlog'[k] = d)
                                <=> (\E k \in DOMAIN backlog : backlog[k] = d)
    <3>1. peer[c] = "idle"
      BY <1>2 DEF Connect
    <3>2. ASSUME NEW d \in Clients, d # c
          PROVE  (\E k \in DOMAIN backlog' : backlog'[k] = d)
                   <=> (\E k \in DOMAIN backlog : backlog[k] = d)
      BY <2>3, <3>2
    <3> QED
      BY <3>1, <3>2
  <2> QED
    BY <1>2, <2>1, <2>4, <2>5 DEF Connect, Readable, HasInput, SocketsOK
<1>3. CASE Nonblock!SendMessage(c)
  <2>1. SocketsOK' /\ UNCHANGED <<peer, backlog, open>>
    BY <1>3, BoundAssumption DEF SocketsOK, Nonblock!SendMessage
  <2>2. OneConnection' /\ \A d \in Clients : Readable(d) => Readable(d)'
    BY <1>3, <2>1 DEF Nonblock!SendMessage, SocketsOK, OneConnection, Readable, HasInput
  <2> QED
    BY <2>1, <2>2
<1>4. ASSUME NEW how \in {"fin", "rst"}, Hangup(c, how)
      PROVE  /\ KernelInv' /\ UNCHANGED <<open, backlog>>
             /\ \A d \in Clients : Readable(d) => Readable(d)'
             /\ \A d \in Clients : peer[d] # "idle" => peer'[d] # "idle"
  <2>1. SocketsOK'
    BY <1>4 DEF Hangup, SocketsOK
  <2>2. \A d \in Clients : peer[d] # "idle" => peer'[d] # "idle"
    BY <1>4 DEF Hangup, SocketsOK
  <2>3. OneConnection'
    BY <1>4, <2>2 DEF Hangup, OneConnection, SocketsOK
  <2>4. \A d \in Clients : Readable(d) => Readable(d)'
    BY <1>4 DEF Hangup, Up, SocketsOK, Readable, HasInput
  <2> QED
    BY <1>4, <2>1, <2>2, <2>3, <2>4 DEF Hangup
<1>5. CASE ReadAnswers(c)
  <2>1. SocketsOK' /\ UNCHANGED <<open, backlog, unread>>
    BY <1>5 DEF ReadAnswers, SocketsOK
  <2>2. \A d \in Clients : \/ peer'[d] = peer[d]
                           \/ peer[d] = "full" /\ peer'[d] = "up"
    BY <1>5 DEF ReadAnswers, SocketsOK
  <2>3. OneConnection'
    BY <2>1, <2>2 DEF OneConnection, SocketsOK
  <2> QED
    BY <2>1, <2>2, <2>3 DEF Readable, HasInput
<1> QED
  BY <1>1, <1>2, <1>3, <1>4, <1>5

(* accept takes the oldest connection, which no descriptor refers to.      *)
LEMMA AcceptKernel ==
  ASSUME KernelInv, NEW f \in Fds, Accept(f)
  PROVE  /\ KernelInv' /\ UNCHANGED <<peer, unread>> /\ open[f] = NoClient
         /\ Head(backlog) \in Clients /\ peer[Head(backlog)] # "idle"
         /\ \A g \in Fds : /\ open[g] # Head(backlog)
                           /\ open'[g] = IF g = f THEN Head(backlog) ELSE open[g]
         /\ \E k \in DOMAIN backlog : backlog[k] = Head(backlog)
         /\ \A c \in Clients : (\E k \in DOMAIN backlog' : backlog'[k] = c)
                 <=> (c # Head(backlog) /\ \E k \in DOMAIN backlog : backlog[k] = c)
<1> USE DEF KernelInv
<1> DEFINE c == Head(backlog)
<1>1. /\ f \in Nat /\ open[f] = NoClient /\ open' = [open EXCEPT ![f] = c]
      /\ backlog' = Tail(backlog) /\ UNCHANGED <<peer, unread>> /\ backlog # <<>>
  BY DescriptorAssumption DEF Accept, FreeFds
<1>2. /\ c = backlog[1] /\ c \in Clients /\ Tail(backlog) \in Seq(Clients)
      /\ DOMAIN Tail(backlog) = 1 .. Len(backlog) - 1
      /\ \A k \in 1 .. Len(backlog) - 1 : Tail(backlog)[k] = backlog[k + 1]
      /\ DOMAIN backlog = 1 .. Len(backlog) /\ Len(backlog) \in Nat /\ 1 \in DOMAIN backlog
  BY <1>1 DEF SocketsOK
<1> HIDE DEF c
<1>3. SocketsOK'
  BY <1>1, <1>2 DEF SocketsOK
<1>4. \A g \in Fds : /\ open[g] # c
                     /\ open'[g] = IF g = f THEN c ELSE open[g]
  BY <1>1, <1>2 DEF SocketsOK, OneConnection
<1>5. \A d \in Clients : (\E k \in DOMAIN backlog' : backlog'[k] = d)
                            <=> (d # c /\ \E k \in DOMAIN backlog : backlog[k] = d)
  <2>1. ASSUME NEW k \in DOMAIN backlog' PROVE k + 1 \in DOMAIN backlog /\ k + 1 # 1
    BY <1>1, <1>2
  <2>2. ASSUME NEW k \in DOMAIN backlog, backlog[k] # c PROVE k - 1 \in DOMAIN backlog'
    BY <1>1, <1>2, <2>2
  <2>3. ASSUME NEW d \in Clients, NEW k \in DOMAIN backlog', backlog'[k] = d
        PROVE  d # c /\ \E j \in DOMAIN backlog : backlog[j] = d
    <3>1. backlog[k + 1] = d /\ k + 1 \in DOMAIN backlog /\ k + 1 # 1
      BY <1>1, <1>2, <2>1, <2>3
    <3> QED
      BY <1>2, <3>1 DEF OneConnection
  <2>4. ASSUME NEW d \in Clients, d # c, NEW k \in DOMAIN backlog, backlog[k] = d
        PROVE  \E j \in DOMAIN backlog' : backlog'[j] = d
    <3>1. k - 1 \in DOMAIN backlog' /\ backlog'[k - 1] = d
      BY <1>1, <1>2, <2>2, <2>4
    <3> QED
      BY <3>1
  <2> QED
    BY <2>3, <2>4
<1>6. OneConnection'
  <2>1. \A g, h \in Fds : open'[g] = open'[h] /\ open'[g] # NoClient => g = h
    BY <1>4 DEF OneConnection
  <2>2. \A j, k \in DOMAIN backlog' : backlog'[j] = backlog'[k] => j = k
    BY <1>1, <1>2 DEF OneConnection
  <2>3. \A k \in DOMAIN backlog' : /\ peer'[backlog'[k]] # "idle"
                                   /\ \A g \in Fds : open'[g] # backlog'[k]
    BY <1>1, <1>2, <1>4 DEF OneConnection
  <2>4. \A g \in Fds : open'[g] # NoClient => peer'[open'[g]] # "idle"
    BY <1>1, <1>2, <1>4 DEF OneConnection
  <2> QED
    BY <2>1, <2>2, <2>3, <2>4 DEF OneConnection
<1> QED
  BY <1>1, <1>2, <1>3, <1>4, <1>5, <1>6 DEF c, OneConnection

(* A read takes input away from one connection.                            *)
LEMMA ReadKernel ==
  ASSUME KernelInv, NEW c \in Clients, NEW n \in 0 .. unread[c],
         unread' = [unread EXCEPT ![c] = n], UNCHANGED <<peer, backlog, open>>
  PROVE  KernelInv' /\ \A d \in Clients \ {c} : Readable(d) => Readable(d)'
<1>1. SocketsOK'
  BY BoundAssumption DEF KernelInv, SocketsOK
<1>2. OneConnection'
  BY DEF KernelInv, OneConnection
<1>3. \A d \in Clients \ {c} : Readable(d) => Readable(d)'
  BY DEF KernelInv, SocketsOK, Readable, HasInput
<1> QED
  BY <1>1, <1>2, <1>3 DEF KernelInv

(* What a send, in any program, does to the client: it may find out that   *)
(* the client is gone, or fill the buffers.                                *)
Sent(c) == /\ \/ peer' = peer
              \/ peer[c] = "fin" /\ peer' = [peer EXCEPT ![c] = "rst"]
              \/ peer[c] = "up" /\ peer' = [peer EXCEPT ![c] = "full"]
           /\ UNCHANGED <<backlog, open, unread>>
LEMMA SendKernel ==
  ASSUME KernelInv, NEW c \in Clients, Sent(c)
  PROVE  /\ KernelInv' /\ UNCHANGED <<backlog, open, unread>>
         /\ \A d \in Clients : Readable(d) => Readable(d)'
         /\ \A d \in Clients : /\ (peer'[d] = "idle") <=> (peer[d] = "idle")
                               /\ (peer'[d] \in {"fin", "rst"}) <=> (peer[d] \in {"fin",
                                  "rst"})
<1> USE DEF KernelInv
<1>1. SocketsOK' /\ UNCHANGED <<backlog, open, unread>>
  BY DEF Sent, SocketsOK
<1>2. \A d \in Clients : /\ (peer'[d] = "idle") <=> (peer[d] = "idle")
                         /\ (peer'[d] \in {"fin", "rst"}) <=> (peer[d] \in {"fin", "rst"})
  BY DEF Sent, SocketsOK
<1>3. OneConnection'
  BY <1>1, <1>2 DEF OneConnection, SocketsOK
<1>4. \A d \in Clients : Readable(d) => Readable(d)'
  BY <1>1, <1>2 DEF Readable, HasInput
<1> QED
  BY <1>1, <1>2, <1>3, <1>4

(* A descriptor that is closed is free, and nothing else changes.          *)
LEMMA CloseKernel ==
  ASSUME KernelInv, NEW f, Close(f)
  PROVE  /\ KernelInv' /\ UNCHANGED <<peer, backlog, unread>>
         /\ \A g \in Fds : open'[g] = IF g = f THEN NoClient ELSE open[g]
<1>1. UNCHANGED <<peer, backlog, unread>>
        /\ \A g \in Fds : open'[g] = IF g = f THEN NoClient ELSE open[g]
  BY DEF Close
<1>2. open' \in [Fds -> Clients \cup {NoClient}]
  BY DEF Close, KernelInv, SocketsOK
<1>3. SocketsOK'
  BY <1>1, <1>2 DEF KernelInv, SocketsOK
<1>4. OneConnection'
  <2>1. \A g \in Fds : open'[g] # NoClient => open'[g] = open[g]
    BY <1>1
  <2>2. \A k \in DOMAIN backlog : backlog[k] # NoClient
    BY ClientAssumption DEF KernelInv, SocketsOK
  <2>3. \A k \in DOMAIN backlog : \A g \in Fds : open'[g] # backlog[k]
    BY <2>1, <2>2 DEF KernelInv, OneConnection
  <2> QED
    BY <1>1, <2>1, <2>3 DEF KernelInv, OneConnection
<1> QED
  BY <1>1, <1>3, <1>4 DEF KernelInv

(* A step that leaves the sockets alone.                                   *)
LEMMA NoKernelStep ==
  ASSUME KernelInv, UNCHANGED <<peer, backlog, open, unread>>
  PROVE  KernelInv' /\ \A c : Readable(c) <=> Readable(c)'
BY DEF KernelInv, SocketsOK, OneConnection, Readable, HasInput

(* Min, for the numbers of children and threads, and for elements.         *)
LEMMA LeastNatural ==
  ASSUME NEW S \in SUBSET Nat, S # {}
  PROVE  Min(S) \in S /\ \A n \in S : Min(S) <= n
<1>1. \E m \in S : \A n \in S : ~ (<<n, m>> \in OpToRel(<, Nat))
  BY NatLessThanWellFounded, WFMin
<1>2. PICK m \in S : \A n \in S : ~ (<<n, m>> \in OpToRel(<, Nat))
  BY <1>1
<1>3. \A n \in S : m <= n
  <2>1. ASSUME NEW n \in S, n < m PROVE <<n, m>> \in OpToRel(<, Nat)
    BY <2>1 DEF OpToRel
  <2>2. m \in Nat /\ \A n \in S : n \in Nat /\ ~ (n < m)
    BY <1>2, <2>1
  <2> QED
    BY <2>2
<1> QED
  BY <1>3 DEF Min

-----------------------------------------------------------------------------
(* select.c                                                                *)
LEMMA MaxOfTwo ==
  ASSUME NEW a \in Nat, NEW b \in Nat
  PROVE  Max({a, b}) \in {a, b} /\ a <= Max({a, b}) /\ b <= Max({a, b})
<1>1. CASE a <= b
  BY <1>1 DEF Max
<1>2. CASE b <= a
  BY <1>2 DEF Max
<1> QED
  BY <1>1, <1>2

(* The descriptors that have still to come, and the rest of the invariant, *)
(* where reads and maxfd stay the same.                                    *)
LEMMA SelectQuiet ==
  ASSUME KernelInv, SelectInv,
         \/ Select!select \/ Select!NoConnection \/ Select!AcceptFails
         \/ Select!BrokenPipe \/ Select!ScanDone \/ UNCHANGED Select!vars
         \/ \E f \in Fds : Select!RecvFails(f)
  PROVE  KernelInv' /\ SelectInv'
<1> USE DescriptorAssumption DEF SelectInv, Select!socketVars, Select!At
<1>1. UNCHANGED <<Select!socketVars, reads, maxfd>>
  BY DEF Select!select, Select!NoConnection, Select!AcceptFails, Select!BrokenPipe,
         Select!ScanDone, Select!RecvFails, Select!vars
<1>2. KernelInv' /\ \A c : Readable(c) <=> Readable(c)'
  BY <1>1, NoKernelStep
<1>3. Select!TypeOK'
  <2>1. CASE Select!select
    BY <1>1, <2>1 DEF Select!TypeOK, Select!select
  <2>2. CASE Select!NoConnection
    BY <1>1, <2>2 DEF Select!TypeOK, Select!NoConnection
  <2>3. CASE UNCHANGED <<tmp, i>> /\ pc' \in {pc, "wait", "exited"}
    BY <1>1, <2>3 DEF Select!TypeOK
  <2> QED
    BY <2>1, <2>2, <2>3 DEF Select!AcceptFails, Select!BrokenPipe, Select!ScanDone,
                            Select!RecvFails, Select!vars
<1>4. ASSUME NEW f \in SelectAhead' PROVE f \in reads /\ Readable(open[f])
  <2>1. CASE Select!select
    BY <1>4, <2>1 DEF SelectAhead, Select!select, Select!Ready, Select!Readable,
                      Select!HasInput,
                      Readable, HasInput
  <2>2. CASE Select!NoConnection \/ UNCHANGED Select!vars
    BY <1>4, <2>2 DEF SelectAhead, Select!NoConnection, Select!vars
  <2>3. CASE pc' \in {"wait", "exited"}
    BY <1>4, <2>3 DEF SelectAhead
  <2> QED
    BY <2>1, <2>2, <2>3 DEF Select!AcceptFails, Select!BrokenPipe, Select!ScanDone,
                            Select!RecvFails
<1>5. (pc = "scan" => i > lfd)' /\ (pc = "send" => IsOpen(i))'
  BY <1>1 DEF Select!select, Select!NoConnection, Select!AcceptFails, Select!BrokenPipe,
              Select!ScanDone, Select!RecvFails, Select!vars, IsOpen
<1> QED
  BY <1>1, <1>2, <1>3, <1>4, <1>5

(* What the clients do makes no descriptor of tmp unreadable.              *)
LEMMA SelectPeers ==
  ASSUME KernelInv, SelectInv, Select!Peers
  PROVE  KernelInv' /\ SelectInv'
<1>1. ClientMove /\ UNCHANGED <<reads, tmp, maxfd, i, pc>>
  BY ClientMoves DEF Select!Peers, KernelInv
<1>2. KernelInv' /\ open' = open /\ \A c \in Clients : Readable(c) => Readable(c)'
  BY <1>1, ClientMoveKernel
<1>3. \A f \in Fds : open[f] # NoClient => open[f] \in Clients
  BY DEF KernelInv, SocketsOK
<1>4. \A f \in SelectAhead : f \in Fds
  BY DEF SelectAhead, SelectInv, Select!TypeOK
<1> QED
  BY <1>1, <1>2, <1>3, <1>4 DEF SelectInv, Select!TypeOK, SelectAhead, IsOpen

(* accept returns a number that was free, hence not in tmp, and maxfd      *)
(* follows it.                                                             *)
LEMMA SelectAccept ==
  ASSUME KernelInv, SelectInv, Select!AcceptConnection
  PROVE  KernelInv' /\ SelectInv'
<1> USE DEF SelectInv
<1>1. PICK f \in Fds : Accept(f) /\ reads' = reads \cup {f} /\ maxfd' = Max({maxfd, f})
  BY DEF Select!AcceptConnection, Select!Accept, Accept, Select!FreeFds, FreeFds,
         Select!Max, Max
<1>2. /\ pc = "accept" /\ pc' = "scan" /\ i' = lfd + 1 /\ tmp' = tmp
      /\ f \in Nat /\ f > lfd /\ lfd \in Nat /\ maxfd \in Nat
      /\ \A g \in Fds \cup {lfd} : g \in Nat
  BY DescriptorAssumption DEF Select!AcceptConnection, Select!At, Select!TypeOK
<1>3. /\ maxfd' \in {maxfd, f} /\ maxfd <= maxfd' /\ f <= maxfd'
  BY <1>1, <1>2, MaxOfTwo
<1>4. /\ KernelInv' /\ UNCHANGED <<peer, unread>> /\ open[f] = NoClient
      /\ Head(backlog) \in Clients
      /\ \A g \in Fds : open'[g] = IF g = f THEN Head(backlog) ELSE open[g]
  BY <1>1, AcceptKernel
<1>5. Select!TypeOK'
  BY <1>1, <1>2, <1>3 DEF Select!TypeOK
<1>6. \A g \in Fds : g \in reads' <=> open'[g] # NoClient
  BY <1>1, <1>4, ClientAssumption
<1>7. \A g \in reads' : g <= maxfd'
  BY <1>1, <1>2, <1>3 DEF Select!TypeOK
<1>8. ASSUME NEW g \in SelectAhead' PROVE g \in reads' /\ Readable(open[g])'
  <2>1. g \in SelectAhead /\ g \in Fds
    BY <1>2, <1>8 DEF SelectAhead, Select!TypeOK
  <2>2. g # f /\ open'[g] = open[g]
    BY <2>1, <1>4
  <2> QED
    BY <1>1, <1>4, <2>1, <2>2 DEF Readable, HasInput
<1> QED
  BY <1>2, <1>4, <1>5, <1>6, <1>7, <1>8

(* One connection's turn.                                                  *)
LEMMA SelectTurn ==
  ASSUME KernelInv, SelectInv,
         Select!SendBack \/ \E f \in Fds : Select!RecvData(f) \/ Select!RecvZero(f)
  PROVE  KernelInv' /\ SelectInv'
<1> USE DescriptorAssumption, ClientAssumption DEF SelectInv, Select!At, IsOpen
<1>1. \A f \in Fds : open[f] # NoClient => open[f] \in Clients
  BY DEF KernelInv, SocketsOK
<1>2. CASE Select!SendBack
  <2>1. /\ UNCHANGED <<reads, tmp, maxfd>> /\ i' = i + 1 /\ pc = "send" /\ pc' = "scan"
        /\ i \in Fds /\ open[i] \in Clients /\ Sent(open[i])
    BY <1>1, <1>2 DEF Select!SendBack, Select!Send, Select!SendShort, Select!Fill, Sent
  <2>2. KernelInv' /\ open' = open /\ \A c \in Clients : Readable(c) => Readable(c)'
    BY <2>1, SendKernel
  <2>3. Select!TypeOK'
    BY <2>1 DEF Select!TypeOK
  <2>4. \A g \in SelectAhead' : g \in SelectAhead /\ g \in Fds
    BY <2>1 DEF SelectAhead, Select!TypeOK
  <2>5. \A g \in SelectAhead' : g \in reads /\ Readable(open[g])'
    BY <1>1, <2>2, <2>4
  <2>6. i' > lfd
    BY <2>1
  <2> QED
    BY <2>1, <2>2, <2>3, <2>5, <2>6
<1>3. ASSUME NEW f \in Fds, Select!RecvData(f) PROVE KernelInv' /\ SelectInv'
  <2>1. /\ UNCHANGED <<peer, backlog, open, reads, tmp, maxfd>> /\ i' = f
        /\ pc = "scan" /\ pc' = "send" /\ f \in SelectAhead
        /\ unread' = [unread EXCEPT ![open[f]] = 0]
    BY <1>3 DEF Select!RecvData, Select!ReadInput, Select!Next_i, Select!Remaining, SelectAhead
  <2>2. open[f] \in Clients /\ open[f] # NoClient
    BY <1>1, <2>1
  <2>3. 0 \in 0 .. unread[open[f]]
    BY <2>2, BoundAssumption DEF KernelInv, SocketsOK
  <2>4. KernelInv' /\ \A d \in Clients \ {open[f]} : Readable(d) => Readable(d)'
    BY <2>1, <2>2, <2>3, ReadKernel
  <2>5. Select!TypeOK'
    BY <2>1 DEF Select!TypeOK
  <2>6. \A g \in SelectAhead' : g \in SelectAhead /\ g \in Fds /\ g # f
    BY <2>1 DEF SelectAhead, Select!TypeOK
  <2>7. \A g \in SelectAhead' : open[g] \in Clients \ {open[f]}
    BY <1>1, <2>2, <2>6 DEF KernelInv, OneConnection
  <2> QED
    BY <2>1, <2>2, <2>4, <2>5, <2>6, <2>7
<1>4. ASSUME NEW f \in Fds, Select!RecvZero(f) PROVE KernelInv' /\ SelectInv'
  <2>1. /\ UNCHANGED <<tmp, maxfd>> /\ i' = f + 1 /\ pc = "scan" /\ pc' = "scan"
        /\ f \in tmp /\ i <= f /\ Close(f) /\ reads' = reads \ {f}
    BY <1>4 DEF Select!RecvZero, Select!Close, Close, Select!Next_i, Select!Remaining
  <2>2. /\ KernelInv' /\ UNCHANGED <<peer, unread>>
        /\ \A g \in Fds : open'[g] = IF g = f THEN NoClient ELSE open[g]
    BY <2>1, CloseKernel
  <2>3. Select!TypeOK'
    BY <2>1 DEF Select!TypeOK
  <2>4. \A g \in SelectAhead' : g \in SelectAhead /\ g \in Fds /\ g # f
    BY <2>1 DEF SelectAhead, Select!TypeOK
  <2>5. \A g \in SelectAhead' : g \in reads' /\ Readable(open[g])'
    BY <2>1, <2>2, <2>4 DEF Readable, HasInput
  <2>6. i' > lfd
    BY <2>1
  <2> QED
    BY <2>1, <2>2, <2>3, <2>5, <2>6
<1> QED
  BY <1>2, <1>3, <1>4

(* Every step of select.c keeps its invariant.                             *)
LEMMA SelectStep ==
  ASSUME KernelInv, SelectInv, [Select!Next]_(Select!vars)
  PROVE  KernelInv' /\ SelectInv'
BY SelectQuiet, SelectPeers, SelectAccept, SelectTurn DEF Select!Next, Select!loop

-----------------------------------------------------------------------------
(* poll_server.c                                                           *)

(* There are fewer descriptors than elements, so one is free.              *)
LEMMA PollFree ==
  ASSUME KernelInv, PollInv
  PROVE  /\ Poll!FirstFree \in Poll!Elements \ {0} /\ allfd[Poll!FirstFree].fd = -1
         /\ Poll!Max({max_index, Poll!FirstFree}) \in Poll!Elements
         /\ max_index <= Poll!Max({max_index, Poll!FirstFree})
         /\ Poll!FirstFree <= Poll!Max({max_index, Poll!FirstFree})
<1> DEFINE free == {k \in Poll!Elements : allfd[k].fd = -1}
<1> USE DEF PollInv
<1>1. NumElements \in Nat /\ Cardinality(Fds) \in Nat /\ Cardinality(Fds) < NumElements - 1
  BY PollAssumption, DescriptorAssumption, FS_CardinalityType
<1>2. free # {}
  <2> DEFINE fd == [k \in Poll!Elements |-> allfd[k].fd]
  <2>1. SUFFICES ASSUME free = {} PROVE FALSE
    OBVIOUS
  <2>2. \A k \in Poll!Elements : fd[k] \in Fds \cup {lfd}
    BY <2>1 DEF Poll!TypeOK, Poll!Pollfd
  <2>3. \A j, k \in Poll!Elements : fd[j] = fd[k] => j = k
    BY <2>1 DEF PollElements
  <2>4. fd \in [Poll!Elements -> Fds \cup {lfd}]
    BY <2>2
  <2> HIDE DEF fd
  <2>5. IsFiniteSet(Fds \cup {lfd}) /\ Cardinality(Fds \cup {lfd}) <= Cardinality(Fds) + 1
    BY <1>1, DescriptorAssumption, FS_AddElement
  <2>6. IsFiniteSet(Poll!Elements) /\ Cardinality(Poll!Elements) = NumElements
    BY <1>1, FS_Interval DEF Poll!Elements
  <2>7. Cardinality(Fds \cup {lfd}) < Cardinality(Poll!Elements)
    <3>1. Cardinality(Fds \cup {lfd}) \in Nat
      BY <2>5, FS_CardinalityType
    <3> QED
      BY <1>1, <2>5, <2>6, <3>1
  <2>8. \E x, y \in Poll!Elements : x # y /\ fd[x] = fd[y]
    BY <2>4, <2>5, <2>6, <2>7, FS_PigeonHole
  <2> QED
    BY <2>3, <2>8
<1>3. free \in SUBSET Nat /\ free \subseteq Poll!Elements
  BY DEF Poll!Elements
<1>4. Min(free) \in free
  <2> HIDE DEF free
  <2> QED
    BY <1>2, <1>3, LeastNatural
<1>5. Poll!FirstFree = Min(free)
  BY <1>2 DEF Poll!FirstFree, Poll!Min, Min
<1>6. allfd[0].fd = lfd /\ lfd # -1
  BY DescriptorAssumption DEF PollElements
<1>7. Poll!FirstFree \in Poll!Elements \ {0} /\ allfd[Poll!FirstFree].fd = -1
  BY <1>4, <1>5, <1>6
<1>8. Poll!FirstFree \in Nat /\ max_index \in Nat /\ max_index \in Poll!Elements
  BY <1>7 DEF Poll!TypeOK, Poll!Elements
<1>9. Poll!Max({max_index, Poll!FirstFree}) = Max({max_index, Poll!FirstFree})
  BY DEF Poll!Max, Max
<1>10. /\ Max({max_index, Poll!FirstFree}) \in {max_index, Poll!FirstFree}
       /\ max_index <= Max({max_index, Poll!FirstFree})
       /\ Poll!FirstFree <= Max({max_index, Poll!FirstFree})
  BY <1>8, MaxOfTwo
<1> QED
  BY <1>7, <1>8, <1>9, <1>10

(* Steps that leave the sockets and allfd alone.                           *)
LEMMA PollQuiet ==
  ASSUME KernelInv, PollInv,
         \/ Poll!NoConnection \/ Poll!BrokenPipe \/ Poll!ScanDone \/ UNCHANGED Poll!vars
         \/ \E k \in Poll!Elements : Poll!RecvFails(k)
  PROVE  KernelInv' /\ PollInv'
<1>1. UNCHANGED <<Poll!socketVars, allfd, nfds, max_index>> /\ i' \in {i, 1}
  BY DEF Poll!NoConnection, Poll!BrokenPipe, Poll!ScanDone, Poll!RecvFails, Poll!vars,
         Poll!socketVars
<1>2. KernelInv' /\ \A c : Readable(c) <=> Readable(c)'
  BY <1>1, NoKernelStep DEF Poll!socketVars
<1>3. /\ pc' \in {"wait", "accept", "scan", "send", "exited"}
      /\ pc' \in {"accept", "send"} => pc' = pc /\ i' = i
      /\ pc' = "scan" => pc \in {"accept", "scan"} /\ (pc = "scan" => i' = i)
  BY DEF Poll!NoConnection, Poll!BrokenPipe, Poll!ScanDone, Poll!RecvFails, Poll!vars,
         Poll!At, PollInv, Poll!TypeOK
<1>4. Poll!TypeOK'
  <2>1. 1 \in 0 .. NumElements
    BY PollAssumption DEF PollInv, Poll!TypeOK, Poll!Elements
  <2> QED
    BY <1>1, <1>3, <2>1 DEF PollInv, Poll!TypeOK, Poll!Elements, Poll!Pollfd
<1>5. PollElements'
  BY <1>1 DEF PollInv, PollElements, IsOpen, Poll!socketVars, Poll!Elements
<1>6. \A k \in PollAhead' : k \in PollAhead
  BY <1>1, <1>3 DEF PollAhead, Poll!Elements
<1> QED
  BY <1>1, <1>2, <1>3, <1>4, <1>5, <1>6
     DEF PollInv, PollAhead, Poll!socketVars, Poll!Elements

(* poll marks the elements whose descriptor is readable.                   *)
LEMMA PollPoll ==
  ASSUME KernelInv, PollInv, Poll!poll
  PROVE  KernelInv' /\ PollInv'
<1>1. /\ UNCHANGED <<peer, backlog, open, unread, max_index>>
      /\ pc' = "accept" /\ nfds' = max_index + 1 /\ i' = 0
      /\ allfd' = [k \in Poll!Elements |-> IF k <= max_index
                                           THEN [allfd[k] EXCEPT !.revents = Poll!Ready(k)]
                                           ELSE allfd[k]]
  BY DEF Poll!poll, Poll!At, Poll!socketVars
<1>2. KernelInv' /\ \A c : Readable(c) <=> Readable(c)'
  BY <1>1, NoKernelStep
<1>3. \A k \in Poll!Elements : allfd[k] \in Poll!Pollfd
  BY DEF PollInv, Poll!TypeOK
<1>4. \A k \in Poll!Elements : /\ allfd'[k].fd = allfd[k].fd
                               /\ k <= max_index => allfd'[k].revents = Poll!Ready(k)
                               /\ allfd'[k] \in Poll!Pollfd
  <2>1. \A k \in Poll!Elements : Poll!Ready(k) \in BOOLEAN
    BY <1>3 DEF Poll!Ready, Poll!Readable, Poll!HasInput, Poll!Pollfd
  <2> QED
    BY <1>1, <1>3, <2>1 DEF Poll!Pollfd
<1>5. Poll!TypeOK'
  <2>1. nfds' \in 0 .. NumElements /\ max_index' \in Poll!Elements /\ i' \in 0 .. NumElements
    BY <1>1, PollAssumption DEF PollInv, Poll!TypeOK, Poll!Elements
  <2>2. allfd' \in [Poll!Elements -> Poll!Pollfd]
    BY <1>1, <1>4
  <2> QED
    BY <1>1, <2>1, <2>2 DEF Poll!TypeOK
<1>6. PollElements'
  <2>1. 0 \in Poll!Elements
    BY PollAssumption DEF PollInv, Poll!TypeOK, Poll!Elements
  <2> QED
    BY <1>1, <1>4, <2>1 DEF PollInv, PollElements, IsOpen
<1>7. ASSUME NEW k \in PollAhead' PROVE allfd'[k].fd # -1 /\ Readable(open[allfd[k].fd])'
  <2>1. k \in Poll!Elements \ {0} /\ k <= max_index
    BY <1>1, <1>7 DEF PollAhead, PollInv, Poll!TypeOK, Poll!Elements
  <2>2. Poll!Ready(k)
    BY <1>4, <1>7, <2>1 DEF PollAhead
  <2> QED
    BY <1>1, <1>2, <1>4, <2>1, <2>2 DEF Poll!Ready, Poll!Readable, Poll!HasInput,
                                        Readable, HasInput
<1> QED
  BY <1>1, <1>2, <1>5, <1>6, <1>7 DEF PollInv

(* What the clients do makes no marked element unreadable.                 *)
LEMMA PollPeers ==
  ASSUME KernelInv, PollInv, Poll!Peers
  PROVE  KernelInv' /\ PollInv'
<1>1. ClientMove /\ UNCHANGED <<allfd, nfds, max_index, i, pc>>
  BY ClientMoves DEF Poll!Peers, KernelInv
<1>2. KernelInv' /\ open' = open /\ \A c \in Clients : Readable(c) => Readable(c)'
  BY <1>1, ClientMoveKernel
<1>3. \A f \in Fds : open[f] # NoClient => open[f] \in Clients
  BY DEF KernelInv, SocketsOK
<1>4. Poll!TypeOK' /\ PollElements'
  BY <1>1, <1>2 DEF PollInv, Poll!TypeOK, PollElements, IsOpen
<1>5. PollAhead' = PollAhead
  BY <1>1 DEF PollAhead
<1>6. \A k \in PollAhead : allfd[k].fd # -1 => Readable(open[allfd[k].fd])'
  <2>1. \A k \in PollAhead : allfd[k].fd # -1 => open[allfd[k].fd] \in Clients
    BY <1>3 DEF PollInv, PollElements, PollAhead, IsOpen
  <2> QED
    BY <1>1, <1>2, <2>1 DEF PollInv
<1> QED
  BY <1>1, <1>2, <1>4, <1>5, <1>6 DEF PollInv

(* A new connection is entered where poll saw no element.                  *)
LEMMA PollAccept ==
  ASSUME KernelInv, PollInv, Poll!AcceptConnection
  PROVE  KernelInv' /\ PollInv'
<1> DEFINE n == Poll!FirstFree
           m == Poll!Max({max_index, Poll!FirstFree})
<1>1. PICK f \in Fds : Accept(f) /\ Poll!Enter(f)
  BY DEF Poll!AcceptConnection, Poll!Accept, Accept, Poll!FreeFds, FreeFds
<1>2. PICK e \in BOOLEAN, r \in BOOLEAN :
        /\ n < nfds => r = allfd[n].revents
        /\ allfd' = [allfd EXCEPT ![n] = [fd |-> f, events |-> e, revents |-> r]]
  BY <1>1 DEF Poll!Enter
<1>3. /\ n \in Poll!Elements \ {0} /\ allfd[n].fd = -1 /\ m \in Poll!Elements
      /\ max_index <= m /\ n <= m
  BY PollFree
<1>4. /\ pc = "accept" /\ pc' = "scan" /\ i' = 1 /\ nfds' = nfds /\ max_index' = m
  BY <1>1 DEF Poll!AcceptConnection, Poll!At, Poll!Enter, Poll!Advance
<1> HIDE DEF n, m
<1>5. /\ KernelInv' /\ UNCHANGED <<peer, unread>> /\ open[f] = NoClient
      /\ Head(backlog) \in Clients
      /\ \A g \in Fds : open'[g] = IF g = f THEN Head(backlog) ELSE open[g]
  BY <1>1, AcceptKernel
<1>6. \A k \in Poll!Elements :
        allfd'[k] = IF k = n THEN [fd |-> f, events |-> e, revents |-> r] ELSE allfd[k]
  BY <1>2 DEF PollInv, Poll!TypeOK
<1>7. Poll!TypeOK'
  <2>1. [fd |-> f, events |-> e, revents |-> r] \in Poll!Pollfd
    BY DEF Poll!Pollfd
  <2>2. allfd' \in [Poll!Elements -> Poll!Pollfd]
    BY <1>2, <2>1 DEF PollInv, Poll!TypeOK
  <2>3. 1 \in 0 .. NumElements
    BY PollAssumption DEF PollInv, Poll!TypeOK, Poll!Elements
  <2> QED
    BY <1>3, <1>4, <2>2, <2>3 DEF PollInv, Poll!TypeOK
<1>8. f # lfd /\ f # -1 /\ lfd # -1 /\ lfd \notin Fds
  BY DescriptorAssumption
<1>9. PollElements'
  <2>1. allfd'[0].fd = lfd
    <3>1. 0 \in Poll!Elements /\ n # 0
      BY <1>3, PollAssumption DEF PollInv, Poll!TypeOK, Poll!Elements
    <3> QED
      BY <1>6, <3>1 DEF PollInv, PollElements
  <2>2. ASSUME NEW k \in Poll!Elements \ {0}, allfd'[k].fd # -1 PROVE IsOpen(allfd[k].fd)'
    <3>1. CASE k = n
      BY <1>5, <1>6, <3>1, ClientAssumption DEF IsOpen
    <3>2. CASE k # n
      BY <1>5, <1>6, <2>2, <3>2 DEF IsOpen, PollInv, PollElements
    <3> QED
      BY <3>1, <3>2
  <2>3. \A k \in Poll!Elements : allfd'[k].fd # -1 => k <= max_index'
    <3>1. max_index \in Nat /\ m \in Nat /\ n \in Nat /\ \A k \in Poll!Elements : k \in Nat
      BY <1>3 DEF PollInv, Poll!TypeOK, Poll!Elements
    <3>2. \A k \in Poll!Elements \ {n} : allfd'[k].fd # -1 => k <= max_index
      BY <1>6 DEF PollInv, PollElements
    <3>3. ASSUME NEW k \in Poll!Elements, k = n \/ k <= max_index PROVE k <= m
      BY <1>3, <3>1, <3>3
    <3> QED
      BY <1>4, <3>2, <3>3
  <2>4. \A k \in Poll!Elements : allfd[k].fd # f
    <3>1. \A k \in Poll!Elements \ {0} : allfd[k].fd # f
      BY <1>5, <1>8 DEF PollInv, PollElements, IsOpen
    <3> QED
      BY <1>8, <3>1 DEF PollInv, PollElements
  <2>5. \A j, k \in Poll!Elements : allfd'[j].fd = allfd'[k].fd /\ allfd'[j].fd # -1 => j = k
    BY <1>6, <2>4 DEF PollInv, PollElements
  <2>6. ASSUME NEW g \in Fds, open'[g] # NoClient
        PROVE  \E k \in Poll!Elements : allfd'[k].fd = g
    <3>1. CASE g = f
      BY <1>3, <1>6, <3>1
    <3>2. CASE g # f
      <4>1. PICK k \in Poll!Elements : allfd[k].fd = g
        BY <1>5, <2>6, <3>2 DEF PollInv, PollElements
      <4>2. k # n
        BY <1>3, <4>1, DescriptorAssumption
      <4> QED
        BY <1>6, <4>1, <4>2
    <3> QED
      BY <3>1, <3>2
  <2> QED
    BY <2>1, <2>2, <2>3, <2>5, <2>6 DEF PollElements
<1>10. ASSUME NEW k \in PollAhead' PROVE k \in PollAhead /\ k # n
  <2>1. k \in Poll!Elements \ {0} /\ k < nfds /\ allfd'[k].revents
    BY <1>4, <1>10 DEF PollAhead
  <2>2. k # n
    <3> SUFFICES ASSUME k = n PROVE FALSE
      OBVIOUS
    <3>1. allfd[n].revents /\ n < nfds
      BY <1>2, <1>6, <2>1
    <3>2. n \in PollAhead
      BY <1>3, <1>4, <3>1 DEF PollAhead
    <3> QED
      BY <1>3, <1>4, <3>2 DEF PollInv
  <2> QED
    BY <1>4, <1>6, <2>1, <2>2 DEF PollAhead
<1>11. ASSUME NEW k \in PollAhead', allfd'[k].fd # -1 PROVE Readable(open[allfd[k].fd])'
  <2>1. k \in PollAhead /\ k # n /\ k \in Poll!Elements \ {0}
    BY <1>10, <1>11 DEF PollAhead
  <2>2. allfd'[k].fd = allfd[k].fd /\ IsOpen(allfd[k].fd)
    BY <1>6, <1>11, <2>1 DEF PollInv, PollElements
  <2>3. open'[allfd[k].fd] = open[allfd[k].fd]
    BY <1>5, <2>2 DEF IsOpen
  <2> QED
    BY <1>5, <1>11, <2>1, <2>2, <2>3 DEF PollInv, Readable, HasInput
<1> QED
  BY <1>4, <1>5, <1>7, <1>9, <1>11 DEF PollInv

(* accept fails: max_index may come to point to a free element.            *)
LEMMA PollAcceptFails ==
  ASSUME KernelInv, PollInv, Poll!AcceptFails
  PROVE  KernelInv' /\ PollInv'
<1> DEFINE m == Poll!Max({max_index, Poll!FirstFree})
<1>1. /\ UNCHANGED <<peer, backlog, open, unread, allfd, nfds>>
      /\ pc = "accept" /\ pc' = "scan" /\ i' = 1 /\ max_index' = m
  BY DEF Poll!AcceptFails, Poll!At, Poll!Advance, Poll!socketVars
<1>2. m \in Poll!Elements /\ max_index <= m
  BY PollFree
<1> HIDE DEF m
<1>3. KernelInv' /\ \A c : Readable(c) <=> Readable(c)'
  BY <1>1, NoKernelStep
<1>4. Poll!TypeOK'
  <2>1. 1 \in 0 .. NumElements
    BY PollAssumption DEF PollInv, Poll!TypeOK, Poll!Elements
  <2> QED
    BY <1>1, <1>2, <2>1 DEF PollInv, Poll!TypeOK
<1>5. PollElements'
  <2>1. ASSUME NEW k \in Poll!Elements, allfd[k].fd # -1 PROVE k <= m
    <3>1. k \in Nat /\ max_index \in Nat /\ m \in Nat
      BY <1>2 DEF PollInv, Poll!TypeOK, Poll!Elements
    <3>2. k <= max_index
      BY <2>1 DEF PollInv, PollElements
    <3> QED
      BY <1>2, <3>1, <3>2
  <2> QED
    BY <1>1, <2>1 DEF PollInv, PollElements, IsOpen
<1>6. \A k \in PollAhead' : k \in PollAhead
  BY <1>1 DEF PollAhead
<1> QED
  BY <1>1, <1>3, <1>4, <1>5, <1>6 DEF PollInv

(* One connection's turn.                                                  *)
LEMMA PollTurn ==
  ASSUME KernelInv, PollInv,
         Poll!SendBack \/ \E k \in Poll!Elements : Poll!RecvData(k) \/ Poll!RecvZero(k)
  PROVE  KernelInv' /\ PollInv'
<1> USE DEF Poll!At
<1>1. \A k \in Poll!Elements \ {0} : allfd[k].fd # -1 =>
         /\ allfd[k].fd \in Fds /\ open[allfd[k].fd] \in Clients
         /\ open[allfd[k].fd] # NoClient
  BY DEF PollInv, PollElements, IsOpen, KernelInv, SocketsOK
<1>2. CASE Poll!SendBack
  <2>1. /\ UNCHANGED <<allfd, nfds, max_index>> /\ i' = i + 1 /\ pc = "send" /\ pc' = "scan"
        /\ i \in Poll!Elements \ {0} /\ allfd[i].fd # -1 /\ Sent(open[allfd[i].fd])
    BY <1>2 DEF Poll!SendBack, Poll!Send, Poll!SendShort, Poll!Fill, Sent, Poll!Peer, PollInv
  <2>2. KernelInv' /\ open' = open /\ \A c \in Clients : Readable(c) => Readable(c)'
    BY <1>1, <2>1, SendKernel
  <2>3. Poll!TypeOK'
    <3>1. i' \in 0 .. NumElements
      BY <2>1, PollAssumption DEF Poll!Elements
    <3> QED
      BY <2>1, <3>1 DEF PollInv, Poll!TypeOK
  <2>4. PollElements'
    BY <2>1, <2>2 DEF PollInv, PollElements, IsOpen
  <2>5. \A k \in PollAhead' : k \in PollAhead /\ k \in Poll!Elements \ {0}
    BY <2>1 DEF PollAhead, Poll!Elements
  <2> QED
    BY <1>1, <2>1, <2>2, <2>3, <2>4, <2>5 DEF PollInv
<1>3. ASSUME NEW k \in Poll!Elements, Poll!RecvData(k) PROVE KernelInv' /\ PollInv'
  <2> DEFINE c == open[allfd[k].fd]
  <2>1. /\ UNCHANGED <<peer, backlog, open, allfd, nfds, max_index>> /\ i' = k
        /\ pc = "scan" /\ pc' = "send" /\ k # 0 /\ allfd[k].fd # -1 /\ i <= k
        /\ unread' = [unread EXCEPT ![c] = 0]
    BY <1>3 DEF Poll!RecvData, Poll!ReadInput, Poll!Next_i, Poll!Remaining, Poll!Peer
  <2>2. c \in Clients
    BY <1>1, <2>1
  <2>3. 0 \in 0 .. unread[c]
    BY <2>2, BoundAssumption DEF KernelInv, SocketsOK
  <2> HIDE DEF c
  <2>4. KernelInv' /\ \A d \in Clients \ {c} : Readable(d) => Readable(d)'
    BY <2>1, <2>2, <2>3, ReadKernel
  <2>5. Poll!TypeOK'
    <3>1. k \in 0 .. NumElements
      BY PollAssumption DEF Poll!Elements
    <3> QED
      BY <2>1, <3>1 DEF PollInv, Poll!TypeOK
  <2>6. PollElements'
    BY <2>1 DEF PollInv, PollElements, IsOpen
  <2>7. \A m \in PollAhead' : m \in PollAhead /\ m \in Poll!Elements \ {0} /\ m # k
    <3>1. i \in Nat /\ \A m \in Poll!Elements : m \in Nat
      BY DEF PollInv, Poll!TypeOK, Poll!Elements
    <3> QED
      BY <2>1, <3>1 DEF PollAhead
  <2>8. \A m \in PollAhead' : allfd[m].fd # -1 => open[allfd[m].fd] \in Clients \ {c}
    <3>1. ASSUME NEW m \in PollAhead', allfd[m].fd # -1 PROVE allfd[m].fd # allfd[k].fd
      BY <2>7, <3>1 DEF PollInv, PollElements
    <3> QED
      BY <1>1, <2>1, <2>7, <3>1 DEF c, KernelInv, OneConnection
  <2> QED
    BY <2>1, <2>4, <2>5, <2>6, <2>7, <2>8 DEF PollInv
<1>4. ASSUME NEW k \in Poll!Elements, Poll!RecvZero(k) PROVE KernelInv' /\ PollInv'
  <2>1. /\ UNCHANGED <<nfds, max_index, i>> /\ pc' = "exited" /\ k # 0 /\ allfd[k].fd # -1
        /\ Close(allfd[k].fd) /\ allfd' = [allfd EXCEPT ![k].fd = -1]
    BY <1>4 DEF Poll!RecvZero, Poll!Close, Close, Poll!Next_i, Poll!Remaining
  <2>2. /\ KernelInv'
        /\ \A g \in Fds : open'[g] = IF g = allfd[k].fd THEN NoClient ELSE open[g]
    BY <2>1, CloseKernel
  <2>3. \A m \in Poll!Elements : /\ allfd'[m].fd = IF m = k THEN -1 ELSE allfd[m].fd
                                 /\ allfd'[m] \in Poll!Pollfd
    BY <2>1 DEF PollInv, Poll!TypeOK, Poll!Pollfd
  <2>4. Poll!TypeOK'
    <3>1. allfd' \in [Poll!Elements -> Poll!Pollfd]
      BY <2>1, <2>3 DEF PollInv, Poll!TypeOK
    <3> QED
      BY <2>1, <3>1 DEF PollInv, Poll!TypeOK
  <2>5. PollElements'
    <3>1. allfd'[0].fd = lfd
      <4>1. 0 \in Poll!Elements
        BY PollAssumption DEF PollInv, Poll!TypeOK, Poll!Elements
      <4> QED
        BY <2>1, <2>3, <4>1 DEF PollInv, PollElements
    <3>2. \A m \in Poll!Elements \ {0} : allfd'[m].fd # -1 => IsOpen(allfd[m].fd)'
      BY <2>2, <2>3 DEF PollInv, PollElements, IsOpen
    <3>3. \A m \in Poll!Elements : allfd'[m].fd # -1 => m <= max_index'
      BY <2>1, <2>3 DEF PollInv, PollElements
    <3>4. \A j, m \in Poll!Elements : allfd'[j].fd = allfd'[m].fd /\ allfd'[j].fd # -1 => j = m
      BY <2>3 DEF PollInv, PollElements
    <3>5. \A f \in Fds : open'[f] # NoClient => \E m \in Poll!Elements : allfd'[m].fd = f
      BY <2>2, <2>3 DEF PollInv, PollElements
    <3> QED
      BY <3>1, <3>2, <3>3, <3>4, <3>5 DEF PollElements
  <2> QED
    BY <2>1, <2>2, <2>4, <2>5 DEF PollInv, PollAhead
<1> QED
  BY <1>2, <1>3, <1>4

(* Every step of poll_server.c keeps its invariant.                        *)
LEMMA PollStep ==
  ASSUME KernelInv, PollInv, [Poll!Next]_(Poll!vars)
  PROVE  KernelInv' /\ PollInv'
BY PollQuiet, PollPoll, PollPeers, PollAccept, PollAcceptFails, PollTurn
   DEF Poll!Next, Poll!loop

-----------------------------------------------------------------------------
(* epoll_server.c                                                          *)

(* The two epoll servers: registered goes along with open, but for one     *)
(* failure of epoll_ctl.                                                   *)
Watching ==
  \/ UNCHANGED <<open, registered, faults>>
  \/ \E f \in Fds : Accept(f) /\ registered' = registered \cup {f} /\ faults' = faults
  \/ /\ \E f \in Fds : Accept(f)
     /\ registered' = registered /\ faults = {} /\ faults' = {"epoll_ctl"}
  \/ \E f \in Fds : Close(f) /\ registered' = registered \ {f} /\ faults' = faults
LEMMA WatchKept ==
  ASSUME KernelInv, WatchInv, Watching
  PROVE  WatchInv'
<1>1. CASE UNCHANGED <<open, registered, faults>>
  BY <1>1 DEF WatchInv, Loose, IsOpen
<1>2. ASSUME NEW f \in Fds, Accept(f), registered' = registered \cup {f}, faults' = faults
      PROVE  WatchInv'
  <2>1. \A g \in Fds : open'[g] = IF g = f THEN Head(backlog) ELSE open[g]
    BY <1>2, AcceptKernel
  <2>2. Head(backlog) # NoClient
    BY <1>2, AcceptKernel, ClientAssumption
  <2>3. \A g \in Fds : Loose(g)' => Loose(g)
    BY <1>2, <2>1 DEF Loose, IsOpen
  <2> QED
    BY <1>2, <2>1, <2>2, <2>3 DEF WatchInv
<1>3. ASSUME NEW f \in Fds, Accept(f),
             registered' = registered, faults = {}, faults' = {"epoll_ctl"}
      PROVE  WatchInv'
  <2>1. \A g \in Fds : open'[g] = IF g = f THEN Head(backlog) ELSE open[g]
    BY <1>3, AcceptKernel
  <2>2. Head(backlog) # NoClient
    BY <1>3, AcceptKernel, ClientAssumption
  <2>3. \A g \in Fds : ~ Loose(g)
    BY <1>3 DEF WatchInv
  <2>4. \A g \in Fds : Loose(g)' => g = f
    BY <1>3, <2>1, <2>3 DEF Loose, IsOpen
  <2> QED
    BY <1>3, <2>1, <2>2, <2>4 DEF WatchInv
<1>4. ASSUME NEW f \in Fds, Close(f), registered' = registered \ {f}, faults' = faults
      PROVE  WatchInv'
  <2>1. \A g \in Fds : open'[g] = IF g = f THEN NoClient ELSE open[g]
    BY <1>4, CloseKernel
  <2>2. \A g \in Fds : Loose(g)' => Loose(g)
    BY <1>4, <2>1 DEF Loose, IsOpen
  <2> QED
    BY <1>4, <2>1, <2>2 DEF WatchInv
<1> QED
  BY <1>1, <1>2, <1>3, <1>4 DEF Watching

(* What is ready has a client of its own, so that epoll_wait has room for  *)
(* it: of lfd that is the oldest in the backlog.                           *)
LEMMA ReadyBound ==
  ASSUME KernelInv, NEW W \in SUBSET Fds, \A f \in W : open[f] # NoClient
  PROVE  LET Ready == {f \in W \cup {lfd} :
                         IF f = lfd THEN backlog # <<>> ELSE Readable(open[f])}
         IN  /\ IsFiniteSet(Ready) /\ Cardinality(Ready) \in Nat
             /\ Cardinality(Ready) <= Cardinality(Clients)
             /\ Cardinality(Ready) <= Cardinality(Fds) + 1
<1> DEFINE Ready == {f \in W \cup {lfd} :
                       IF f = lfd THEN backlog # <<>> ELSE Readable(open[f])}
           client == [f \in Ready |-> IF f = lfd THEN Head(backlog) ELSE open[f]]
<1>1. /\ IsFiniteSet(Fds \cup {lfd}) /\ Cardinality(Fds \cup {lfd}) <= Cardinality(Fds) + 1
      /\ Cardinality(Fds \cup {lfd}) \in Nat /\ Cardinality(Fds) \in Nat
  <2>1. IsFiniteSet(Fds) /\ lfd \notin Fds
    BY DescriptorAssumption
  <2>2. IsFiniteSet(Fds \cup {lfd}) /\ Cardinality(Fds \cup {lfd}) = Cardinality(Fds) + 1
    BY <2>1, FS_AddElement
  <2> QED
    BY <2>1, <2>2, FS_CardinalityType
<1>2. Ready \in SUBSET (Fds \cup {lfd})
  OBVIOUS
<1>3. ASSUME NEW f \in Ready PROVE client[f] \in Clients
  <2>1. CASE f = lfd
    <3>1. backlog \in Seq(Clients) /\ backlog # <<>>
      BY <2>1 DEF KernelInv, SocketsOK
    <3>2. Head(backlog) \in Clients
      BY <3>1
    <3> QED
      BY <2>1, <3>2
  <2>2. CASE f # lfd
    BY <2>2 DEF KernelInv, SocketsOK
  <2> QED
    BY <2>1, <2>2
<1>4. ASSUME NEW f \in Ready, NEW g \in Ready, client[f] = client[g] PROVE f = g
  <2>1. ASSUME NEW h \in Fds, lfd \in Ready PROVE open[h] # Head(backlog)
    <3>1. backlog \in Seq(Clients) /\ backlog # <<>>
      BY <2>1 DEF KernelInv, SocketsOK
    <3>2. Head(backlog) = backlog[1] /\ 1 \in DOMAIN backlog
      BY <3>1
    <3> QED
      BY <3>2 DEF KernelInv, OneConnection
  <2> QED
    BY <1>4, <2>1 DEF KernelInv, OneConnection
<1> HIDE DEF Ready
<1>5. client \in Injection(Ready, Clients)
  <2>1. client \in [Ready -> Clients]
    BY <1>3
  <2>2. \A f, g \in Ready : client[f] = client[g] => f = g
    BY <1>4
  <2> HIDE DEF client
  <2> QED
    BY <2>1, <2>2 DEF Injection, IsInjective
<1> HIDE DEF client
<1>6. IsFiniteSet(Ready) /\ Cardinality(Ready) <= Cardinality(Clients)
  BY <1>5, ClientAssumption, FS_Injection
<1>7. Cardinality(Ready) <= Cardinality(Fds \cup {lfd}) /\ Cardinality(Ready) \in Nat
  BY <1>1, <1>2, <1>6, FS_Subset, FS_CardinalityType
<1>8. Cardinality(Ready) <= Cardinality(Fds) + 1
  BY <1>1, <1>7
<1> QED
  BY <1>6, <1>7, <1>8 DEF Ready

(* epoll_wait writes as many elements as descriptors are ready.            *)
LEMMA EpollWait ==
  ASSUME KernelInv, WatchInv, EpollLoop, Epoll!epoll_wait
  PROVE  KernelInv' /\ EpollLoop'
<1> DEFINE R == Epoll!Ready
           n == Cardinality(R)
<1>1. /\ UNCHANGED <<peer, backlog, open, unread>> /\ pc' = "loop" /\ i' = 1
      /\ reported' = n /\ ret' = n
  BY DEF Epoll!epoll_wait, Epoll!At, Epoll!socketVars, Epoll!Cardinality, Cardinality
<1>2. PICK events \in Epoll!Bijection(1 .. Epoll!Cardinality(R), R) :
        all' = [k \in Epoll!Indices |-> IF k <= Epoll!Cardinality(R) THEN events[k] ELSE all[k]]
  BY DEF Epoll!epoll_wait
<1>3. /\ R = {f \in registered \cup {lfd} :
                IF f = lfd THEN backlog # <<>> ELSE Readable(open[f])}
  BY DEF Epoll!Ready, Epoll!Readable, Epoll!HasInput, Readable, HasInput
<1>4. n \in Nat /\ n <= NumEvents /\ NumEvents \in Nat
  <2>1. n \in Nat /\ n <= Cardinality(Clients)
    BY <1>3, ReadyBound DEF WatchInv
  <2>2. Cardinality(Clients) \in Nat
    BY ClientAssumption, FS_CardinalityType
  <2> QED
    BY <2>1, <2>2, EpollAssumption
<1>5. \A f \in R : f \in Fds \cup {lfd} /\ (f # lfd => open[f] # NoClient /\ Readable(open[f]))
  BY <1>3 DEF WatchInv
<1> HIDE DEF R
<1>6. Epoll!Cardinality(R) = n
  BY DEF Epoll!Cardinality, Cardinality
<1>7. events \in [1 .. n -> R] /\ \A j, k \in 1 .. n : j # k => events[j] # events[k]
  BY <1>2, <1>6 DEF Epoll!Bijection, Epoll!Injection, Epoll!IsInjective
<1> HIDE DEF n
<1>8. all' = [k \in Epoll!Indices |-> IF k <= n THEN events[k] ELSE all[k]]
  BY <1>2, <1>6
<1>9. KernelInv' /\ \A c : Readable(c) <=> Readable(c)'
  BY <1>1, NoKernelStep
<1>10. \A k \in 1 .. n : all'[k] = events[k] /\ all'[k] \in R
  BY <1>4, <1>7, <1>8 DEF Epoll!Indices
<1>11. EpollTypes'
  <2>1. \A k \in Epoll!Indices : all'[k] \in Epoll!Values \cup {Epoll!Unset}
    <3>1. ASSUME NEW k \in Epoll!Indices, k <= n
          PROVE  all'[k] \in Epoll!Values \cup {Epoll!Unset}
      BY <1>5, <1>10, <3>1 DEF Epoll!Values, Epoll!Indices
    <3>2. ASSUME NEW k \in Epoll!Indices, ~ (k <= n)
          PROVE  all'[k] \in Epoll!Values \cup {Epoll!Unset}
      BY <1>8, <3>2 DEF EpollLoop, EpollTypes
    <3> QED
      BY <3>1, <3>2
  <2>2. all' \in [Epoll!Indices -> Epoll!Values \cup {Epoll!Unset}]
    BY <1>8, <2>1
  <2>3. reported' \in 0 .. NumEvents /\ ret' \in -1 .. NumEvents /\ i' \in 0 .. NumEvents + 1
    BY <1>1, <1>4
  <2> QED
    BY <1>1, <2>2, <2>3 DEF EpollTypes
<1>12. \A k \in 1 .. n : all'[k] # Epoll!Unset
  BY <1>5, <1>10, DescriptorAssumption DEF Epoll!Unset
<1>13. \A j, k \in 1 .. n : all'[j] = all'[k] => j = k
  BY <1>7, <1>10
<1>14. \A k \in 1 .. n : all'[k] \in Fds =>
          open'[all'[k]] # NoClient /\ Readable(open[all[k]])'
  BY <1>1, <1>5, <1>9, <1>10, DescriptorAssumption
<1>15. \A k \in EpollAhead' : all'[k] \in Fds =>
          open'[all'[k]] # NoClient /\ Readable(open[all[k]])'
  BY <1>1, <1>14 DEF EpollAhead
<1> QED
  BY <1>1, <1>9, <1>11, <1>12, <1>13, <1>15 DEF EpollLoop

(* Nothing but the place in the loop changes.                              *)
LEMMA EpollQuiet ==
  ASSUME KernelInv, EpollLoop,
         \/ Epoll!LoopDone \/ Epoll!AcceptFails \/ Epoll!NoEvents \/ Epoll!BrokenPipe
         \/ Epoll!RecvFails \/ UNCHANGED Epoll!vars
  PROVE  KernelInv' /\ EpollLoop'
<1> USE DEF Epoll!At, Epoll!InLoop, Epoll!Connection
<1>1. UNCHANGED <<peer, backlog, open, unread, all, reported>>
  BY DEF Epoll!LoopDone, Epoll!AcceptFails, Epoll!NoEvents, Epoll!BrokenPipe,
         Epoll!RecvFails, Epoll!vars, Epoll!socketVars
<1>2. KernelInv' /\ \A c : Readable(c) <=> Readable(c)'
  BY <1>1, NoKernelStep
<1>3. \/ pc' \in {"wait", "exited"} /\ i' = i /\ ret' = ret
      \/ pc' = "loop" /\ pc = "loop" /\ i <= NumEvents /\ i' = i + 1 /\ ret' \in {ret, -1}
      \/ pc' = pc /\ i' = i /\ ret' = ret
  BY DEF Epoll!LoopDone, Epoll!AcceptFails, Epoll!NoEvents, Epoll!BrokenPipe,
         Epoll!RecvFails, Epoll!vars
<1>4. NumEvents \in Nat /\ i \in 0 .. NumEvents + 1 /\ ret \in -1 .. NumEvents
  BY EpollAssumption DEF EpollLoop, EpollTypes
<1>5. EpollTypes'
  <2>1. i' \in 0 .. NumEvents + 1 /\ ret' \in -1 .. NumEvents
    BY <1>3, <1>4
  <2> QED
    BY <1>1, <1>3, <2>1 DEF EpollLoop, EpollTypes
<1>6. \A k \in EpollAhead' : k \in EpollAhead
  BY <1>1, <1>3, <1>4 DEF EpollAhead, EpollLoop, EpollTypes
<1>7. (pc \in {"loop", "send"} => i >= 1)'
  BY <1>3, <1>4 DEF EpollLoop
<1>8. (pc = "send" => i \in Epoll!Indices /\ IsOpen(all[i]))'
  BY <1>1, <1>3 DEF EpollLoop, Epoll!Indices, IsOpen
<1> QED
  BY <1>1, <1>2, <1>5, <1>6, <1>7, <1>8 DEF EpollLoop

(* What the clients do makes no reported descriptor unreadable.            *)
LEMMA EpollPeers ==
  ASSUME KernelInv, EpollLoop, Epoll!Peers
  PROVE  KernelInv' /\ EpollLoop'
<1>1. ClientMove /\ UNCHANGED <<all, reported, ret, i, pc>>
  BY ClientMoves DEF Epoll!Peers, KernelInv
<1>2. KernelInv' /\ open' = open /\ \A c \in Clients : Readable(c) => Readable(c)'
  BY <1>1, ClientMoveKernel
<1>3. \A f \in Fds : open[f] # NoClient => open[f] \in Clients
  BY DEF KernelInv, SocketsOK
<1>4. \A k \in EpollAhead' : all'[k] \in Fds => open'[all'[k]] # NoClient /\ Readable(open[all[k]])'
  <2>1. EpollAhead' = EpollAhead
    BY <1>1 DEF EpollAhead
  <2> QED
    BY <1>1, <1>2, <1>3, <2>1 DEF EpollLoop
<1>5. EpollTypes'
  BY <1>1 DEF EpollLoop, EpollTypes
<1> QED
  BY <1>1, <1>2, <1>4, <1>5 DEF EpollLoop, IsOpen, Epoll!Indices

(* accept ends the batch, as ret is 0 or -1 then.                          *)
LEMMA EpollAccept ==
  ASSUME KernelInv, EpollLoop, Epoll!AcceptConnection \/ Epoll!RegisterFails
  PROVE  KernelInv' /\ EpollLoop'
<1>1. PICK f \in Fds : Accept(f)
  BY DEF Epoll!AcceptConnection, Epoll!RegisterFails, Epoll!Accept, Accept, Epoll!FreeFds,
         FreeFds
<1>2. KernelInv'
  BY <1>1, AcceptKernel
<1>3. /\ UNCHANGED <<all, reported>> /\ ret' \in {0, -1} /\ i' = i + 1
      /\ pc' = "loop" /\ pc = "loop" /\ i <= NumEvents
  BY DEF Epoll!AcceptConnection, Epoll!RegisterFails, Epoll!At, Epoll!InLoop
<1>4. NumEvents \in Nat /\ i \in 0 .. NumEvents + 1 /\ i >= 1
  BY <1>3, EpollAssumption DEF EpollLoop, EpollTypes
<1>5. i' \in 0 .. NumEvents + 1 /\ ret' \in -1 .. NumEvents /\ i' >= 1 /\ ~ (i' <= ret')
  BY <1>3, <1>4
<1>6. EpollTypes'
  BY <1>3, <1>5 DEF EpollLoop, EpollTypes
<1>7. EpollAhead' = {}
  BY <1>3, <1>5 DEF EpollAhead
<1> QED
  BY <1>2, <1>3, <1>5, <1>6, <1>7 DEF EpollLoop

(* One connection's turn.                                                  *)
LEMMA EpollTurn ==
  ASSUME KernelInv, EpollLoop, Epoll!RecvData \/ Epoll!SendBack \/ Epoll!RecvZero
  PROVE  KernelInv' /\ EpollLoop'
<1> USE DEF Epoll!At, Epoll!InLoop, Epoll!Connection
<1>1. \A f \in Fds : open[f] # NoClient => open[f] \in Clients
  BY DEF KernelInv, SocketsOK
<1>2. NumEvents \in Nat /\ i \in 0 .. NumEvents + 1 /\ reported \in 0 .. NumEvents
  BY EpollAssumption DEF EpollLoop, EpollTypes
<1>3. CASE Epoll!RecvData
  <2> DEFINE c == open[all[i]]
  <2>1. /\ UNCHANGED <<peer, backlog, open, reported, i>> /\ pc = "loop" /\ pc' = "send"
        /\ i <= ret /\ i <= NumEvents /\ all[i] \in Fds /\ c # NoClient
        /\ unread' = [unread EXCEPT ![c] = 0]
    BY <1>3 DEF Epoll!RecvData, Epoll!ReadInput
  <2>2. PICK n \in Epoll!Indices : \E stack \in [Epoll!NeverWritten(n) -> Epoll!Values] :
          /\ ret' = n
          /\ all' = [k \in Epoll!Indices |-> IF k \in Epoll!NeverWritten(n)
                                             THEN stack[k] ELSE all[k]]
    BY <1>3 DEF Epoll!RecvData
  <2>3. PICK stack \in [Epoll!NeverWritten(n) -> Epoll!Values] :
          /\ ret' = n
          /\ all' = [k \in Epoll!Indices |-> IF k \in Epoll!NeverWritten(n)
                                             THEN stack[k] ELSE all[k]]
    BY <2>2
  <2>4. i \in Epoll!Indices /\ i >= 1 /\ c \in Clients /\ 0 \in 0 .. unread[c]
    <3>1. i \in Epoll!Indices /\ i >= 1
      BY <1>2, <2>1 DEF EpollLoop, Epoll!Indices
    <3>2. c \in Clients
      BY <1>1, <2>1
    <3>3. 0 \in 0 .. unread[c]
      BY <3>2, BoundAssumption DEF KernelInv, SocketsOK
    <3> QED
      BY <3>1, <3>2, <3>3
  <2>5. \A k \in Epoll!Indices : all[k] # Epoll!Unset => all'[k] = all[k]
    BY <2>3 DEF Epoll!NeverWritten
  <2>6. all' \in [Epoll!Indices -> Epoll!Values \cup {Epoll!Unset}]
    BY <2>3 DEF EpollLoop, EpollTypes
  <2>7. EpollTypes'
    <3>1. ret' \in -1 .. NumEvents
      BY <1>2, <2>3 DEF Epoll!Indices
    <3> QED
      BY <2>1, <2>6, <3>1 DEF EpollLoop, EpollTypes
  <2>8. \A k \in 1 .. reported : k \in Epoll!Indices /\ all'[k] = all[k]
    BY <1>2, <2>5 DEF EpollLoop, Epoll!Indices
  <2>9. all'[i] = all[i]
    <3>1. all[i] # Epoll!Unset
      BY <2>1, DescriptorAssumption DEF Epoll!Unset
    <3> QED
      BY <2>4, <2>5, <3>1
  <2> HIDE DEF c
  <2>10. KernelInv' /\ \A d \in Clients \ {c} : Readable(d) => Readable(d)'
    BY <2>1, <2>4, ReadKernel
  <2>11. ASSUME NEW k \in EpollAhead', all'[k] \in Fds
         PROVE  open'[all'[k]] # NoClient /\ Readable(open[all[k]])'
    <3>1. k \in 1 .. reported /\ i < k
      BY <2>1, <2>11 DEF EpollAhead
    <3>2. k \in EpollAhead /\ all'[k] = all[k]
      BY <1>2, <2>1, <2>8, <3>1 DEF EpollAhead
    <3>3. all[k] # all[i]
      BY <1>2, <2>4, <3>1 DEF EpollLoop
    <3>4. open[all[k]] \in Clients \ {c} /\ open[all[k]] # NoClient /\ Readable(open[all[k]])
      BY <1>1, <2>1, <2>11, <3>2, <3>3 DEF c, EpollLoop, KernelInv, OneConnection
    <3> QED
      BY <2>1, <2>10, <3>2, <3>4
  <2>12. IsOpen(all[i])'
    BY <2>1, <2>9 DEF c, IsOpen
  <2> QED
    BY <2>1, <2>4, <2>7, <2>8, <2>10, <2>11, <2>12 DEF EpollLoop, Epoll!Indices
<1>4. CASE Epoll!SendBack
  <2>1. /\ UNCHANGED <<all, reported, ret>> /\ i' = i + 1 /\ pc = "send" /\ pc' = "loop"
        /\ i \in 1 .. NumEvents /\ all[i] \in Fds /\ open[all[i]] \in Clients
        /\ Sent(open[all[i]])
    BY <1>1, <1>4 DEF Epoll!SendBack, Epoll!Send, Epoll!SendShort, Epoll!Fill, Sent,
                      EpollLoop, Epoll!Indices, IsOpen
  <2>2. KernelInv' /\ open' = open /\ \A c \in Clients : Readable(c) => Readable(c)'
    BY <2>1, SendKernel
  <2>3. EpollTypes'
    <3>1. i' \in 0 .. NumEvents + 1
      BY <1>2, <2>1
    <3> QED
      BY <2>1, <3>1 DEF EpollLoop, EpollTypes
  <2>4. \A k \in EpollAhead' : k \in EpollAhead
    BY <1>2, <2>1 DEF EpollAhead
  <2>5. i' >= 1
    BY <1>2, <2>1
  <2>6. \A k \in EpollAhead' :
          all'[k] \in Fds => open'[all'[k]] # NoClient /\ Readable(open[all[k]])'
    BY <1>1, <2>1, <2>2, <2>4 DEF EpollLoop
  <2> QED
    BY <2>1, <2>2, <2>3, <2>5, <2>6 DEF EpollLoop
<1>5. CASE Epoll!RecvZero
  <2>1. /\ UNCHANGED <<all, reported, i>> /\ ret' = 0 /\ pc' = "wait" /\ Close(all[i])
    BY <1>5 DEF Epoll!RecvZero, Epoll!Close, Close
  <2>2. KernelInv'
    BY <2>1, CloseKernel
  <2>3. EpollTypes'
    <3>1. ret' \in -1 .. NumEvents
      BY <1>2, <2>1
    <3> QED
      BY <2>1, <3>1 DEF EpollLoop, EpollTypes
  <2>4. EpollAhead' = {}
    BY <2>1 DEF EpollAhead
  <2> QED
    BY <2>1, <2>2, <2>3, <2>4 DEF EpollLoop
<1> QED
  BY <1>3, <1>4, <1>5

(* What its steps do to the interest list.                                 *)
LEMMA EpollWatching ==
  ASSUME [Epoll!Next]_(Epoll!vars)
  PROVE  Watching
<1> USE DEF Watching, Epoll!socketVars, Epoll!epollVars
<1>1. CASE Epoll!AcceptConnection \/ Epoll!RegisterFails
  BY <1>1 DEF Epoll!AcceptConnection, Epoll!RegisterFails, Epoll!Accept, Accept, Epoll!FreeFds,
              FreeFds
<1>2. CASE Epoll!RecvZero
  BY <1>2 DEF Epoll!RecvZero, Epoll!Connection, Epoll!Close, Close
<1>3. CASE Epoll!SendBack
  BY <1>3 DEF Epoll!SendBack, Epoll!Send, Epoll!SendShort, Epoll!Fill
<1>4. CASE Epoll!RecvData
  BY <1>4 DEF Epoll!RecvData, Epoll!ReadInput
<1>5. CASE Epoll!Peers
  BY <1>5 DEF Epoll!Peers, Epoll!ClientStep, Epoll!Connect, Epoll!SendMessage,
              Epoll!ReadAnswers, Epoll!Hangup
<1>6. CASE \/ Epoll!epoll_wait \/ Epoll!LoopDone \/ Epoll!AcceptFails \/ Epoll!NoEvents
           \/ Epoll!BrokenPipe \/ Epoll!RecvFails \/ UNCHANGED Epoll!vars
  BY <1>6 DEF Epoll!epoll_wait, Epoll!LoopDone, Epoll!AcceptFails, Epoll!NoEvents,
              Epoll!BrokenPipe, Epoll!RecvFails, Epoll!vars
<1> QED
  BY <1>1, <1>2, <1>3, <1>4, <1>5, <1>6 DEF Epoll!Next, Epoll!loop

(* Every step of epoll_server.c keeps its invariant.                       *)
LEMMA EpollStep ==
  ASSUME KernelInv, EpollInv, [Epoll!Next]_(Epoll!vars)
  PROVE  KernelInv' /\ EpollInv'
<1>1. WatchInv'
  BY EpollWatching, WatchKept DEF EpollInv
<1>2. KernelInv' /\ EpollLoop'
  BY EpollWait, EpollQuiet, EpollPeers, EpollAccept, EpollTurn
  DEF Epoll!Next, Epoll!loop, EpollInv
<1> QED
  BY <1>1, <1>2 DEF EpollInv

-----------------------------------------------------------------------------
(* nonblock_epoll_server.c                                                 *)
LEMMA NonblockQuiet ==
  ASSUME KernelInv, WatchInv, NonblockLoop,
         \/ Nonblock!epoll_wait \/ Nonblock!LoopDone \/ Nonblock!AcceptFails
         \/ Nonblock!TakeConnection \/ Nonblock!BrokenPipe \/ Nonblock!RecvEagain
         \/ Nonblock!RecvFails \/ UNCHANGED Nonblock!vars
  PROVE  KernelInv' /\ NonblockLoop'
<1> USE DEF Nonblock!At, Nonblock!socketVars, Nonblock!epollVars
<1>1. UNCHANGED <<peer, backlog, open, unread, registered>>
  BY DEF Nonblock!epoll_wait, Nonblock!LoopDone, Nonblock!AcceptFails, Nonblock!TakeConnection,
         Nonblock!BrokenPipe, Nonblock!RecvEagain, Nonblock!RecvFails, Nonblock!vars
<1>2. KernelInv' /\ \A c : Readable(c) <=> Readable(c)'
  BY <1>1, NoKernelStep
<1>3. Cardinality(Fds) \in Nat /\ Nonblock!Cardinality(Fds) = Cardinality(Fds)
  BY DescriptorAssumption, FS_CardinalityType DEF Nonblock!Cardinality, Cardinality
<1>4. CASE Nonblock!epoll_wait
  <2> DEFINE R == Nonblock!Ready
  <2>1. /\ R = {f \in registered \cup {lfd} :
                  IF f = lfd THEN backlog # <<>> ELSE Readable(open[f])}
    BY DEF Nonblock!Ready, Nonblock!Readable, Nonblock!HasInput,
           Readable, HasInput
  <2>2. /\ pc' = "loop" /\ event' = event /\ batch' = R /\ ret' = Cardinality(R)
    BY <1>4 DEF Nonblock!epoll_wait, Nonblock!Cardinality, Cardinality
  <2>3. Cardinality(R) \in Nat /\ Cardinality(R) <= Cardinality(Fds) + 1
    BY <2>1, ReadyBound DEF WatchInv
  <2>4. R \subseteq Fds \cup {lfd} /\ \A f \in R \ {lfd} : f \in registered /\ Readable(open[f])
    BY <2>1 DEF WatchInv
  <2> HIDE DEF R
  <2>5. ret' \in -1 .. Nonblock!Cardinality(Fds) + 1
    BY <1>3, <2>2, <2>3
  <2>6. NonblockTypes'
    BY <1>1, <2>2, <2>4, <2>5 DEF NonblockLoop, NonblockTypes
  <2>7. \A f \in batch' \ {lfd} : f \in registered' /\ Readable(open[f])'
    BY <1>1, <1>2, <2>2, <2>4
  <2> QED
    BY <1>2, <2>6, <2>7 DEF NonblockLoop
<1>5. CASE Nonblock!TakeConnection
  <2>1. PICK f \in batch \ {lfd} : event' = f /\ batch' = batch \ {f}
    BY <1>5 DEF Nonblock!TakeConnection
  <2>2. ret' = ret /\ ret > 0 /\ pc = "loop" /\ pc' = "drain"
    BY <1>5 DEF Nonblock!TakeConnection, Nonblock!InLoop
  <2>3. f \in registered
    BY <2>1, <2>2 DEF NonblockLoop
  <2>4. event' \in registered' /\ event' \in Fds
    BY <1>1, <2>1, <2>3 DEF WatchInv
  <2>5. NonblockTypes'
    BY <2>1, <2>2, <2>3, <2>4 DEF NonblockLoop, NonblockTypes
  <2> QED
    BY <1>2, <2>2, <2>5 DEF NonblockLoop
<1>6. CASE \/ Nonblock!LoopDone \/ Nonblock!AcceptFails \/ Nonblock!BrokenPipe
           \/ Nonblock!RecvEagain \/ Nonblock!RecvFails
  <2>1. /\ event' = event /\ batch' \subseteq batch /\ ret' \in {ret, -1}
        /\ pc' \in {"wait", "exited"} \/ (pc' = "loop" /\ ret' = -1)
    BY <1>6 DEF Nonblock!LoopDone, Nonblock!AcceptFails, Nonblock!BrokenPipe,
                Nonblock!RecvEagain, Nonblock!RecvFails
  <2>2. -1 \in -1 .. Nonblock!Cardinality(Fds) + 1
    BY <1>3
  <2>3. NonblockTypes'
    BY <2>1, <2>2 DEF NonblockLoop, NonblockTypes
  <2> QED
    BY <1>2, <2>1, <2>3 DEF NonblockLoop
<1>7. CASE UNCHANGED Nonblock!vars
  <2>1. UNCHANGED <<batch, event, ret, pc>>
    BY <1>7 DEF Nonblock!vars
  <2>2. NonblockTypes'
    BY <1>1, <2>1 DEF NonblockLoop, NonblockTypes
  <2> QED
    BY <1>1, <1>2, <2>1, <2>2 DEF NonblockLoop, IsOpen
<1> QED
  BY <1>4, <1>5, <1>6, <1>7

(* The steps of nonblock_epoll_server.c and its clients that touch a       *)
(* socket.                                                                 *)
LEMMA NonblockSockets ==
  ASSUME KernelInv, WatchInv, NonblockLoop,
         \/ Nonblock!Peers \/ Nonblock!AcceptConnection \/ Nonblock!RegisterFails
         \/ Nonblock!RecvPiece
         \/ Nonblock!SendBack \/ Nonblock!RecvZero
  PROVE  KernelInv' /\ NonblockLoop'
<1> USE DEF Nonblock!At
<1>1. \A f \in Fds : open[f] # NoClient => open[f] \in Clients
  BY DEF KernelInv, SocketsOK
<1>2. Cardinality(Fds) \in Nat /\ Nonblock!Cardinality(Fds) = Cardinality(Fds)
  BY DescriptorAssumption, FS_CardinalityType DEF Nonblock!Cardinality, Cardinality
<1>3. \A n \in {-1, 0, 1} : n \in -1 .. Nonblock!Cardinality(Fds) + 1
  BY <1>2
<1>4. ASSUME pc \in {"drain", "send"}
      PROVE  event \in Fds /\ open[event] # NoClient /\ open[event] \in Clients
  BY <1>1, <1>4 DEF WatchInv, NonblockLoop, NonblockTypes
<1>5. CASE Nonblock!Peers
  <2>1. ClientMove /\ UNCHANGED <<registered, batch, event, ret, pc>>
    BY <1>5, ClientMoves DEF Nonblock!Peers, Nonblock!epollVars, KernelInv
  <2>2. KernelInv' /\ open' = open /\ \A c \in Clients : Readable(c) => Readable(c)'
    BY <2>1, ClientMoveKernel
  <2>3. NonblockTypes'
    BY <2>1, <2>2 DEF NonblockLoop, NonblockTypes
  <2> QED
    BY <1>1, <2>1, <2>2, <2>3 DEF NonblockLoop, WatchInv
<1>6. CASE Nonblock!AcceptConnection \/ Nonblock!RegisterFails
  <2>1. PICK f \in Fds : Accept(f)
    BY <1>6 DEF Nonblock!AcceptConnection, Nonblock!RegisterFails, Nonblock!Accept, Accept,
                Nonblock!FreeFds, FreeFds
  <2>2. KernelInv'
    BY <2>1, AcceptKernel
  <2>3. event' = event /\ batch' = batch \ {lfd} /\ ret' \in {0, -1} /\ pc' = "loop"
    BY <1>6 DEF Nonblock!AcceptConnection, Nonblock!RegisterFails
  <2>4. NonblockTypes'
    BY <1>3, <2>3 DEF NonblockLoop, NonblockTypes
  <2> QED
    BY <2>2, <2>3, <2>4 DEF NonblockLoop
<1>7. CASE Nonblock!RecvPiece
  <2> DEFINE c == open[event]
  <2>1. /\ UNCHANGED <<peer, backlog, open, registered, batch, event>> /\ ret' = 1
        /\ pc = "drain" /\ pc' = "send"
    BY <1>7 DEF Nonblock!RecvPiece, Nonblock!epollVars
  <2>2. PICK rest \in 0 .. unread[c] - 1 : unread' = [unread EXCEPT ![c] = rest]
    BY <1>7 DEF Nonblock!RecvPiece, Nonblock!Peer
  <2>3. c \in Clients /\ unread[c] \in Int
    BY <1>4, <2>1, BoundAssumption DEF KernelInv, SocketsOK
  <2>4. rest \in 0 .. unread[c]
    BY <2>3
  <2> HIDE DEF c
  <2>5. KernelInv'
    BY <2>1, <2>2, <2>3, <2>4, ReadKernel
  <2>6. NonblockTypes'
    BY <1>3, <2>1 DEF NonblockLoop, NonblockTypes
  <2> QED
    BY <2>1, <2>5, <2>6 DEF NonblockLoop
<1>8. CASE Nonblock!SendBack
  <2>1. /\ UNCHANGED <<registered, batch, event, ret>> /\ pc = "send" /\ pc' = "drain"
        /\ Sent(open[event])
    BY <1>8 DEF Nonblock!SendBack, Nonblock!epollVars, Nonblock!socketVars, Nonblock!Send,
                Nonblock!SendShort, Nonblock!Fill, Sent, Nonblock!Peer
  <2>2. KernelInv' /\ open' = open
    BY <1>4, <2>1, SendKernel
  <2>3. NonblockTypes'
    BY <2>1, <2>2 DEF NonblockLoop, NonblockTypes
  <2> QED
    BY <2>1, <2>2, <2>3 DEF NonblockLoop
<1>9. CASE Nonblock!RecvZero
  <2>1. /\ UNCHANGED <<batch, event>> /\ ret' = 0 /\ pc' = "wait" /\ Close(event)
    BY <1>9 DEF Nonblock!RecvZero, Nonblock!Forget, Nonblock!Close, Close
  <2>2. KernelInv'
    BY <2>1, CloseKernel
  <2>3. NonblockTypes'
    BY <1>3, <2>1 DEF NonblockLoop, NonblockTypes
  <2> QED
    BY <2>1, <2>2, <2>3 DEF NonblockLoop
<1> QED
  BY <1>5, <1>6, <1>7, <1>8, <1>9

(* What its steps do to the interest list.                                 *)
LEMMA NonblockWatching ==
  ASSUME WatchInv, NonblockLoop, [Nonblock!Next]_(Nonblock!vars)
  PROVE  Watching
<1> USE DEF Watching, Nonblock!socketVars, Nonblock!epollVars
<1>1. CASE Nonblock!AcceptConnection \/ Nonblock!RegisterFails
  BY <1>1 DEF Nonblock!AcceptConnection, Nonblock!RegisterFails, Nonblock!Accept, Accept,
              Nonblock!FreeFds, FreeFds
<1>2. CASE Nonblock!RecvZero
  <2>1. event \in Fds
    BY <1>2 DEF Nonblock!RecvZero, Nonblock!At, WatchInv, NonblockLoop, NonblockTypes
  <2> QED
    BY <1>2, <2>1 DEF Nonblock!RecvZero, Nonblock!Forget, Nonblock!Close, Close
<1>3. CASE Nonblock!SendBack
  BY <1>3 DEF Nonblock!SendBack, Nonblock!Send, Nonblock!SendShort, Nonblock!Fill
<1>4. CASE Nonblock!RecvPiece
  BY <1>4 DEF Nonblock!RecvPiece
<1>5. CASE Nonblock!Peers
  BY <1>5 DEF Nonblock!Peers, Nonblock!ClientStep, Nonblock!Connect, Nonblock!SendMessage,
              Nonblock!ReadAnswers, Nonblock!Hangup
<1>6. CASE \/ Nonblock!epoll_wait \/ Nonblock!LoopDone \/ Nonblock!AcceptFails
           \/ Nonblock!TakeConnection \/ Nonblock!BrokenPipe \/ Nonblock!RecvEagain
           \/ Nonblock!RecvFails \/ UNCHANGED Nonblock!vars
  BY <1>6 DEF Nonblock!epoll_wait, Nonblock!LoopDone, Nonblock!AcceptFails,
              Nonblock!TakeConnection, Nonblock!BrokenPipe, Nonblock!RecvEagain,
              Nonblock!RecvFails, Nonblock!vars
<1> QED
  BY <1>1, <1>2, <1>3, <1>4, <1>5, <1>6 DEF Nonblock!Next, Nonblock!loop

(* Every step of nonblock_epoll_server.c keeps its invariant.              *)
LEMMA NonblockStep ==
  ASSUME KernelInv, NonblockInv, [Nonblock!Next]_(Nonblock!vars)
  PROVE  KernelInv' /\ NonblockInv'
<1>1. WatchInv'
  BY NonblockWatching, WatchKept DEF NonblockInv
<1>2. KernelInv' /\ NonblockLoop'
  BY NonblockQuiet, NonblockSockets DEF Nonblock!Next, Nonblock!loop, NonblockInv
<1> QED
  BY <1>1, <1>2 DEF NonblockInv

-----------------------------------------------------------------------------
(* http_easy.cpp                                                           *)
LEMMA HttpStep ==
  ASSUME KernelInv, HttpInv, [Http!Next]_(Http!vars)
  PROVE  KernelInv' /\ HttpInv'
<1> USE DEF Http!At, Http!Peer, HttpInv, Http!TypeOK
<1>1. ASSUME mainpc \in {"recv", "header", "body", "close"}
      PROVE  cfd \in Fds /\ open[cfd] # NoClient /\ open[cfd] \in Clients
  BY <1>1 DEF KernelInv, SocketsOK
<1>2. CASE Http!BrokenPipe \/ UNCHANGED Http!vars
  <2>1. UNCHANGED <<peer, backlog, open, unread, cfd>> /\ mainpc' \in {mainpc, "exited"}
    BY <1>2 DEF Http!BrokenPipe, Http!vars, Http!socketVars
  <2> QED
    BY <2>1, NoKernelStep
<1>3. CASE Http!Peers
  <2>1. ClientMove /\ UNCHANGED <<cfd, mainpc>>
    BY <1>3, ClientMoves DEF Http!Peers, KernelInv
  <2> QED
    BY <2>1, ClientMoveKernel
<1>4. CASE Http!Accept_cli
  <2>1. PICK f \in Fds : Accept(f) /\ cfd' = f
    BY <1>4 DEF Http!Accept_cli, Http!Accept, Accept, Http!FreeFds, FreeFds
  <2>2. /\ KernelInv' /\ Head(backlog) \in Clients
        /\ \A g \in Fds : open'[g] = IF g = f THEN Head(backlog) ELSE open[g]
    BY <2>1, AcceptKernel
  <2>3. mainpc = "accept" /\ mainpc' = "recv"
    BY <1>4 DEF Http!Accept_cli
  <2>4. open'[f] # NoClient /\ \A g \in Fds : open'[g] # NoClient => g = f
    BY <2>2, <2>3, ClientAssumption, DescriptorAssumption
  <2> QED
    BY <2>1, <2>2, <2>3, <2>4
<1>5. CASE Http!Recv
  <2> DEFINE c == open[cfd]
  <2>1. /\ UNCHANGED <<peer, backlog, open, cfd>> /\ mainpc = "recv" /\ mainpc' = "header"
        /\ unread' = [unread EXCEPT ![c] = 0]
    BY <1>5 DEF Http!Recv
  <2>2. c \in Clients /\ 0 \in 0 .. unread[c]
    <3>1. c \in Clients
      BY <1>1, <2>1
    <3> QED
      BY <3>1, BoundAssumption DEF KernelInv, SocketsOK
  <2>3. KernelInv'
    BY <2>1, <2>2, ReadKernel
  <2> QED
    BY <2>1, <2>3
<1>6. CASE Http!SendHeader \/ Http!SendBody
  <2>1. /\ Sent(open[cfd]) /\ cfd' = cfd
        /\ mainpc \in {"header", "body"} /\ mainpc' \in {"body", "close"}
    BY <1>6 DEF Http!SendHeader, Http!SendBody, Http!SendShort, Sent
  <2>2. KernelInv' /\ open' = open
    BY <1>1, <2>1, SendKernel
  <2> QED
    BY <2>1, <2>2
<1>7. CASE Http!Close_cli
  <2>1. Close(cfd) /\ cfd' = -1 /\ mainpc' = "accept"
    BY <1>7 DEF Http!Close_cli, Http!Close, Close
  <2>2. KernelInv' /\ \A g \in Fds : open'[g] = IF g = cfd THEN NoClient ELSE open[g]
    BY <2>1, CloseKernel
  <2> QED
    BY <2>1, <2>2
<1> QED
  BY <1>2, <1>3, <1>4, <1>5, <1>6, <1>7 DEF Http!Next, Http!loop

-----------------------------------------------------------------------------
(* libevent_server.c                                                       *)
LEMMA LibeventStep ==
  ASSUME KernelInv, LibeventInv, [Libevent!Next]_(Libevent!vars)
  PROVE  KernelInv' /\ LibeventInv'
<1> USE DEF Libevent!Dispatched, LibeventInv, Libevent!TypeOK
<1>1. \A f \in bevs : f \in Fds /\ open[f] # NoClient /\ open[f] \in Clients
  BY DEF KernelInv, SocketsOK
<1>2. CASE Libevent!Peers
  <2>1. ClientMove /\ UNCHANGED <<bevs, output, input, pc>>
    BY <1>2, ClientMoves DEF Libevent!Peers, KernelInv
  <2> QED
    BY <2>1, ClientMoveKernel
<1>3. CASE UNCHANGED Libevent!vars
  BY <1>3, NoKernelStep DEF Libevent!vars
<1>4. ASSUME NEW f \in Fds, Libevent!listen_cb(f) PROVE KernelInv' /\ LibeventInv'
  <2>1. Accept(f) /\ bevs' = bevs \cup {f} /\ UNCHANGED <<output, input, pc>>
    BY <1>4 DEF Libevent!listen_cb, Libevent!Accept, Accept, Libevent!FreeFds, FreeFds
  <2>2. /\ KernelInv' /\ Head(backlog) \in Clients
        /\ \A g \in Fds : open'[g] = IF g = f THEN Head(backlog) ELSE open[g]
    BY <2>1, AcceptKernel
  <2> QED
    BY <2>1, <2>2, ClientAssumption
<1>5. ASSUME NEW f \in Fds, Libevent!read_cb(f) PROVE KernelInv' /\ LibeventInv'
  <2> DEFINE c == open[f]
  <2>1. /\ UNCHANGED <<peer, backlog, open, bevs, pc>> /\ f \in bevs /\ output' = output \cup {f}
        /\ input' \in {input \ {f}, input \cup {f}}
        /\ unread' = [unread EXCEPT ![c] = 0]
    BY <1>5 DEF Libevent!read_cb, Libevent!ReadInput
  <2>2. c \in Clients /\ 0 \in 0 .. unread[c]
    <3>1. c \in Clients
      BY <1>1, <2>1
    <3> QED
      BY <3>1, BoundAssumption DEF KernelInv, SocketsOK
  <2>3. KernelInv'
    BY <2>1, <2>2, ReadKernel
  <2> QED
    BY <2>1, <2>3
<1>6. ASSUME NEW f \in Fds, Libevent!write_cb(f) PROVE KernelInv' /\ LibeventInv'
  <2>1. /\ Sent(open[f]) /\ UNCHANGED <<bevs, input, pc>> /\ f \in bevs /\ output' = output \ {f}
    BY <1>6 DEF Libevent!write_cb, Libevent!Send, Libevent!SendShort, Libevent!Fill, Sent
  <2>2. KernelInv' /\ open' = open
    BY <1>1, <2>1, SendKernel
  <2> QED
    BY <2>1, <2>2
<1>7. ASSUME NEW f \in Fds, Libevent!BrokenPipe(f) PROVE KernelInv' /\ LibeventInv'
  <2>1. UNCHANGED <<peer, backlog, open, unread, bevs, output, input>> /\ pc' = "exited"
    BY <1>7 DEF Libevent!BrokenPipe, Libevent!socketVars
  <2> QED
    BY <2>1, NoKernelStep
<1>8. ASSUME NEW f \in Fds, Libevent!event_cb(f) PROVE KernelInv' /\ LibeventInv'
  <2>1. /\ Close(f) /\ pc' = pc
        /\ bevs' = bevs \ {f} /\ output' = output \ {f} /\ input' = input \ {f}
    BY <1>8 DEF Libevent!event_cb, Libevent!bufferevent_free, Libevent!Close, Close
  <2>2. KernelInv' /\ \A g \in Fds : open'[g] = IF g = f THEN NoClient ELSE open[g]
    BY <2>1, CloseKernel
  <2> QED
    BY <2>1, <2>2
<1> QED
  BY <1>2, <1>3, <1>4, <1>5, <1>6, <1>7, <1>8 DEF Libevent!Next, Libevent!callbacks

-----------------------------------------------------------------------------
(* The children of fork_server.c and of tcp_pro.cpp                        *)

(* fork takes an unused entry of the table.                                *)
LEMMA SpawnChild ==
  ASSUME NEW at, NEW c, NEW held, Fork!Spawn(at, c, held) \/ Pro!Spawn(at, c, held)
  PROVE  /\ UNCHANGED <<sigchld, handler>>
         /\ \E q \in Pids : /\ child[q] = Fork!Unborn
                            /\ child' = [child EXCEPT ![q] =
                                           [at |-> at, serves |-> c, holds |-> held]]
<1> DEFINE free == {p \in Pids : child[p] = Fork!Unborn}
<1>1. /\ free # {} /\ UNCHANGED <<sigchld, handler>>
      /\ child' = [child EXCEPT ![Min(free)] = [at |-> at, serves |-> c, holds |-> held]]
  BY DEF Fork!Spawn, Pro!Spawn, Fork!Unborn, Pro!Unborn, Fork!Min, Pro!Min, Min
<1>2. free \in SUBSET Nat
  BY BoundAssumption
<1> HIDE DEF free
<1>3. Min(free) \in free
  BY <1>1, <1>2, LeastNatural
<1> QED
  BY <1>1, <1>3 DEF free

(* Nobody else is served, and nobody who is served comes into the backlog. *)
LEMMA ServedKept ==
  ASSUME ServedOnce,
         \A p \in Pids : \A c \in Clients : Serves(p, c)' => Serves(p, c),
         \A c \in Clients : peer[c] # "idle" => peer'[c] # "idle",
         \A c \in Clients : \/ peer[c] = "idle"
                            \/ (\E k \in DOMAIN backlog' : backlog'[k] = c)
                                 => (\E k \in DOMAIN backlog : backlog[k] = c)
  PROVE  ServedOnce'
<1>1. \A p, q \in Pids : \A c \in Clients : Serves(p, c)' /\ Serves(q, c)' => p = q
  BY DEF ServedOnce
<1>2. ASSUME NEW p \in Pids, NEW c \in Clients, Serves(p, c)'
      PROVE  peer'[c] # "idle" /\ \A k \in DOMAIN backlog' : backlog'[k] # c
  <2>1. peer[c] # "idle" /\ \A k \in DOMAIN backlog : backlog[k] # c
    BY <1>2 DEF ServedOnce
  <2> QED
    BY <2>1
<1> QED
  BY <1>1, <1>2 DEF ServedOnce

(* A child is born for a client that was accepted and is not served yet.   *)
LEMMA ServedNew ==
  ASSUME KernelInv, ServedOnce, NEW f \in Fds, \A p \in Pids : ~ Serves(p, open[f]),
         NEW q \in Pids, UNCHANGED <<peer, backlog>>,
         \A p \in Pids : \A c \in Clients : Serves(p, c)' =>
            Serves(p, c) \/ (p = q /\ c = open[f])
  PROVE  ServedOnce'
<1>1. ASSUME NEW p \in Pids, NEW r \in Pids, NEW c \in Clients, Serves(p, c)', Serves(r, c)'
      PROVE  p = r
  BY <1>1 DEF ServedOnce
<1>2. ASSUME NEW p \in Pids, NEW c \in Clients, Serves(p, c)'
      PROVE  peer'[c] # "idle" /\ \A k \in DOMAIN backlog' : backlog'[k] # c
  <2>1. CASE Serves(p, c)
    BY <2>1 DEF ServedOnce
  <2>2. CASE c = open[f]
    BY <2>2, ClientAssumption DEF KernelInv, OneConnection
  <2> QED
    BY <1>2, <2>1, <2>2
<1> QED
  BY <1>1, <1>2 DEF ServedOnce

-----------------------------------------------------------------------------
(* fork_server.c: the parent                                               *)
LEMMA ForkParent ==
  ASSUME KernelInv, ForkInv,
         Fork!AcceptFails \/ Fork!AcceptAgain \/ Fork!ForkFails \/ UNCHANGED Fork!vars
  PROVE  KernelInv' /\ ForkInv'
<1> USE DEF Fork!At
<1>1. UNCHANGED <<peer, backlog, open, unread, child, sigchld, handler>>
  BY DEF Fork!AcceptFails, Fork!AcceptAgain, Fork!ForkFails, Fork!vars, Fork!socketVars,
         Fork!childVars
<1>2. KernelInv'
  BY <1>1, NoKernelStep
<1>3. ServedOnce' /\ \A p \in Pids : \A c : Serves(p, c)' <=> Serves(p, c)
  BY <1>1 DEF ForkInv, ServedOnce, Serves, Fork!Alive
<1>4. CASE Fork!AcceptFails
  <2>1. mainpc = "accept" /\ mainpc' = "test" /\ faults' = {"accept"} /\ faults = {}
        /\ UNCHANGED <<cfd, eintr>>
    BY <1>4 DEF Fork!AcceptFails
  <2>2. cfd = -1 /\ cfd \notin Fds
    BY <2>1, DescriptorAssumption DEF ForkInv
  <2>3. Fork!TypeOK'
    BY <1>1, <2>1 DEF ForkInv, Fork!TypeOK
  <2>4. Fork!NothingLeaked'
    BY <1>1, <2>1 DEF ForkInv, Fork!NothingLeaked
  <2> QED
    BY <1>1, <1>2, <1>3, <2>1, <2>2, <2>3, <2>4 DEF ForkInv
<1>5. CASE Fork!AcceptAgain
  <2>1. mainpc' = "accept" /\ cfd = -1 /\ eintr' = FALSE /\ UNCHANGED <<cfd, faults>>
    BY <1>5 DEF Fork!AcceptAgain, Fork!Interrupted
  <2>2. Fork!TypeOK'
    BY <1>1, <2>1 DEF ForkInv, Fork!TypeOK
  <2>3. Fork!NothingLeaked'
    BY <1>1, <2>1, DescriptorAssumption DEF ForkInv, Fork!NothingLeaked
  <2> QED
    BY <1>1, <1>2, <1>3, <2>1, <2>2, <2>3 DEF ForkInv
<1>6. CASE Fork!ForkFails
  <2>1. mainpc' = "accept" /\ cfd' = -1 /\ eintr' = eintr /\ faults' = {"fork"}
    BY <1>6 DEF Fork!ForkFails
  <2>2. Fork!TypeOK'
    BY <1>1, <2>1 DEF ForkInv, Fork!TypeOK
  <2>3. Fork!NothingLeaked'
    BY <2>1 DEF Fork!NothingLeaked
  <2> QED
    BY <1>1, <1>2, <1>3, <2>1, <2>2, <2>3 DEF ForkInv
<1>7. CASE UNCHANGED Fork!vars
  <2>1. UNCHANGED <<cfd, mainpc, eintr, faults>>
    BY <1>7 DEF Fork!vars
  <2>2. Fork!TypeOK' /\ Fork!NothingLeaked'
    BY <1>1, <2>1 DEF ForkInv, Fork!TypeOK, Fork!NothingLeaked
  <2> QED
    BY <1>1, <1>2, <1>3, <2>1, <2>2 DEF ForkInv
<1> QED
  BY <1>4, <1>5, <1>6, <1>7

(* fork_server.c: a connection is accepted, inherited by a child and       *)
(* closed in the parent.                                                   *)
LEMMA ForkConnection ==
  ASSUME KernelInv, ForkInv, Fork!AcceptConnection \/ Fork!fork \/ Fork!CloseInParent
  PROVE  KernelInv' /\ ForkInv'
<1> USE DEF Fork!At
<1>1. CASE Fork!AcceptConnection
  <2>1. PICK f \in Fds : Accept(f) /\ cfd' = f
    BY <1>1 DEF Fork!AcceptConnection, Fork!Accept, Accept, Fork!FreeFds, FreeFds
  <2>c. PICK c \in Clients : c = Head(backlog)
    BY <2>1, AcceptKernel
  <2>2. /\ KernelInv' /\ peer' = peer
        /\ \A g \in Fds : open'[g] = IF g = f THEN c ELSE open[g]
        /\ \E k \in DOMAIN backlog : backlog[k] = c
        /\ \A d \in Clients : (\E k \in DOMAIN backlog' : backlog'[k] = d)
                                => (\E k \in DOMAIN backlog : backlog[k] = d)
    BY <2>1, <2>c, AcceptKernel
  <2>3. /\ mainpc = "accept" /\ mainpc' = "test"
        /\ UNCHANGED <<child, sigchld, handler, eintr, faults>>
    BY <1>1 DEF Fork!AcceptConnection, Fork!childVars
  <2>4. \A p \in Pids : \A d : Serves(p, d)' <=> Serves(p, d)
    BY <2>3 DEF Serves, Fork!Alive
  <2>5. ServedOnce'
    BY <2>2, <2>4, ServedKept DEF ForkInv
  <2>6. Fork!TypeOK'
    BY <2>1, <2>3 DEF ForkInv, Fork!TypeOK
  <2>7. Fork!NothingLeaked'
    <3>1. cfd = -1 /\ -1 \notin Fds
      BY <2>3, DescriptorAssumption DEF ForkInv
    <3> QED
      BY <2>1, <2>2, <2>3, <3>1 DEF ForkInv, Fork!NothingLeaked
  <2>8. open'[cfd'] = c
    BY <2>1, <2>2
  <2>9. \A p \in Pids : ~ Serves(p, c)'
    BY <2>2, <2>4 DEF ForkInv, ServedOnce
  <2>10. mainpc' = "test" /\ cfd' \in Fds =>
           open'[cfd'] # NoClient /\ \A p \in Pids : ~ Serves(p, open[cfd])'
    BY <2>2, <2>8, <2>9, ClientAssumption
  <2>11. \A p \in Pids : child'[p].at = "write" => child'[p].serves # NoClient
    BY <2>3 DEF ForkInv
  <2> QED
    BY <2>2, <2>3, <2>5, <2>6, <2>7, <2>10, <2>11 DEF ForkInv
<1>2. CASE Fork!fork
  <2> DEFINE c == Fork!Connection
             held == Fork!Held
  <2>1. /\ UNCHANGED <<peer, backlog, open, unread, cfd, eintr, faults>>
        /\ mainpc = "test" /\ mainpc' = "close"
        /\ Fork!Spawn("read", c, held)
    BY <1>2 DEF Fork!fork, Fork!socketVars
  <2>2. PICK q \in Pids : /\ child[q] = Fork!Unborn
                          /\ child' = [child EXCEPT ![q] =
                                         [at |-> "read", serves |-> c, holds |-> held]]
    BY <2>1, SpawnChild
  <2>3. UNCHANGED <<sigchld, handler>>
    BY <2>1, SpawnChild
  <2>4. /\ c \in Clients \cup {NoClient} /\ held \in SUBSET Clients
        /\ c = IF cfd \in Fds THEN open[cfd] ELSE NoClient
    BY DEF Fork!Connection, Fork!Held, KernelInv, SocketsOK
  <2>5. \/ "fork" \in faults
        \/ held \subseteq {c}
    <3>1. ASSUME NEW f \in Fds, open[f] # NoClient, "fork" \notin faults PROVE open[f] = c
      BY <2>4, <3>1 DEF ForkInv, Fork!NothingLeaked
    <3> QED
      BY <3>1 DEF Fork!Held
  <2> HIDE DEF c, held
  <2>6. Fork!TypeOK'
    <3>1. [at |-> "read", serves |-> c, holds |-> held]
            \in [at : {"unborn", "read", "write", "zombie"}, serves : Clients \cup {NoClient},
                 holds : SUBSET Clients]
      BY <2>4
    <3> QED
      BY <2>1, <2>2, <2>3, <3>1 DEF ForkInv, Fork!TypeOK
  <2>7. \A p \in Pids : child'[p] = IF p = q THEN [at |-> "read", serves |-> c, holds |-> held]
                                            ELSE child[p]
    BY <2>2 DEF ForkInv, Fork!TypeOK
  <2>8. Fork!NothingLeaked'
    BY <2>1, <2>5, <2>7 DEF ForkInv, Fork!NothingLeaked
  <2>9. KernelInv'
    BY <2>1, NoKernelStep
  <2>10. ServedOnce'
    <3>1. \A p \in Pids : \A d : Serves(p, d)' => Serves(p, d) \/ (p = q /\ d = c)
      BY <2>7 DEF Serves, Fork!Alive
    <3>2. CASE cfd \in Fds
      <4>1. c = open[cfd] /\ \A p \in Pids : ~ Serves(p, open[cfd])
        BY <2>1, <2>4, <3>2 DEF ForkInv
      <4> QED
        BY <2>1, <3>1, <3>2, <4>1, ServedNew DEF ForkInv
    <3>3. CASE cfd \notin Fds
      BY <2>1, <2>4, <3>1, <3>3, ServedKept, ClientAssumption DEF ForkInv
    <3> QED
      BY <3>2, <3>3
  <2>11. \A p \in Pids : child'[p].at = "write" => child'[p].serves # NoClient
    BY <2>7 DEF ForkInv
  <2> QED
    BY <2>1, <2>6, <2>8, <2>9, <2>10, <2>11 DEF ForkInv
<1>3. CASE Fork!CloseInParent
  <2>1. /\ Close(cfd) /\ cfd' = -1 /\ mainpc = "close" /\ mainpc' = "accept"
        /\ UNCHANGED <<child, sigchld, handler, eintr, faults>>
    BY <1>3 DEF Fork!CloseInParent, Fork!Close, Close, Fork!childVars
  <2>2. /\ KernelInv' /\ UNCHANGED <<peer, backlog>>
        /\ \A g \in Fds : open'[g] = IF g = cfd THEN NoClient ELSE open[g]
    BY <2>1, CloseKernel
  <2>3. ServedOnce'
    BY <2>1, <2>2 DEF ForkInv, ServedOnce, Serves, Fork!Alive
  <2>4. Fork!TypeOK'
    BY <2>1 DEF ForkInv, Fork!TypeOK
  <2>5. Fork!NothingLeaked'
    BY <2>1, <2>2 DEF ForkInv, Fork!NothingLeaked
  <2> QED
    BY <2>1, <2>2, <2>3, <2>4, <2>5 DEF ForkInv
<1> QED
  BY <1>1, <1>2, <1>3

(* The handler of SIGCHLD                                                  *)
LEMMA ForkHandler ==
  ASSUME KernelInv, ForkInv,
         Fork!Interrupt \/ (\E p \in Pids : Fork!worker_reap(p)) \/ Fork!worker_return
  PROVE  KernelInv' /\ ForkInv'
<1>1. UNCHANGED <<peer, backlog, open, unread, cfd, faults>>
  BY DEF Fork!Interrupt, Fork!worker_reap, Fork!worker_return, Fork!socketVars
<1>2. KernelInv'
  BY <1>1, NoKernelStep
<1>3. CASE Fork!Interrupt
  <2>1. /\ UNCHANGED <<child, mainpc>> /\ sigchld' \in BOOLEAN /\ handler' \in BOOLEAN
        /\ eintr' \in BOOLEAN
    BY <1>3 DEF Fork!Interrupt, Fork!Deliver, ForkInv, Fork!TypeOK
  <2>2. Fork!TypeOK' /\ Fork!NothingLeaked'
    BY <1>1, <2>1 DEF ForkInv, Fork!TypeOK, Fork!NothingLeaked
  <2> QED
    BY <1>1, <1>2, <2>1, <2>2 DEF ForkInv, ServedOnce, Serves, Fork!Alive
<1>4. ASSUME NEW p \in Pids, Fork!worker_reap(p) PROVE ForkInv'
  <2>1. /\ UNCHANGED <<mainpc, eintr, sigchld, handler>>
        /\ child' = [child EXCEPT ![p] = Fork!Unborn]
    BY <1>4 DEF Fork!worker_reap, Fork!Reap
  <2>2. \A q \in Pids : child'[q] = IF q = p THEN Fork!Unborn ELSE child[q]
    BY <2>1 DEF ForkInv, Fork!TypeOK
  <2>3. Fork!TypeOK'
    BY <1>1, <2>1 DEF ForkInv, Fork!TypeOK, Fork!Unborn
  <2>4. Fork!NothingLeaked'
    BY <1>1, <2>1, <2>2 DEF ForkInv, Fork!NothingLeaked, Fork!Unborn
  <2>5. \A q \in Pids : \A c : Serves(q, c)' => Serves(q, c)
    BY <2>2 DEF Serves, Fork!Alive, Fork!Unborn
  <2>6. ServedOnce'
    BY <1>1, <2>5, ServedKept DEF ForkInv
  <2>7. \A q \in Pids : child'[q].at = "write" => child'[q].serves # NoClient
    BY <2>2 DEF ForkInv, Fork!Unborn
  <2> QED
    BY <1>1, <2>1, <2>3, <2>4, <2>5, <2>6, <2>7 DEF ForkInv
<1>5. CASE Fork!worker_return
  <2>1. /\ UNCHANGED <<child, sigchld>> /\ handler' = FALSE /\ eintr' \in BOOLEAN
        /\ mainpc' = IF mainpc = "accept" /\ eintr THEN "test" ELSE mainpc
    BY <1>5 DEF Fork!worker_return, Fork!ReturnFromHandler, ForkInv, Fork!TypeOK
  <2>2. mainpc = "accept" => cfd \notin Fds
    BY DescriptorAssumption DEF ForkInv
  <2>3. Fork!TypeOK'
    BY <1>1, <2>1 DEF ForkInv, Fork!TypeOK
  <2>4. Fork!NothingLeaked'
    BY <1>1, <2>1 DEF ForkInv, Fork!NothingLeaked
  <2>5. ServedOnce' /\ \A p \in Pids : \A d : Serves(p, d)' <=> Serves(p, d)
    BY <1>1, <2>1 DEF ForkInv, ServedOnce, Serves, Fork!Alive
  <2>6. mainpc' = "accept" => cfd' = -1
    BY <1>1, <2>1 DEF ForkInv
  <2>7. mainpc' = "test" /\ cfd' \in Fds => mainpc = "test" /\ cfd \in Fds
    BY <1>1, <2>1, <2>2
  <2>8. \A p \in Pids : child'[p].at = "write" => child'[p].serves # NoClient
    BY <2>1 DEF ForkInv
  <2>9. mainpc' = "test" /\ cfd' \in Fds =>
          open'[cfd'] # NoClient /\ \A p \in Pids : ~ Serves(p, open[cfd])'
    BY <1>1, <2>5, <2>7 DEF ForkInv
  <2> QED
    BY <1>2, <2>3, <2>4, <2>5, <2>6, <2>8, <2>9 DEF ForkInv
<1> QED
  BY <1>2, <1>3, <1>4, <1>5

(* A child                                                                 *)
LEMMA ForkChild ==
  ASSUME KernelInv, ForkInv, NEW p \in Pids, Fork!process(p)
  PROVE  KernelInv' /\ ForkInv'
<1> DEFINE c == child[p].serves
<1>1. UNCHANGED <<cfd, mainpc, eintr, faults, backlog, open, handler>> /\ sigchld' \in BOOLEAN
  BY DEF Fork!process, Fork!ReadData, Fork!WriteBack, Fork!ExitChild, Fork!mainVars, Fork!Move,
         Fork!Exit, Fork!ReadInput, Fork!Send, Fork!SendShort, Fork!Fill, Fork!socketVars,
         ForkInv, Fork!TypeOK
<1>2. /\ child' \in [Pids -> [at : {"unborn", "read", "write", "zombie"},
                              serves : Clients \cup {NoClient}, holds : SUBSET Clients]]
      /\ \A q \in Pids \ {p} : child'[q] = child[q]
      /\ child'[p].serves = c /\ child'[p].holds \subseteq child[p].holds
      /\ Fork!Alive(p)
      /\ child'[p].at = "write" => c # NoClient
  <2>1. CASE Fork!ReadData(p)
    BY <2>1 DEF Fork!ReadData, Fork!Move, Fork!Peer, Fork!Alive, ForkInv, Fork!TypeOK
  <2>2. CASE Fork!WriteBack(p)
    BY <2>2 DEF Fork!WriteBack, Fork!Move, Fork!Peer, Fork!Alive, ForkInv, Fork!TypeOK
  <2>3. CASE Fork!ExitChild(p)
    BY <2>3 DEF Fork!ExitChild, Fork!Exit, Fork!Peer, Fork!Alive, ForkInv, Fork!TypeOK
  <2> QED
    BY <2>1, <2>2, <2>3 DEF Fork!process
<1>3. KernelInv' /\ \A d \in Clients : peer[d] # "idle" => peer'[d] # "idle"
  <2>1. CASE Fork!ReadData(p)
    <3>1. /\ c \in Clients /\ unread[c] \in Nat
          /\ unread' = [unread EXCEPT ![c] = 0] /\ UNCHANGED <<peer, backlog, open>>
      BY <2>1, BoundAssumption DEF Fork!ReadData, Fork!ReadInput, Fork!Peer, ForkInv,
         Fork!TypeOK, KernelInv, SocketsOK
    <3>2. 0 \in 0 .. unread[c]
      BY <3>1
    <3> HIDE DEF c
    <3> QED
      BY <3>1, <3>2, ReadKernel
  <2>2. CASE Fork!WriteBack(p)
    <3>1. c \in Clients /\ Sent(c)
      BY <2>2 DEF Fork!WriteBack, Fork!Peer, Fork!Send, Fork!SendShort, Fork!Fill, Sent,
                  Fork!Move, ForkInv, Fork!TypeOK
    <3> HIDE DEF c
    <3> QED
      BY <3>1, SendKernel
  <2>3. CASE Fork!ExitChild(p)
    BY <2>3, NoKernelStep DEF Fork!ExitChild, Fork!socketVars
  <2> QED
    BY <2>1, <2>2, <2>3 DEF Fork!process
<1>4. Fork!TypeOK'
  BY <1>1, <1>2 DEF ForkInv, Fork!TypeOK
<1>5. Fork!NothingLeaked'
  <2>1. ASSUME "fork" \notin faults, NEW q \in Pids
        PROVE  child'[q].holds \subseteq {child'[q].serves}
    BY <1>2, <2>1 DEF ForkInv, Fork!NothingLeaked
  <2> QED
    BY <1>1, <2>1 DEF ForkInv, Fork!NothingLeaked
<1>6. \A q \in Pids : \A d : Serves(q, d)' => Serves(q, d)
  BY <1>2 DEF Serves, Fork!Alive
<1>7. ServedOnce'
  BY <1>1, <1>3, <1>6, ServedKept DEF ForkInv
<1>8. \A q \in Pids : child'[q].at = "write" => child'[q].serves # NoClient
  BY <1>2 DEF ForkInv
<1> QED
  BY <1>1, <1>3, <1>4, <1>5, <1>6, <1>7, <1>8 DEF ForkInv

(* Every step of fork_server.c keeps its invariant.                        *)
LEMMA ForkStep ==
  ASSUME KernelInv, ForkInv, [Fork!Next]_(Fork!vars)
  PROVE  KernelInv' /\ ForkInv'
<1>1. CASE Fork!Peers
  <2>1. ClientMove /\ UNCHANGED <<child, sigchld, handler, cfd, mainpc, eintr, faults>>
    BY <1>1, ClientMoves DEF Fork!Peers, KernelInv, Fork!childVars, Fork!mainVars
  <2>2. /\ KernelInv' /\ open' = open
        /\ \A c \in Clients : peer[c] # "idle" => peer'[c] # "idle"
        /\ \A c \in Clients : \/ peer[c] = "idle"
                              \/ (\E k \in DOMAIN backlog' : backlog'[k] = c)
                                   => (\E k \in DOMAIN backlog : backlog[k] = c)
    BY <2>1, ClientMoveKernel
  <2>3. \A q \in Pids : \A d : Serves(q, d)' <=> Serves(q, d)
    BY <2>1 DEF Serves, Fork!Alive
  <2>4. ServedOnce'
    BY <2>2, <2>3, ServedKept DEF ForkInv
  <2>5. Fork!TypeOK' /\ Fork!NothingLeaked'
    BY <2>1, <2>2 DEF ForkInv, Fork!TypeOK, Fork!NothingLeaked
  <2> QED
    BY <2>1, <2>2, <2>3, <2>4, <2>5 DEF ForkInv
<1> QED
  BY <1>1, ForkParent, ForkConnection, ForkHandler, ForkChild
     DEF Fork!Next, Fork!main, Fork!worker

-----------------------------------------------------------------------------
(* tcp_pro.cpp: the parent                                                 *)
LEMMA ProQuiet ==
  ASSUME KernelInv, ProInv,
         \/ Pro!ForkFails \/ Pro!sigbc_starts \/ (\E p \in Pids : Pro!sigbc_reaps(p))
         \/ Pro!sigbc_returns \/ UNCHANGED Pro!vars
  PROVE  KernelInv' /\ ProInv'
<1>1. UNCHANGED <<peer, backlog, open, unread, cfd>>
  BY DEF Pro!ForkFails, Pro!sigbc_starts, Pro!sigbc_reaps, Pro!sigbc_returns, Pro!vars,
         Pro!socketVars
<1>2. KernelInv'
  BY <1>1, NoKernelStep
<1>3. \/ mainpc' = mainpc
      \/ mainpc = "fork" /\ mainpc' = "close"
  BY DEF Pro!ForkFails, Pro!sigbc_starts, Pro!sigbc_reaps, Pro!sigbc_returns, Pro!vars, Pro!At
<1>4. /\ sigchld' \in BOOLEAN /\ handler' \in BOOLEAN
      /\ child' = child \/ \E p \in Pids : child' = [child EXCEPT ![p] = Pro!Unborn]
  BY DEF Pro!ForkFails, Pro!sigbc_starts, Pro!sigbc_reaps, Pro!sigbc_returns, Pro!vars,
         Pro!childVars, Pro!Deliver, Pro!Reap, Pro!ReturnFromHandler, ProInv, Pro!TypeOK
<1>5. \A q \in Pids : child'[q] = child[q] \/ child'[q] = Pro!Unborn
  BY <1>4 DEF ProInv, Pro!TypeOK
<1>6. \A q \in Pids : \A d : Serves(q, d)' => Serves(q, d)
  BY <1>5 DEF Serves, Fork!Alive, Pro!Unborn
<1>7. Pro!TypeOK'
  BY <1>1, <1>3, <1>4 DEF ProInv, Pro!TypeOK, Pro!Unborn
<1>8. Pro!NothingLeaked'
  BY <1>1, <1>3, <1>5 DEF ProInv, Pro!NothingLeaked, Pro!Unborn
<1>9. ServedOnce'
  BY <1>1, <1>6, ServedKept DEF ProInv
<1>10. \A q \in Pids : child'[q].at \in {"recv", "answer"} => child'[q].serves # NoClient
  BY <1>5 DEF ProInv, Pro!Unborn
<1>11. mainpc' = "fork" => IsOpen(cfd)' /\ \A p \in Pids : ~ Serves(p, open[cfd])'
  BY <1>1, <1>3, <1>6 DEF ProInv, IsOpen
<1> QED
  BY <1>2, <1>7, <1>8, <1>9, <1>10, <1>11 DEF ProInv

(* tcp_pro.cpp: a connection is accepted, inherited by a child and closed  *)
(* in the parent.                                                          *)
LEMMA ProConnection ==
  ASSUME KernelInv, ProInv, Pro!Accept_com \/ Pro!fork \/ Pro!Close_com
  PROVE  KernelInv' /\ ProInv'
<1> USE DEF Pro!At
<1>1. CASE Pro!Accept_com
  <2>1. PICK f \in Fds : Accept(f) /\ cfd' = f
    BY <1>1 DEF Pro!Accept_com, Pro!Accept, Accept, Pro!FreeFds, FreeFds
  <2>2. PICK c \in Clients : c = Head(backlog)
    BY <2>1, AcceptKernel
  <2>3. /\ KernelInv' /\ peer' = peer
        /\ \A g \in Fds : open'[g] = IF g = f THEN c ELSE open[g]
        /\ \E k \in DOMAIN backlog : backlog[k] = c
        /\ \A d \in Clients : (\E k \in DOMAIN backlog' : backlog'[k] = d)
                                => (\E k \in DOMAIN backlog : backlog[k] = d)
    BY <2>1, <2>2, AcceptKernel
  <2>4. mainpc = "accept" /\ mainpc' = "fork" /\ UNCHANGED <<child, sigchld, handler>>
    BY <1>1 DEF Pro!Accept_com, Pro!childVars
  <2>5. \A p \in Pids : \A d : Serves(p, d)' <=> Serves(p, d)
    BY <2>4 DEF Serves, Fork!Alive
  <2>6. ServedOnce'
    BY <2>3, <2>5, ServedKept DEF ProInv
  <2>7. Pro!TypeOK'
    BY <2>1, <2>4 DEF ProInv, Pro!TypeOK
  <2>8. Pro!NothingLeaked'
    BY <2>1, <2>3, <2>4 DEF ProInv, Pro!NothingLeaked
  <2>9. \A p \in Pids : ~ Serves(p, c)'
    BY <2>3, <2>5 DEF ProInv, ServedOnce
  <2>10. IsOpen(cfd)' /\ open'[cfd'] = c
    BY <2>1, <2>3, ClientAssumption DEF IsOpen
  <2>11. \A q \in Pids : child'[q].at \in {"recv", "answer"} => child'[q].serves # NoClient
    BY <2>4 DEF ProInv
  <2> QED
    BY <2>3, <2>6, <2>7, <2>8, <2>9, <2>10, <2>11 DEF ProInv
<1>2. CASE Pro!fork
  <2>1. /\ UNCHANGED <<peer, backlog, open, unread, cfd>>
        /\ mainpc = "fork" /\ mainpc' = "close"
        /\ Pro!Spawn("recv", open[cfd], Pro!Held)
    BY <1>2 DEF Pro!fork, Pro!socketVars
  <2>2. PICK c \in Clients : /\ c = open[cfd] /\ cfd \in Fds
                             /\ \A p \in Pids : ~ Serves(p, open[cfd])
    BY <2>1 DEF ProInv, IsOpen, KernelInv, SocketsOK
  <2>3. PICK held : held = Pro!Held
    OBVIOUS
  <2>4. held \subseteq {c} /\ held \in SUBSET Clients
    BY <2>2, <2>3 DEF Pro!Held, ProInv, Pro!NothingLeaked
  <2>5. PICK q \in Pids : /\ child[q] = Fork!Unborn
                          /\ child' = [child EXCEPT ![q] =
                                         [at |-> "recv", serves |-> c, holds |-> held]]
    BY <2>1, <2>2, <2>3, SpawnChild
  <2>6. UNCHANGED <<sigchld, handler>>
    BY <2>1, SpawnChild
  <2>7. \A p \in Pids : child'[p] = IF p = q THEN [at |-> "recv", serves |-> c, holds |-> held]
                                            ELSE child[p]
    BY <2>5 DEF ProInv, Pro!TypeOK
  <2>8. Pro!TypeOK'
    <3>1. [at |-> "recv", serves |-> c, holds |-> held]
            \in [at : {"unborn", "recv", "answer", "zombie"}, serves : Clients \cup {NoClient},
                 holds : SUBSET Clients]
      BY <2>4
    <3> QED
      BY <2>1, <2>5, <2>6, <3>1 DEF ProInv, Pro!TypeOK
  <2>9. Pro!NothingLeaked'
    BY <2>1, <2>4, <2>7 DEF ProInv, Pro!NothingLeaked
  <2>10. KernelInv'
    BY <2>1, NoKernelStep
  <2>11. \A p \in Pids : \A d : Serves(p, d)' => Serves(p, d) \/ (p = q /\ d = c)
    BY <2>7 DEF Serves, Fork!Alive
  <2>12. ServedOnce'
    BY <2>1, <2>2, <2>11, ServedNew DEF ProInv
  <2>13. \A p \in Pids : child'[p].at \in {"recv", "answer"} => child'[p].serves # NoClient
    BY <2>2, <2>7, ClientAssumption DEF ProInv
  <2> QED
    BY <2>1, <2>8, <2>9, <2>10, <2>12, <2>13 DEF ProInv
<1>3. CASE Pro!Close_com
  <2>1. /\ Close(cfd) /\ cfd' = -1 /\ mainpc = "close" /\ mainpc' = "accept"
        /\ UNCHANGED <<child, sigchld, handler>>
    BY <1>3 DEF Pro!Close_com, Pro!Close, Close, Pro!childVars
  <2>2. /\ KernelInv' /\ UNCHANGED <<peer, backlog>>
        /\ \A g \in Fds : open'[g] = IF g = cfd THEN NoClient ELSE open[g]
    BY <2>1, CloseKernel
  <2>3. ServedOnce'
    BY <2>1, <2>2 DEF ProInv, ServedOnce, Serves, Fork!Alive
  <2>4. Pro!TypeOK'
    BY <2>1 DEF ProInv, Pro!TypeOK
  <2>5. Pro!NothingLeaked'
    BY <2>1, <2>2 DEF ProInv, Pro!NothingLeaked
  <2>6. \A p \in Pids : child'[p].at \in {"recv", "answer"} => child'[p].serves # NoClient
    BY <2>1 DEF ProInv
  <2> QED
    BY <2>1, <2>2, <2>3, <2>4, <2>5, <2>6 DEF ProInv
<1> QED
  BY <1>1, <1>2, <1>3

(* A child                                                                 *)
LEMMA ProChild ==
  ASSUME KernelInv, ProInv, NEW p \in Pids,
         Pro!Recv(p) \/ Pro!SendAnswer(p) \/ Pro!BrokenPipe(p)
  PROVE  KernelInv' /\ ProInv'
<1> DEFINE c == child[p].serves
<1>1. UNCHANGED <<cfd, mainpc, backlog, open, handler>> /\ sigchld' \in BOOLEAN
  BY DEF Pro!Recv, Pro!SendAnswer, Pro!BrokenPipe, Pro!Move, Pro!Exit, Pro!Send,
         Pro!SendShort, Pro!Fill,
         Pro!socketVars, ProInv, Pro!TypeOK
<1>2. c \in Clients /\ child[p].at \in {"recv", "answer"}
  BY DEF Pro!Recv, Pro!SendAnswer, Pro!BrokenPipe, Pro!Move, ProInv, Pro!TypeOK
<1>3. /\ child' \in [Pids -> [at : {"unborn", "recv", "answer", "zombie"},
                              serves : Clients \cup {NoClient}, holds : SUBSET Clients]]
      /\ \A q \in Pids \ {p} : child'[q] = child[q]
      /\ child'[p].serves = c /\ child'[p].holds \subseteq child[p].holds
  <2>1. CASE Pro!Recv(p)
    BY <2>1 DEF Pro!Recv, Pro!Move, ProInv, Pro!TypeOK
  <2>2. CASE Pro!SendAnswer(p)
    BY <2>2 DEF Pro!SendAnswer, Pro!Move, ProInv, Pro!TypeOK
  <2>3. CASE Pro!BrokenPipe(p)
    BY <2>3 DEF Pro!BrokenPipe, Pro!Exit, ProInv, Pro!TypeOK
  <2> QED
    BY <2>1, <2>2, <2>3
<1>4. KernelInv' /\ \A d \in Clients : peer[d] # "idle" => peer'[d] # "idle"
  <2>1. CASE Pro!Recv(p)
    <3>1. unread' = [unread EXCEPT ![c] = 0] /\ UNCHANGED <<peer, backlog, open>>
      BY <2>1 DEF Pro!Recv, Pro!Peer
    <3>2. 0 \in 0 .. unread[c]
      BY <1>2, BoundAssumption DEF KernelInv, SocketsOK
    <3> HIDE DEF c
    <3> QED
      BY <1>2, <3>1, <3>2, ReadKernel
  <2>2. CASE Pro!SendAnswer(p)
    <3>1. Sent(c)
      BY <2>2 DEF Pro!SendAnswer, Pro!Peer, Pro!Send, Pro!SendShort, Pro!Fill, Sent
    <3> HIDE DEF c
    <3> QED
      BY <1>2, <3>1, SendKernel
  <2>3. CASE Pro!BrokenPipe(p)
    BY <2>3, NoKernelStep DEF Pro!BrokenPipe, Pro!socketVars
  <2> QED
    BY <2>1, <2>2, <2>3
<1>5. Pro!TypeOK'
  BY <1>1, <1>3 DEF ProInv, Pro!TypeOK
<1>6. Pro!NothingLeaked'
  <2>1. ASSUME NEW q \in Pids PROVE child'[q].holds \subseteq {child'[q].serves}
    BY <1>3 DEF ProInv, Pro!NothingLeaked
  <2> QED
    BY <1>1, <2>1 DEF ProInv, Pro!NothingLeaked
<1>7. \A q \in Pids : \A d : Serves(q, d)' => Serves(q, d)
  BY <1>2, <1>3 DEF Serves, Fork!Alive
<1>8. ServedOnce'
  BY <1>1, <1>4, <1>7, ServedKept DEF ProInv
<1>9. \A q \in Pids : child'[q].at \in {"recv", "answer"} => child'[q].serves # NoClient
  BY <1>2, <1>3, ClientAssumption DEF ProInv
<1>10. mainpc' = "fork" => IsOpen(cfd)' /\ \A q \in Pids : ~ Serves(q, open[cfd])'
  BY <1>1, <1>7 DEF ProInv, IsOpen
<1> QED
  BY <1>4, <1>5, <1>6, <1>8, <1>9, <1>10 DEF ProInv

(* Every step of tcp_pro.cpp keeps its invariant.                          *)
LEMMA ProStep ==
  ASSUME KernelInv, ProInv, [Pro!Next]_(Pro!vars)
  PROVE  KernelInv' /\ ProInv'
<1>1. CASE Pro!Peers
  <2>1. ClientMove /\ UNCHANGED <<child, sigchld, handler, cfd, mainpc>>
    BY <1>1, ClientMoves DEF Pro!Peers, KernelInv, Pro!childVars
  <2>2. /\ KernelInv' /\ open' = open
        /\ \A c \in Clients : peer[c] # "idle" => peer'[c] # "idle"
        /\ \A c \in Clients : \/ peer[c] = "idle"
                              \/ (\E k \in DOMAIN backlog' : backlog'[k] = c)
                                   => (\E k \in DOMAIN backlog : backlog[k] = c)
    BY <2>1, ClientMoveKernel
  <2>3. \A q \in Pids : \A d : Serves(q, d)' <=> Serves(q, d)
    BY <2>1 DEF Serves, Fork!Alive
  <2>4. ServedOnce'
    BY <2>2, <2>3, ServedKept DEF ProInv
  <2>5. Pro!TypeOK' /\ Pro!NothingLeaked'
    BY <2>1, <2>2 DEF ProInv, Pro!TypeOK, Pro!NothingLeaked
  <2>6. mainpc' = "fork" => IsOpen(cfd)' /\ \A p \in Pids : ~ Serves(p, open[cfd])'
    BY <2>1, <2>2, <2>3 DEF ProInv, IsOpen
  <2>7. \A q \in Pids : child'[q].at \in {"recv", "answer"} => child'[q].serves # NoClient
    BY <2>1 DEF ProInv
  <2> QED
    BY <2>2, <2>4, <2>5, <2>6, <2>7 DEF ProInv
<1> QED
  BY <1>1, ProQuiet, ProConnection, ProChild DEF Pro!Next, Pro!main, Pro!sigbc

-----------------------------------------------------------------------------
(* tcp_pthread.cpp                                                         *)
LEMMA ThreadQuiet ==
  ASSUME KernelInv, ThreadInv,
         \/ Thread!pthread_detach \/ Thread!CreateFails
         \/ (\E t \in Tids : Thread!BrokenPipe(t)) \/ UNCHANGED Thread!vars
  PROVE  KernelInv' /\ ThreadInv'
<1>1. UNCHANGED <<peer, backlog, open, unread, thread>>
  BY DEF Thread!pthread_detach, Thread!CreateFails, Thread!BrokenPipe, Thread!vars,
         Thread!socketVars
<1>2. KernelInv'
  BY <1>1, NoKernelStep
<1>3. \/ UNCHANGED <<cfd, faults>> /\ (mainpc' = mainpc \/ mainpc' = "exited")
      \/ UNCHANGED <<cfd, faults>> /\ mainpc = "detach" /\ mainpc' = "accept"
      \/ cfd' = -1 /\ faults' = {"create"} /\ mainpc' \in {"accept", "exited"}
  BY DEF Thread!pthread_detach, Thread!CreateFails, Thread!BrokenPipe, Thread!vars, Thread!At
<1>4. Thread!TypeOK'
  BY <1>1, <1>3 DEF ThreadInv, Thread!TypeOK, Thread!Unborn
<1>5. NoneForgotten'
  BY <1>1, <1>3 DEF ThreadInv, NoneForgotten
<1>6. \A t \in Tids : IF thread'[t].at = "unborn" THEN thread'[t] = Thread!Unborn
                                                ELSE IsOpen(thread[t].sock)'
  BY <1>1 DEF ThreadInv, IsOpen
<1>7. mainpc' = "create" => IsOpen(cfd)' /\ \A t \in Tids : thread'[t].sock # cfd'
  BY <1>1, <1>3 DEF ThreadInv, IsOpen
<1> QED
  BY <1>2, <1>4, <1>5, <1>6, <1>7 DEF ThreadInv

(* tcp_pthread.cpp: a connection is accepted and handed to a thread.       *)
LEMMA ThreadConnection ==
  ASSUME KernelInv, ThreadInv, Thread!Accept_csock \/ Thread!pthread_create
  PROVE  KernelInv' /\ ThreadInv'
<1> USE DEF Thread!At
<1>1. CASE Thread!Accept_csock
  <2>1. PICK f \in Fds : Accept(f) /\ cfd' = f
    BY <1>1 DEF Thread!Accept_csock, Thread!Accept, Accept, Thread!FreeFds, FreeFds
  <2>2. PICK c \in Clients : c = Head(backlog)
    BY <2>1, AcceptKernel
  <2>3. /\ KernelInv' /\ open[f] = NoClient
        /\ \A g \in Fds : open'[g] = IF g = f THEN c ELSE open[g]
    BY <2>1, <2>2, AcceptKernel
  <2>4. mainpc = "accept" /\ mainpc' = "create" /\ UNCHANGED <<thread, faults>>
    BY <1>1 DEF Thread!Accept_csock
  <2>5. ASSUME NEW t \in Tids, thread[t].at # "unborn"
        PROVE  /\ thread[t].sock \in Fds /\ thread[t].sock # f
               /\ open'[thread[t].sock] = open[thread[t].sock]
    <3>1. IsOpen(thread[t].sock)
      BY <2>5 DEF ThreadInv
    <3> QED
      BY <2>3, <3>1 DEF IsOpen
  <2>6. Thread!TypeOK'
    BY <2>1, <2>4 DEF ThreadInv, Thread!TypeOK, Thread!Unborn
  <2>7. NoneForgotten'
    <3> SUFFICES ASSUME mainpc' # "exited", "create" \notin faults',
                        NEW g \in Fds, open'[g] # NoClient
                 PROVE  \/ \E t \in Tids : /\ thread'[t].at \in {"recv", "answer"}
                                           /\ open'[thread'[t].sock] = open'[g]
                        \/ mainpc' = "create" /\ open'[cfd'] = open'[g]
      BY DEF NoneForgotten
    <3>1. CASE g # f
      <4>1. PICK t \in Tids : /\ thread[t].at \in {"recv", "answer"}
                              /\ open[thread[t].sock] = open[g]
        BY <2>3, <2>4, <3>1 DEF ThreadInv, NoneForgotten
      <4> QED
        BY <2>3, <2>4, <2>5, <3>1, <4>1
    <3> QED
      BY <2>1, <2>4, <3>1
  <2>8. \A t \in Tids : IF thread'[t].at = "unborn" THEN thread'[t] = Thread!Unborn
                                                  ELSE IsOpen(thread[t].sock)'
    BY <2>4, <2>5 DEF ThreadInv, IsOpen
  <2>9. IsOpen(cfd)'
    BY <2>1, <2>3, ClientAssumption DEF IsOpen
  <2>10. \A t \in Tids : thread'[t].sock # cfd'
    <3>1. ASSUME NEW t \in Tids, thread[t].at = "unborn" PROVE thread[t].sock # f
      BY <3>1, DescriptorAssumption DEF ThreadInv, Thread!Unborn
    <3> QED
      BY <2>1, <2>4, <2>5, <3>1
  <2> QED
    BY <2>3, <2>6, <2>7, <2>8, <2>9, <2>10 DEF ThreadInv
<1>2. CASE Thread!pthread_create
  <2>1. /\ UNCHANGED <<peer, backlog, open, unread, faults>> /\ cfd' = -1
        /\ mainpc = "create" /\ mainpc' = "detach"
        /\ Thread!Free # {}
        /\ thread' = [thread EXCEPT ![Min(Thread!Free)] = [at |-> "recv", sock |-> cfd]]
    BY <1>2 DEF Thread!pthread_create, Thread!socketVars, Thread!Min, Min
  <2>2. Thread!Free \in SUBSET Nat
    BY BoundAssumption DEF Thread!Free
  <2>3. PICK u \in Tids : u = Min(Thread!Free) /\ thread[u] = Thread!Unborn
    <3>1. Min(Thread!Free) \in Thread!Free
      BY <2>1, <2>2, LeastNatural
    <3> QED
      BY <3>1 DEF Thread!Free
  <2>4. /\ thread' \in [Tids -> [at : {"unborn", "recv", "answer"}, sock : Fds \cup {-1}]]
        /\ \A t \in Tids : thread'[t] = IF t = u THEN [at |-> "recv", sock |-> cfd]
                                                 ELSE thread[t]
    BY <2>1, <2>3 DEF ThreadInv, Thread!TypeOK
  <2>5. IsOpen(cfd) /\ \A t \in Tids : thread[t].sock # cfd
    BY <2>1 DEF ThreadInv
  <2>6. KernelInv'
    BY <2>1, NoKernelStep
  <2>7. Thread!TypeOK'
    <3>1. \A s, t \in Tids : s # t /\ thread'[s].sock = thread'[t].sock
                               => thread'[s] = Thread!Unborn
      BY <2>4, <2>5 DEF ThreadInv, Thread!TypeOK
    <3> QED
      BY <2>1, <2>4, <3>1 DEF ThreadInv, Thread!TypeOK, Thread!Unborn
  <2>8. NoneForgotten'
    <3> SUFFICES ASSUME "create" \notin faults',
                        NEW g \in Fds, open'[g] # NoClient
                 PROVE  \E t \in Tids : /\ thread'[t].at \in {"recv", "answer"}
                                        /\ open'[thread'[t].sock] = open'[g]
      BY DEF NoneForgotten
    <3>1. CASE open[cfd] = open[g]
      BY <2>1, <2>4, <3>1
    <3>2. CASE open[cfd] # open[g]
      <4>1. PICK t \in Tids : /\ thread[t].at \in {"recv", "answer"}
                              /\ open[thread[t].sock] = open[g]
        BY <2>1, <3>2 DEF ThreadInv, NoneForgotten
      <4>2. t # u
        BY <2>3, <4>1 DEF Thread!Unborn
      <4> QED
        BY <2>1, <2>4, <4>1, <4>2
    <3> QED
      BY <3>1, <3>2
  <2>9. \A t \in Tids : IF thread'[t].at = "unborn" THEN thread'[t] = Thread!Unborn
                                                  ELSE IsOpen(thread[t].sock)'
    BY <2>1, <2>4, <2>5 DEF ThreadInv, IsOpen
  <2> QED
    BY <2>1, <2>6, <2>7, <2>8, <2>9 DEF ThreadInv
<1> QED
  BY <1>1, <1>2

(* Every step of tcp_pthread.cpp keeps its invariant.                      *)
LEMMA ThreadStep ==
  ASSUME KernelInv, ThreadInv, [Thread!Next]_(Thread!vars)
  PROVE  KernelInv' /\ ThreadInv'
<1>1. ASSUME KernelInv', UNCHANGED <<open, cfd, mainpc, faults>>,
             \/ UNCHANGED thread
             \/ \E t \in Tids : \E to \in {"recv", "answer"} :
                  thread[t].at \in {"recv", "answer"} /\ thread' = [thread EXCEPT ![t].at = to]
      PROVE  ThreadInv'
  <2>1. /\ thread' \in [Tids -> [at : {"unborn", "recv", "answer"}, sock : Fds \cup {-1}]]
        /\ \A t \in Tids : /\ thread'[t].sock = thread[t].sock
                           /\ \/ thread'[t] = thread[t]
                              \/ thread[t].at \in {"recv", "answer"}
                                   /\ thread'[t].at \in {"recv", "answer"}
    <3>1. CASE UNCHANGED thread
      BY <3>1 DEF ThreadInv, Thread!TypeOK
    <3>2. CASE \E t \in Tids : \E to \in {"recv", "answer"} :
                 thread[t].at \in {"recv", "answer"} /\ thread' = [thread EXCEPT ![t].at = to]
      BY <3>2 DEF ThreadInv, Thread!TypeOK
    <3> QED
      BY <1>1, <3>1, <3>2
  <2>2. \A s, t \in Tids : s # t /\ thread'[s].sock = thread'[t].sock
                             => thread'[s] = Thread!Unborn
    BY <2>1 DEF ThreadInv, Thread!TypeOK, Thread!Unborn
  <2>3. Thread!TypeOK'
    BY <1>1, <2>1, <2>2 DEF ThreadInv, Thread!TypeOK, Thread!Unborn
  <2>4. NoneForgotten'
    BY <1>1, <2>1 DEF ThreadInv, NoneForgotten
  <2>5. \A t \in Tids : IF thread'[t].at = "unborn" THEN thread'[t] = Thread!Unborn
                                                  ELSE IsOpen(thread[t].sock)'
    BY <1>1, <2>1 DEF ThreadInv, IsOpen
  <2>6. mainpc' = "create" => IsOpen(cfd)' /\ \A t \in Tids : thread'[t].sock # cfd'
    BY <1>1, <2>1 DEF ThreadInv, IsOpen
  <2> QED
    BY <2>3, <2>4, <2>5, <2>6 DEF ThreadInv
<1>2. CASE Thread!Peers
  <2>1. ClientMove /\ UNCHANGED <<thread, cfd, faults, mainpc>>
    BY <1>2, ClientMoves DEF Thread!Peers, KernelInv
  <2>2. KernelInv' /\ open' = open
    BY <2>1, ClientMoveKernel
  <2> QED
    BY <1>1, <2>1, <2>2
<1>3. ASSUME NEW t \in Tids, thread[t].at # "unborn"
      PROVE  Thread!Peer(t) \in Clients
  BY <1>3 DEF ThreadInv, IsOpen, Thread!Peer, KernelInv, SocketsOK
<1>4. ASSUME NEW t \in Tids, Thread!Recv(t) PROVE KernelInv' /\ ThreadInv'
  <2> DEFINE c == Thread!Peer(t)
  <2>1. /\ unread' = [unread EXCEPT ![c] = 0]
        /\ UNCHANGED <<peer, backlog, open, cfd, faults, mainpc>>
        /\ thread[t].at = "recv" /\ thread' = [thread EXCEPT ![t].at = "answer"]
    BY <1>4 DEF Thread!Recv, Thread!Move
  <2>2. c \in Clients
    BY <1>3, <2>1
  <2> HIDE DEF c
  <2>3. 0 \in 0 .. unread[c]
    BY <2>2, BoundAssumption DEF KernelInv, SocketsOK
  <2>4. KernelInv'
    BY <2>1, <2>2, <2>3, ReadKernel
  <2> QED
    BY <1>1, <2>1, <2>4
<1>5. ASSUME NEW t \in Tids, Thread!SendAnswer(t) PROVE KernelInv' /\ ThreadInv'
  <2> DEFINE c == Thread!Peer(t)
  <2>1. /\ Sent(c) /\ UNCHANGED <<cfd, faults, mainpc>>
        /\ thread[t].at = "answer" /\ thread' = [thread EXCEPT ![t].at = "recv"]
    BY <1>5 DEF Thread!SendAnswer, Thread!Move, Thread!Send, Thread!SendShort, Thread!Fill,
                Sent
  <2>2. c \in Clients
    BY <1>3, <2>1
  <2> HIDE DEF c
  <2>3. KernelInv' /\ open' = open
    BY <2>1, <2>2, SendKernel
  <2> QED
    BY <1>1, <2>1, <2>3
<1> QED
  BY <1>2, <1>4, <1>5, ThreadQuiet, ThreadConnection
     DEF Thread!Next, Thread!main, Thread!start_thr

-----------------------------------------------------------------------------
(* The programs together                                                   *)
LEMMA InitIInv == Init => IInv
<1> SUFFICES ASSUME Init PROVE IInv
  OBVIOUS
<1>1. /\ peer = [c \in Clients |-> "idle"] /\ backlog = <<>>
      /\ open = [f \in Fds |-> NoClient] /\ unread = [c \in Clients |-> 0]
  BY DEF Init, Select!Init, Select!SocketsInit
<1>2. KernelInv
  BY <1>1, BoundAssumption DEF KernelInv, SocketsOK, OneConnection
<1>3. \A f \in Fds : open[f] = NoClient
  BY <1>1
<1>4. SelectInv
  <2>1. reads = {lfd} /\ tmp = {} /\ maxfd = lfd /\ i = 0 /\ pc = "wait"
    BY DEF Init, Select!Init
  <2> QED
    BY <1>3, <2>1, DescriptorAssumption DEF SelectInv, Select!TypeOK, SelectAhead
<1>5. PollInv
  <2>1. /\ allfd = [k \in Poll!Elements |-> [fd |-> IF k = 0 THEN lfd ELSE -1,
                                             events |-> k = 0, revents |-> FALSE]]
        /\ nfds = 0 /\ max_index = 0 /\ i = 0 /\ pc = "wait"
    BY DEF Init, Poll!Init
  <2>2. 0 \in Poll!Elements /\ NumElements \in Nat
    BY PollAssumption, DescriptorAssumption, FS_CardinalityType DEF Poll!Elements
  <2>3. Poll!TypeOK
    BY <2>1, <2>2 DEF Poll!TypeOK, Poll!Pollfd
  <2>4. \A k \in Poll!Elements : allfd[k].fd = IF k = 0 THEN lfd ELSE -1
    BY <2>1
  <2>5. PollElements
    BY <1>3, <2>1, <2>2, <2>4 DEF PollElements
  <2>6. PollAhead = {}
    BY <2>1 DEF PollAhead
  <2> QED
    BY <2>1, <2>3, <2>5, <2>6 DEF PollInv
<1>6. WatchInv
  <2>1. registered = {} /\ faults = {}
    BY DEF Init, Epoll!Init
  <2> QED
    BY <1>3, <2>1 DEF WatchInv, Loose, IsOpen
<1>7. EpollInv
  <2>1. /\ all = [k \in Epoll!Indices |-> Epoll!Unset]
        /\ reported = 0 /\ ret = 0 /\ i = 0 /\ pc = "wait"
    BY DEF Init, Epoll!Init
  <2> QED
    BY <1>6, <2>1, EpollAssumption DEF EpollInv, EpollLoop, EpollTypes, EpollAhead
<1>17. NonblockInv
  <2>1. batch = {} /\ event = lfd /\ ret = 0 /\ pc = "wait"
    BY DEF Init, Nonblock!Init
  <2>2. Nonblock!Cardinality(Fds) \in Nat
    BY DescriptorAssumption, FS_CardinalityType DEF Nonblock!Cardinality, Cardinality
  <2> QED
    BY <1>6, <2>1, <2>2 DEF NonblockInv, NonblockLoop, NonblockTypes
<1>8. child = [p \in Pids |-> Fork!Unborn] /\ sigchld = FALSE /\ handler = FALSE
  BY DEF Init, Fork!Init, Fork!ChildrenInit
<1>9. cfd = -1 /\ mainpc = "accept" /\ eintr = FALSE /\ faults = {}
  BY DEF Init, Fork!Init
<1>10. ServedOnce
  BY <1>8 DEF ServedOnce, Serves, Fork!Alive, Fork!Unborn
<1>11. ForkInv
  BY <1>3, <1>8, <1>9, <1>10
     DEF ForkInv, Fork!TypeOK, Fork!NothingLeaked, Fork!Unborn
<1>12. ProInv
  BY <1>3, <1>8, <1>9, <1>10
     DEF ProInv, Pro!TypeOK, Pro!NothingLeaked, Fork!Unborn
<1>13. ThreadInv
  <2>1. thread = [t \in Tids |-> Thread!Unborn]
    BY DEF Init, Thread!Init
  <2> QED
    BY <1>3, <1>9, <2>1 DEF ThreadInv, Thread!TypeOK, NoneForgotten, Thread!Unborn
<1>14. HttpInv
  BY <1>3, <1>9 DEF HttpInv, Http!TypeOK
<1>15. LibeventInv
  <2>1. bevs = {} /\ output = {} /\ input = {} /\ pc = "wait"
    BY DEF Init, Libevent!Init
  <2> QED
    BY <1>3, <2>1 DEF LibeventInv, Libevent!TypeOK
<1>16. PlaceInv
  BY <1>9 DEF PlaceInv, Init, Select!Init
<1> QED
  BY <1>2, <1>4, <1>5, <1>7, <1>11, <1>12, <1>13, <1>14, <1>15, <1>16, <1>17 DEF Init, IInv

(* Which program runs is decided at the start.                             *)
LEMMA NextIInv == IInv /\ [Next]_vars => IInv'
<1> SUFFICES ASSUME IInv, [Next]_vars PROVE IInv'
  OBVIOUS
<1>1. program' = program /\ PlaceInv'
  <2>1. program' = program
    BY DEF Next, vars, Others
  <2>2. IF program \in Watchers THEN UNCHANGED mainpc ELSE UNCHANGED pc
    BY DEF Next, vars, Others, Watchers
  <2> QED
    BY <2>1, <2>2 DEF IInv, PlaceInv
<1>2. program \in Programs /\ KernelInv
  BY DEF IInv
<1>3. CASE Is("select")
  <2>1. [Select!Next]_(Select!vars)
    BY <1>3 DEF Next, Is, vars, Select!vars
  <2>2. KernelInv' /\ SelectInv'
    BY <1>2, <1>3, <2>1, SelectStep DEF IInv
  <2> QED
    BY <1>1, <1>2, <1>3, <2>2 DEF IInv, Is
<1>4. CASE Is("poll")
  <2>1. [Poll!Next]_(Poll!vars)
    BY <1>4 DEF Next, Is, vars, Poll!vars
  <2>2. KernelInv' /\ PollInv'
    BY <1>2, <1>4, <2>1, PollStep DEF IInv
  <2> QED
    BY <1>1, <1>2, <1>4, <2>2 DEF IInv, Is
<1>5. CASE Is("epoll")
  <2>1. [Epoll!Next]_(Epoll!vars)
    BY <1>5 DEF Next, Is, vars, Epoll!vars
  <2>2. KernelInv' /\ EpollInv'
    BY <1>2, <1>5, <2>1, EpollStep DEF IInv
  <2> QED
    BY <1>1, <1>2, <1>5, <2>2 DEF IInv, Is
<1>6. CASE Is("nonblock")
  <2>1. [Nonblock!Next]_(Nonblock!vars)
    BY <1>6 DEF Next, Is, vars, Nonblock!vars
  <2>2. KernelInv' /\ NonblockInv'
    BY <1>2, <1>6, <2>1, NonblockStep DEF IInv
  <2> QED
    BY <1>1, <1>2, <1>6, <2>2 DEF IInv, Is
<1>7. CASE Is("fork")
  <2>1. [Fork!Next]_(Fork!vars)
    BY <1>7 DEF Next, Is, vars, Fork!vars
  <2>2. KernelInv' /\ ForkInv'
    BY <1>2, <1>7, <2>1, ForkStep DEF IInv
  <2> QED
    BY <1>1, <1>2, <1>7, <2>2 DEF IInv, Is
<1>8. CASE Is("pro")
  <2>1. [Pro!Next]_(Pro!vars)
    BY <1>8 DEF Next, Is, vars, Pro!vars
  <2>2. KernelInv' /\ ProInv'
    BY <1>2, <1>8, <2>1, ProStep DEF IInv
  <2> QED
    BY <1>1, <1>2, <1>8, <2>2 DEF IInv, Is
<1>9. CASE Is("thread")
  <2>1. [Thread!Next]_(Thread!vars)
    BY <1>9 DEF Next, Is, vars, Thread!vars
  <2>2. KernelInv' /\ ThreadInv'
    BY <1>2, <1>9, <2>1, ThreadStep DEF IInv
  <2> QED
    BY <1>1, <1>2, <1>9, <2>2 DEF IInv, Is
<1>10. CASE Is("http")
  <2>1. [Http!Next]_(Http!vars)
    BY <1>10 DEF Next, Is, vars, Http!vars
  <2>2. KernelInv' /\ HttpInv'
    BY <1>2, <1>10, <2>1, HttpStep DEF IInv
  <2> QED
    BY <1>1, <1>2, <1>10, <2>2 DEF IInv, Is
<1>11. CASE Is("libevent")
  <2>1. [Libevent!Next]_(Libevent!vars)
    BY <1>11 DEF Next, Is, vars, Libevent!vars
  <2>2. KernelInv' /\ LibeventInv'
    BY <1>2, <1>11, <2>1, LibeventStep DEF IInv
  <2> QED
    BY <1>1, <1>2, <1>11, <2>2 DEF IInv, Is
<1> QED
  BY <1>2, <1>3, <1>4, <1>5, <1>6, <1>7, <1>8, <1>9, <1>10, <1>11 DEF Programs, Is

(* Whichever program was started, its invariant holds at every moment.     *)
THEOREM Invariance == Spec => []IInv
BY InitIInv, NextIInv, PTL DEF Spec

-----------------------------------------------------------------------------
(* What follows from the invariant                                         *)

(* The invariant has the ranges.                                           *)
LEMMA InvType == IInv => TypeOK
<1> SUFFICES ASSUME IInv PROVE TypeOK
  OBVIOUS
<1>1. SocketsOK /\ program \in Programs
  BY DEF IInv, KernelInv
<1>2. /\ Is("select") => Select!TypeOK
      /\ Is("poll") => Poll!TypeOK
      /\ Is("epoll") => Epoll!TypeOK
      /\ Is("nonblock") => Nonblock!TypeOK
      /\ Is("fork") => Fork!TypeOK
      /\ Is("pro") => Pro!TypeOK
      /\ Is("thread") => Thread!TypeOK
      /\ Is("http") => Http!TypeOK
      /\ Is("libevent") => Libevent!TypeOK
  BY DEF IInv, SelectInv, PollInv, ForkInv, ProInv, ThreadInv, HttpInv, LibeventInv,
         EpollInv, WatchInv, EpollLoop, EpollTypes, Epoll!TypeOK,
         NonblockInv, NonblockLoop, NonblockTypes, Nonblock!TypeOK
<1> QED
  BY <1>1, <1>2 DEF TypeOK, SocketsOK, Programs, Is

(* What a program has reported and not visited yet is what its invariant   *)
(* says is readable.                                                       *)
LEMMA InvReported == IInv => ReportedReadable
<1> SUFFICES ASSUME IInv PROVE ReportedReadable
  OBVIOUS
<1>1. ASSUME Is("select"), NEW f \in Select!Reported
      PROVE  open[f] # NoClient /\ Readable(open[f])
  <2>1. pc = "scan" /\ i <= f /\ f \in tmp /\ i > lfd /\ f # lfd
    BY <1>1, DescriptorAssumption
       DEF Select!Reported, Select!Remaining, IInv, SelectInv, Select!TypeOK
  <2>2. f \in reads /\ Readable(open[f])
    BY <1>1, <2>1 DEF SelectAhead, IInv, SelectInv
  <2> QED
    BY <1>1, <2>1, <2>2 DEF IInv, SelectInv, Select!TypeOK
<1>2. ASSUME Is("poll"), NEW f \in Poll!Reported
      PROVE  open[f] # NoClient /\ Readable(open[f])
  <2>1. PICK k \in Poll!Remaining : k < nfds /\ f = allfd[k].fd /\ pc = "scan"
    BY <1>2 DEF Poll!Reported
  <2>2. k \in PollAhead /\ k \in Poll!Elements \ {0} /\ f # -1
    BY <2>1 DEF PollAhead, Poll!Remaining
  <2> QED
    BY <1>2, <2>1, <2>2 DEF IInv, PollInv, PollElements, IsOpen
<1>3. ASSUME Is("epoll"), NEW f \in Epoll!Reported
      PROVE  open[f] # NoClient /\ Readable(open[f])
  <2>1. /\ pc = "loop" /\ i <= ret /\ i <= reported /\ f = all[i] /\ f \in Fds
    BY <1>3 DEF Epoll!Reported, Epoll!InLoop
  <2>2. i \in EpollAhead
    BY <1>3, <2>1, EpollAssumption DEF EpollAhead, IInv, EpollInv, EpollLoop, EpollTypes
  <2> QED
    BY <1>3, <2>1, <2>2 DEF IInv, EpollInv, EpollLoop
<1>4. ASSUME Is("nonblock"), NEW f \in Nonblock!Reported
      PROVE  open[f] # NoClient /\ Readable(open[f])
  BY <1>4 DEF Nonblock!Reported, Nonblock!InLoop, IInv, NonblockInv, NonblockLoop, WatchInv
<1>5. program \in Programs
  BY DEF IInv
<1> QED
  BY <1>1, <1>2, <1>3, <1>4, <1>5 DEF ReportedReadable, Programs, Is

(* What is open is known to the program, by its invariant.                 *)
LEMMA InvLeaked == IInv => NothingLeaked
<1> SUFFICES ASSUME IInv PROVE NothingLeaked
  OBVIOUS
<1>1. Is("fork") => Fork!NothingLeaked
  BY DEF IInv, ForkInv
<1>2. Is("pro") => Pro!NothingLeaked
  BY DEF IInv, ProInv
<1>3. Is("thread") => Thread!NothingLeaked
  BY DEF IInv, ThreadInv, NoneForgotten, Thread!NothingLeaked, Thread!Over, Thread!InService,
         Thread!Arriving, Thread!Sock
<1>4. ASSUME Is("select"), NEW f \in Fds, open[f] # NoClient PROVE f \in Select!Tended
  BY <1>4, DescriptorAssumption DEF IInv, SelectInv, Select!Tended
<1>5. ASSUME Is("poll"), NEW f \in Fds, open[f] # NoClient PROVE f \in Poll!Tended
  BY <1>5 DEF IInv, PollInv, PollElements, Poll!Tended
<1>6. /\ Is("epoll") => Epoll!NothingLeaked
      /\ Is("nonblock") => Nonblock!NothingLeaked
  BY DEF IInv, EpollInv, NonblockInv, WatchInv, Loose, IsOpen, Epoll!NothingLeaked,
         Epoll!Unwatched, Nonblock!NothingLeaked, Nonblock!Unwatched
<1>7. ASSUME Is("http"), NEW f \in Fds, open[f] # NoClient PROVE f \in Http!Tended
  BY <1>7 DEF IInv, HttpInv, Http!Tended
<1>8. ASSUME Is("libevent"), NEW f \in Fds, open[f] # NoClient PROVE f \in Libevent!Tended
  BY <1>8 DEF IInv, LibeventInv, Libevent!Tended
<1>9. program \in Programs
  BY DEF IInv
<1> QED
  BY <1>1, <1>2, <1>3, <1>4, <1>5, <1>6, <1>7, <1>8, <1>9 DEF NothingLeaked, Programs, Is

-----------------------------------------------------------------------------
(* The promise of ConnectionService, step by step.                         *)
Answered == Is("http") /\ mainpc = "close"
Left == {c \in Clients : peer[c] \in {"fin", "rst"}}
StateOf(c) == IF Over THEN "done"
              ELSE IF c \in InService THEN IF Answered THEN "answered" ELSE "in"
              ELSE IF c \in Arriving THEN "out" ELSE "done"
Promised == [Service!Next]_(Service!vars)

(* What a client may do, or a step that takes nothing of what it sent: it  *)
(* leaves, or sends.                                                       *)
ClientDoes == \/ Left' = Left /\ unread' = unread
              \/ \E c \in Clients : Left' = Left \cup {c} /\ unread' = unread
              \/ \E c \in Clients : /\ c \notin Left /\ Left' = Left
                                    /\ unread' = [unread EXCEPT ![c] = unread[c] + 1]

(* A server takes some of what c has sent, or, if it is blind, nothing     *)
(* from one that has left.                                                 *)
Blind == program \in {"http", "pro", "thread"}
Taken(c) == \/ /\ unread[c] > 0
               /\ \E n \in 0 .. unread[c] - 1 : unread' = [unread EXCEPT ![c] = n]
            \/ Blind /\ c \in Left /\ unread[c] = 0 /\ unread' = unread

(* A step that changes nothing a client of the service could see.          *)
LEMMA NothingShows ==
  ASSUME program' = program, Over' <=> Over, Owed' = Owed, Left' = Left, unread' = unread,
         \A c \in Clients : StateOf(c)' = StateOf(c)
  PROVE  Promised
BY DEF Promised, Service!vars, StateOf, Answered, Left

(* A server may stop, whatever it leaves behind.                           *)
LEMMA ServerStops ==
  ASSUME program' = program, ~ Over, Over', Left' = Left, unread' = unread
  PROVE  Promised
<1>1. Service!Stop
  BY DEF Service!Stop, Left
<1> QED
  BY <1>1 DEF Promised, Service!Next

(* A client sends or leaves, and nothing else can be seen.                 *)
LEMMA ClientShows ==
  ASSUME program' = program, Over' <=> Over, Owed' = Owed, ClientDoes,
         \A d \in Clients : StateOf(d)' = StateOf(d)
  PROVE  Promised
<1>1. CASE Left' = Left /\ unread' = unread
  BY <1>1, NothingShows
<1>2. ASSUME NEW c \in Clients, Left' = Left \cup {c}, unread' = unread
      PROVE  Promised
  <2>1. Service!Leave(c)
    BY <1>2 DEF Service!Leave, StateOf, Answered, Left
  <2> QED
    BY <2>1 DEF Promised, Service!Next
<1>3. ASSUME NEW c \in Clients, c \notin Left, Left' = Left,
             unread' = [unread EXCEPT ![c] = unread[c] + 1]
      PROVE  Promised
  <2>1. Service!Put(c)
    BY <1>3 DEF Service!Put, StateOf, Answered, Left
  <2> QED
    BY <2>1 DEF Promised, Service!Next
<1> QED
  BY <1>1, <1>2, <1>3 DEF ClientDoes

(* One connection goes on.                                                 *)
LEMMA OneMoves ==
  ASSUME program' = program, ~ Over, ~ Over', Left' = Left, NEW c \in Clients, NEW to,
         \A d \in Clients : StateOf(d)' = IF d = c THEN to ELSE StateOf(d),
         \/ /\ StateOf(c) = "out" /\ to \in {"in", "done"} /\ Owed' = Owed
            /\ unread' = unread
         \/ /\ StateOf(c) = "in" /\ to = "in" /\ Owed' = Owed \cup {c}
            /\ Taken(c)
         \/ /\ StateOf(c) = "in" /\ to \in {"in", "answered"}
            /\ c \in Owed /\ Owed' = Owed \ {c} /\ unread' = unread
         \/ /\ \/ StateOf(c) = "in" /\ c \in Left
               \/ StateOf(c) = "answered"
            /\ to = "done" /\ Owed' = Owed \ {c} /\ unread' = unread
  PROVE  Promised
<1> DEFINE s == [d \in Clients |-> StateOf(d)]
<1>1. s' = [s EXCEPT ![c] = to] /\ s[c] = StateOf(c)
  OBVIOUS
<1>2. ASSUME NEW from, StateOf(c) = from PROVE Service!Step(c, from, to)
  BY <1>1, <1>2 DEF Service!Step, StateOf, Answered, Left
<1>3. CASE /\ StateOf(c) = "out" /\ to \in {"in", "done"} /\ Owed' = Owed
           /\ unread' = unread
  <2>1. Service!Admit(c) \/ Service!TurnAway(c)
    BY <1>2, <1>3 DEF Service!Admit, Service!TurnAway
  <2> QED
    BY <2>1 DEF Promised, Service!Next
<1>4. CASE /\ StateOf(c) = "in" /\ to = "in" /\ Owed' = Owed \cup {c}
           /\ Taken(c)
  <2>1. Service!Step(c, "in", "in") /\ Owed \cup {c} = (IF Over THEN {} ELSE Owed) \cup {c}
    BY <1>2, <1>4
  <2>2. Service!Take(c) \/ Service!TakeNothing(c)
    BY <1>4, <2>1 DEF Service!Take, Service!TakeNothing, Taken, Blind, Left
  <2> QED
    BY <2>2 DEF Promised, Service!Next
<1>5. CASE /\ StateOf(c) = "in" /\ to \in {"in", "answered"}
           /\ c \in Owed /\ Owed' = Owed \ {c} /\ unread' = unread
  <2>1. Service!Answer(c, FALSE) \/ Service!Answer(c, TRUE)
    BY <1>2, <1>5 DEF Service!Answer
  <2> QED
    BY <2>1 DEF Promised, Service!Next
<1>6. CASE /\ \/ StateOf(c) = "in" /\ c \in Left
              \/ StateOf(c) = "answered"
           /\ to = "done" /\ Owed' = Owed \ {c} /\ unread' = unread
  <2>1. Service!Dismiss(c)
    BY <1>2, <1>6 DEF Service!Dismiss, Left
  <2> QED
    BY <2>1 DEF Promised, Service!Next
<1> QED
  BY <1>3, <1>4, <1>5, <1>6

-----------------------------------------------------------------------------
(* What the kernel's operations do to the clients that are connected or    *)
(* queued.                                                                 *)
LEMMA ClientMoveSeen ==
  ASSUME KernelInv, ClientMove
  PROVE  /\ Connected' = Connected /\ Queued' = Queued
         /\ ClientDoes
<1>1. PICK c \in Clients : \/ Connect(c) \/ Nonblock!SendMessage(c) \/ ReadAnswers(c)
                           \/ \E how \in {"fin", "rst"} : Hangup(c, how)
  BY DEF ClientMove
<1>2. open' = open /\ KernelInv'
  BY ClientMoveKernel
<1>3. Connected' = Connected
  BY <1>2 DEF Connected
<1>4. CASE Connect(c)
  <2>1. /\ peer[c] = "idle"
        /\ \A d \in Clients : peer'[d] = IF d = c THEN "up" ELSE peer[d]
    BY <1>4 DEF Connect, KernelInv, SocketsOK
  <2>2. /\ DOMAIN backlog' = 1 .. Len(backlog) + 1 /\ DOMAIN backlog = 1 .. Len(backlog)
        /\ Len(backlog) \in Nat /\ backlog'[Len(backlog) + 1] = c
        /\ \A k \in 1 .. Len(backlog) : backlog'[k] = backlog[k]
    BY <1>4 DEF KernelInv, SocketsOK, Connect
  <2>3. \A d \in Clients : (\E k \in DOMAIN backlog' : backlog'[k] = d)
                             <=> d = c \/ \E k \in DOMAIN backlog : backlog[k] = d
    BY <2>2
  <2>4. Queued' = Queued /\ Left' = Left
    BY <2>1, <2>3 DEF Queued, Left
  <2>5. unread' = unread
    BY <1>4 DEF Connect
  <2> QED
    BY <1>3, <2>4, <2>5 DEF ClientDoes
<1>5. CASE Nonblock!SendMessage(c)
  <2>1. /\ UNCHANGED <<peer, backlog>> /\ Up(c)
        /\ unread' = [unread EXCEPT ![c] = unread[c] + 1]
    BY <1>5 DEF Nonblock!SendMessage, Nonblock!Up, Up
  <2>2. Queued' = Queued /\ Left' = Left /\ c \notin Left
    BY <2>1 DEF Queued, Left, Up
  <2> QED
    BY <1>3, <2>1, <2>2 DEF ClientDoes
<1>6. ASSUME NEW how \in {"fin", "rst"}, Hangup(c, how)
      PROVE  Queued' = Queued /\ ClientDoes
  <2>1. /\ Up(c) /\ UNCHANGED <<backlog, unread>>
        /\ \A d \in Clients : peer'[d] = IF d = c THEN how ELSE peer[d]
    BY <1>6 DEF Hangup, KernelInv, SocketsOK
  <2>2. Queued' = Queued /\ Left' = Left \cup {c}
    BY <2>1 DEF Queued, Left, Up
  <2> QED
    BY <2>1, <2>2 DEF ClientDoes
<1>7. CASE ReadAnswers(c)
  <2>1. /\ peer[c] = "full" /\ UNCHANGED <<backlog, unread>>
        /\ \A d \in Clients : peer'[d] = IF d = c THEN "up" ELSE peer[d]
    BY <1>7 DEF ReadAnswers, KernelInv, SocketsOK
  <2>2. Queued' = Queued /\ Left' = Left
    BY <2>1 DEF Queued, Left
  <2> QED
    BY <1>3, <2>1, <2>2 DEF ClientDoes
<1> QED
  BY <1>1, <1>3, <1>4, <1>5, <1>6, <1>7

(* accept moves one client from the queue to a descriptor.                 *)
LEMMA AcceptSeen ==
  ASSUME KernelInv, NEW f \in Fds, Accept(f)
  PROVE  \E c \in Clients :
           /\ c = Head(backlog) /\ open'[f] = c /\ c \in Queued /\ c \notin Connected
           /\ Connected' = Connected \cup {c} /\ Queued' = Queued \ {c} /\ Left' = Left
           /\ unread' = unread
           /\ \A g \in Fds : open'[g] = IF g = f THEN c ELSE open[g]
<1>1. PICK c \in Clients : c = Head(backlog)
  BY AcceptKernel
<1>2. /\ UNCHANGED <<peer, unread>> /\ peer[c] # "idle" /\ open[f] = NoClient
      /\ \A g \in Fds : /\ open[g] # c
                        /\ open'[g] = IF g = f THEN c ELSE open[g]
      /\ \E k \in DOMAIN backlog : backlog[k] = c
      /\ \A d \in Clients : (\E k \in DOMAIN backlog' : backlog'[k] = d)
                              <=> (d # c /\ \E k \in DOMAIN backlog : backlog[k] = d)
  BY <1>1, AcceptKernel
<1>3. c \in Queued /\ Queued' = Queued \ {c} /\ Left' = Left
  BY <1>2 DEF Queued, Left
<1>4. c \notin Connected /\ Connected' = Connected \cup {c}
  BY <1>2, ClientAssumption DEF Connected
<1> QED
  BY <1>1, <1>2, <1>3, <1>4

(* An answer moves nobody, also when the client resets.                    *)
LEMMA SendSeen ==
  ASSUME KernelInv, NEW c \in Clients, Sent(c)
  PROVE  Connected' = Connected /\ Queued' = Queued /\ Left' = Left /\ unread' = unread
<1>1. /\ UNCHANGED <<backlog, open, unread>>
      /\ \A d \in Clients : /\ (peer'[d] = "idle") <=> (peer[d] = "idle")
                            /\ (peer'[d] \in {"fin", "rst"}) <=> (peer[d] \in {"fin", "rst"})
  BY SendKernel
<1> QED
  BY <1>1 DEF Connected, Queued, Left

(* close takes away the one client of the descriptor.                      *)
LEMMA CloseSeen ==
  ASSUME KernelInv, NEW f, Close(f)
  PROVE  /\ Queued' = Queued /\ Left' = Left /\ unread' = unread
         /\ IsOpen(f) => Connected' = Connected \ {open[f]}
<1>1. /\ UNCHANGED <<peer, backlog, unread>>
      /\ \A g \in Fds : open'[g] = IF g = f THEN NoClient ELSE open[g]
  BY CloseKernel
<1>2. ASSUME IsOpen(f) PROVE Connected' = Connected \ {open[f]}
  BY <1>1, <1>2 DEF Connected, IsOpen, KernelInv, OneConnection
<1> QED
  BY <1>1, <1>2 DEF Queued, Left

(* The client of an open descriptor is no longer in the queue.             *)
LEMMA OpenSeen ==
  ASSUME KernelInv, NEW f, IsOpen(f)
  PROVE  open[f] \in Clients /\ open[f] \in Connected /\ open[f] \notin Queued
BY DEF KernelInv, SocketsOK, OneConnection, Connected, Queued, IsOpen

-----------------------------------------------------------------------------
(* The programs that wait for several descriptors serve every connection   *)
(* that is open.                                                           *)
Direct == InService = Connected /\ Arriving = Queued

(* They stop only by exiting, and none of their answers is the last.       *)
LEMMA WatchersDirect ==
  ASSUME IInv, IInv', program' = program, program \in Watchers
  PROVE  /\ Direct /\ Direct' /\ ~ Answered /\ ~ Answered'
         /\ Over <=> pc = "exited"
         /\ Over' <=> pc' = "exited"
<1>1. ~ Is("fork") /\ ~ Is("pro") /\ ~ Is("thread") /\ ~ Is("http")
  BY DEF Watchers, Is
<1>2. ~ Is("fork")' /\ ~ Is("pro")' /\ ~ Is("thread")' /\ ~ Is("http")'
  BY DEF Watchers, Is
<1>3. InService = Connected /\ InService' = Connected'
  BY <1>1, <1>2 DEF InService
<1>4. Arriving = Queued \cup {} /\ Arriving' = Queued' \cup {}
  BY <1>1, <1>2 DEF Arriving
<1>5. mainpc = "accept" /\ mainpc' = "accept"
  BY DEF IInv, PlaceInv
<1>6. /\ Over <=> pc = "exited"
      /\ Over' <=> pc' = "exited"
  BY <1>1, <1>2, <1>5 DEF Over, Is
<1> QED
  BY <1>1, <1>2, <1>3, <1>4, <1>6 DEF Direct, Answered

(* A step that neither accepts, reads nor closes.                          *)
LEMMA DirectQuiet ==
  ASSUME program' = program, Direct, Direct', Over' <=> Over, Answered' <=> Answered, Owed' = Owed,
         UNCHANGED <<peer, backlog, open, unread>> \/ \E c \in Clients : Sent(c), KernelInv
  PROVE  Promised
<1>1. Connected' = Connected /\ Queued' = Queued /\ Left' = Left /\ unread' = unread
  BY SendSeen DEF Connected, Queued, Left
<1> QED
  BY <1>1, NothingShows DEF StateOf, Direct

(* A step of a client: it comes, sends or leaves.                          *)
LEMMA DirectPeers ==
  ASSUME program' = program, KernelInv, ClientMove, Direct, Direct', Over' <=> Over,
         Answered' <=> Answered, Owed' = Owed
  PROVE  Promised
<1>1. \A c \in Clients : StateOf(c)' = StateOf(c)
  BY ClientMoveSeen DEF StateOf, Direct
<1> QED
  BY <1>1, ClientMoveSeen, ClientShows

(* accept admits a client.                                                 *)
LEMMA DirectAdmits ==
  ASSUME program' = program, KernelInv, NEW f \in Fds, Accept(f), Direct, Direct', ~ Over, ~ Over',
         ~ Answered, ~ Answered', Owed' = Owed
  PROVE  Promised
<1>1. PICK c \in Clients :
        /\ c \in Queued /\ c \notin Connected
        /\ Connected' = Connected \cup {c} /\ Queued' = Queued \ {c}
        /\ Left' = Left /\ unread' = unread
  BY AcceptSeen
<1>2. StateOf(c) = "out"
  BY <1>1 DEF StateOf, Direct
<1>3. \A d \in Clients : StateOf(d)' = IF d = c THEN "in" ELSE StateOf(d)
  BY <1>1 DEF StateOf, Direct
<1> QED
  BY <1>1, <1>2, <1>3, OneMoves

(* recv takes input, to which an answer is owed.                           *)
LEMMA DirectTakes ==
  ASSUME program' = program, KernelInv, NEW f, IsOpen(f),
         UNCHANGED <<peer, backlog, open>>, Taken(open[f]),
         Direct, Direct', ~ Over, ~ Over', ~ Answered, ~ Answered',
         Owed' = Owed \cup {open[f]}
  PROVE  Promised
<1>1. PICK c \in Clients : c = open[f] /\ c \in Connected
  BY OpenSeen
<1>2. Connected' = Connected /\ Queued' = Queued /\ Left' = Left
  BY DEF Connected, Queued, Left
<1>3. StateOf(c) = "in" /\ \A d \in Clients : StateOf(d)' = StateOf(d)
  BY <1>1, <1>2 DEF StateOf, Direct
<1>4. \A d \in Clients : StateOf(d)' = IF d = c THEN "in" ELSE StateOf(d)
  BY <1>3
<1> QED
  BY <1>1, <1>2, <1>3, <1>4, OneMoves

(* send answers what was taken.                                            *)
LEMMA DirectAnswers ==
  ASSUME program' = program, KernelInv, NEW f, IsOpen(f), Sent(open[f]),
         Direct, Direct', ~ Over, ~ Over', ~ Answered, ~ Answered',
         open[f] \in Owed, Owed' = Owed \ {open[f]}
  PROVE  Promised
<1>1. PICK c \in Clients : c = open[f] /\ c \in Connected
  BY OpenSeen
<1>2. Connected' = Connected /\ Queued' = Queued /\ Left' = Left /\ unread' = unread
  BY <1>1, SendSeen
<1>3. StateOf(c) = "in" /\ \A d \in Clients : StateOf(d)' = StateOf(d)
  BY <1>1, <1>2 DEF StateOf, Direct
<1>4. \A d \in Clients : StateOf(d)' = IF d = c THEN "in" ELSE StateOf(d)
  BY <1>3
<1> QED
  BY <1>1, <1>2, <1>3, <1>4, OneMoves

(* close dismisses a client that has left or got its last answer.          *)
LEMMA DirectDismisses ==
  ASSUME program' = program, KernelInv, NEW f, IsOpen(f), Close(f), Direct, Direct',
         ~ Over, ~ Over',
         \/ ~ Answered /\ ~ Answered' /\ open[f] \in Left
         \/ Answered /\ ~ Answered' /\ Connected \subseteq {open[f]},
         Owed' = Owed \ {open[f]}
  PROVE  Promised
<1>1. PICK c \in Clients : c = open[f] /\ c \in Connected /\ c \notin Queued
  BY OpenSeen
<1>2. Connected' = Connected \ {c} /\ Queued' = Queued /\ Left' = Left /\ unread' = unread
  BY <1>1, CloseSeen
<1>3. StateOf(c) = IF Answered THEN "answered" ELSE "in"
  BY <1>1 DEF StateOf, Direct
<1>4. \A d \in Clients : StateOf(d)' = IF d = c THEN "done" ELSE StateOf(d)
  BY <1>1, <1>2 DEF StateOf, Direct
<1> QED
  BY <1>1, <1>2, <1>3, <1>4, OneMoves

(* What a read takes: all the input there is, or, where the result is not   *)
(* looked at, nothing.                                                     *)
LEMMA ReadTakes ==
  ASSUME KernelInv, NEW c \in Clients, unread' = [unread EXCEPT ![c] = 0],
         HasInput(c) \/ (Blind /\ Readable(c))
  PROVE  Taken(c)
<1>1. unread \in [Clients -> 0 .. MaxUnread + 1] /\ MaxUnread \in Nat
  BY BoundAssumption DEF KernelInv, SocketsOK
<1>2. CASE HasInput(c)
  <2>1. unread[c] > 0 /\ 0 \in 0 .. unread[c] - 1
    BY <1>1, <1>2 DEF HasInput
  <2> QED
    BY <2>1 DEF Taken
<1>3. CASE ~ HasInput(c)
  <2>1. unread[c] = 0 /\ unread' = unread
    BY <1>1, <1>3 DEF HasInput
  <2>2. Blind /\ c \in Left
    BY <1>3 DEF Readable, Left
  <2> QED
    BY <2>1, <2>2 DEF Taken
<1> QED
  BY <1>2, <1>3

(* Nobody leaves unless a peer changes.                                    *)
LEMMA PeerKept ==
  ASSUME UNCHANGED peer
  PROVE  Left' = Left
BY DEF Left

-----------------------------------------------------------------------------
(* Every step of select.c keeps the promise.                               *)
LEMMA SelectPromise ==
  ASSUME IInv, IInv', program' = program, Is("select"), [Select!Next]_(Select!vars)
  PROVE  Promised
<1> USE DEF Select!At
<1>1. KernelInv /\ SelectInv /\ program \in Watchers
  BY DEF IInv, Is, Watchers
<1>2. /\ Direct /\ Direct' /\ ~ Answered /\ ~ Answered'
      /\ Over <=> pc = "exited"
      /\ Over' <=> pc' = "exited"
  BY <1>1, WatchersDirect
<1>3. /\ Owed = IF pc = "send" THEN {open[i]} ELSE {}
      /\ Owed' = IF pc' = "send" THEN {open'[i']} ELSE {}
  <2>1. Owed = Select!Owed
    BY DEF Owed, Is
  <2>2. Owed' = Select!Owed'
    BY DEF Owed, Is
  <2> QED
    BY <2>1, <2>2 DEF Select!Owed
<1>4. CASE Select!select \/ Select!NoConnection \/ Select!ScanDone \/ UNCHANGED Select!vars
  <2>1. UNCHANGED <<peer, backlog, open, unread>> /\ (pc' = "exited" <=> pc = "exited")
        /\ (pc' = "send" <=> pc = "send") /\ (pc = "send" => i' = i)
    BY <1>4 DEF Select!select, Select!NoConnection, Select!ScanDone, Select!vars,
                Select!socketVars
  <2> QED
    BY <1>1, <1>2, <1>3, <2>1, DirectQuiet
<1>5. CASE \/ Select!AcceptFails \/ Select!BrokenPipe
           \/ \E f \in Fds : Select!RecvFails(f)
  <2>1. pc # "exited" /\ pc' = "exited" /\ UNCHANGED <<peer, unread>>
    BY <1>5 DEF Select!AcceptFails, Select!BrokenPipe, Select!RecvFails, Select!socketVars
  <2> QED
    BY <1>2, <2>1, PeerKept, ServerStops
<1>6. CASE Select!AcceptConnection
  <2>1. PICK f \in Fds : Accept(f)
    BY <1>6 DEF Select!AcceptConnection, Select!Accept, Accept, Select!FreeFds, FreeFds
  <2>2. pc = "accept" /\ pc' = "scan"
    BY <1>6 DEF Select!AcceptConnection
  <2> QED
    BY <1>1, <1>2, <1>3, <2>1, <2>2, DirectAdmits
<1>7. ASSUME NEW f \in Fds, Select!Next_i(f), pc = "scan" PROVE IsOpen(f)
  <2>1. f \in SelectAhead
    BY <1>7, DescriptorAssumption DEF SelectAhead, Select!Next_i, Select!Remaining
  <2> QED
    BY <1>1, <2>1 DEF SelectInv, IsOpen
<1>8. ASSUME NEW f \in Fds, Select!RecvData(f) PROVE Promised
  <2>1. /\ pc = "scan" /\ pc' = "send" /\ i' = f /\ UNCHANGED <<peer, backlog, open>>
        /\ Select!Next_i(f) /\ HasInput(open[f]) /\ unread' = [unread EXCEPT ![open[f]] = 0]
    BY <1>8 DEF Select!RecvData, Select!ReadInput, Select!HasInput, HasInput
  <2>2. IsOpen(f)
    BY <1>7, <2>1
  <2>3. Taken(open[f])
    BY <1>1, <2>1, <2>2, OpenSeen, ReadTakes
  <2> QED
    BY <1>1, <1>2, <1>3, <2>1, <2>2, <2>3, DirectTakes
<1>9. CASE Select!SendBack
  <2>1. pc = "send" /\ pc' = "scan" /\ Sent(open[i]) /\ IsOpen(i)
    BY <1>1, <1>9 DEF Select!SendBack, Select!Send, Select!SendShort, Select!Fill, Sent,
                      SelectInv
  <2> QED
    BY <1>1, <1>2, <1>3, <2>1, DirectAnswers
<1>10. ASSUME NEW f \in Fds, Select!RecvZero(f) PROVE Promised
  <2>1. /\ pc = "scan" /\ pc' = "scan" /\ Close(f) /\ Select!Next_i(f)
        /\ peer[open[f]] = "fin"
    BY <1>10 DEF Select!RecvZero, Select!Close, Close, Select!AtEnd
  <2>2. IsOpen(f)
    BY <1>7, <2>1
  <2>3. open[f] \in Left
    BY <1>1, <2>1, <2>2, OpenSeen DEF Left
  <2> QED
    BY <1>1, <1>2, <1>3, <2>1, <2>2, <2>3, DirectDismisses
<1>11. CASE Select!Peers
  <2>1. ClientMove /\ UNCHANGED <<i, pc>>
    BY <1>1, <1>11, ClientMoves DEF Select!Peers, KernelInv
  <2>2. open' = open
    BY <1>1, <2>1, ClientMoveKernel
  <2> QED
    BY <1>1, <1>2, <1>3, <2>1, <2>2, DirectPeers
<1> QED
  BY <1>4, <1>5, <1>6, <1>8, <1>9, <1>10, <1>11 DEF Select!Next, Select!loop

(* Every step of poll_server.c keeps the promise.                          *)
LEMMA PollPromise ==
  ASSUME IInv, IInv', program' = program, Is("poll"), [Poll!Next]_(Poll!vars)
  PROVE  Promised
<1> USE DEF Poll!At
<1>1. KernelInv /\ PollInv /\ program \in Watchers
  BY DEF IInv, Is, Watchers
<1>2. /\ Direct /\ Direct' /\ ~ Answered /\ ~ Answered'
      /\ Over <=> pc = "exited"
      /\ Over' <=> pc' = "exited"
  BY <1>1, WatchersDirect
<1>3. /\ Owed = IF pc = "send" THEN {open[allfd[i].fd]} ELSE {}
      /\ Owed' = IF pc' = "send" THEN {open'[allfd'[i'].fd]} ELSE {}
  <2>1. Owed = Poll!Owed
    BY DEF Owed, Is
  <2>2. Owed' = Poll!Owed'
    BY DEF Owed, Is
  <2> QED
    BY <2>1, <2>2 DEF Poll!Owed, Poll!Peer
<1>4. CASE Poll!poll \/ Poll!NoConnection \/ Poll!ScanDone \/ Poll!AcceptFails
           \/ UNCHANGED Poll!vars
  <2>1. UNCHANGED <<peer, backlog, open, unread>> /\ (pc' = "exited" <=> pc = "exited")
        /\ (pc' = "send" <=> pc = "send") /\ (pc = "send" => UNCHANGED <<i, allfd>>)
    BY <1>4 DEF Poll!poll, Poll!NoConnection, Poll!ScanDone, Poll!AcceptFails, Poll!vars,
                Poll!socketVars
  <2> QED
    BY <1>1, <1>2, <1>3, <2>1, DirectQuiet
<1>5. CASE Poll!BrokenPipe \/ \E k \in Poll!Elements : Poll!RecvZero(k) \/ Poll!RecvFails(k)
  <2>1. pc # "exited" /\ pc' = "exited" /\ UNCHANGED <<peer, unread>>
    BY <1>5 DEF Poll!BrokenPipe, Poll!RecvZero, Poll!RecvFails, Poll!Close, Poll!socketVars
  <2> QED
    BY <1>2, <2>1, PeerKept, ServerStops
<1>6. CASE Poll!AcceptConnection
  <2>1. PICK f \in Fds : Accept(f)
    BY <1>6 DEF Poll!AcceptConnection, Poll!Accept, Accept, Poll!FreeFds, FreeFds
  <2>2. pc = "accept" /\ pc' = "scan"
    BY <1>6 DEF Poll!AcceptConnection
  <2> QED
    BY <1>1, <1>2, <1>3, <2>1, <2>2, DirectAdmits
<1>7. ASSUME NEW k \in Poll!Elements, Poll!RecvData(k) PROVE Promised
  <2>1. /\ pc = "scan" /\ pc' = "send" /\ i' = k /\ UNCHANGED <<peer, backlog, open, allfd>>
        /\ k \in Poll!Elements \ {0} /\ allfd[k].fd # -1
        /\ HasInput(open[allfd[k].fd]) /\ unread' = [unread EXCEPT ![open[allfd[k].fd]] = 0]
    BY <1>7 DEF Poll!RecvData, Poll!ReadInput, Poll!Next_i, Poll!Remaining, Poll!Peer,
                Poll!HasInput, HasInput
  <2>2. IsOpen(allfd[k].fd)
    BY <1>1, <2>1 DEF PollInv, PollElements
  <2>3. Taken(open[allfd[k].fd])
    BY <1>1, <2>1, <2>2, OpenSeen, ReadTakes
  <2> QED
    BY <1>1, <1>2, <1>3, <2>1, <2>2, <2>3, DirectTakes
<1>8. CASE Poll!SendBack
  <2>1. pc = "send" /\ pc' = "scan" /\ Sent(open[allfd[i].fd])
    BY <1>8 DEF Poll!SendBack, Poll!Send, Poll!SendShort, Poll!Fill, Sent, Poll!Peer
  <2>2. IsOpen(allfd[i].fd)
    BY <1>1, <2>1 DEF PollInv, PollElements
  <2> QED
    BY <1>1, <1>2, <1>3, <2>1, <2>2, DirectAnswers
<1>9. CASE Poll!Peers
  <2>1. ClientMove /\ UNCHANGED <<i, pc, allfd>>
    BY <1>1, <1>9, ClientMoves DEF Poll!Peers, KernelInv
  <2>2. open' = open
    BY <1>1, <2>1, ClientMoveKernel
  <2> QED
    BY <1>1, <1>2, <1>3, <2>1, <2>2, DirectPeers
<1> QED
  BY <1>4, <1>5, <1>6, <1>7, <1>8, <1>9 DEF Poll!Next, Poll!loop

(* Every step of epoll_server.c keeps the promise.                         *)
LEMMA EpollPromise ==
  ASSUME IInv, IInv', program' = program, Is("epoll"), [Epoll!Next]_(Epoll!vars)
  PROVE  Promised
<1> USE DEF Epoll!At
<1>1. KernelInv /\ EpollInv /\ program \in Watchers
  BY DEF IInv, Is, Watchers
<1>2. /\ Direct /\ Direct' /\ ~ Answered /\ ~ Answered'
      /\ Over <=> pc = "exited"
      /\ Over' <=> pc' = "exited"
  BY <1>1, WatchersDirect
<1>3. /\ Owed = IF pc = "send" THEN {open[all[i]]} ELSE {}
      /\ Owed' = IF pc' = "send" THEN {open'[all'[i']]} ELSE {}
  <2>1. Owed = Epoll!Owed
    BY DEF Owed, Is
  <2>2. Owed' = Epoll!Owed'
    BY DEF Owed, Is
  <2> QED
    BY <2>1, <2>2 DEF Epoll!Owed
<1>4. CASE Epoll!epoll_wait \/ Epoll!LoopDone \/ Epoll!AcceptFails \/ Epoll!NoEvents
           \/ UNCHANGED Epoll!vars
  <2>1. UNCHANGED <<peer, backlog, open, unread>> /\ (pc' = "exited" <=> pc = "exited")
        /\ (pc' = "send" <=> pc = "send") /\ (pc = "send" => UNCHANGED <<i, all>>)
    BY <1>4 DEF Epoll!epoll_wait, Epoll!LoopDone, Epoll!AcceptFails, Epoll!NoEvents,
                Epoll!vars, Epoll!socketVars
  <2> QED
    BY <1>1, <1>2, <1>3, <2>1, DirectQuiet
<1>5. CASE Epoll!BrokenPipe \/ Epoll!RecvFails
  <2>1. pc # "exited" /\ pc' = "exited" /\ UNCHANGED <<peer, unread>>
    BY <1>5 DEF Epoll!BrokenPipe, Epoll!RecvFails, Epoll!socketVars
  <2> QED
    BY <1>2, <2>1, PeerKept, ServerStops
<1>6. CASE Epoll!AcceptConnection \/ Epoll!RegisterFails
  <2>1. PICK f \in Fds : Accept(f)
    BY <1>6 DEF Epoll!AcceptConnection, Epoll!RegisterFails, Epoll!Accept, Accept,
                Epoll!FreeFds, FreeFds
  <2>2. pc = "loop" /\ pc' = "loop"
    BY <1>6 DEF Epoll!AcceptConnection, Epoll!RegisterFails
  <2> QED
    BY <1>1, <1>2, <1>3, <2>1, <2>2, DirectAdmits
<1>7. CASE Epoll!RecvData
  <2>1. /\ pc = "loop" /\ pc' = "send" /\ i' = i /\ UNCHANGED <<peer, backlog, open>>
        /\ i <= ret /\ i <= NumEvents /\ IsOpen(all[i])
        /\ HasInput(open[all[i]]) /\ unread' = [unread EXCEPT ![open[all[i]]] = 0]
    BY <1>7 DEF Epoll!RecvData, Epoll!ReadInput, Epoll!Connection, Epoll!InLoop, IsOpen,
                Epoll!HasInput, HasInput
  <2>2. PICK n \in Epoll!Indices : \E stack \in [Epoll!NeverWritten(n) -> Epoll!Values] :
          all' = [k \in Epoll!Indices |-> IF k \in Epoll!NeverWritten(n)
                                          THEN stack[k] ELSE all[k]]
    BY <1>7 DEF Epoll!RecvData
  <2>3. i \in Epoll!Indices
    BY <1>1, <2>1, EpollAssumption DEF EpollInv, EpollLoop, EpollTypes, Epoll!Indices
  <2>4. i \notin Epoll!NeverWritten(n)
    BY <2>1, DescriptorAssumption DEF Epoll!NeverWritten, Epoll!Unset, IsOpen
  <2>5. all'[i] = all[i]
    BY <2>2, <2>3, <2>4
  <2>6. Taken(open[all[i]])
    BY <1>1, <2>1, OpenSeen, ReadTakes
  <2> QED
    BY <1>1, <1>2, <1>3, <2>1, <2>5, <2>6, DirectTakes
<1>8. CASE Epoll!SendBack
  <2>1. pc = "send" /\ pc' = "loop" /\ Sent(open[all[i]])
    BY <1>8 DEF Epoll!SendBack, Epoll!Send, Epoll!SendShort, Epoll!Fill, Sent
  <2>2. IsOpen(all[i])
    BY <1>1, <2>1 DEF EpollInv, EpollLoop
  <2> QED
    BY <1>1, <1>2, <1>3, <2>1, <2>2, DirectAnswers
<1>9. CASE Epoll!RecvZero
  <2>1. /\ pc = "loop" /\ pc' = "wait" /\ Close(all[i]) /\ IsOpen(all[i])
        /\ peer[open[all[i]]] = "fin"
    BY <1>9 DEF Epoll!RecvZero, Epoll!Connection, Epoll!Close, Close, Epoll!AtEnd, IsOpen
  <2>2. open[all[i]] \in Left
    BY <1>1, <2>1, OpenSeen DEF Left
  <2> QED
    BY <1>1, <1>2, <1>3, <2>1, <2>2, DirectDismisses
<1>10. CASE Epoll!Peers
  <2>1. ClientMove /\ UNCHANGED <<i, pc, all>>
    BY <1>1, <1>10, ClientMoves DEF Epoll!Peers, KernelInv
  <2>2. open' = open
    BY <1>1, <2>1, ClientMoveKernel
  <2> QED
    BY <1>1, <1>2, <1>3, <2>1, <2>2, DirectPeers
<1> QED
  BY <1>4, <1>5, <1>6, <1>7, <1>8, <1>9, <1>10 DEF Epoll!Next, Epoll!loop

(* Every step of nonblock_epoll_server.c keeps the promise.                *)
LEMMA NonblockPromise ==
  ASSUME IInv, IInv', program' = program, Is("nonblock"), [Nonblock!Next]_(Nonblock!vars)
  PROVE  Promised
<1> USE DEF Nonblock!At
<1>1. KernelInv /\ NonblockInv /\ program \in Watchers
  BY DEF IInv, Is, Watchers
<1>2. /\ Direct /\ Direct' /\ ~ Answered /\ ~ Answered'
      /\ Over <=> pc = "exited"
      /\ Over' <=> pc' = "exited"
  BY <1>1, WatchersDirect
<1>3. /\ Owed = IF pc = "send" THEN {open[event]} ELSE {}
      /\ Owed' = IF pc' = "send" THEN {open'[event']} ELSE {}
  <2>1. Owed = Nonblock!Owed
    BY DEF Owed, Is
  <2>2. Owed' = Nonblock!Owed'
    BY DEF Owed, Is
  <2> QED
    BY <2>1, <2>2 DEF Nonblock!Owed, Nonblock!Peer
<1>4. pc \in {"drain", "send"} => IsOpen(event)
  BY <1>1 DEF NonblockInv, NonblockLoop, NonblockTypes, WatchInv, IsOpen
<1>5. CASE Nonblock!epoll_wait \/ Nonblock!LoopDone \/ Nonblock!AcceptFails
           \/ Nonblock!TakeConnection \/ Nonblock!RecvEagain \/ UNCHANGED Nonblock!vars
  <2>1. UNCHANGED <<peer, backlog, open, unread>> /\ (pc' = "exited" <=> pc = "exited")
        /\ (pc' = "send" <=> pc = "send") /\ (pc = "send" => UNCHANGED event)
    BY <1>5 DEF Nonblock!epoll_wait, Nonblock!LoopDone, Nonblock!AcceptFails,
                Nonblock!TakeConnection, Nonblock!RecvEagain, Nonblock!vars,
                Nonblock!socketVars
  <2> QED
    BY <1>1, <1>2, <1>3, <2>1, DirectQuiet
<1>6. CASE Nonblock!BrokenPipe \/ Nonblock!RecvFails
  <2>1. pc # "exited" /\ pc' = "exited" /\ UNCHANGED <<peer, unread>>
    BY <1>6 DEF Nonblock!BrokenPipe, Nonblock!RecvFails, Nonblock!socketVars
  <2> QED
    BY <1>2, <2>1, PeerKept, ServerStops
<1>7. CASE Nonblock!AcceptConnection \/ Nonblock!RegisterFails
  <2>1. PICK f \in Fds : Accept(f)
    BY <1>7 DEF Nonblock!AcceptConnection, Nonblock!RegisterFails, Nonblock!Accept, Accept,
                Nonblock!FreeFds, FreeFds
  <2>2. pc = "loop" /\ pc' = "loop"
    BY <1>7 DEF Nonblock!AcceptConnection, Nonblock!RegisterFails
  <2> QED
    BY <1>1, <1>2, <1>3, <2>1, <2>2, DirectAdmits
<1>8. CASE Nonblock!RecvPiece
  <2>1. pc = "drain" /\ pc' = "send" /\ UNCHANGED <<peer, backlog, open, event>>
    BY <1>8 DEF Nonblock!RecvPiece
  <2>2. Taken(open[event])
    BY <1>8 DEF Nonblock!RecvPiece, Nonblock!HasInput, Nonblock!Peer, Taken
  <2> QED
    BY <1>1, <1>2, <1>3, <1>4, <2>1, <2>2, DirectTakes
<1>9. CASE Nonblock!SendBack
  <2>1. pc = "send" /\ pc' = "drain" /\ Sent(open[event])
    BY <1>9 DEF Nonblock!SendBack, Nonblock!Send, Nonblock!SendShort, Nonblock!Fill, Sent,
                Nonblock!Peer, Nonblock!socketVars
  <2> QED
    BY <1>1, <1>2, <1>3, <1>4, <2>1, DirectAnswers
<1>10. CASE Nonblock!RecvZero
  <2>1. pc = "drain" /\ pc' = "wait" /\ Close(event) /\ peer[open[event]] = "fin"
    BY <1>10 DEF Nonblock!RecvZero, Nonblock!Forget, Nonblock!Close, Close, Nonblock!AtEnd,
                 Nonblock!Peer
  <2>2. open[event] \in Left
    BY <1>1, <1>4, <2>1, OpenSeen DEF Left
  <2> QED
    BY <1>1, <1>2, <1>3, <1>4, <2>1, <2>2, DirectDismisses
<1>11. CASE Nonblock!Peers
  <2>1. ClientMove /\ UNCHANGED <<event, pc>>
    BY <1>1, <1>11, ClientMoves DEF Nonblock!Peers, KernelInv
  <2>2. open' = open
    BY <1>1, <2>1, ClientMoveKernel
  <2> QED
    BY <1>1, <1>2, <1>3, <2>1, <2>2, DirectPeers
<1> QED
  BY <1>5, <1>6, <1>7, <1>8, <1>9, <1>10, <1>11 DEF Nonblock!Next, Nonblock!loop

(* Every step of libevent_server.c keeps the promise.                      *)
LEMMA LibeventPromise ==
  ASSUME IInv, IInv', program' = program, Is("libevent"), [Libevent!Next]_(Libevent!vars)
  PROVE  Promised
<1>1. KernelInv /\ LibeventInv /\ program \in Watchers
  BY DEF IInv, Is, Watchers
<1>2. /\ Direct /\ Direct' /\ ~ Answered /\ ~ Answered'
      /\ Over <=> pc = "exited"
      /\ Over' <=> pc' = "exited"
  BY <1>1, WatchersDirect
<1>3. Owed = {open[f] : f \in output} /\ Owed' = {open'[f] : f \in output'}
  <2>1. Owed = Libevent!Owed
    BY DEF Owed, Is
  <2>2. Owed' = Libevent!Owed'
    BY DEF Owed, Is
  <2> QED
    BY <2>1, <2>2 DEF Libevent!Owed
<1>4. \A f \in bevs : IsOpen(f)
  BY <1>1 DEF LibeventInv, Libevent!TypeOK, IsOpen
<1>5. /\ output \subseteq bevs
      /\ \A f, g \in bevs : open[f] = open[g] => f = g
  BY <1>1, <1>4 DEF LibeventInv, Libevent!TypeOK, KernelInv, OneConnection, IsOpen
<1>6. CASE UNCHANGED Libevent!vars
  <2>1. UNCHANGED <<peer, backlog, open, unread, output, pc>>
    BY <1>6 DEF Libevent!vars
  <2>2. Owed' = Owed
    BY <1>3, <2>1
  <2> QED
    BY <1>1, <1>2, <2>1, <2>2, DirectQuiet
<1>7. ASSUME NEW f \in Fds, Libevent!BrokenPipe(f) PROVE Promised
  <2>1. pc # "exited" /\ pc' = "exited" /\ UNCHANGED <<peer, unread>>
    BY <1>7 DEF Libevent!BrokenPipe, Libevent!Dispatched, Libevent!socketVars
  <2> QED
    BY <1>2, <2>1, PeerKept, ServerStops
<1>8. ASSUME NEW f \in Fds, Libevent!listen_cb(f) PROVE Promised
  <2>1. Accept(f) /\ output' = output /\ pc = "wait" /\ pc' = "wait"
    BY <1>8 DEF Libevent!listen_cb, Libevent!Accept, Accept, Libevent!FreeFds, FreeFds
  <2>2. open[f] = NoClient /\ \A g \in Fds \ {f} : open'[g] = open[g]
    BY <1>1, <2>1, AcceptKernel
  <2>3. \A g \in output : open'[g] = open[g]
    BY <1>4, <1>5, <2>2 DEF IsOpen
  <2>4. Owed' = Owed
    BY <1>3, <2>1, <2>3
  <2> QED
    BY <1>1, <1>2, <2>1, <2>4, DirectAdmits
<1>9. ASSUME NEW f \in Fds, Libevent!read_cb(f) PROVE Promised
  <2>1. /\ pc = "wait" /\ pc' = "wait" /\ f \in bevs /\ output' = output \cup {f}
        /\ UNCHANGED <<peer, backlog, open>>
        /\ HasInput(open[f]) /\ unread' = [unread EXCEPT ![open[f]] = 0]
    BY <1>9 DEF Libevent!read_cb, Libevent!Dispatched, Libevent!ReadInput,
                Libevent!HasInput, HasInput
  <2>2. Owed' = Owed \cup {open[f]}
    BY <1>3, <2>1
  <2>3. Taken(open[f])
    BY <1>1, <1>4, <2>1, OpenSeen, ReadTakes
  <2> QED
    BY <1>1, <1>2, <1>4, <2>1, <2>2, <2>3, DirectTakes
<1>10. ASSUME NEW f \in Fds, Libevent!write_cb(f) PROVE Promised
  <2>1. /\ pc = "wait" /\ pc' = "wait" /\ f \in output /\ output' = output \ {f}
        /\ Sent(open[f]) /\ open' = open
    BY <1>10 DEF Libevent!write_cb, Libevent!Dispatched, Libevent!Send, Libevent!SendShort,
                 Libevent!Fill, Sent
  <2>2. open[f] \in Owed /\ Owed' = Owed \ {open[f]}
    BY <1>3, <1>5, <2>1
  <2> QED
    BY <1>1, <1>2, <1>4, <1>5, <2>1, <2>2, DirectAnswers
<1>11. ASSUME NEW f \in Fds, Libevent!event_cb(f) PROVE Promised
  <2>1. /\ pc = "wait" /\ pc' = "wait" /\ f \in bevs /\ output' = output \ {f}
        /\ Close(f) /\ peer[open[f]] \in {"fin", "rst"}
    BY <1>11 DEF Libevent!event_cb, Libevent!bufferevent_free, Libevent!Dispatched,
                 Libevent!Close, Close,
                 Libevent!AtEnd, Libevent!Failed
  <2>2. \A g \in output \ {f} : open'[g] = open[g]
    BY <1>1, <1>4, <1>5, <2>1, CloseKernel DEF IsOpen
  <2>3. Owed' = Owed \ {open[f]}
    BY <1>3, <1>5, <2>1, <2>2
  <2>4. open[f] \in Left
    BY <1>1, <1>4, <2>1, OpenSeen DEF Left
  <2> QED
    BY <1>1, <1>2, <1>4, <2>1, <2>3, <2>4, DirectDismisses
<1>12. CASE Libevent!Peers
  <2>1. ClientMove /\ UNCHANGED <<output, pc>>
    BY <1>1, <1>12, ClientMoves DEF Libevent!Peers, KernelInv
  <2>2. open' = open
    BY <1>1, <2>1, ClientMoveKernel
  <2>3. Owed' = Owed
    BY <1>3, <2>1, <2>2
  <2> QED
    BY <1>1, <1>2, <2>1, <2>3, DirectPeers
<1> QED
  BY <1>6, <1>7, <1>8, <1>9, <1>10, <1>11, <1>12 DEF Libevent!Next, Libevent!callbacks

(* http_easy.cpp answers twice and then cuts off a client who may be there *)
(* still: the second answer is the last.                                   *)
LEMMA HttpPromise ==
  ASSUME IInv, IInv', program' = program, Is("http"), [Http!Next]_(Http!vars)
  PROVE  Promised
<1> USE DEF Http!At
<1>1. KernelInv /\ HttpInv
  BY DEF IInv, Is
<1>2. /\ Direct /\ Direct'
      /\ Answered <=> mainpc = "close"
      /\ Answered' <=> mainpc' = "close"
      /\ Over <=> mainpc = "exited"
      /\ Over' <=> mainpc' = "exited"
  <2>1. InService = Connected /\ InService' = Connected'
    BY DEF InService, Is
  <2>2. Arriving = Queued \cup {} /\ Arriving' = Queued' \cup {}
    BY DEF Arriving, Is
  <2>3. pc = "wait" /\ pc' = "wait"
    BY DEF IInv, PlaceInv, Is, Watchers
  <2> QED
    BY <2>1, <2>2, <2>3 DEF Direct, Answered, Over, Is
<1>3. /\ Owed = IF mainpc \in {"header", "body"} THEN {open[cfd]} ELSE {}
      /\ Owed' = IF mainpc' \in {"header", "body"} THEN {open'[cfd']} ELSE {}
  <2>1. Owed = Http!Owed
    BY DEF Owed, Is
  <2>2. Owed' = Http!Owed'
    BY DEF Owed, Is
  <2> QED
    BY <2>1, <2>2 DEF Http!Owed, Http!Peer
<1>4. /\ mainpc \in {"recv", "header", "body", "close"} => IsOpen(cfd)
      /\ Connected \subseteq {open[cfd]}
  BY <1>1 DEF HttpInv, Http!TypeOK, Http!Peer, IsOpen, Connected
<1>5. CASE UNCHANGED Http!vars
  <2>1. UNCHANGED <<peer, backlog, open, unread, cfd, mainpc>>
    BY <1>5 DEF Http!vars
  <2> QED
    BY <1>1, <1>2, <1>3, <2>1, DirectQuiet
<1>6. CASE Http!BrokenPipe
  <2>1. mainpc # "exited" /\ mainpc' = "exited" /\ UNCHANGED <<peer, unread>>
    BY <1>6 DEF Http!BrokenPipe, Http!socketVars
  <2> QED
    BY <1>2, <2>1, PeerKept, ServerStops
<1>7. CASE Http!Accept_cli
  <2>1. PICK f \in Fds : Accept(f)
    BY <1>7 DEF Http!Accept_cli, Http!Accept, Accept, Http!FreeFds, FreeFds
  <2>2. mainpc = "accept" /\ mainpc' = "recv"
    BY <1>7 DEF Http!Accept_cli
  <2> QED
    BY <1>1, <1>2, <1>3, <2>1, <2>2, DirectAdmits
<1>8. CASE Http!Recv
  <2>1. mainpc = "recv" /\ mainpc' = "header" /\ UNCHANGED <<peer, backlog, open, cfd>>
    BY <1>8 DEF Http!Recv
  <2>2. /\ unread' = [unread EXCEPT ![open[cfd]] = 0] /\ Blind
        /\ Readable(open[cfd])
    BY <1>8 DEF Http!Recv, Http!Peer, Http!Readable, Http!HasInput, Readable, HasInput,
                Blind, Is
  <2>3. Taken(open[cfd])
    BY <1>1, <1>4, <2>1, <2>2, OpenSeen, ReadTakes
  <2> QED
    BY <1>1, <1>2, <1>3, <1>4, <2>1, <2>3, DirectTakes
<1>9. CASE Http!SendHeader
  <2>1. /\ mainpc = "header" /\ mainpc' = "body" /\ Sent(open[cfd])
        /\ UNCHANGED <<cfd, open>>
    BY <1>9 DEF Http!SendHeader, Http!SendShort, Sent, Http!Peer
  <2>2. open[cfd] \in Clients
    BY <1>1, <1>4, <2>1, OpenSeen
  <2> QED
    BY <1>1, <1>2, <1>3, <2>1, <2>2, DirectQuiet
<1>10. CASE Http!SendBody
  <2>1. mainpc = "body" /\ mainpc' = "close" /\ Sent(open[cfd])
    BY <1>10 DEF Http!SendBody, Http!SendShort, Sent, Http!Peer
  <2>2. PICK c \in Clients : c = open[cfd] /\ c \in Connected
    BY <1>1, <1>4, <2>1, OpenSeen
  <2>3. Connected' = Connected /\ Queued' = Queued /\ Left' = Left /\ unread' = unread
    BY <1>1, <2>1, <2>2, SendSeen
  <2>4. StateOf(c) = "in"
    BY <1>2, <2>1, <2>2 DEF StateOf, Direct
  <2>5. \A d \in Clients : StateOf(d)' = IF d = c THEN "answered" ELSE StateOf(d)
    BY <1>2, <1>4, <2>1, <2>2, <2>3 DEF StateOf, Direct
  <2>6. c \in Owed /\ Owed' = Owed \ {c}
    BY <1>3, <2>1, <2>2
  <2> QED
    BY <1>2, <2>1, <2>3, <2>4, <2>5, <2>6, OneMoves
<1>11. CASE Http!Close_cli
  <2>1. mainpc = "close" /\ mainpc' = "accept" /\ Close(cfd)
    BY <1>11 DEF Http!Close_cli, Http!Close, Close
  <2> QED
    BY <1>1, <1>2, <1>3, <1>4, <2>1, DirectDismisses
<1>12. CASE Http!Peers
  <2>1. ClientMove /\ UNCHANGED <<cfd, mainpc>>
    BY <1>1, <1>12, ClientMoves DEF Http!Peers, KernelInv
  <2>2. open' = open
    BY <1>1, <2>1, ClientMoveKernel
  <2> QED
    BY <1>1, <1>2, <1>3, <2>1, <2>2, DirectPeers
<1> QED
  BY <1>5, <1>6, <1>7, <1>8, <1>9, <1>10, <1>11, <1>12 DEF Http!Next, Http!loop

-----------------------------------------------------------------------------
(* tcp_pthread.cpp serves a connection when a thread has it, and lets main *)
(* have it before.                                                         *)
LEMMA ThreadViews ==
  ASSUME IInv, IInv', program' = program, Is("thread")
  PROVE  /\ \A c : c \in InService <=>
              \E t \in Tids : thread[t].at \in {"recv", "answer"} /\ open[thread[t].sock] = c
         /\ \A c : c \in InService' <=>
              \E t \in Tids : thread'[t].at \in {"recv",
              "answer"} /\ open'[thread'[t].sock] = c
         /\ \A c : c \in Arriving <=> c \in Queued \/ (mainpc = "create" /\ c = open[cfd])
         /\ \A c : c \in Arriving' <=> c \in Queued' \/ (mainpc' = "create" /\ c = open'[cfd'])
         /\ \A c : c \in Owed <=>
              \E t \in Tids : thread[t].at = "answer" /\ open[thread[t].sock] = c
         /\ \A c : c \in Owed' <=>
              \E t \in Tids : thread'[t].at = "answer" /\ open'[thread'[t].sock] = c
         /\ Over <=> mainpc = "exited"
         /\ Over' <=> mainpc' = "exited"
         /\ ~ Answered /\ ~ Answered'
<1>1. InService = Thread!InService /\ InService' = Thread!InService'
  BY DEF InService, Is
<1>2. /\ Arriving = Queued \cup Thread!Arriving
      /\ Arriving' = Queued' \cup Thread!Arriving'
  BY DEF Arriving, Is
<1>3. Owed = Thread!Owed /\ Owed' = Thread!Owed'
  BY DEF Owed, Is
<1>4. pc = "wait" /\ pc' = "wait"
  BY DEF IInv, PlaceInv, Is, Watchers
<1>5. /\ Over <=> mainpc = "exited"
      /\ Over' <=> mainpc' = "exited"
      /\ ~ Answered /\ ~ Answered'
  BY <1>4 DEF Over, Answered, Is
<1>6. /\ \A c : c \in InService <=>
           \E t \in Tids : thread[t].at \in {"recv", "answer"} /\ open[thread[t].sock] = c
      /\ \A c : c \in InService' <=>
           \E t \in Tids : thread'[t].at \in {"recv", "answer"} /\ open'[thread'[t].sock] = c
  BY <1>1 DEF Thread!InService, Thread!Sock
<1>7. /\ \A c : c \in Owed <=>
           \E t \in Tids : thread[t].at = "answer" /\ open[thread[t].sock] = c
      /\ \A c : c \in Owed' <=>
           \E t \in Tids : thread'[t].at = "answer" /\ open'[thread'[t].sock] = c
  BY <1>3 DEF Thread!Owed, Thread!Sock
<1>8. /\ \A c : c \in Arriving <=> c \in Queued \/ (mainpc = "create" /\ c = open[cfd])
      /\ \A c : c \in Arriving' <=> c \in Queued' \/ (mainpc' = "create" /\ c = open'[cfd'])
  BY <1>2 DEF Thread!Arriving
<1> QED
  BY <1>5, <1>6, <1>7, <1>8

(* main of tcp_pthread.cpp admits, hands over or turns away.               *)
LEMMA ThreadMainPromise ==
  ASSUME IInv, IInv', program' = program, Is("thread"), Thread!main \/ Thread!CreateFails
  PROVE  Promised
<1> USE DEF Thread!At
<1>1. KernelInv /\ ThreadInv
  BY DEF IInv, Is
<1>2. CASE Thread!Accept_csock
  <2>1. PICK f \in Fds : Accept(f) /\ cfd' = f
    BY <1>2 DEF Thread!Accept_csock, Thread!Accept, Accept, Thread!FreeFds, FreeFds
  <2>2. mainpc = "accept" /\ mainpc' = "create" /\ thread' = thread
    BY <1>2 DEF Thread!Accept_csock
  <2>3. PICK c \in Clients :
          /\ c \in Queued /\ Queued' = Queued \ {c} /\ Left' = Left
          /\ unread' = unread
          /\ \A g \in Fds : open'[g] = IF g = f THEN c ELSE open[g]
    BY <1>1, <2>1, AcceptSeen
  <2>4. open[f] = NoClient
    BY <1>1, <2>1, AcceptKernel
  <2>5. ASSUME NEW t \in Tids, thread[t].at \in {"recv", "answer"}
        PROVE  open'[thread[t].sock] = open[thread[t].sock]
    <3>1. IsOpen(thread[t].sock)
      BY <1>1, <2>5 DEF ThreadInv
    <3> QED
      BY <2>3, <2>4, <3>1 DEF IsOpen
  <2>6. \A d : d \in InService' <=> d \in InService
    BY <2>2, <2>5, ThreadViews
  <2>7. \A d : d \in Owed' <=> d \in Owed
    BY <2>2, <2>5, ThreadViews
  <2>8. \A d : d \in Arriving' <=> d \in Arriving
    BY <2>1, <2>2, <2>3, ThreadViews
  <2>9. Owed' = Owed /\ (Over' <=> Over)
    BY <2>2, <2>7, ThreadViews
  <2>10. \A d \in Clients : StateOf(d)' = StateOf(d)
    BY <2>6, <2>8, <2>9, ThreadViews DEF StateOf
  <2> QED
    BY <2>3, <2>9, <2>10, NothingShows
<1>3. CASE Thread!pthread_detach
  <2>1. mainpc = "detach" /\ mainpc' = "accept" /\ UNCHANGED <<thread, peer, backlog, open, unread>>
    BY <1>3 DEF Thread!pthread_detach, Thread!socketVars
  <2>2. Queued' = Queued /\ Left' = Left /\ unread' = unread
    BY <2>1 DEF Queued, Left
  <2>3. /\ \A d : d \in InService' <=> d \in InService
        /\ \A d : d \in Arriving' <=> d \in Arriving
        /\ \A d : d \in Owed' <=> d \in Owed
        /\ (Over' <=> Over) /\ ~ Answered /\ ~ Answered'
    BY <2>1, <2>2, ThreadViews
  <2>4. \A d \in Clients : StateOf(d)' = StateOf(d)
    BY <2>3 DEF StateOf
  <2>5. Owed' = Owed
    BY <2>3
  <2> QED
    BY <2>2, <2>3, <2>4, <2>5, NothingShows
<1>4. CASE Thread!CreateFails \/ Thread!pthread_create
  <2>1. mainpc = "create" /\ UNCHANGED <<peer, backlog, open, unread>>
    BY <1>4 DEF Thread!CreateFails, Thread!pthread_create, Thread!socketVars
  <2>2. Queued' = Queued /\ Left' = Left /\ unread' = unread
    BY <2>1 DEF Queued, Left
  <2>3. IsOpen(cfd) /\ \A t \in Tids : thread[t].sock # cfd
    BY <1>1, <2>1 DEF ThreadInv
  <2>4. PICK c \in Clients : c = open[cfd] /\ c \notin Queued
    BY <1>1, <2>3, OpenSeen
  <2>5. ASSUME NEW t \in Tids, thread[t].at \in {"recv", "answer"}
        PROVE  open[thread[t].sock] # c
    <3>1. IsOpen(thread[t].sock) /\ thread[t].sock # cfd
      BY <1>1, <2>3, <2>5 DEF ThreadInv
    <3> QED
      BY <1>1, <2>3, <2>4, <3>1 DEF KernelInv, OneConnection, IsOpen
  <2>6. c \notin InService /\ c \in Arriving /\ ~ Over /\ ~ Answered /\ ~ Answered'
    BY <2>1, <2>4, <2>5, ThreadViews
  <2>7. StateOf(c) = "out"
    BY <2>6 DEF StateOf
  <2>8. CASE mainpc' = "exited"
    BY <2>2, <2>6, <2>8, ThreadViews, ServerStops
  <2>9. CASE Thread!CreateFails /\ mainpc' # "exited"
    <3>1. thread' = thread /\ mainpc' = "accept"
      BY <2>9 DEF Thread!CreateFails
    <3>2. /\ \A d : d \in InService' <=> d \in InService
          /\ \A d : d \in Arriving' <=> d \in Arriving /\ d # c
          /\ \A d : d \in Owed' <=> d \in Owed
          /\ ~ Over'
      BY <2>1, <2>2, <2>4, <3>1, ThreadViews
    <3>3. \A d \in Clients : StateOf(d)' = IF d = c THEN "done" ELSE StateOf(d)
      BY <2>6, <3>2 DEF StateOf
    <3>4. Owed' = Owed
      BY <3>2
    <3> QED
      BY <2>2, <2>6, <2>7, <3>2, <3>3, <3>4, OneMoves
  <2>10. CASE Thread!pthread_create
    <3>1. /\ mainpc' = "detach" /\ Thread!Free # {}
          /\ thread' = [thread EXCEPT ![Min(Thread!Free)] = [at |-> "recv", sock |-> cfd]]
      BY <2>10 DEF Thread!pthread_create, Thread!Min, Min
    <3>2. Thread!Free \in SUBSET Nat
      BY BoundAssumption DEF Thread!Free
    <3>3. PICK u \in Tids : u = Min(Thread!Free) /\ thread[u] = Thread!Unborn
      <4>1. Min(Thread!Free) \in Thread!Free
        BY <3>1, <3>2, LeastNatural
      <4> QED
        BY <4>1 DEF Thread!Free
    <3>4. \A t \in Tids : thread'[t] = IF t = u THEN [at |-> "recv", sock |-> cfd]
                                                ELSE thread[t]
      BY <1>1, <3>1, <3>3 DEF ThreadInv, Thread!TypeOK
    <3>5. thread[u].at = "unborn"
      BY <3>3 DEF Thread!Unborn
    <3>6. \A d : d \in InService' <=> d \in InService \/ d = c
      BY <2>1, <2>4, <3>4, <3>5, ThreadViews
    <3>7. \A d : d \in Owed' <=> d \in Owed
      BY <2>1, <3>4, <3>5, ThreadViews
    <3>8. \A d : d # c => (d \in Arriving' <=> d \in Arriving)
      BY <2>1, <2>2, <2>4, <3>1, ThreadViews
    <3>9. ~ Over'
      BY <3>1, ThreadViews
    <3>10. \A d \in Clients : StateOf(d)' = IF d = c THEN "in" ELSE StateOf(d)
      BY <2>6, <3>6, <3>8, <3>9 DEF StateOf
    <3>11. Owed' = Owed
      BY <3>7
    <3> QED
      BY <2>2, <2>6, <2>7, <3>9, <3>10, <3>11, OneMoves
  <2> QED
    BY <1>4, <2>8, <2>9, <2>10
<1> QED
  BY <1>2, <1>3, <1>4 DEF Thread!main

(* Every step of tcp_pthread.cpp keeps the promise.                        *)
LEMMA ThreadPromise ==
  ASSUME IInv, IInv', program' = program, Is("thread"), [Thread!Next]_(Thread!vars)
  PROVE  Promised
<1>1. KernelInv /\ ThreadInv
  BY DEF IInv, Is
<1>2. CASE UNCHANGED Thread!vars \/ Thread!Peers
  <2>1. UNCHANGED <<thread, open, cfd, mainpc>>
    <3>1. CASE Thread!Peers
      <4>1. ClientMove /\ UNCHANGED <<thread, cfd, mainpc>>
        BY <1>1, <3>1, ClientMoves DEF Thread!Peers, KernelInv
      <4> QED
        BY <1>1, <4>1, ClientMoveKernel
    <3> QED
      BY <1>2, <3>1 DEF Thread!vars
  <2>2. Queued' = Queued /\ ClientDoes
    <3>1. CASE Thread!Peers
      <4>1. ClientMove
        BY <1>1, <3>1, ClientMoves DEF Thread!Peers, KernelInv
      <4> QED
        BY <1>1, <4>1, ClientMoveSeen
    <3>2. CASE UNCHANGED Thread!vars
      BY <3>2 DEF Thread!vars, Queued, Left, ClientDoes
    <3> QED
      BY <1>2, <3>1, <3>2
  <2>3. /\ \A d : d \in InService' <=> d \in InService
        /\ \A d : d \in Arriving' <=> d \in Arriving
        /\ \A d : d \in Owed' <=> d \in Owed
        /\ (Over' <=> Over) /\ ~ Answered /\ ~ Answered'
    BY <2>1, <2>2, ThreadViews
  <2>4. \A d \in Clients : StateOf(d)' = StateOf(d)
    BY <2>3 DEF StateOf
  <2>5. Owed' = Owed
    BY <2>3
  <2> QED
    BY <2>2, <2>3, <2>4, <2>5, ClientShows
<1>3. ASSUME NEW t \in Tids, Thread!BrokenPipe(t) PROVE Promised
  <2>1. mainpc # "exited" /\ mainpc' = "exited" /\ UNCHANGED <<peer, unread>>
    BY <1>3 DEF Thread!BrokenPipe, Thread!Over, Thread!socketVars
  <2> QED
    BY <2>1, PeerKept, ThreadViews, ServerStops
<1>4. ASSUME NEW t \in Tids, thread[t].at \in {"recv", "answer"}
      PROVE  IsOpen(thread[t].sock)
  BY <1>1, <1>4 DEF ThreadInv
<1>5. ASSUME NEW t \in Tids, NEW u \in Tids, t # u, thread[t].at \in {"recv", "answer"},
             thread[u].at \in {"recv", "answer"}
      PROVE  open[thread[t].sock] # open[thread[u].sock]
  <2>1. thread[t].sock # thread[u].sock
    BY <1>1, <1>5 DEF ThreadInv, Thread!TypeOK, Thread!Unborn
  <2> QED
    BY <1>1, <1>4, <1>5, <2>1 DEF KernelInv, OneConnection, IsOpen
<1>6. ASSUME NEW t \in Tids, NEW to \in {"recv", "answer"},
             thread[t].at \in {"recv", "answer"}, thread' = [thread EXCEPT ![t].at = to],
             UNCHANGED <<open, cfd, mainpc>>, Queued' = Queued, mainpc # "exited"
      PROVE  /\ \A d \in Clients : StateOf(d)' = StateOf(d)
             /\ StateOf(open[thread[t].sock]) = "in" /\ ~ Over /\ ~ Over'
             /\ \A u \in Tids : /\ thread'[u].sock = thread[u].sock
                                /\ thread'[u].at = IF u = t THEN to ELSE thread[u].at
  <2>1. \A u \in Tids : /\ thread'[u].sock = thread[u].sock
                        /\ thread'[u].at = IF u = t THEN to ELSE thread[u].at
    BY <1>1, <1>6 DEF ThreadInv, Thread!TypeOK
  <2>2. /\ \A d : d \in InService' <=> d \in InService
        /\ \A d : d \in Arriving' <=> d \in Arriving
        /\ ~ Over /\ ~ Over' /\ ~ Answered /\ ~ Answered'
        /\ open[thread[t].sock] \in InService
    BY <1>6, <2>1, ThreadViews
  <2> QED
    BY <2>1, <2>2 DEF StateOf
<1>7. ASSUME NEW t \in Tids, Thread!Recv(t) PROVE Promised
  <2>1. /\ UNCHANGED <<peer, backlog, open, cfd, mainpc>> /\ mainpc # "exited"
        /\ thread[t].at = "recv" /\ thread' = [thread EXCEPT ![t].at = "answer"]
    BY <1>7 DEF Thread!Recv, Thread!Move, Thread!Over
  <2>2. PICK c \in Clients : c = open[thread[t].sock]
    BY <1>1, <1>4, <2>1, OpenSeen
  <2>3. Queued' = Queued /\ Left' = Left
    BY <2>1 DEF Queued, Left
  <2>4. /\ \A d \in Clients : StateOf(d)' = StateOf(d)
        /\ StateOf(c) = "in" /\ ~ Over /\ ~ Over'
        /\ \A u \in Tids : /\ thread'[u].sock = thread[u].sock
                           /\ thread'[u].at = IF u = t THEN "answer" ELSE thread[u].at
    BY <1>6, <2>1, <2>2, <2>3
  <2>5. \A d : d \in Owed' <=> d \in Owed \/ d = c
    BY <2>1, <2>2, <2>4, ThreadViews
  <2>6. Owed' = Owed \cup {c} /\ \A d \in Clients : StateOf(d)' = IF d = c THEN "in" ELSE StateOf(d)
    BY <2>4, <2>5
  <2>7. unread' = [unread EXCEPT ![c] = 0] /\ Blind /\ Readable(c)
    BY <1>7, <2>2 DEF Thread!Recv, Thread!Peer, Thread!Readable, Thread!HasInput,
       Readable, HasInput, Blind, Is
  <2>8. Taken(c)
    BY <1>1, <2>7, ReadTakes
  <2> QED
    BY <2>3, <2>4, <2>6, <2>8, OneMoves
<1>8. ASSUME NEW t \in Tids, Thread!SendAnswer(t) PROVE Promised
  <2>1. /\ Sent(open[thread[t].sock]) /\ UNCHANGED <<open, cfd, mainpc>> /\ mainpc # "exited"
        /\ thread[t].at = "answer" /\ thread' = [thread EXCEPT ![t].at = "recv"]
    BY <1>8 DEF Thread!SendAnswer, Thread!Move, Thread!Over, Thread!Peer, Thread!Send,
                Thread!SendShort, Thread!Fill, Sent
  <2>2. PICK c \in Clients : c = open[thread[t].sock]
    BY <1>1, <1>4, <2>1, OpenSeen
  <2>3. Queued' = Queued /\ Left' = Left /\ unread' = unread
    BY <1>1, <2>1, <2>2, SendSeen
  <2>4. /\ \A d \in Clients : StateOf(d)' = StateOf(d)
        /\ StateOf(c) = "in" /\ ~ Over /\ ~ Over'
        /\ \A u \in Tids : /\ thread'[u].sock = thread[u].sock
                           /\ thread'[u].at = IF u = t THEN "recv" ELSE thread[u].at
    BY <1>6, <2>1, <2>2, <2>3
  <2>5. \A u \in Tids \ {t} : thread[u].at = "answer" => open[thread[u].sock] # c
    BY <1>5, <2>1, <2>2
  <2>6. c \in Owed /\ \A d : d \in Owed' <=> d \in Owed /\ d # c
    BY <2>1, <2>2, <2>4, <2>5, ThreadViews
  <2>7. Owed' = Owed \ {c} /\ \A d \in Clients : StateOf(d)' = IF d = c THEN "in" ELSE StateOf(d)
    BY <2>4, <2>6
  <2> QED
    BY <2>3, <2>4, <2>6, <2>7, OneMoves
<1> QED
  BY <1>2, <1>3, <1>7, <1>8, ThreadMainPromise DEF Thread!Next, Thread!start_thr

-----------------------------------------------------------------------------
(* fork_server.c and tcp_pro.cpp serve a connection when a child has it.   *)
(* Before, the parent has it between accept and fork.                      *)
Waits(c) == mainpc \in {"test", "fork"} /\ cfd \in Fds /\ open[cfd] = c
Owes(p) == child[p].at \in {"write", "answer"}

(* Who is in service, arriving and owed an answer, said of the children.   *)
LEMMA ChildrenViews ==
  ASSUME IInv, IInv', program' = program, Is("fork") \/ Is("pro")
  PROVE  /\ \A c \in Clients : c \in InService <=> \E p \in Pids : Serves(p, c)
         /\ \A c \in Clients : c \in InService' <=> \E p \in Pids : Serves(p, c)'
         /\ \A c \in Clients : c \in Arriving <=> c \in Queued \/ Waits(c)
         /\ \A c \in Clients : c \in Arriving' <=> c \in Queued' \/ Waits(c)'
         /\ \A c : c \in Owed <=> \E p \in Pids : Owes(p) /\ child[p].serves = c
         /\ \A c : c \in Owed' <=> \E p \in Pids : Owes(p)' /\ child'[p].serves = c
         /\ ~ Over /\ ~ Over' /\ ~ Answered /\ ~ Answered'
<1>1. ~ Over /\ ~ Over' /\ ~ Answered /\ ~ Answered'
  BY DEF Over, Answered, Is
<1>2. CASE Is("fork")
  <2>1. ForkInv /\ ForkInv' /\ ~ Is("pro") /\ ~ Is("thread") /\ ~ Is("pro")' /\ ~ Is("thread")'
        /\ Is("fork")'
    BY <1>2 DEF IInv, Is
  <2>2. InService = Fork!InService /\ InService' = Fork!InService'
    BY <1>2, <2>1 DEF InService
  <2>3. Arriving = Queued \cup Fork!Arriving /\ Arriving' = Queued' \cup Fork!Arriving'
    BY <1>2, <2>1 DEF Arriving
  <2>4. Owed = Fork!Owed /\ Owed' = Fork!Owed'
    BY <1>2 DEF Owed, Is
  <2>5. /\ \A c \in Clients : c \in InService <=> \E p \in Pids : Serves(p, c)
        /\ \A c \in Clients : c \in InService' <=> \E p \in Pids : Serves(p, c)'
    BY <2>2, ClientAssumption DEF Fork!InService, Serves
  <2>6. mainpc # "fork" /\ mainpc' # "fork"
    BY <2>1 DEF ForkInv, Fork!TypeOK
  <2>7. /\ \A c \in Clients : c \in Arriving <=> c \in Queued \/ Waits(c)
        /\ \A c \in Clients : c \in Arriving' <=> c \in Queued' \/ Waits(c)'
    BY <2>3, <2>6, ClientAssumption DEF Fork!Arriving, Fork!Connection, Waits
  <2>8. /\ \A p \in Pids : Owes(p) <=> child[p].at = "write"
        /\ \A p \in Pids : Owes(p)' <=> child'[p].at = "write"
    BY <2>1 DEF ForkInv, Fork!TypeOK, Owes
  <2>9. /\ \A c : c \in Owed <=> \E p \in Pids : Owes(p) /\ child[p].serves = c
        /\ \A c : c \in Owed' <=> \E p \in Pids : Owes(p)' /\ child'[p].serves = c
    BY <2>4, <2>8 DEF Fork!Owed
  <2> QED
    BY <1>1, <2>5, <2>7, <2>9
<1>3. CASE Is("pro")
  <2>1. ProInv /\ ProInv' /\ ~ Is("fork") /\ ~ Is("thread") /\ ~ Is("fork")' /\ ~ Is("thread")'
        /\ Is("pro")'
    BY <1>3 DEF IInv, Is
  <2>2. InService = Pro!InService /\ InService' = Pro!InService'
    BY <1>3, <2>1 DEF InService
  <2>3. Arriving = Queued \cup Pro!Arriving /\ Arriving' = Queued' \cup Pro!Arriving'
    BY <1>3, <2>1 DEF Arriving
  <2>4. Owed = Pro!Owed /\ Owed' = Pro!Owed'
    BY <1>3 DEF Owed, Is
  <2>5. /\ \A c \in Clients : c \in InService <=> \E p \in Pids : Serves(p, c)
        /\ \A c \in Clients : c \in InService' <=> \E p \in Pids : Serves(p, c)'
    BY <2>2 DEF Pro!InService, Serves, Pro!Alive, Fork!Alive
  <2>6. /\ mainpc # "test" /\ mainpc' # "test"
        /\ mainpc = "fork" => cfd \in Fds
        /\ mainpc' = "fork" => cfd' \in Fds
    BY <2>1 DEF ProInv, Pro!TypeOK, IsOpen
  <2>7. /\ \A c \in Clients : c \in Arriving <=> c \in Queued \/ Waits(c)
        /\ \A c \in Clients : c \in Arriving' <=> c \in Queued' \/ Waits(c)'
    BY <2>3, <2>6 DEF Pro!Arriving, Waits
  <2>8. /\ \A p \in Pids : Owes(p) <=> child[p].at = "answer"
        /\ \A p \in Pids : Owes(p)' <=> child'[p].at = "answer"
    BY <2>1 DEF ProInv, Pro!TypeOK, Owes
  <2>9. /\ \A c : c \in Owed <=> \E p \in Pids : Owes(p) /\ child[p].serves = c
        /\ \A c : c \in Owed' <=> \E p \in Pids : Owes(p)' /\ child'[p].serves = c
    BY <2>4, <2>8 DEF Pro!Owed
  <2> QED
    BY <1>1, <2>5, <2>7, <2>9
<1> QED
  BY <1>2, <1>3

(* A step after which every child serves whom it served and owes what it   *)
(* owed.                                                                   *)
LEMMA ChildrenQuiet ==
  ASSUME IInv, IInv', program' = program, Is("fork") \/ Is("pro"),
         \A p \in Pids : /\ \A d \in Clients : Serves(p, d)' <=> Serves(p, d)
                         /\ Owes(p)' <=> Owes(p)
                         /\ Owes(p) => child'[p].serves = child[p].serves,
         \A d \in Clients : d \in Queued' \/ Waits(d)' <=> d \in Queued \/ Waits(d),
         ClientDoes
  PROVE  Promised
<1>1. /\ \A d \in Clients : d \in InService' <=> d \in InService
      /\ \A d \in Clients : d \in Arriving' <=> d \in Arriving
      /\ \A d : d \in Owed' <=> d \in Owed
      /\ ~ Over /\ ~ Over' /\ ~ Answered /\ ~ Answered'
  BY ChildrenViews
<1>2. \A d \in Clients : StateOf(d)' = StateOf(d)
  BY <1>1 DEF StateOf
<1>3. Owed' = Owed
  BY <1>1
<1> QED
  BY <1>1, <1>2, <1>3, ClientShows

(* fork, whether it makes a child or fails.                                *)
LEMMA ChildrenFork ==
  ASSUME IInv, IInv', program' = program, Is("fork") \/ Is("pro"),
         NEW c \in Clients, Waits(c), c \notin Queued, \A p \in Pids : ~ Serves(p, c),
         Queued' = Queued, Left' = Left, unread' = unread, \A d \in Clients : ~ Waits(d)',
         \/ child' = child
         \/ \E q \in Pids : /\ child[q] = Fork!Unborn
                            /\ child'[q].at \in {"read", "recv"} /\ child'[q].serves = c
                            /\ \A p \in Pids \ {q} : child'[p] = child[p]
  PROVE  Promised
<1>1. \A d \in Clients : Waits(d) => d = c
  BY DEF Waits
<1>2. /\ c \notin InService /\ c \in Arriving /\ ~ Over /\ ~ Over' /\ ~ Answered /\ ~ Answered'
      /\ \A d \in Clients : d \in Arriving' <=> d \in Arriving /\ d # c
  BY <1>1, ChildrenViews
<1>3. StateOf(c) = "out"
  BY <1>2 DEF StateOf
<1>4. CASE child' = child
  <2>1. \A p \in Pids : /\ \A d \in Clients : Serves(p, d)' <=> Serves(p, d)
                        /\ Owes(p)' <=> Owes(p)
    BY <1>4 DEF Serves, Fork!Alive, Owes
  <2>2. /\ \A d \in Clients : d \in InService' <=> d \in InService
        /\ \A d : d \in Owed' <=> d \in Owed
    BY <1>4, <2>1, ChildrenViews
  <2>3. \A d \in Clients : StateOf(d)' = IF d = c THEN "done" ELSE StateOf(d)
    BY <1>2, <2>2 DEF StateOf
  <2>4. Owed' = Owed
    BY <2>2
  <2> QED
    BY <1>2, <1>3, <2>3, <2>4, OneMoves
<1>5. ASSUME NEW q \in Pids, child[q] = Fork!Unborn,
             child'[q].at \in {"read", "recv"}, child'[q].serves = c,
             \A p \in Pids \ {q} : child'[p] = child[p]
      PROVE  Promised
  <2>1. \A p \in Pids : /\ \A d \in Clients : Serves(p, d)' <=> Serves(p, d) \/ (p = q /\ d = c)
                        /\ Owes(p)' <=> Owes(p)
                        /\ Owes(p) => child'[p] = child[p]
    BY <1>5 DEF Serves, Fork!Alive, Owes, Fork!Unborn
  <2>2. /\ \A d \in Clients : d \in InService' <=> d \in InService \/ d = c
        /\ \A d : d \in Owed' <=> d \in Owed
    BY <2>1, ChildrenViews
  <2>3. \A d \in Clients : StateOf(d)' = IF d = c THEN "in" ELSE StateOf(d)
    BY <1>2, <2>2 DEF StateOf
  <2>4. Owed' = Owed
    BY <2>2
  <2> QED
    BY <1>2, <1>3, <2>3, <2>4, OneMoves
<1> QED
  BY <1>4, <1>5

(* A child reads, answers, or ends.                                        *)
LEMMA ChildPromise ==
  ASSUME IInv, IInv', program' = program, Is("fork") \/ Is("pro"),
         NEW p \in Pids, NEW c \in Clients, Serves(p, c), ~ Waits(c), c \notin Queued,
         child'[p].serves = c, \A q \in Pids \ {p} : child'[q] = child[q],
         \A q \in Pids \ {p} : ~ Serves(q, c),
         UNCHANGED <<open, cfd, mainpc>>, Queued' = Queued, Left' = Left,
         \/ ~ Owes(p) /\ child'[p].at \in {"write", "answer"} /\ Taken(c)
         \/ Owes(p) /\ child'[p].at \in {"read", "recv"} /\ unread' = unread
         \/ child'[p].at = "zombie" /\ c \in Left /\ unread' = unread
  PROVE  Promised
<1>1. \A q \in Pids : Owes(q) => Fork!Alive(q)
  BY DEF Owes, Fork!Alive
<1>2. \A q \in Pids \ {p} : Owes(q) => child[q].serves # c
  BY <1>1 DEF Serves
<1>3. child[p].serves = c /\ \A q \in Pids \ {p} : Owes(q)' <=> Owes(q)
  BY DEF Owes, Serves
<1>4. \A q \in Pids \ {p} : \A d \in Clients : Serves(q, d)' <=> Serves(q, d)
  BY DEF Serves, Fork!Alive
<1>5. \A d \in Clients : Serves(p, d)' <=> d = c /\ child'[p].at # "zombie"
  BY DEF Serves, Fork!Alive
<1>6. \A d \in Clients : d \in Arriving' <=> d \in Arriving
  BY ChildrenViews DEF Waits
<1>7. /\ c \in InService /\ c \notin Arriving /\ ~ Over /\ ~ Over' /\ ~ Answered /\ ~ Answered'
      /\ \A d \in Clients : d # c => (d \in InService' <=> d \in InService)
      /\ c \in InService' <=> child'[p].at # "zombie"
  <2>1. \A d \in Clients : d # c => ~ Serves(p, d)
    BY DEF Serves
  <2> QED
    BY <1>4, <1>5, <2>1, ChildrenViews
<1>8. StateOf(c) = "in"
  BY <1>7 DEF StateOf
<1>9. \A d \in Clients :
        StateOf(d)' = IF d = c THEN IF child'[p].at = "zombie" THEN "done" ELSE "in"
                               ELSE StateOf(d)
  BY <1>6, <1>7 DEF StateOf
<1>10. /\ \A d : d # c => (d \in Owed' <=> d \in Owed)
       /\ c \in Owed <=> Owes(p)
       /\ c \in Owed' <=> Owes(p)'
  BY <1>2, <1>3, ChildrenViews
<1>11. CASE ~ Owes(p) /\ child'[p].at \in {"write", "answer"} /\ Taken(c)
  <2>1. Owed' = Owed \cup {c}
    BY <1>10, <1>11 DEF Owes
  <2>2. \A d \in Clients : StateOf(d)' = IF d = c THEN "in" ELSE StateOf(d)
    BY <1>9, <1>11
  <2> QED
    BY <1>7, <1>8, <1>11, <2>1, <2>2, OneMoves
<1>12. CASE Owes(p) /\ child'[p].at \in {"read", "recv"} /\ unread' = unread
  <2>1. c \in Owed /\ Owed' = Owed \ {c}
    BY <1>10, <1>12 DEF Owes
  <2>2. \A d \in Clients : StateOf(d)' = IF d = c THEN "in" ELSE StateOf(d)
    BY <1>9, <1>12
  <2> QED
    BY <1>7, <1>8, <1>12, <2>1, <2>2, OneMoves
<1>13. CASE child'[p].at = "zombie" /\ c \in Left /\ unread' = unread
  <2>1. Owed' = Owed \ {c}
    BY <1>10, <1>13 DEF Owes
  <2>2. \A d \in Clients : StateOf(d)' = IF d = c THEN "done" ELSE StateOf(d)
    BY <1>9, <1>13
  <2> QED
    BY <1>7, <1>8, <1>13, <2>1, <2>2, OneMoves
<1> QED
  BY <1>11, <1>12, <1>13

(* The steps of fork_server.c that a client does not notice, or takes      *)
(* itself.                                                                 *)
LEMMA ForkQuiet ==
  ASSUME IInv, IInv', program' = program, Is("fork"),
         \/ Fork!AcceptFails \/ Fork!AcceptAgain \/ Fork!CloseInParent \/ Fork!worker
         \/ Fork!Peers \/ UNCHANGED Fork!vars
  PROVE  Promised
<1> USE DEF Fork!At
<1>1. KernelInv /\ ForkInv
  BY DEF IInv, Is
<1>2. Queued' = Queued /\ ClientDoes
  <2>1. CASE Fork!Peers
    <3>1. ClientMove
      BY <1>1, <2>1, ClientMoves DEF Fork!Peers, KernelInv
    <3> QED
      BY <1>1, <3>1, ClientMoveSeen
  <2>2. CASE ~ Fork!Peers
    <3>1. UNCHANGED <<peer, backlog, unread>>
      BY <2>2 DEF Fork!AcceptFails, Fork!AcceptAgain, Fork!CloseInParent, Fork!Close,
         Fork!worker, Fork!Interrupt, Fork!worker_reap, Fork!worker_return, Fork!vars,
         Fork!socketVars
    <3> QED
      BY <3>1 DEF Queued, Left, ClientDoes
  <2> QED
    BY <2>1, <2>2
<1>3. child' = child \/ \E p \in Pids : /\ child[p].at = "zombie"
                                        /\ child' = [child EXCEPT ![p] = Fork!Unborn]
  BY DEF Fork!AcceptFails, Fork!AcceptAgain, Fork!CloseInParent, Fork!worker, Fork!Interrupt,
     Fork!worker_reap, Fork!worker_return, Fork!Peers, Fork!vars, Fork!childVars, Fork!Deliver,
     Fork!Reap, Fork!Zombies, Fork!ReturnFromHandler
<1>4. ASSUME NEW p \in Pids
      PROVE  /\ \A d \in Clients : Serves(p, d)' <=> Serves(p, d)
             /\ Owes(p)' <=> Owes(p)
             /\ Owes(p) => child'[p].serves = child[p].serves
  <2>1. child'[p] = child[p] \/ (child[p].at = "zombie" /\ child'[p] = Fork!Unborn)
    BY <1>1, <1>3 DEF ForkInv, Fork!TypeOK
  <2> QED
    BY <2>1 DEF Serves, Owes, Fork!Alive, Fork!Unborn
<1>5. \A d \in Clients : Waits(d)' <=> Waits(d)
  <2>1. CASE Fork!AcceptFails \/ Fork!AcceptAgain
    <3>1. cfd = -1 /\ cfd' = -1
      BY <1>1, <2>1 DEF Fork!AcceptFails, Fork!AcceptAgain, Fork!Interrupted, ForkInv
    <3> QED
      BY <3>1, DescriptorAssumption DEF Waits
  <2>2. CASE Fork!CloseInParent
    BY <2>2 DEF Fork!CloseInParent, Waits
  <2>3. CASE Fork!Peers
    <3>1. open' = open
      BY <1>1, <2>3, ClientMoves, ClientMoveKernel DEF Fork!Peers, KernelInv
    <3> QED
      BY <2>3, <3>1 DEF Fork!Peers, Fork!mainVars, Waits
  <2>4. CASE UNCHANGED Fork!vars
    BY <2>4 DEF Fork!vars, Waits
  <2>5. CASE Fork!worker
    <3>1. UNCHANGED <<cfd, open>>
      BY <2>5 DEF Fork!worker, Fork!Interrupt, Fork!worker_reap, Fork!worker_return,
         Fork!socketVars
    <3>2. mainpc' = mainpc \/ mainpc = "accept"
      BY <2>5 DEF Fork!worker, Fork!Interrupt, Fork!worker_reap, Fork!worker_return
    <3>3. mainpc = "accept" => cfd \notin Fds
      BY <1>1, DescriptorAssumption DEF ForkInv
    <3> QED
      BY <3>1, <3>2, <3>3 DEF Waits
  <2> QED
    BY <2>1, <2>2, <2>3, <2>4, <2>5
<1> QED
  BY <1>2, <1>4, <1>5, ChildrenQuiet

(* Every step of fork_server.c keeps the promise.                          *)
LEMMA ForkPromise ==
  ASSUME IInv, IInv', program' = program, Is("fork"), [Fork!Next]_(Fork!vars)
  PROVE  Promised
<1> USE DEF Fork!At
<1>1. KernelInv /\ ForkInv
  BY DEF IInv, Is
<1>2. CASE Fork!AcceptConnection
  <2>1. PICK f \in Fds : Accept(f) /\ cfd' = f
    BY <1>2 DEF Fork!AcceptConnection, Fork!Accept, Accept, Fork!FreeFds, FreeFds
  <2>2. PICK c \in Clients : /\ c \in Queued /\ Queued' = Queued \ {c} /\ Left' = Left
                             /\ open'[f] = c /\ unread' = unread
    BY <1>1, <2>1, AcceptSeen
  <2>3. mainpc = "accept" /\ mainpc' = "test" /\ child' = child
    BY <1>2 DEF Fork!AcceptConnection, Fork!childVars
  <2>4. \A d \in Clients : ~ Waits(d) /\ (Waits(d)' <=> d = c)
    BY <2>1, <2>2, <2>3 DEF Waits
  <2>5. \A d \in Clients : d \in Queued' \/ Waits(d)' <=> d \in Queued \/ Waits(d)
    BY <2>2, <2>4
  <2>6. \A p \in Pids : /\ \A d \in Clients : Serves(p, d)' <=> Serves(p, d)
                        /\ Owes(p)' <=> Owes(p)
                        /\ Owes(p) => child'[p].serves = child[p].serves
    BY <2>3 DEF Serves, Owes, Fork!Alive
  <2> QED
    BY <2>2, <2>5, <2>6, ChildrenQuiet DEF ClientDoes
<1>3. CASE Fork!fork \/ Fork!ForkFails
  <2>1. /\ UNCHANGED <<peer, backlog, open, unread>>
        /\ mainpc = "test" /\ mainpc' \in {"close", "accept"}
        /\ child' = child \/ Fork!Spawn("read", Fork!Connection, Fork!Held)
    BY <1>3 DEF Fork!fork, Fork!ForkFails, Fork!socketVars, Fork!childVars
  <2>2. /\ Queued' = Queued /\ Left' = Left /\ unread' = unread
        /\ \A d \in Clients : ~ Waits(d)'
    BY <2>1 DEF Queued, Left, Waits
  <2>3. \/ child' = child
        \/ \E q \in Pids : /\ child[q] = Fork!Unborn
                           /\ child' = [child EXCEPT ![q] =
                                [at |-> "read", serves |-> Fork!Connection,
                                   holds |-> Fork!Held]]
    BY <2>1, SpawnChild
  <2>4. \/ child' = child
        \/ \E q \in Pids : /\ child[q] = Fork!Unborn
                           /\ child'[q].at \in {"read", "recv"}
                           /\ child'[q].serves = Fork!Connection
                           /\ \A p \in Pids \ {q} : child'[p] = child[p]
    BY <1>1, <2>3 DEF ForkInv, Fork!TypeOK
  <2>5. CASE cfd \in Fds
    <3>1. open[cfd] # NoClient /\ (\A p \in Pids : ~ Serves(p, open[cfd])) /\ IsOpen(cfd)
      BY <1>1, <2>1, <2>5 DEF ForkInv, IsOpen
    <3>2. PICK c \in Clients : c = open[cfd] /\ c \notin Queued /\ c = Fork!Connection
      BY <1>1, <2>5, <3>1, OpenSeen DEF Fork!Connection
    <3>3. Waits(c) /\ \A p \in Pids : ~ Serves(p, c)
      BY <2>1, <2>5, <3>1, <3>2 DEF Waits
    <3> QED
      BY <2>2, <2>4, <3>2, <3>3, ChildrenFork
  <2>6. CASE cfd \notin Fds
    <3>1. \A p \in Pids : child'[p] = child[p] \/ (/\ child[p] = Fork!Unborn
                                                   /\ child'[p].at \in {"read", "recv"}
                                                   /\ child'[p].serves = NoClient)
      BY <2>4, <2>6 DEF Fork!Connection
    <3>2. ASSUME NEW p \in Pids
          PROVE  /\ \A d \in Clients : Serves(p, d)' <=> Serves(p, d)
                 /\ Owes(p)' <=> Owes(p)
                 /\ Owes(p) => child'[p].serves = child[p].serves
      BY <3>1, ClientAssumption DEF Serves, Owes, Fork!Alive, Fork!Unborn
    <3>3. \A d \in Clients : ~ Waits(d)
      BY <2>6 DEF Waits
    <3> QED
      BY <2>2, <3>2, <3>3, ChildrenQuiet DEF ClientDoes
  <2> QED
    BY <2>5, <2>6
<1>4. ASSUME NEW p \in Pids, Fork!process(p) PROVE Promised
  <2>1. /\ UNCHANGED <<open, backlog, cfd, mainpc>> /\ Fork!Alive(p)
        /\ \A q \in Pids \ {p} : child'[q] = child[q]
        /\ child'[p].serves = child[p].serves
    <3>1. CASE Fork!ReadData(p)
      BY <1>1, <3>1 DEF Fork!ReadData, Fork!ReadInput, Fork!Move, Fork!mainVars, Fork!Alive,
         ForkInv, Fork!TypeOK
    <3>2. CASE Fork!WriteBack(p)
      BY <1>1, <3>2 DEF Fork!WriteBack, Fork!Send, Fork!SendShort, Fork!Fill, Fork!Move,
                        Fork!mainVars, Fork!Alive,
         ForkInv, Fork!TypeOK
    <3>3. CASE Fork!ExitChild(p)
      BY <1>1, <3>3 DEF Fork!ExitChild, Fork!Exit, Fork!socketVars, Fork!mainVars, Fork!Alive,
         ForkInv, Fork!TypeOK
    <3> QED
      BY <1>4, <3>1, <3>2, <3>3 DEF Fork!process
  <2>2. CASE child[p].serves = NoClient
    <3>1. child[p].at = "read" /\ Fork!Exit(p) /\ UNCHANGED <<peer, backlog, unread>>
      BY <1>1, <1>4, <2>2 DEF Fork!process, Fork!ReadData, Fork!WriteBack, Fork!ExitChild,
         Fork!Peer, Fork!Move, Fork!socketVars, ForkInv
    <3>2. child'[p].at = "zombie"
      BY <1>1, <3>1 DEF Fork!Exit, ForkInv, Fork!TypeOK
    <3>3. ASSUME NEW q \in Pids
          PROVE  /\ \A d \in Clients : Serves(q, d)' <=> Serves(q, d)
                 /\ Owes(q)' <=> Owes(q)
                 /\ Owes(q) => child'[q].serves = child[q].serves
      BY <2>1, <2>2, <3>1, <3>2, ClientAssumption DEF Serves, Owes, Fork!Alive
    <3>4. Queued' = Queued /\ ClientDoes /\ \A d \in Clients : Waits(d)' <=> Waits(d)
      BY <2>1, <3>1 DEF Queued, Left, Waits, ClientDoes
    <3> QED
      BY <3>3, <3>4, ChildrenQuiet
  <2>3. CASE child[p].serves # NoClient
    <3>1. PICK c \in Clients : c = child[p].serves
      BY <1>1, <2>3 DEF ForkInv, Fork!TypeOK
    <3>2. Serves(p, c)
      BY <2>1, <3>1 DEF Serves
    <3>3. ~ Waits(c) /\ c \notin Queued /\ \A q \in Pids \ {p} : ~ Serves(q, c)
      <4>1. c \notin Queued /\ \A q \in Pids \ {p} : ~ Serves(q, c)
        BY <1>1, <3>2 DEF ForkInv, ServedOnce, Queued
      <4>2. mainpc # "fork"
        BY <1>1 DEF ForkInv, Fork!TypeOK
      <4>3. ~ Waits(c)
        BY <1>1, <3>2, <4>2 DEF ForkInv, Waits
      <4> QED
        BY <4>1, <4>3
    <3>4. CASE Fork!ReadData(p)
      <4>1. /\ child[p].at = "read" /\ child'[p].at = "write" /\ UNCHANGED <<peer, backlog>>
        BY <1>1, <3>4 DEF Fork!ReadData, Fork!ReadInput, Fork!Move, ForkInv, Fork!TypeOK
      <4>2. Queued' = Queued /\ Left' = Left /\ ~ Owes(p)
        BY <4>1 DEF Queued, Left, Owes
      <4>3. HasInput(c) /\ unread' = [unread EXCEPT ![c] = 0]
        BY <3>1, <3>4 DEF Fork!ReadData, Fork!ReadInput, Fork!Peer, Fork!HasInput, HasInput
      <4>4. Taken(c)
        BY <1>1, <4>3, ReadTakes
      <4> QED
        BY <2>1, <3>1, <3>2, <3>3, <4>1, <4>2, <4>4, ChildPromise
    <3>5. CASE Fork!WriteBack(p)
      <4>1. child[p].at = "write" /\ child'[p].at = "read" /\ Sent(c)
        BY <1>1, <3>1, <3>5 DEF Fork!WriteBack, Fork!Send, Fork!SendShort, Fork!Fill, Sent,
           Fork!Peer, Fork!Move, ForkInv,
           Fork!TypeOK
      <4>2. Queued' = Queued /\ Left' = Left /\ unread' = unread /\ Owes(p)
        BY <1>1, <4>1, SendSeen DEF Owes
      <4> QED
        BY <2>1, <3>1, <3>2, <3>3, <4>1, <4>2, ChildPromise
    <3>6. CASE Fork!ExitChild(p)
      <4>1. /\ child'[p].at = "zombie" /\ UNCHANGED <<peer, backlog, unread>>
            /\ peer[c] \in {"fin", "rst"}
        BY <1>1, <2>3, <3>1, <3>6 DEF Fork!ExitChild, Fork!Exit, Fork!Peer, Fork!AtEnd,
           Fork!Failed, Fork!socketVars, ForkInv, Fork!TypeOK
      <4>2. Queued' = Queued /\ Left' = Left /\ c \in Left
        BY <4>1 DEF Queued, Left
      <4> QED
        BY <2>1, <3>1, <3>2, <3>3, <4>1, <4>2, ChildPromise
    <3> QED
      BY <1>4, <3>4, <3>5, <3>6 DEF Fork!process
  <2> QED
    BY <2>2, <2>3
<1> QED
  BY <1>2, <1>3, <1>4, ForkQuiet DEF Fork!Next, Fork!main

(* Every step of tcp_pro.cpp keeps the promise.                            *)
LEMMA ProPromise ==
  ASSUME IInv, IInv', program' = program, Is("pro"), [Pro!Next]_(Pro!vars)
  PROVE  Promised
<1> USE DEF Pro!At
<1>1. KernelInv /\ ProInv
  BY DEF IInv, Is
<1>2. CASE Pro!Accept_com
  <2>1. PICK f \in Fds : Accept(f) /\ cfd' = f
    BY <1>2 DEF Pro!Accept_com, Pro!Accept, Accept, Pro!FreeFds, FreeFds
  <2>2. PICK c \in Clients : /\ c \in Queued /\ Queued' = Queued \ {c} /\ Left' = Left
                             /\ open'[f] = c /\ unread' = unread
    BY <1>1, <2>1, AcceptSeen
  <2>3. mainpc = "accept" /\ mainpc' = "fork" /\ child' = child
    BY <1>2 DEF Pro!Accept_com, Pro!childVars
  <2>4. \A d \in Clients : ~ Waits(d) /\ (Waits(d)' <=> d = c)
    BY <2>1, <2>2, <2>3 DEF Waits
  <2>5. \A d \in Clients : d \in Queued' \/ Waits(d)' <=> d \in Queued \/ Waits(d)
    BY <2>2, <2>4
  <2>6. \A p \in Pids : /\ \A d \in Clients : Serves(p, d)' <=> Serves(p, d)
                        /\ Owes(p)' <=> Owes(p)
                        /\ Owes(p) => child'[p].serves = child[p].serves
    BY <2>3 DEF Serves, Owes, Fork!Alive
  <2> QED
    BY <2>2, <2>5, <2>6, ChildrenQuiet DEF ClientDoes
<1>3. CASE Pro!fork \/ Pro!ForkFails
  <2>1. /\ UNCHANGED <<peer, backlog, open, unread>> /\ mainpc = "fork" /\ mainpc' = "close"
        /\ child' = child \/ Pro!Spawn("recv", open[cfd], Pro!Held)
    BY <1>3 DEF Pro!fork, Pro!ForkFails, Pro!socketVars, Pro!childVars
  <2>2. /\ Queued' = Queued /\ Left' = Left /\ unread' = unread
        /\ \A d \in Clients : ~ Waits(d)'
    BY <2>1 DEF Queued, Left, Waits
  <2>3. PICK c \in Clients : /\ c = open[cfd] /\ c \notin Queued /\ Waits(c)
                             /\ \A p \in Pids : ~ Serves(p, c)
    <3>1. IsOpen(cfd) /\ \A p \in Pids : ~ Serves(p, open[cfd])
      BY <1>1, <2>1 DEF ProInv
    <3> QED
      BY <1>1, <2>1, <3>1, OpenSeen DEF Waits, IsOpen
  <2>4. \/ child' = child
        \/ \E q \in Pids : /\ child[q] = Fork!Unborn
                           /\ child' = [child EXCEPT ![q] =
                                [at |-> "recv", serves |-> c, holds |-> Pro!Held]]
    BY <2>1, <2>3, SpawnChild
  <2>5. \/ child' = child
        \/ \E q \in Pids : /\ child[q] = Fork!Unborn
                           /\ child'[q].at \in {"read", "recv"} /\ child'[q].serves = c
                           /\ \A p \in Pids \ {q} : child'[p] = child[p]
    BY <1>1, <2>4 DEF ProInv, Pro!TypeOK
  <2> QED
    BY <2>2, <2>3, <2>5, ChildrenFork
<1>4. CASE Pro!Close_com \/ Pro!sigbc \/ Pro!Peers \/ UNCHANGED Pro!vars
  <2>1. Queued' = Queued /\ ClientDoes
    <3>1. CASE Pro!Peers
      <4>1. ClientMove
        BY <1>1, <3>1, ClientMoves DEF Pro!Peers, KernelInv
      <4> QED
        BY <1>1, <4>1, ClientMoveSeen
    <3>2. CASE ~ Pro!Peers
      <4>1. UNCHANGED <<peer, backlog, unread>>
        BY <1>4, <3>2 DEF Pro!Close_com, Pro!Close, Pro!sigbc, Pro!sigbc_starts,
           Pro!sigbc_reaps, Pro!sigbc_returns, Pro!vars, Pro!socketVars
      <4> QED
        BY <4>1 DEF Queued, Left, ClientDoes
    <3> QED
      BY <3>1, <3>2
  <2>2. child' = child \/ \E p \in Pids : /\ child[p].at = "zombie"
                                          /\ child' = [child EXCEPT ![p] = Pro!Unborn]
    BY <1>4 DEF Pro!Close_com, Pro!sigbc, Pro!sigbc_starts, Pro!sigbc_reaps, Pro!sigbc_returns,
       Pro!Peers, Pro!vars, Pro!childVars, Pro!Deliver, Pro!Reap, Pro!Zombies,
       Pro!ReturnFromHandler
  <2>3. ASSUME NEW p \in Pids
        PROVE  /\ \A d \in Clients : Serves(p, d)' <=> Serves(p, d)
               /\ Owes(p)' <=> Owes(p)
               /\ Owes(p) => child'[p].serves = child[p].serves
    <3>1. child'[p] = child[p] \/ (child[p].at = "zombie" /\ child'[p] = Pro!Unborn)
      BY <1>1, <2>2 DEF ProInv, Pro!TypeOK
    <3> QED
      BY <3>1 DEF Serves, Owes, Fork!Alive, Pro!Unborn
  <2>4. \A d \in Clients : Waits(d)' <=> Waits(d)
    <3>1. CASE Pro!Close_com
      BY <3>1 DEF Pro!Close_com, Waits
    <3>2. CASE Pro!Peers
      <4>1. open' = open
        BY <1>1, <3>2, ClientMoves, ClientMoveKernel DEF Pro!Peers, KernelInv
      <4> QED
        BY <3>2, <4>1 DEF Pro!Peers, Waits
    <3>3. CASE Pro!sigbc \/ UNCHANGED Pro!vars
      BY <3>3 DEF Pro!sigbc, Pro!sigbc_starts, Pro!sigbc_reaps, Pro!sigbc_returns,
         Pro!socketVars, Pro!vars, Waits
    <3> QED
      BY <1>4, <3>1, <3>2, <3>3
  <2> QED
    BY <2>1, <2>3, <2>4, ChildrenQuiet
<1>5. ASSUME NEW p \in Pids, Pro!Recv(p) \/ Pro!SendAnswer(p) \/ Pro!BrokenPipe(p)
      PROVE  Promised
  <2>1. /\ UNCHANGED <<open, backlog, cfd, mainpc>> /\ child[p].at \in {"recv", "answer"}
        /\ \A q \in Pids \ {p} : child'[q] = child[q]
        /\ child'[p].serves = child[p].serves
    <3>1. CASE Pro!Recv(p)
      BY <1>1, <3>1 DEF Pro!Recv, Pro!Move, ProInv, Pro!TypeOK
    <3>2. CASE Pro!SendAnswer(p)
      BY <1>1, <3>2 DEF Pro!SendAnswer, Pro!Send, Pro!SendShort, Pro!Fill, Pro!Move,
                        ProInv, Pro!TypeOK
    <3>3. CASE Pro!BrokenPipe(p)
      BY <1>1, <3>3 DEF Pro!BrokenPipe, Pro!Exit, Pro!socketVars, ProInv, Pro!TypeOK
    <3> QED
      BY <1>5, <3>1, <3>2, <3>3
  <2>2. PICK c \in Clients : c = child[p].serves
    BY <1>1, <2>1 DEF ProInv, Pro!TypeOK
  <2>3. Serves(p, c)
    BY <2>1, <2>2 DEF Serves, Fork!Alive
  <2>4. ~ Waits(c) /\ c \notin Queued /\ \A q \in Pids \ {p} : ~ Serves(q, c)
    <3>1. c \notin Queued /\ \A q \in Pids \ {p} : ~ Serves(q, c)
      BY <1>1, <2>3 DEF ProInv, ServedOnce, Queued
    <3>2. mainpc # "test"
      BY <1>1 DEF ProInv, Pro!TypeOK
    <3>3. ~ Waits(c)
      BY <1>1, <2>3, <3>2 DEF ProInv, Waits
    <3> QED
      BY <3>1, <3>3
  <2>5. CASE Pro!Recv(p)
    <3>1. child[p].at = "recv" /\ child'[p].at = "answer" /\ UNCHANGED <<peer, backlog>>
      BY <1>1, <2>5 DEF Pro!Recv, Pro!Move, ProInv, Pro!TypeOK
    <3>2. Queued' = Queued /\ Left' = Left /\ ~ Owes(p)
      BY <3>1 DEF Queued, Left, Owes
    <3>3. unread' = [unread EXCEPT ![c] = 0] /\ Blind /\ Readable(c)
      BY <2>2, <2>5 DEF Pro!Recv, Pro!Peer, Pro!Readable, Pro!HasInput, Readable, HasInput,
         Blind, Is
    <3>4. Taken(c)
      BY <1>1, <3>3, ReadTakes
    <3> QED
      BY <2>1, <2>2, <2>3, <2>4, <3>1, <3>2, <3>4, ChildPromise
  <2>6. CASE Pro!SendAnswer(p)
    <3>1. child[p].at = "answer" /\ child'[p].at = "recv" /\ Sent(c)
      BY <1>1, <2>2, <2>6 DEF Pro!SendAnswer, Pro!Send, Pro!SendShort, Pro!Fill, Sent,
                              Pro!Peer, Pro!Move, ProInv,
         Pro!TypeOK
    <3>2. Queued' = Queued /\ Left' = Left /\ unread' = unread /\ Owes(p)
      BY <1>1, <3>1, SendSeen DEF Owes
    <3> QED
      BY <2>1, <2>2, <2>3, <2>4, <3>1, <3>2, ChildPromise
  <2>7. CASE Pro!BrokenPipe(p)
    <3>1. /\ child'[p].at = "zombie" /\ UNCHANGED <<peer, backlog, unread>>
          /\ peer[c] = "rst"
      BY <1>1, <2>2, <2>7 DEF Pro!BrokenPipe, Pro!Exit, Pro!Peer, Pro!socketVars, ProInv,
         Pro!TypeOK
    <3>2. Queued' = Queued /\ Left' = Left /\ c \in Left
      BY <3>1 DEF Queued, Left
    <3> QED
      BY <2>1, <2>2, <2>3, <2>4, <3>1, <3>2, ChildPromise
  <2> QED
    BY <1>5, <2>5, <2>6, <2>7
<1> QED
  BY <1>2, <1>3, <1>4, <1>5 DEF Pro!Next, Pro!main, Pro!sigbc

-----------------------------------------------------------------------------
(* At first every client is yet to come, and nothing is owed.              *)
LEMMA InitPromise == Init => Service!Init
<1> SUFFICES ASSUME Init PROVE Service!Init
  OBVIOUS
<1>1. IInv
  BY InitIInv
<1>2. /\ peer = [c \in Clients |-> "idle"] /\ open = [f \in Fds |-> NoClient]
      /\ unread = [c \in Clients |-> 0]
      /\ pc = "wait" /\ mainpc = "accept" /\ output = {} /\ program \in Programs
  BY DEF Init, Select!Init, Select!SocketsInit, Fork!Init, Libevent!Init
<1>3. child = [p \in Pids |-> Fork!Unborn] /\ thread = [t \in Tids |-> Thread!Unborn]
  BY DEF Init, Fork!Init, Fork!ChildrenInit, Thread!Init
<1>4. ~ Over
  BY <1>2 DEF Over
<1>5. InService \cap Clients = {}
  <2>1. Connected = {}
    BY <1>2 DEF Connected
  <2>2. Fork!InService = {} /\ Pro!InService = {}
    BY <1>3 DEF Fork!InService, Pro!InService, Fork!Alive, Pro!Alive, Fork!Unborn
  <2>3. Thread!InService = {}
    BY <1>3 DEF Thread!InService, Thread!Sock, Thread!Unborn
  <2> QED
    BY <2>1, <2>2, <2>3 DEF InService
<1>6. \A c \in Clients : c \in Arriving
  BY <1>2 DEF Arriving, Queued
<1>7. Owed = {}
  <2>1. /\ Select!Owed = {} /\ Poll!Owed = {} /\ Epoll!Owed = {} /\ Nonblock!Owed = {}
        /\ Http!Owed = {} /\ Libevent!Owed = {}
    BY <1>2 DEF Select!Owed, Poll!Owed, Epoll!Owed, Nonblock!Owed, Http!Owed, Libevent!Owed
  <2>2. Fork!Owed = {} /\ Pro!Owed = {}
    BY <1>3 DEF Fork!Owed, Pro!Owed, Fork!Unborn
  <2>3. Thread!Owed = {}
    BY <1>3 DEF Thread!Owed, Thread!Sock, Thread!Unborn
  <2> QED
    BY <1>2, <2>1, <2>2, <2>3 DEF Owed, Programs, Is
<1>8. Left = {}
  BY <1>2 DEF Left
<1>9. \A c \in Clients : StateOf(c) = "out"
  BY <1>4, <1>5, <1>6 DEF StateOf
<1>10. (program \in {"http", "pro", "thread"}) \in BOOLEAN
  OBVIOUS
<1> QED
  BY <1>2, <1>4, <1>7, <1>8, <1>9, <1>10 DEF Service!Init, StateOf, Answered, Left

(* Every step of the program that runs is one of ConnectionService or a    *)
(* stutter.                                                                *)
LEMMA NextPromise == IInv /\ IInv' /\ [Next]_vars => [Service!Next]_(Service!vars)
<1> SUFFICES ASSUME IInv, IInv', [Next]_vars PROVE Promised
  BY DEF Promised
<1>1. program' = program /\ program \in Programs
  BY DEF Next, vars, Others, IInv
<1>2. /\ Is("select") => [Select!Next]_(Select!vars)
      /\ Is("poll") => [Poll!Next]_(Poll!vars)
      /\ Is("epoll") => [Epoll!Next]_(Epoll!vars)
  BY DEF Next, Is, vars, Select!vars, Poll!vars, Epoll!vars
<1>3. /\ Is("nonblock") => [Nonblock!Next]_(Nonblock!vars)
      /\ Is("fork") => [Fork!Next]_(Fork!vars)
      /\ Is("pro") => [Pro!Next]_(Pro!vars)
  BY DEF Next, Is, vars, Nonblock!vars, Fork!vars, Pro!vars
<1>4. /\ Is("thread") => [Thread!Next]_(Thread!vars)
      /\ Is("http") => [Http!Next]_(Http!vars)
      /\ Is("libevent") => [Libevent!Next]_(Libevent!vars)
  BY DEF Next, Is, vars, Thread!vars, Http!vars, Libevent!vars
<1>5. Is("select") \/ Is("poll") \/ Is("epoll") \/ Is("nonblock") \/ Is("fork") \/ Is("pro")
      \/ Is("thread") \/ Is("http") \/ Is("libevent")
  BY <1>1 DEF Programs, Is
<1> QED
  BY <1>1, <1>2, <1>3, <1>4, <1>5, SelectPromise, PollPromise, EpollPromise, NonblockPromise,
     ForkPromise, ProPromise, ThreadPromise, HttpPromise, LibeventPromise

-----------------------------------------------------------------------------
(* Every variable of every program keeps its range.                        *)
THEOREM TypeCorrect == Spec => []TypeOK
BY InvType, Invariance, PTL

(* A descriptor that select, poll or epoll_wait has reported is open and   *)
(* readable when its turn comes, so that the read does not block: whatever *)
(* was accepted or closed since, and however numbers are reused.           *)
THEOREM ReportsHold == Spec => []ReportedReadable
BY InvReported, Invariance, PTL

(* No server forgets a connection it has open: somebody reads from it, and *)
(* no process keeps a copy it has no use for; but for the one connection   *)
(* for which epoll_ctl, fork or pthread_create has failed.                 *)
THEOREM NoConnectionForgotten == Spec => []NothingLeaked
BY InvLeaked, Invariance, PTL

(* select.c watches every connection that is open, within maxfd, and       *)
(* nothing else.                                                           *)
THEOREM SelectWatchesAll ==
  Spec => [](Is("select") => /\ Select!Tended = {f \in Fds : open[f] # NoClient}
                             /\ \A f \in Select!Tended : f <= maxfd)
<1>1. IInv => (Is("select") => /\ Select!Tended = {f \in Fds : open[f] # NoClient}
                               /\ \A f \in Select!Tended : f <= maxfd)
  <2> SUFFICES ASSUME IInv, Is("select")
               PROVE  /\ Select!Tended = {f \in Fds : open[f] # NoClient}
                      /\ \A f \in Select!Tended : f <= maxfd
    OBVIOUS
  <2>1. SelectInv
    BY DEF IInv
  <2>2. \A f : f \in Select!Tended <=> f \in Fds /\ open[f] # NoClient
    <3>1. lfd \notin Fds
      BY DescriptorAssumption
    <3>2. Select!Tended = reads \ {lfd} /\ reads \subseteq Fds \cup {lfd}
      BY <2>1 DEF SelectInv, Select!TypeOK, Select!Tended
    <3> QED
      BY <2>1, <3>1, <3>2 DEF SelectInv
  <2>3. \A f \in Select!Tended : f <= maxfd
    BY <2>1 DEF SelectInv, Select!Tended
  <2> QED
    BY <2>2, <2>3
<1> QED
  BY <1>1, Invariance, PTL

(* No client of fork_server.c or tcp_pro.cpp is served by two children,    *)
(* and none is served who still waits in the backlog.                      *)
THEOREM OneChildEach == Spec => [](Is("fork") \/ Is("pro") => ServedOnce)
<1>1. IInv => (Is("fork") \/ Is("pro") => ServedOnce)
  BY DEF IInv, ForkInv, ProInv
<1> QED
  BY <1>1, Invariance, PTL

(* Each of the nine programs keeps the promise of ConnectionService: it    *)
(* answers a client only when it has read some of its input since the last *)
(* answer, and cuts off nobody who has not left, unless it stops; the      *)
(* three that do not look at what Recv returns may also answer a client    *)
(* that has left.                                                          *)
THEOREM ImplementsService == Spec => ServicePromise
BY InitPromise, NextPromise, Invariance, PTL DEF Spec, ServicePromise, Service!Spec
=============================================================================
