------------------------ MODULE PthreadServerProofs ------------------------
(***************************************************************************)
(* What holds of pthread_server.c for any number of elements, clients and  *)
(* descriptors, as long as accept has not failed: a live worker has its    *)
(* connection to itself, although it looks ps->fd up for every call,       *)
(* numbers of descriptors are reused, and main writes ps meanwhile.        *)
(***************************************************************************)
EXTENDS PthreadServer, SequenceTheorems, TLAPS

(* A client has one connection: it is yet to come, in the backlog, or      *)
(* accepted.                                                               *)
OneConnection ==
  /\ \A f, g \in Fds : open[f] = open[g] /\ open[f] # NoClient => f = g
  /\ \A j, k \in DOMAIN backlog : backlog[j] = backlog[k] => j = k
  /\ \A k \in DOMAIN backlog : /\ peer[backlog[k]] # "idle"
                               /\ \A f \in Fds : open[f] # backlog[k]
  /\ \A f \in Fds : open[f] # NoClient => peer[open[f]] # "idle"

(* The descriptor main is about to hand over: open, and no worker's.       *)
MainOK == /\ mainpc = "accept" => ps[i] = -1
          /\ mainpc = "create" => /\ ps[i] \in Fds /\ open[ps[i]] # NoClient
                                  /\ \A w \in Workers : Live(w) => ps[arg[w]] # ps[i]

(* A live worker's descriptor is open and no other worker's, and while it  *)
(* is inside a call or between two, it refers to what was read from.       *)
WorkersOK ==
  /\ \A w \in Workers : pc[w] # "unborn" => ps[arg[w]] \in Fds
  /\ \A w \in Workers : Live(w) =>
       /\ open[ps[arg[w]]] # NoClient
       /\ pc[w] # "read" => on[w] = open[ps[arg[w]]]
  /\ \A v, w \in Workers : v # w /\ Live(v) /\ Live(w) => ps[arg[v]] # ps[arg[w]]

IInv == /\ TypeOK /\ OneConnection
        /\ errors = 0 => MainOK /\ WorkersOK
        /\ NobodyForgotten

SocketsOK == /\ peer \in [Clients -> {"idle", "up", "full", "fin", "rst"}]
             /\ backlog \in Seq(Clients)
             /\ open \in [Fds -> Clients \cup {NoClient}]
             /\ unread \in [Clients -> 0 .. MaxUnread]
MainTypeOK == /\ ps \in [Slots -> Fds \cup {-1}]
              /\ i \in Slots /\ errors \in 0 .. MaxAcceptErrors
              /\ mainpc \in {"scan", "accept", "create", "returned", "killed"}
WorkersTypeOK ==
  /\ arg \in [Workers -> Slots]
  /\ on \in [Workers -> Clients \cup {NoClient}]
  /\ pc \in [Workers -> {"unborn", "read", "blocked", "write", "close", "gone"}]

LEMMA TypeOKParts == /\ TypeOK <=> SocketsOK /\ MainTypeOK /\ WorkersTypeOK
                     /\ TypeOK' <=> SocketsOK' /\ MainTypeOK' /\ WorkersTypeOK'
BY DEF TypeOK, SocketsOK, MainTypeOK, WorkersTypeOK

LEMMA InitIInv == Init => IInv
<1> SUFFICES ASSUME Init PROVE IInv
  OBVIOUS
<1> USE SizeAssumption, DescriptorAssumption, ClientAssumption DEF Init, SocketsInit
<1>1. SocketsOK /\ MainTypeOK /\ WorkersTypeOK
  BY DEF SocketsOK, MainTypeOK, WorkersTypeOK, Slots
<1>2. OneConnection
  BY DEF OneConnection
<1>3. MainOK /\ WorkersOK /\ NobodyForgotten
  BY DEF MainOK, WorkersOK, Live, NobodyForgotten
<1> QED
  BY <1>1, <1>2, <1>3, TypeOKParts DEF IInv

-----------------------------------------------------------------------------
(* What the kernel does to its connections.                                *)
LEMMA AcceptOne ==
  ASSUME SocketsOK, OneConnection, NEW f \in Fds, Accept(f)
  PROVE  /\ SocketsOK' /\ OneConnection'
         /\ Head(backlog) \in Clients /\ open[f] = NoClient
         /\ \A g \in Fds : open'[g] = IF g = f THEN Head(backlog) ELSE open[g]
<1>1. /\ Head(backlog) = backlog[1] /\ Head(backlog) \in Clients
      /\ Tail(backlog) \in Seq(Clients) /\ DOMAIN Tail(backlog) = 1 .. Len(backlog) - 1
      /\ \A k \in 1 .. Len(backlog) - 1 : Tail(backlog)[k] = backlog[k + 1]
      /\ DOMAIN backlog = 1 .. Len(backlog) /\ Len(backlog) \in Nat /\ 1 \in DOMAIN backlog
  BY HeadTailProperties, EmptySeq DEF Accept, SocketsOK
<1>2. /\ open' = [open EXCEPT ![f] = Head(backlog)] /\ backlog' = Tail(backlog)
      /\ peer' = peer /\ unread' = unread /\ open[f] = NoClient
  BY DEF Accept, FreeFds
<1>3. SocketsOK'
  BY <1>1, <1>2 DEF SocketsOK
<1>4. \A g \in Fds : open'[g] = IF g = f THEN Head(backlog) ELSE open[g]
  BY <1>2 DEF SocketsOK
<1>5. \A g, h \in Fds : open'[g] = open'[h] /\ open'[g] # NoClient => g = h
  BY <1>1, <1>4 DEF OneConnection
<1>6. \A j, k \in DOMAIN backlog' : backlog'[j] = backlog'[k] => j = k
  BY <1>1, <1>2 DEF OneConnection
<1>7. \A k \in DOMAIN backlog' : /\ peer'[backlog'[k]] # "idle"
                                 /\ \A g \in Fds : open'[g] # backlog'[k]
  BY <1>1, <1>2, <1>4 DEF OneConnection
<1>8. \A g \in Fds : open'[g] # NoClient => peer'[open'[g]] # "idle"
  BY <1>1, <1>2, <1>4 DEF OneConnection
<1> QED
  BY <1>1, <1>2, <1>3, <1>4, <1>5, <1>6, <1>7, <1>8 DEF OneConnection

(* A connection that has failed stays so.                                  *)
LEMMA ClientStepOne ==
  ASSUME SocketsOK, OneConnection, ClientStep
  PROVE  /\ SocketsOK' /\ OneConnection' /\ open' = open
         /\ \A c \in Clients : Failed(c) => Failed(c)'
<1> USE SizeAssumption
<1>1. PICK c \in Clients : \/ Connect(c) \/ SendMessage(c) \/ ReadAnswers(c)
                           \/ \E how \in {"fin", "rst"} : Hangup(c, how)
  BY DEF ClientStep
<1>2. CASE Connect(c)
  <2>1. SocketsOK' /\ open' = open /\ \A d \in Clients : Failed(d) => Failed(d)'
    BY <1>2, AppendProperties DEF SocketsOK, Connect, Failed
  <2>2. /\ \A k \in DOMAIN backlog : backlog[k] # c
        /\ \A f \in Fds : open[f] # c
    BY <1>2, ClientAssumption DEF Connect, OneConnection, SocketsOK
  <2>3. /\ DOMAIN backlog' = 1 .. Len(backlog) + 1 /\ DOMAIN backlog = 1 .. Len(backlog)
        /\ Len(backlog) \in Nat /\ backlog'[Len(backlog) + 1] = c
        /\ \A k \in 1 .. Len(backlog) : backlog'[k] = backlog[k]
    BY <1>2, AppendProperties DEF SocketsOK, Connect
  <2>4. OneConnection'
    BY <1>2, <2>2, <2>3, ClientAssumption DEF Connect, OneConnection, SocketsOK
  <2> QED
    BY <2>1, <2>4
<1>3. CASE SendMessage(c)
  <2>1. SocketsOK' /\ UNCHANGED <<peer, backlog, open>>
    BY <1>3 DEF SendMessage, SocketsOK
  <2>2. \A d \in Clients : Failed(d) => Failed(d)'
    <3>1. peer[c] # "rst" /\ unread' = [unread EXCEPT ![c] = @ + 1]
      BY <1>3 DEF SendMessage, Up
    <3>2. \A d \in Clients : d # c => unread'[d] = unread[d]
      BY <3>1 DEF SocketsOK
    <3> QED
      BY <2>1, <3>1, <3>2 DEF Failed
  <2> QED
    BY <2>1, <2>2 DEF OneConnection
<1>4. ASSUME NEW how \in {"fin", "rst"}, Hangup(c, how)
      PROVE  /\ SocketsOK' /\ OneConnection' /\ open' = open
             /\ \A d \in Clients : Failed(d) => Failed(d)'
  BY <1>4 DEF Hangup, Up, SocketsOK, OneConnection, Failed
<1>5. CASE ReadAnswers(c)
  BY <1>5 DEF ReadAnswers, SocketsOK, OneConnection, Failed
<1> QED
  BY <1>1, <1>2, <1>3, <1>4, <1>5

LEMMA SendOne ==
  ASSUME SocketsOK, OneConnection, NEW c, Send(c)
  PROVE  /\ SocketsOK' /\ OneConnection' /\ open' = open
         /\ \A d \in Clients : Failed(d) => Failed(d)'
<1>1. /\ UNCHANGED <<backlog, open, unread>>
      /\ \/ peer' = peer \/ peer' = [peer EXCEPT ![c] = "rst"]
         \/ peer[c] = "up" /\ peer' = [peer EXCEPT ![c] = "full"]
  BY DEF Send, SendShort, Fill
<1>2. SocketsOK'
  BY <1>1 DEF SocketsOK
<1>3. \A d \in Clients : \/ peer'[d] = peer[d] \/ peer'[d] = "rst"
                         \/ peer[d] = "up" /\ peer'[d] = "full"
  BY <1>1 DEF SocketsOK
<1>4. OneConnection'
  BY <1>1, <1>3 DEF SocketsOK, OneConnection
<1> QED
  BY <1>1, <1>2, <1>3, <1>4 DEF Failed

LEMMA ReadOne ==
  ASSUME SocketsOK, OneConnection, NEW c, ReadInput(c)
  PROVE  /\ SocketsOK' /\ OneConnection' /\ open' = open
         /\ \A d \in Clients : Failed(d) => Failed(d)'
<1>1. /\ UNCHANGED <<peer, backlog, open>> /\ unread' = [unread EXCEPT ![c] = 0]
  BY DEF ReadInput
<1>2. SocketsOK'
  <2>1. unread \in [Clients -> 0 .. MaxUnread] /\ 0 \in 0 .. MaxUnread
    BY SizeAssumption DEF SocketsOK
  <2>2. unread' \in [Clients -> 0 .. MaxUnread]
    BY <1>1, <2>1, Zenon
  <2> QED
    BY <1>1, <2>2 DEF SocketsOK
<1>3. OneConnection'
  BY <1>1 DEF OneConnection
<1>4. \A d \in Clients : unread'[d] = 0 \/ unread'[d] = unread[d]
  BY <1>1 DEF SocketsOK
<1>5. \A d \in Clients : Failed(d) => Failed(d)'
  BY <1>1, <1>4 DEF Failed
<1> QED
  BY <1>1, <1>2, <1>3, <1>5

LEMMA CloseOne ==
  ASSUME SocketsOK, OneConnection, NEW f, Close(f)
  PROVE  /\ SocketsOK' /\ OneConnection' /\ UNCHANGED <<peer, unread>>
         /\ \A g \in Fds : open'[g] = IF g = f THEN NoClient ELSE open[g]
<1>1. /\ UNCHANGED <<peer, backlog, unread>>
      /\ open' = [g \in Fds |-> IF g = f THEN NoClient ELSE open[g]]
  BY DEF Close
<1>2. SocketsOK'
  BY <1>1 DEF SocketsOK
<1>3. \A g \in Fds : open'[g] = IF g = f THEN NoClient ELSE open[g]
  BY <1>1
<1>4. \A k \in DOMAIN backlog : backlog[k] \in Clients
  BY DEF SocketsOK
<1>5. OneConnection'
  BY <1>1, <1>3, <1>4, ClientAssumption DEF OneConnection
<1> QED
  BY <1>1, <1>2, <1>3, <1>5

-----------------------------------------------------------------------------
(* main                                                                    *)
LEMMA MainIInv == IInv /\ main => IInv'
<1> SUFFICES ASSUME IInv, main PROVE IInv'
  OBVIOUS
<1> USE DEF IInv, Main, socketVars, workerVars
<1>1. SocketsOK /\ MainTypeOK /\ WorkersTypeOK
  BY TypeOKParts
<1>2. CASE FindSlot
  <2>1. i' \in Slots /\ ps[i'] = -1
    BY <1>2 DEF FindSlot, FreeSlots
  <2>2. /\ SocketsOK' /\ MainTypeOK' /\ WorkersTypeOK'
    BY <1>1, <1>2, <2>1 DEF FindSlot, SocketsOK, MainTypeOK, WorkersTypeOK, Slots
  <2>3. OneConnection' /\ (errors' = 0 => MainOK' /\ WorkersOK') /\ NobodyForgotten'
    BY <1>2, <2>1 DEF FindSlot, OneConnection, MainOK, WorkersOK, Live, NobodyForgotten,
                      Ended, Failed
  <2> QED
    BY <2>2, <2>3, TypeOKParts
<1>3. CASE MainReturns
  <2>1. /\ SocketsOK' /\ MainTypeOK' /\ WorkersTypeOK'
    BY <1>1, <1>3 DEF MainReturns, SocketsOK, MainTypeOK, WorkersTypeOK, Slots
  <2>2. OneConnection' /\ (errors' = 0 => MainOK' /\ WorkersOK') /\ NobodyForgotten'
    BY <1>3 DEF MainReturns, OneConnection, MainOK, WorkersOK, Live, NobodyForgotten, Ended
  <2> QED
    BY <2>1, <2>2, TypeOKParts
<1>4. CASE AcceptConnection
  <2>1. PICK f \in Fds : Accept(f) /\ ps' = [ps EXCEPT ![i] = f]
    BY <1>4 DEF AcceptConnection
  <2>2. /\ SocketsOK' /\ OneConnection' /\ Head(backlog) \in Clients /\ open[f] = NoClient
        /\ \A g \in Fds : open'[g] = IF g = f THEN Head(backlog) ELSE open[g]
    BY <1>1, <2>1, AcceptOne
  <2>3. /\ UNCHANGED <<i, errors, arg, on, pc, peer, unread>>
        /\ mainpc = "accept" /\ mainpc' = "create"
        /\ \A k \in Slots : ps'[k] = IF k = i THEN f ELSE ps[k]
    BY <1>1, <1>4, <2>1 DEF AcceptConnection, Accept, MainTypeOK
  <2>4. MainTypeOK' /\ WorkersTypeOK'
    BY <1>1, <2>1, <2>3 DEF MainTypeOK, WorkersTypeOK, Slots
  <2>5. ASSUME errors = 0
        PROVE  \A w \in Workers : pc[w] # "unborn" =>
                 ps'[arg'[w]] = ps[arg[w]] /\ (Live(w) => ps[arg[w]] # f)
    <3>1. ps[i] \notin Fds
      BY <2>3, <2>5, DescriptorAssumption DEF MainOK
    <3> QED
      BY <1>1, <2>2, <2>3, <2>5, <3>1 DEF WorkersOK, WorkersTypeOK, Live
  <2>6. errors' = 0 => MainOK'
    BY <1>1, <2>2, <2>3, <2>5, ClientAssumption DEF MainOK, MainTypeOK, Live
  <2>7. errors' = 0 => WorkersOK'
    BY <2>2, <2>3, <2>5 DEF WorkersOK, Live
  <2>8. NobodyForgotten'
    <3> SUFFICES ASSUME errors = 0, NEW g \in Fds, open'[g] # NoClient
                 PROVE  \/ ps'[i] = g
                        \/ \E w \in Workers : Live(w) /\ ps'[arg[w]] = g
                        \/ Failed(open'[g])
      BY <2>3 DEF NobodyForgotten, Live, Failed
    <3>1. CASE g = f
      BY <1>1, <2>3, <3>1 DEF MainTypeOK
    <3>2. CASE g # f
      BY <2>2, <2>3, <2>5, <3>2 DEF NobodyForgotten, Ended, Live
    <3> QED
      BY <3>1, <3>2
  <2> QED
    BY <2>2, <2>4, <2>6, <2>7, <2>8, TypeOKParts
<1>5. CASE AcceptFails
  <2>1. errors' # 0 /\ errors' \in 0 .. MaxAcceptErrors
    BY <1>1, <1>5, SizeAssumption DEF AcceptFails, MainTypeOK
  <2>2. /\ SocketsOK' /\ MainTypeOK' /\ WorkersTypeOK'
    BY <1>1, <1>5, <2>1 DEF AcceptFails, SocketsOK, MainTypeOK, WorkersTypeOK, Slots
  <2>3. OneConnection' /\ NobodyForgotten'
    BY <1>5, <2>1 DEF AcceptFails, OneConnection, NobodyForgotten
  <2> QED
    BY <2>1, <2>2, <2>3, TypeOKParts
<1>6. CASE CreateWorker
  <2>1. PICK w \in Workers : pc[w] = "unborn" /\ Start(w, i)
    BY <1>6 DEF CreateWorker, Unborn
  <2>2. /\ UNCHANGED <<peer, backlog, open, unread, ps, i, errors, on>>
        /\ mainpc = "create" /\ mainpc' = "scan"
        /\ \A v \in Workers : /\ pc'[v] = IF v = w THEN "read" ELSE pc[v]
                              /\ arg'[v] = IF v = w THEN i ELSE arg[v]
    BY <1>1, <1>6, <2>1 DEF CreateWorker, Start, WorkersTypeOK
  <2>3. SocketsOK' /\ MainTypeOK' /\ WorkersTypeOK' /\ OneConnection'
    <3>1. SocketsOK' /\ MainTypeOK' /\ OneConnection'
      BY <1>1, <2>2 DEF SocketsOK, MainTypeOK, OneConnection, Slots
    <3>2. WorkersTypeOK'
      BY <1>1, <2>1, <2>2 DEF WorkersTypeOK, MainTypeOK, Start, Slots
    <3> QED
      BY <3>1, <3>2
  <2>4. errors' = 0 => MainOK' /\ WorkersOK'
    BY <2>1, <2>2 DEF MainOK, WorkersOK, Live
  <2>5. NobodyForgotten'
    <3> SUFFICES ASSUME errors = 0, NEW g \in Fds, open[g] # NoClient, ~Failed(open[g])
                 PROVE  \E v \in Workers : Live(v)' /\ ps[arg'[v]] = g
      BY <2>2 DEF NobodyForgotten, Failed
    <3>1. CASE ps[i] = g
      BY <2>2, <3>1 DEF Live
    <3>2. ASSUME NEW v \in Workers, Live(v), ps[arg[v]] = g
          PROVE  Live(v)' /\ ps[arg'[v]] = g
      BY <2>1, <2>2, <3>2 DEF Live
    <3> QED
      BY <2>2, <3>1, <3>2 DEF NobodyForgotten, Ended
  <2> QED
    BY <2>3, <2>4, <2>5, TypeOKParts
<1> QED
  BY <1>2, <1>3, <1>4, <1>5, <1>6 DEF main

-----------------------------------------------------------------------------
(* A worker: everything but the close, and the reset that it gives up on,  *)
(* leaves it live and its descriptor open.                                 *)
LEMMA WorkerIInv == ASSUME NEW w \in Workers PROVE IInv /\ worker(w) => IInv'
<1> SUFFICES ASSUME IInv, worker(w) PROVE IInv'
  OBVIOUS
<1> USE DEF IInv, Goto, socketVars, workerVars, mainVars
<1>1. SocketsOK /\ MainTypeOK /\ WorkersTypeOK
  BY TypeOKParts
<1>2. errors = 0 /\ Live(w) => /\ ps[arg[w]] \in Fds
                               /\ Served(w) = open[ps[arg[w]]] /\ Served(w) # NoClient
                               /\ pc[w] # "read" => on[w] = Served(w)
  BY DEF WorkersOK, Live, Served, ConnectionOf
<1>3. ASSUME UNCHANGED <<ps, i, errors, mainpc, arg, open>>,
             SocketsOK', OneConnection', \A c \in Clients : Failed(c) => Failed(c)',
             Live(w), Live(w)',
             NEW place \in {"read", "blocked", "write", "close"},
             pc' = [pc EXCEPT ![w] = place],
             \/ on' = on /\ (place = "read" \/ pc[w] # "read")
             \/ on' = [on EXCEPT ![w] = Served(w)]
      PROVE  IInv'
  <2>1. \A v \in Workers : /\ pc'[v] = IF v = w THEN place ELSE pc[v]
                           /\ v # w => on'[v] = on[v]
    BY <1>1, <1>3 DEF WorkersTypeOK
  <2>2. MainTypeOK' /\ WorkersTypeOK'
    BY <1>1, <1>3 DEF MainTypeOK, WorkersTypeOK, SocketsOK, Slots, Served, ConnectionOf
  <2>3. \A v \in Workers : /\ Live(v)' <=> Live(v)
                           /\ pc'[v] = "unborn" <=> pc[v] = "unborn"
    BY <1>3, <2>1 DEF Live
  <2>4. errors = 0 /\ place # "read" => on'[w] = Served(w)
    BY <1>1, <1>2, <1>3 DEF WorkersTypeOK
  <2>5. errors' = 0 => MainOK' /\ WorkersOK'
    BY <1>2, <1>3, <2>1, <2>3, <2>4 DEF MainOK, WorkersOK
  <2>6. NobodyForgotten'
    <3> SUFFICES ASSUME errors = 0, ~Ended, NEW f \in Fds, open[f] # NoClient
                 PROVE  \/ mainpc = "create" /\ ps[i] = f
                        \/ \E v \in Workers : Live(v)' /\ ps[arg[v]] = f
                        \/ Failed(open[f])'
      BY <1>3 DEF NobodyForgotten, Ended, Failed
    <3>1. open[f] \in Clients
      BY <1>1 DEF SocketsOK
    <3> QED
      BY <1>3, <2>3, <3>1 DEF NobodyForgotten
  <2> QED
    BY <1>3, <2>2, <2>5, <2>6, TypeOKParts
<1>4. ASSUME UNCHANGED socketVars
      PROVE  SocketsOK' /\ OneConnection' /\ \A c \in Clients : Failed(c) => Failed(c)'
  BY <1>1, <1>4 DEF SocketsOK, OneConnection, Failed
<1>5. CASE CallRead(w)
  BY <1>3, <1>4, <1>5 DEF CallRead, Live, WorkersTypeOK
<1>6. CASE ReadReturnsData(w)
  <2>1. /\ SocketsOK' /\ OneConnection' /\ open' = open
        /\ \A c \in Clients : Failed(c) => Failed(c)'
    BY <1>1, <1>6, ReadOne DEF ReadReturnsData
  <2>2. /\ pc[w] = "blocked" /\ pc' = [pc EXCEPT ![w] = "write"] /\ pc'[w] = "write"
        /\ UNCHANGED <<ps, i, errors, mainpc, arg, on>>
    BY <1>1, <1>6 DEF ReadReturnsData, WorkersTypeOK
  <2> QED
    BY <1>3, <2>1, <2>2 DEF Live
<1>7. CASE ReadReturnsZero(w)
  <2>1. /\ pc[w] = "blocked" /\ pc' = [pc EXCEPT ![w] = "close"] /\ pc'[w] = "close"
        /\ UNCHANGED <<peer, backlog, open, unread, ps, i, errors, mainpc, arg, on>>
    BY <1>1, <1>7 DEF ReadReturnsZero, WorkersTypeOK
  <2> QED
    BY <1>3, <1>4, <2>1 DEF Live
<1>8. CASE WriteBack(w)
  <2>1. /\ SocketsOK' /\ OneConnection' /\ open' = open
        /\ \A c \in Clients : Failed(c) => Failed(c)'
    BY <1>1, <1>4, <1>8, SendOne DEF WriteBack
  <2>2. /\ pc[w] = "write" /\ pc' = [pc EXCEPT ![w] = "read"] /\ pc'[w] = "read"
        /\ UNCHANGED <<ps, i, errors, mainpc, arg, on>>
    BY <1>1, <1>8 DEF WriteBack, WorkersTypeOK
  <2> QED
    BY <1>3, <2>1, <2>2 DEF Live
<1>9. CASE BadDescriptor(w) \/ ReadFails(w)
  <2>1. /\ pc[w] \in {"read", "blocked"} /\ Live(w)
        /\ \A v \in Workers : pc'[v] = IF v = w THEN "gone" ELSE pc[v]
        /\ UNCHANGED <<peer, backlog, open, unread, ps, i, errors, mainpc, arg, on>>
    BY <1>1, <1>9 DEF BadDescriptor, ReadFails, WorkersTypeOK, Live
  <2>2. SocketsOK' /\ MainTypeOK' /\ WorkersTypeOK' /\ OneConnection'
    <3>1. SocketsOK' /\ MainTypeOK' /\ OneConnection'
      BY <1>1, <2>1 DEF SocketsOK, MainTypeOK, OneConnection, Slots
    <3>2. WorkersTypeOK'
      BY <1>1, <1>9, <2>1 DEF WorkersTypeOK, BadDescriptor, ReadFails, Slots
    <3> QED
      BY <3>1, <3>2
  <2>3. errors' = 0 => MainOK' /\ WorkersOK'
    BY <2>1 DEF MainOK, WorkersOK, Live
  <2>4. NobodyForgotten'
    <3> SUFFICES ASSUME errors = 0, ~Ended, NEW f \in Fds, open[f] # NoClient
                 PROVE  \/ mainpc = "create" /\ ps[i] = f
                        \/ \E v \in Workers : Live(v)' /\ ps[arg[v]] = f
                        \/ Failed(open[f])
      BY <2>1 DEF NobodyForgotten, Ended, Failed
    <3>1. Failed(open[ps[arg[w]]])
      BY <1>2, <1>9, <2>1 DEF BadDescriptor, ReadFails
    <3> QED
      BY <2>1, <3>1 DEF NobodyForgotten, Live
  <2> QED
    BY <2>2, <2>3, <2>4, TypeOKParts
<1>10. CASE BrokenPipe(w)
  <2>1. SocketsOK' /\ MainTypeOK' /\ WorkersTypeOK'
    BY <1>1, <1>10 DEF BrokenPipe, SocketsOK, MainTypeOK, WorkersTypeOK, Slots
  <2>2. OneConnection' /\ (errors' = 0 => MainOK' /\ WorkersOK') /\ NobodyForgotten'
    BY <1>10 DEF BrokenPipe, OneConnection, MainOK, WorkersOK, Live, NobodyForgotten, Ended
  <2> QED
    BY <2>1, <2>2, TypeOKParts
<1>11. CASE CloseDescriptor(w)
  <2> DEFINE f == ps[arg[w]]
  <2>1. /\ pc[w] = "close" /\ Live(w) /\ Close(f)
        /\ \A v \in Workers : pc'[v] = IF v = w THEN "gone" ELSE pc[v]
        /\ UNCHANGED <<ps, i, errors, mainpc, arg, on>>
    BY <1>1, <1>11 DEF CloseDescriptor, WorkersTypeOK, Live
  <2>2. /\ SocketsOK' /\ OneConnection' /\ UNCHANGED <<peer, unread>>
        /\ \A g \in Fds : open'[g] = IF g = f THEN NoClient ELSE open[g]
    BY <1>1, <2>1, CloseOne
  <2>3. MainTypeOK' /\ WorkersTypeOK'
    BY <1>1, <1>11, <2>1 DEF MainTypeOK, WorkersTypeOK, CloseDescriptor, Slots
  <2>4. errors' = 0 => MainOK' /\ WorkersOK'
    BY <2>1, <2>2 DEF MainOK, WorkersOK, Live
  <2>5. NobodyForgotten'
    <3> SUFFICES ASSUME errors = 0, ~Ended, NEW g \in Fds, open[g] # NoClient, g # f
                 PROVE  \/ mainpc = "create" /\ ps[i] = g
                        \/ \E v \in Workers : Live(v)' /\ ps[arg[v]] = g
                        \/ Failed(open[g])
      BY <2>1, <2>2 DEF NobodyForgotten, Ended, Failed
    <3> QED
      BY <2>1 DEF NobodyForgotten, Live
  <2> QED
    BY <2>2, <2>3, <2>4, <2>5, TypeOKParts
<1> QED
  BY <1>5, <1>6, <1>7, <1>8, <1>9, <1>10, <1>11 DEF worker

-----------------------------------------------------------------------------
LEMMA NextIInv == IInv /\ [Next]_vars => IInv'
<1> SUFFICES ASSUME IInv, [Next]_vars PROVE IInv'
  OBVIOUS
<1> USE DEF IInv
<1>1. SocketsOK /\ MainTypeOK /\ WorkersTypeOK
  BY TypeOKParts
<1>2. CASE Peers
  <2>1. UNCHANGED <<ps, i, mainpc, errors, arg, on, pc>> /\ ClientStep
    BY <1>2 DEF Peers, mainVars, workerVars
  <2>2. /\ SocketsOK' /\ OneConnection' /\ open' = open
        /\ \A c \in Clients : Failed(c) => Failed(c)'
    BY <1>1, <2>1, ClientStepOne
  <2>3. MainTypeOK' /\ WorkersTypeOK'
    BY <1>1, <2>1 DEF MainTypeOK, WorkersTypeOK, Slots
  <2>4. errors' = 0 => MainOK' /\ WorkersOK'
    BY <2>1, <2>2 DEF MainOK, WorkersOK, Live
  <2>5. NobodyForgotten'
    BY <1>1, <2>1, <2>2 DEF NobodyForgotten, Live, Ended, SocketsOK
  <2> QED
    BY <2>2, <2>3, <2>4, <2>5, TypeOKParts
<1>3. CASE UNCHANGED vars
  <2>1. SocketsOK' /\ MainTypeOK' /\ WorkersTypeOK'
    BY <1>1, <1>3 DEF vars, SocketsOK, MainTypeOK, WorkersTypeOK, Slots
  <2>2. OneConnection' /\ (errors' = 0 => MainOK' /\ WorkersOK') /\ NobodyForgotten'
    BY <1>3 DEF vars, OneConnection, MainOK, WorkersOK, Live, NobodyForgotten, Ended, Failed
  <2> QED
    BY <2>1, <2>2, TypeOKParts
<1> QED
  BY <1>2, <1>3, MainIInv, WorkerIInv DEF Next

LEMMA Invariance == Spec => []IInv
BY InitIInv, NextIInv, PTL DEF Spec

-----------------------------------------------------------------------------
(* Every variable keeps its range, failed accepts included.                *)
THEOREM TypeCorrect == Spec => []TypeOK
BY Invariance, PTL DEF IInv

(* A worker writes to the connection it has read from, and closes no       *)
(* other, however many workers come and go between two looks at ps->fd.    *)
THEOREM NoCrossTalkHolds == Spec => []NoCrossTalk
<1>1. IInv => NoCrossTalk
  BY DEF IInv, NoCrossTalk, WorkersOK, Live, Served, ConnectionOf
<1> QED
  BY <1>1, Invariance, PTL

(* No connection has two workers.                                          *)
THEOREM OneThreadEach == Spec => []OneThreadPerConnection
<1>1. IInv => OneThreadPerConnection
  BY DEF IInv, OneThreadPerConnection, WorkersOK, OneConnection, Live, Served, ConnectionOf
<1> QED
  BY <1>1, Invariance, PTL

(* Every open descriptor has somebody to close it, but those that a worker *)
(* gave up on after a reset.                                               *)
THEOREM NobodyIsForgotten == Spec => []NobodyForgotten
BY Invariance, PTL DEF IInv
=============================================================================
