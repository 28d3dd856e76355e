--------------------------- MODULE PthreadServer ---------------------------
(***************************************************************************)
(* pthread_server.c: main accepts a connection into the first element of   *)
(* ps whose fd is -1 and starts a worker on that element; the worker reads *)
(* ps->fd anew for every call it makes.  A worker never sets fd back to    *)
(* -1, and main starts one even when accept failed.                        *)
(*                                                                         *)
(* main is at "scan", "accept", "create" or "returned", or the process was *)
(* "killed" by SIGPIPE; both end every thread.  A worker is at             *)
(* "read" before it looks at ps->fd, "blocked" inside read() on the        *)
(* connection on[w] (which stays the same if the descriptor is closed      *)
(* meanwhile), then at "write" or "close".                                 *)
(***************************************************************************)
EXTENDS Integers, Sequences, FiniteSetsExt

CONSTANTS Clients, NoClient, Fds, MaxUnread,
          Workers,          \* bound: the threads main can start, numbered
          NumSlots,         \* elements of ps: 256
          MaxAcceptErrors   \* bound: how often accept fails

ASSUME SizeAssumption == /\ NumSlots \in Nat \ {0} /\ MaxAcceptErrors \in Nat
                         /\ MaxUnread \in Nat /\ Workers \subseteq Nat
(* accept returns -1 for no descriptor.                                    *)
ASSUME DescriptorAssumption == Fds \subseteq Nat
ASSUME ClientAssumption == NoClient \notin Clients

VARIABLES peer, backlog, open, unread,
          ps,               \* [slots -> ps[k].fd]
          i,                \* main's i
          mainpc,
          errors,           \* how often accept has failed
          arg,              \* [Workers -> the slot its argument points to]
          on,               \* [Workers -> the connection it last read]
          pc

socketVars == <<peer, backlog, open, unread>>
workerVars == <<arg, on, pc>>
vars == <<peer, backlog, open, unread, ps, i, mainpc, errors, arg, on, pc>>

INSTANCE Sockets

Slots == 0 .. NumSlots - 1
FreeSlots == {k \in Slots : ps[k] = -1}

Init == /\ SocketsInit
        /\ ps = [k \in Slots |-> -1]
        /\ i = 0 /\ mainpc = "scan" /\ errors = 0
        /\ arg = [w \in Workers |-> 0]
        /\ on = [w \in Workers |-> NoClient]
        /\ pc = [w \in Workers |-> "unborn"]

-----------------------------------------------------------------------------
Main(from, to) == mainpc = from /\ mainpc' = to

NoFullCheck == /\ Main("scan", "accept")                           \* mutant
               /\ i' = IF FreeSlots = {} THEN NumSlots ELSE Min(FreeSlots)
               /\ UNCHANGED <<socketVars, ps, errors, workerVars>>
FindSlot == /\ Main("scan", "accept")
            /\ i' \in FreeSlots /\ \A k \in FreeSlots : i' <= k
            /\ UNCHANGED <<socketVars, ps, errors, workerVars>>

(* No element is free: main returns, and the process ends.                 *)
MainReturns == /\ Main("scan", "returned")
               /\ FreeSlots = {}
               /\ UNCHANGED <<socketVars, ps, i, errors, workerVars>>

AcceptConnection == /\ Main("accept", "create")
                    /\ \E f \in Fds : Accept(f) /\ ps' = [ps EXCEPT ![i] = f]
                    /\ UNCHANGED <<i, errors, workerVars>>

(* accept returns -1, for any of its reasons.                              *)
AcceptFails == /\ Main("accept", "create")
               /\ errors < MaxAcceptErrors /\ errors' = errors + 1
               /\ ps' = [ps EXCEPT ![i] = -1]
               /\ UNCHANGED <<socketVars, i, workerVars>>

SkipCreate == /\ Main("create", "scan")                           \* mutant
              /\ UNCHANGED <<socketVars, ps, i, errors, workerVars>>
Unborn == {w \in Workers : pc[w] = "unborn"}
Start(w, slot) == /\ w = Min(Unborn)
                  /\ pc' = [pc EXCEPT ![w] = "read"]
                  /\ arg' = [arg EXCEPT ![w] = slot]
                  /\ UNCHANGED <<socketVars, ps, i, errors, on>>
PassFirstElement == /\ Main("create", "scan")                     \* mutant
                    /\ \E w \in Unborn : Start(w, 0)
CreateWorker == /\ Main("create", "scan")
                /\ \E w \in Unborn : Start(w, i)

-----------------------------------------------------------------------------
(* The worker                                                              *)
Ended == mainpc \in {"returned", "killed"}
Goto(w, from, to) == /\ ~Ended
                     /\ pc[w] = from /\ pc' = [pc EXCEPT ![w] = to]
ConnectionOf(fd) == IF fd \in Fds THEN open[fd] ELSE NoClient
Served(w) == ConnectionOf(ps[arg[w]])
mainVars == <<ps, i, mainpc, errors>>

CallRead(w) == /\ Served(w) # NoClient
               /\ Goto(w, "read", "blocked")
               /\ on' = [on EXCEPT ![w] = Served(w)]
               /\ UNCHANGED <<socketVars, mainVars, arg>>

(* read on a descriptor that is not open; the thread exits.                *)
BadDescriptor(w) == /\ Served(w) = NoClient
                    /\ Goto(w, "read", "gone")
                    /\ UNCHANGED <<socketVars, mainVars, arg, on>>

ReadReturnsData(w) == /\ Goto(w, "blocked", "write")
                      /\ ReadInput(on[w])
                      /\ UNCHANGED <<mainVars, arg, on>>

ReadReturnsZero(w) == /\ Goto(w, "blocked", "close")
                      /\ AtEnd(on[w])
                      /\ UNCHANGED <<socketVars, mainVars, arg, on>>

(* The thread exits and leaves the descriptor open.                        *)
ReadFails(w) == /\ Goto(w, "blocked", "gone")
                /\ Failed(on[w])
                /\ UNCHANGED <<socketVars, mainVars, arg, on>>

WriteBack(w) == /\ Goto(w, "write", "read")
                /\ IF Served(w) = NoClient THEN UNCHANGED socketVars
                                           ELSE Send(Served(w))
                /\ UNCHANGED <<mainVars, arg, on>>

(* SIGPIPE ends the process.                                               *)
BrokenPipe(w) == /\ ~Ended /\ mainpc' = "killed"
                 /\ pc[w] = "write"
                 /\ Served(w) # NoClient /\ peer[Served(w)] = "rst"
                 /\ UNCHANGED <<socketVars, ps, i, errors, workerVars>>

CloseAndGoOn(w) == /\ Goto(w, "close", "read")                    \* mutant
                   /\ Close(ps[arg[w]])
                   /\ UNCHANGED <<mainVars, arg, on>>
ExitWithoutClose(w) == /\ Goto(w, "close", "gone")                \* mutant
                       /\ UNCHANGED <<socketVars, mainVars, arg, on>>
CloseDescriptor(w) == /\ Goto(w, "close", "gone")
                      /\ Close(ps[arg[w]])
                      /\ UNCHANGED <<mainVars, arg, on>>

-----------------------------------------------------------------------------
main == FindSlot \/ MainReturns \/ AcceptConnection \/ AcceptFails \/ CreateWorker
worker(w) == \/ CallRead(w) \/ BadDescriptor(w) \/ ReadReturnsData(w)
             \/ ReadReturnsZero(w) \/ ReadFails(w) \/ WriteBack(w)
             \/ BrokenPipe(w) \/ CloseDescriptor(w)
Peers == /\ ~Ended /\ ClientStep
         /\ UNCHANGED <<mainVars, workerVars>>

Next == main \/ (\E w \in Workers : worker(w)) \/ Peers

Spec == Init /\ [][Next]_vars

(* main and the workers keep running; accept does not have to fail, and    *)
(* main does not have to return at once when no element is free.           *)
FairSpec == /\ Spec
            /\ WF_vars(FindSlot \/ AcceptConnection \/ CreateWorker)
            /\ \A w \in Workers : WF_vars(worker(w))

-----------------------------------------------------------------------------
Live(w) == pc[w] \notin {"unborn", "gone"}

(* Every variable keeps its range.                                         *)
TypeOK == /\ peer \in [Clients -> {"idle", "up", "full", "fin", "rst"}]
          /\ backlog \in Seq(Clients)
          /\ open \in [Fds -> Clients \cup {NoClient}]
          /\ unread \in [Clients -> 0 .. MaxUnread]
          /\ ps \in [Slots -> Fds \cup {-1}]
          /\ i \in Slots /\ errors \in 0 .. MaxAcceptErrors
          /\ mainpc \in {"scan", "accept", "create", "returned", "killed"}
          /\ arg \in [Workers -> Slots]
          /\ on \in [Workers -> Clients \cup {NoClient}]
          /\ pc \in [Workers -> {"unborn", "read", "blocked", "write", "close", "gone"}]

(* As long as accept has not failed, a worker writes to the connection it  *)
(* has read from and closes no other, although it looks its descriptor up  *)
(* again for each call and descriptor numbers are reused.                  *)
NoCrossTalk == errors = 0 =>
  \A w \in Workers : pc[w] \in {"write", "close"} =>
                       Served(w) = on[w]

(* As long as accept has not failed, no connection has two workers.        *)
OneThreadPerConnection == errors = 0 =>
  \A v, w \in Workers : v # w /\ Live(v) /\ Live(w) /\ Served(v) = Served(w)
                          => Served(v) = NoClient

(* An open descriptor has a worker to close it, or one that gave up on it  *)
(* after a reset, or a worker is about to be started for it.               *)
NobodyForgotten == errors = 0 /\ ~Ended =>
  \A f \in Fds : open[f] # NoClient =>
    \/ mainpc = "create" /\ ps[i] = f
    \/ \E w \in Workers : Live(w) /\ ps[arg[w]] = f
    \/ Failed(open[f])

(* What a client sends, before or after it is accepted, is read in the end *)
(* if the client keeps reading what is written back, whatever the others   *)
(* do, unless the process has ended or a failed accept has set two workers *)
(* on one descriptor.                                                      *)
MessagesRead == \A c \in Clients :
  []<>(peer[c] # "full") =>
    (HasInput(c) ~> (~HasInput(c) \/ Ended \/ errors > 0))

(* "Find the smallest i to assign": an element whose worker is gone can be *)
(* assigned again, so main runs out of elements only when all are in use.  *)
SlotsReused == mainpc = "returned" =>
  \A k \in Slots : \E w \in Workers : arg[w] = k /\ Live(w)
=============================================================================
