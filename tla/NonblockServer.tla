--------------------------- MODULE NonblockServer ---------------------------
(***************************************************************************)
(* nonblock_epoll_server.c: as EpollServer, with non-blocking connections  *)
(* read in pieces of 5 bytes until recv says EAGAIN.  That leaves ret, the *)
(* bound of the loop, at -1 or 0: one element of a batch is handled, and   *)
(* the others are reported again.  The process is at "wait", "loop",       *)
(* "drain" (the inner while), "send", or has "exited".                     *)
(***************************************************************************)
EXTENDS ServerConstants

VARIABLES peer, backlog, open, unread,
          registered,       \* the connections in the interest list of epfd
          faults,           \* history, and bound: epoll_ctl has failed
          batch,            \* the elements of all not yet handled
          event,            \* all[i].data.fd
          ret, pc

INSTANCE Sockets

socketVars == <<peer, backlog, open, unread>>
epollVars == <<registered, faults>>
vars == <<peer, backlog, open, unread, registered, faults, batch, event, ret, pc>>

Init == /\ SocketsInit
        /\ registered = {} /\ faults = {}
        /\ batch = {} /\ event = lfd /\ ret = 0
        /\ pc = "wait"

At(from, to) == pc = from /\ pc' = to
Over == pc = "exited"

-----------------------------------------------------------------------------
Ready == {f \in registered \cup {lfd} : IF f = lfd THEN backlog # <<>> ELSE Readable(open[f])}
epoll_wait == /\ At("wait", "loop")
              /\ Ready # {} /\ batch' = Ready
              /\ ret' = Cardinality(Ready)
              /\ UNCHANGED <<socketVars, epollVars, event>>

(* i < ret, where i elements have been handled: none, or ret is not        *)
(* positive any more.                                                      *)
InLoop == ret > 0
LoopDone == /\ At("loop", "wait") /\ ~InLoop
            /\ UNCHANGED <<socketVars, epollVars, batch, event, ret>>

AcceptConnection == /\ At("loop", "loop") /\ InLoop /\ lfd \in batch
                    /\ \E f \in Fds : Accept(f) /\ registered' = registered \cup {f}
                    /\ ret' = 0 /\ batch' = batch \ {lfd}
                    /\ UNCHANGED <<faults, event>>

(* epoll_ctl returns -1: the connection stays open and is not watched.     *)
RegisterFails == /\ At("loop", "loop") /\ InLoop /\ lfd \in batch
                 /\ faults = {} /\ faults' = {"epoll_ctl"}
                 /\ \E f \in Fds : Accept(f)
                 /\ ret' = -1 /\ batch' = batch \ {lfd}
                 /\ UNCHANGED <<registered, event>>

(* accept returns -1, and so does epoll_ctl for it.                        *)
AcceptFails == /\ At("loop", "loop") /\ InLoop /\ lfd \in batch
               /\ ret' = -1 /\ batch' = batch \ {lfd}
               /\ UNCHANGED <<socketVars, epollVars, event>>

TakeConnection == /\ At("loop", "drain") /\ InLoop
                  /\ \E f \in batch \ {lfd} : event' = f /\ batch' = batch \ {f}
                  /\ UNCHANGED <<socketVars, epollVars, ret>>

-----------------------------------------------------------------------------
Peer == open[event]

(* buf takes a part of what there is, or all of it.                        *)
RecvPiece == /\ At("drain", "send") /\ HasInput(Peer)
             /\ \E rest \in 0 .. unread[Peer] - 1 :
                  unread' = [unread EXCEPT ![Peer] = rest]
             /\ ret' = 1
             /\ UNCHANGED <<peer, backlog, open, epollVars, batch, event>>

(* A send that finds the buffers full returns EAGAIN: the answer is lost.  *)
SendBack == /\ At("send", "drain")
            /\ Send(Peer) \/ (peer[Peer] = "full" /\ UNCHANGED socketVars)
            /\ UNCHANGED <<epollVars, batch, event, ret>>

(* SIGPIPE                                                                 *)
BrokenPipe == /\ At("send", "exited")
              /\ peer[Peer] = "rst"
              /\ UNCHANGED <<socketVars, epollVars, batch, event, ret>>

Forget == Close(event) /\ registered' = registered \ {event} /\ UNCHANGED faults
RecvZero == /\ At("drain", "wait") /\ AtEnd(Peer)
            /\ Forget /\ ret' = 0
            /\ UNCHANGED <<batch, event>>

CloseOnEagain == /\ At("drain", "loop") /\ ~Readable(Peer)         \* mutant
                 /\ Forget /\ ret' = -1
                 /\ UNCHANGED <<batch, event>>
RecvEagain == /\ At("drain", "loop") /\ ~Readable(Peer)
              /\ ret' = -1
              /\ UNCHANGED <<socketVars, epollVars, batch, event>>

RecvFails == /\ At("drain", "exited") /\ Failed(Peer)
             /\ UNCHANGED <<socketVars, epollVars, batch, event, ret>>

-----------------------------------------------------------------------------
loop == \/ epoll_wait \/ LoopDone \/ AcceptConnection \/ TakeConnection
        \/ RecvPiece \/ SendBack \/ BrokenPipe
        \/ RecvZero \/ RecvEagain \/ RecvFails
Peers == ~Over /\ ClientStep /\ UNCHANGED <<epollVars, batch, event, ret, pc>>

Next == loop \/ AcceptFails \/ RegisterFails \/ Peers
Spec == Init /\ [][Next]_vars

-----------------------------------------------------------------------------
(* See SelectServer and EpollServer.                                       *)
Unwatched == {f \in Fds : open[f] # NoClient /\ f \notin registered}
NothingLeaked == \A f, g \in Unwatched : f = g /\ "epoll_ctl" \in faults
Owed == IF pc = "send" THEN {Peer} ELSE {}
Reported == IF pc = "loop" /\ InLoop THEN batch \ {lfd} ELSE {}

(* Every variable keeps its range, and the inner loop works on a           *)
(* connection that is watched.                                             *)
TypeOK == /\ registered \subseteq Fds /\ faults \subseteq {"epoll_ctl"}
          /\ batch \subseteq Fds \cup {lfd} /\ event \in Fds \cup {lfd}
          /\ ret \in -1 .. Cardinality(Fds) + 1
          /\ pc \in {"wait", "loop", "drain", "send", "exited"}
          /\ pc \in {"drain", "send"} => event \in registered
=============================================================================
