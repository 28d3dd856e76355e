----------------------------- MODULE EpollServer -----------------------------
(***************************************************************************)
(* epoll_server.c: an echo server on a level-triggered epoll.  ret, set by *)
(* epoll_wait and the bound of the loop, is overwritten in the loop, by    *)
(* epoll_ctl with 0 or -1 and by recv with the length of the data.  With a *)
(* larger bound the loop goes on to elements of all that epoll_wait wrote  *)
(* in an earlier round, or never.  The process is at "wait", "loop",       *)
(* "send", or has "exited".                                                *)
(***************************************************************************)
EXTENDS ServerConstants, Functions

VARIABLES peer, backlog, open, unread,
          registered,       \* the connections in the interest list of epfd
          faults,           \* history, and bound: epoll_ctl has failed
          all,              \* all[k].data.fd, or 0 if all[k].events is 0
          reported,         \* the elements the last epoll_wait wrote
          ret, i, pc

INSTANCE Sockets

socketVars == <<peer, backlog, open, unread>>
epollVars == <<registered, faults>>
vars == <<peer, backlog, open, unread, registered, faults, all, reported, ret, i, pc>>

Indices == 1 .. NumEvents           \* i counts from 1
Unset == -1                         \* what the stack holds: not yet chosen
Values == Fds \cup {lfd, 0}

Init == /\ SocketsInit
        /\ registered = {} /\ faults = {}
        /\ all = [k \in Indices |-> Unset]
        /\ reported = 0 /\ ret = 0 /\ i = 0
        /\ pc = "wait"

At(from, to) == pc = from /\ pc' = to
Over == pc = "exited"

-----------------------------------------------------------------------------
(* epoll_wait may report in any order.                                     *)
Ready == {f \in registered \cup {lfd} : IF f = lfd THEN backlog # <<>> ELSE Readable(open[f])}
epoll_wait == /\ At("wait", "loop")
              /\ Ready # {}
              /\ \E events \in Bijection(1 .. Cardinality(Ready), Ready) :
                   all' = [k \in Indices |-> IF k <= Cardinality(Ready)
                                             THEN events[k] ELSE all[k]]
              /\ reported' = Cardinality(Ready) /\ ret' = reported' /\ i' = 1
              /\ UNCHANGED <<socketVars, epollVars>>

(* The bound of the loop, and the elements that are there.                 *)
InLoop == i <= ret /\ i <= NumEvents

LoopDone == /\ At("loop", "wait")
            /\ ~InLoop
            /\ UNCHANGED <<socketVars, epollVars, all, reported, ret, i>>

AcceptConnection == /\ At("loop", "loop") /\ InLoop /\ all[i] = lfd
                    /\ \E f \in Fds : Accept(f) /\ registered' = registered \cup {f}
                    /\ ret' = 0 /\ i' = i + 1
                    /\ UNCHANGED <<faults, all, reported>>

(* epoll_ctl returns -1: the connection stays open and is not watched.     *)
RegisterFails == /\ At("loop", "loop") /\ InLoop /\ all[i] = lfd
                 /\ faults = {} /\ faults' = {"epoll_ctl"}
                 /\ \E f \in Fds : Accept(f)
                 /\ ret' = -1 /\ i' = i + 1
                 /\ UNCHANGED <<registered, all, reported>>

(* accept returns -1, and so does epoll_ctl for it.                        *)
AcceptFails == /\ At("loop", "loop") /\ InLoop /\ all[i] = lfd
               /\ backlog # <<>>
               /\ ret' = -1 /\ i' = i + 1
               /\ UNCHANGED <<socketVars, epollVars, all, reported>>

(* An element without events, as it never was written.                     *)
NoEvents == /\ At("loop", "loop") /\ InLoop /\ all[i] = 0
            /\ i' = i + 1
            /\ UNCHANGED <<socketVars, epollVars, all, reported, ret>>

-----------------------------------------------------------------------------
Connection == InLoop /\ all[i] \in Fds

(* A length beyond the modelled elements has the loop run to their end.    *)
(* What the elements within the bound hold that were never written, is     *)
(* chosen here.                                                            *)
NeverWritten(n) == {k \in 1 .. n : all[k] = Unset}
RecvData == /\ At("loop", "send") /\ Connection
            /\ open[all[i]] # NoClient /\ ReadInput(open[all[i]])
            /\ \E n \in Indices : \E stack \in [NeverWritten(n) -> Values] :
                 /\ ret' = n
                 /\ all' = [k \in Indices |-> IF k \in NeverWritten(n)
                                              THEN stack[k] ELSE all[k]]
            /\ UNCHANGED <<epollVars, reported, i>>

SendBack == /\ At("send", "loop")
            /\ Send(open[all[i]])
            /\ i' = i + 1
            /\ UNCHANGED <<epollVars, all, reported, ret>>

(* SIGPIPE                                                                 *)
BrokenPipe == /\ At("send", "exited")
              /\ peer[open[all[i]]] = "rst"
              /\ UNCHANGED <<socketVars, epollVars, all, reported, ret, i>>

NoClose == /\ At("loop", "wait") /\ Connection                     \* mutant
           /\ open[all[i]] # NoClient /\ AtEnd(open[all[i]])
           /\ ret' = 0
           /\ UNCHANGED <<socketVars, epollVars, all, reported, i>>
RecvZero == /\ At("loop", "wait") /\ Connection
            /\ open[all[i]] # NoClient /\ AtEnd(open[all[i]])
            /\ Close(all[i]) /\ registered' = registered \ {all[i]}
            /\ ret' = 0
            /\ UNCHANGED <<faults, all, reported, i>>

(* A reset, or a stale element whose descriptor is closed: exit(-1).       *)
RecvFails == /\ At("loop", "exited") /\ Connection
             /\ open[all[i]] # NoClient => Failed(open[all[i]])
             /\ UNCHANGED <<socketVars, epollVars, all, reported, ret, i>>

-----------------------------------------------------------------------------
loop == \/ epoll_wait \/ LoopDone \/ AcceptConnection \/ NoEvents
        \/ RecvData \/ SendBack \/ BrokenPipe \/ RecvZero \/ RecvFails
Peers == ~Over /\ ClientStep /\ UNCHANGED <<epollVars, all, reported, ret, i, pc>>

Next == loop \/ AcceptFails \/ RegisterFails \/ Peers
Spec == Init /\ [][Next]_vars

-----------------------------------------------------------------------------
(* See SelectServer.  Elements past reported are not events.               *)
Unwatched == {f \in Fds : open[f] # NoClient /\ f \notin registered}
Owed == IF pc = "send" THEN {open[all[i]]} ELSE {}
Reported == IF pc = "loop" /\ InLoop /\ i <= reported THEN {all[i]} \cap Fds ELSE {}
Blocked == /\ pc = "loop" /\ InLoop /\ i > reported
           /\ \/ all[i] = lfd /\ backlog = <<>>
              \/ all[i] \in Fds /\ open[all[i]] # NoClient /\ ~Readable(open[all[i]])

(* Every connection that is open is watched, but for the one for which     *)
(* epoll_ctl has failed.                                                   *)
NothingLeaked == \A f, g \in Unwatched : f = g /\ "epoll_ctl" \in faults

(* Every variable keeps its range.                                         *)
TypeOK == /\ registered \subseteq Fds /\ faults \subseteq {"epoll_ctl"}
          /\ all \in [Indices -> Values \cup {Unset}]
          /\ reported \in 0 .. NumEvents /\ ret \in -1 .. NumEvents
          /\ i \in 0 .. NumEvents + 1
          /\ pc \in {"wait", "loop", "send", "exited"}
=============================================================================
