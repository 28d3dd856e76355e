---------------------------- MODULE SelectServer ----------------------------
(***************************************************************************)
(* select.c: an echo server that keeps its descriptors in reads, hands a   *)
(* copy tmp to select, accepts first and then walks tmp from lfd+1 up to   *)
(* maxfd.  The process is at "wait", "accept" (the test of lfd), "scan", *)
(* "send", or has "exited".                                                *)
(***************************************************************************)
EXTENDS ServerConstants, FiniteSetsExt

VARIABLES peer, backlog, open, unread,
          reads, tmp,       \* the sets of descriptors
          maxfd, i, pc

INSTANCE Sockets

socketVars == <<peer, backlog, open, unread>>
vars == <<peer, backlog, open, unread, reads, tmp, maxfd, i, pc>>

Init == /\ SocketsInit
        /\ reads = {lfd} /\ tmp = {} /\ maxfd = lfd /\ i = 0
        /\ pc = "wait"

At(from, to) == pc = from /\ pc' = to
Over == pc = "exited"

-----------------------------------------------------------------------------
Ready(f) == IF f = lfd THEN backlog # <<>> ELSE Readable(open[f])
select == /\ At("wait", "accept")
          /\ tmp' = {f \in reads : f <= maxfd /\ Ready(f)}
          /\ tmp' # {}
          /\ UNCHANGED <<socketVars, reads, maxfd, i>>

NoConnection == /\ At("accept", "scan") /\ lfd \notin tmp
                /\ i' = lfd + 1
                /\ UNCHANGED <<socketVars, reads, tmp, maxfd>>

ForgetMaxfd == /\ At("accept", "scan") /\ lfd \in tmp              \* mutant
               /\ \E f \in Fds : Accept(f) /\ reads' = reads \cup {f}
               /\ i' = lfd + 1
               /\ UNCHANGED <<tmp, maxfd>>
AcceptConnection == /\ At("accept", "scan") /\ lfd \in tmp
                    /\ \E f \in Fds : /\ Accept(f)
                                      /\ reads' = reads \cup {f}
                                      /\ maxfd' = Max({maxfd, f})
                    /\ i' = lfd + 1
                    /\ UNCHANGED tmp

AcceptFails == /\ At("accept", "exited") /\ lfd \in tmp
               /\ UNCHANGED <<socketVars, reads, tmp, maxfd, i>>

-----------------------------------------------------------------------------
(* FD_ISSET(i, &tmp): the loop passes over the descriptors not in tmp.     *)
ScanReads == {f \in reads : i <= f /\ f <= maxfd}                  \* mutant
Remaining == {f \in tmp : i <= f /\ f <= maxfd}
Next_i(f) == f \in Remaining /\ \A g \in Remaining : f <= g

RecvData(f) == /\ At("scan", "send") /\ Next_i(f)
               /\ ReadInput(open[f])
               /\ i' = f
               /\ UNCHANGED <<reads, tmp, maxfd>>

SendBack == /\ At("send", "scan")
            /\ Send(open[i])
            /\ i' = i + 1
            /\ UNCHANGED <<reads, tmp, maxfd>>

(* SIGPIPE                                                                 *)
BrokenPipe == /\ At("send", "exited")
              /\ peer[open[i]] = "rst"
              /\ UNCHANGED <<socketVars, reads, tmp, maxfd, i>>

RecvZero(f) == /\ At("scan", "scan") /\ Next_i(f)
               /\ AtEnd(open[f])
               /\ Close(f) /\ reads' = reads \ {f}
               /\ i' = f + 1
               /\ UNCHANGED <<tmp, maxfd>>

RecvFails(f) == /\ At("scan", "exited") /\ Next_i(f)
                /\ Failed(open[f])
                /\ UNCHANGED <<socketVars, reads, tmp, maxfd, i>>

ScanDone == /\ At("scan", "wait")
            /\ Remaining = {}
            /\ UNCHANGED <<socketVars, reads, tmp, maxfd, i>>

-----------------------------------------------------------------------------
loop == \/ select \/ NoConnection \/ AcceptConnection
        \/ (\E f \in Fds : RecvData(f) \/ RecvZero(f) \/ RecvFails(f))
        \/ SendBack \/ BrokenPipe \/ ScanDone
Peers == ~Over /\ ClientStep /\ UNCHANGED <<reads, tmp, maxfd, i, pc>>

Next == loop \/ AcceptFails \/ Peers
Spec == Init /\ [][Next]_vars

-----------------------------------------------------------------------------
(* What the rest of the project asks of a server: the descriptors somebody *)
(* looks after, whose input was read and is not answered, and the reads    *)
(* that are about to be made on the word of select.                        *)
Tended == reads \ {lfd}
Owed == IF pc = "send" THEN {open[i]} ELSE {}
Reported == IF pc = "scan" THEN Remaining ELSE {}

(* Every variable keeps its range.                                         *)
TypeOK == /\ reads \subseteq Fds \cup {lfd} /\ tmp \subseteq Fds \cup {lfd}
          /\ maxfd \in Fds \cup {lfd} /\ i \in Nat
          /\ pc \in {"wait", "accept", "scan", "send", "exited"}
=============================================================================
