---------------------------- MODULE TcpProServer ----------------------------
(***************************************************************************)
(* tcp_server_pro: tcp_pro.cpp on the class TcpSocket.  The parent accepts *)
(* into com, forks, and closes com whatever fork returned.  A child does   *)
(* not look at the results of Recv and Send: it never leaves its loop, and *)
(* ends by SIGPIPE only.  Between the two it waits for the operator.  The  *)
(* handler sigbc interrupts nothing, as signal() restarts accept.  The     *)
(* parent is at "accept", "fork" or "close"; a child is at "recv" or       *)
(* "answer".                                                               *)
(***************************************************************************)
EXTENDS ServerConstants

VARIABLES peer, backlog, open, unread, child, sigchld, handler,
          com,              \* com._sock
          pc

INSTANCE Sockets
INSTANCE Children

socketVars == <<peer, backlog, open, unread>>
childVars == <<child, sigchld, handler>>
vars == <<peer, backlog, open, unread, child, sigchld, handler, com, pc>>

Init == /\ SocketsInit /\ ChildrenInit
        /\ com = -1
        /\ pc = "accept"

At(from, to) == ~handler /\ pc = from /\ pc' = to

-----------------------------------------------------------------------------
(* The parent.  When Accept fails, main starts over with nothing changed.  *)
Accept_com == /\ At("accept", "fork")
              /\ \E f \in Fds : Accept(f) /\ com' = f
              /\ UNCHANGED childVars

Held == {open[f] : f \in Fds} \ {NoClient}
fork == /\ At("fork", "close")
        /\ Spawn("recv", open[com], Held)
        /\ UNCHANGED <<socketVars, com>>

ForkFails == /\ At("fork", "close")
             /\ UNCHANGED <<socketVars, childVars, com>>

Close_com == /\ At("close", "accept")
             /\ Close(com) /\ com' = -1
             /\ UNCHANGED childVars

-----------------------------------------------------------------------------
(* The handler                                                             *)
sigbc_starts == Deliver /\ UNCHANGED <<socketVars, com, pc>>
sigbc_reaps(p) == Reap(p) /\ UNCHANGED <<socketVars, com, pc>>
sigbc_returns == /\ Zombies = {} /\ ReturnFromHandler
                 /\ UNCHANGED <<socketVars, com, pc>>

-----------------------------------------------------------------------------
(* A child.  Recv returns with data, or false at the end or after a reset. *)
Peer(p) == child[p].serves
Recv(p) == /\ Move(p, "recv", "answer")
           /\ Readable(Peer(p))
           /\ unread' = [unread EXCEPT ![Peer(p)] = 0]
           /\ UNCHANGED <<peer, backlog, open, com, pc>>

SendAnswer(p) == /\ Move(p, "answer", "recv")
                 /\ Send(Peer(p))
                 /\ UNCHANGED <<com, pc>>

(* SIGPIPE                                                                 *)
BrokenPipe(p) == /\ child[p].at = "answer" /\ peer[Peer(p)] = "rst"
                 /\ Exit(p)
                 /\ UNCHANGED <<socketVars, com, pc>>

-----------------------------------------------------------------------------
main == Accept_com \/ fork \/ Close_com
sigbc == sigbc_starts \/ (\E p \in Pids : sigbc_reaps(p)) \/ sigbc_returns
Peers == ClientStep /\ UNCHANGED <<childVars, com, pc>>

Next == \/ main \/ ForkFails \/ sigbc
        \/ (\E p \in Pids : Recv(p) \/ SendAnswer(p) \/ BrokenPipe(p)) \/ Peers
Spec == Init /\ [][Next]_vars

-----------------------------------------------------------------------------
(* See SelectServer and ForkServer.                                        *)
Arriving == IF pc = "fork" THEN {open[com]} ELSE {}
InService == {child[p].serves : p \in {q \in Pids : Alive(q)}}
Owed == {child[p].serves : p \in {q \in Pids : child[q].at = "answer"}}
NothingLeaked ==
  /\ \A p \in Pids : child[p].holds \subseteq {child[p].serves}
  /\ \A f \in Fds : open[f] # NoClient => com = f /\ pc \in {"fork", "close"}

(* Every variable keeps its range.                                         *)
TypeOK == /\ child \in [Pids -> [at : {"unborn", "recv", "answer", "zombie"},
                                 serves : Clients \cup {NoClient},
                                 holds : SUBSET Clients]]
          /\ sigchld \in BOOLEAN /\ handler \in BOOLEAN
          /\ com \in Fds \cup {-1}
          /\ pc \in {"accept", "fork", "close"}
=============================================================================
