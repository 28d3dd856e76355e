----------------------------- MODULE ForkServer -----------------------------
(***************************************************************************)
(* fork_server.c: the parent accepts, forks and closes its copy of the     *)
(* connection; the child echoes until its client leaves.  worker is the    *)
(* handler of SIGCHLD; it interrupts accept (sa_flags is 0) and may change *)
(* errno.  The parent is at "accept", "test" (of cfd and errno, and then   *)
(* fork) or "close"; a child is at "read" or "write".                      *)
(***************************************************************************)
EXTENDS ServerConstants

VARIABLES peer, backlog, open, unread, child, sigchld, handler,
          cfd, pc,
          eintr,            \* accept is interrupted; then: errno is EINTR
          faults            \* history, and bound: the call that has failed

INSTANCE Sockets
INSTANCE Children

socketVars == <<peer, backlog, open, unread>>
childVars == <<child, sigchld, handler>>
vars == <<peer, backlog, open, unread, child, sigchld, handler, cfd, pc,
          eintr, faults>>

Init == /\ SocketsInit /\ ChildrenInit
        /\ cfd = -1 /\ eintr = FALSE /\ faults = {}
        /\ pc = "accept"

(* main does not run while the handler does.                               *)
At(from, to) == ~handler /\ pc = from /\ pc' = to

-----------------------------------------------------------------------------
(* The parent                                                              *)
AcceptConnection == /\ At("accept", "test") /\ ~eintr
                    /\ \E f \in Fds : Accept(f) /\ cfd' = f
                    /\ UNCHANGED <<childVars, eintr, faults>>

(* accept returns -1 for any other reason than a signal.                   *)
AcceptFails == /\ At("accept", "test") /\ ~eintr
               /\ faults = {} /\ faults' = {"accept"}
               /\ UNCHANGED <<socketVars, childVars, cfd, eintr>>

Interrupted == cfd = -1 /\ eintr
AcceptAgain == /\ At("test", "accept")
               /\ Interrupted /\ eintr' = FALSE
               /\ UNCHANGED <<socketVars, childVars, cfd, faults>>

(* The child has a copy of every descriptor.                               *)
Connection == IF cfd \in Fds THEN open[cfd] ELSE NoClient
Held == {open[f] : f \in Fds} \ {NoClient}
fork == /\ At("test", "close")
        /\ ~Interrupted
        /\ Spawn("read", Connection, Held)
        /\ UNCHANGED <<socketVars, cfd, eintr, faults>>

(* fork returns -1; cfd goes out of scope and stays open.                  *)
ForkFails == /\ At("test", "accept")
             /\ ~Interrupted
             /\ faults = {} /\ faults' = {"fork"}
             /\ cfd' = -1
             /\ UNCHANGED <<socketVars, childVars, eintr>>

NoClose == /\ At("close", "accept")                                \* mutant
           /\ cfd' = -1
           /\ UNCHANGED <<socketVars, childVars, eintr, faults>>
CloseInParent == /\ At("close", "accept")
                 /\ Close(cfd) /\ cfd' = -1
                 /\ UNCHANGED <<childVars, eintr, faults>>

-----------------------------------------------------------------------------
(* The handler.  It runs at any place of main; an accept that is waiting   *)
(* is interrupted, and sets errno to EINTR after the handler has returned. *)
Interrupt == /\ Deliver
             /\ eintr' \in {eintr, eintr \/ pc = "accept"}
             /\ UNCHANGED <<socketVars, cfd, pc, faults>>

ReapAndReturn(p) == /\ handler /\ p \in Zombies                    \* mutant
                    /\ child' = [child EXCEPT ![p] = Unborn]
                    /\ handler' = FALSE
                    /\ UNCHANGED <<socketVars, sigchld, cfd, pc, eintr, faults>>
worker_reap(p) == /\ Reap(p)
                  /\ UNCHANGED <<socketVars, cfd, pc, eintr, faults>>

(* The last waitpid finds no zombie: without children it sets errno to     *)
(* ECHILD.                                                                 *)
worker_return == /\ Zombies = {} /\ ReturnFromHandler
                 /\ pc' = IF pc = "accept" /\ eintr THEN "test" ELSE pc
                 /\ eintr' = (eintr /\ (pc = "accept" \/ ~NoChildren))
                 /\ UNCHANGED <<socketVars, cfd, faults>>

-----------------------------------------------------------------------------
(* A child                                                                 *)
mainVars == <<cfd, pc, eintr, faults>>
Peer(p) == child[p].serves

ReadData(p) == /\ Move(p, "read", "write")
               /\ Peer(p) # NoClient /\ ReadInput(Peer(p))
               /\ UNCHANGED mainVars

WriteBack(p) == /\ Move(p, "write", "read")
                /\ Send(Peer(p))
                /\ UNCHANGED mainVars

(* The end of file, a reset, no descriptor at all (cfd was -1), or SIGPIPE:*)
(* the child is gone.                                                      *)
ExitChild(p) == /\ \/ child[p].at = "read" /\ Peer(p) = NoClient
                   \/ /\ child[p].at = "read" /\ Peer(p) # NoClient
                      /\ AtEnd(Peer(p)) \/ Failed(Peer(p))
                   \/ child[p].at = "write" /\ peer[Peer(p)] = "rst"
                /\ Exit(p)
                /\ UNCHANGED <<socketVars, mainVars>>

-----------------------------------------------------------------------------
main == AcceptConnection \/ AcceptAgain \/ fork \/ CloseInParent
worker == Interrupt \/ (\E p \in Pids : worker_reap(p)) \/ worker_return
process(p) == ReadData(p) \/ WriteBack(p) \/ ExitChild(p)
Peers == ClientStep /\ UNCHANGED <<childVars, mainVars>>

Next == \/ main \/ AcceptFails \/ ForkFails \/ worker
        \/ (\E p \in Pids : process(p)) \/ Peers
Spec == Init /\ [][Next]_vars

-----------------------------------------------------------------------------
(* See SelectServer.  A connection is in service once a child has it.      *)
Arriving == IF pc = "test" THEN {Connection} ELSE {}
InService == {child[p].serves : p \in {q \in Pids : Alive(q)}} \ {NoClient}
Owed == {child[p].serves : p \in {q \in Pids : child[q].at = "write"}}

(* Without a fork that failed no process keeps a descriptor it has no use  *)
(* for, so a connection is closed for its client when its child is gone.   *)
NothingLeaked == "fork" \in faults \/
  /\ \A p \in Pids : child[p].holds \subseteq {child[p].serves}
  /\ \A f \in Fds : open[f] # NoClient =>
       cfd = f /\ pc \in {"test", "close"}

(* Every variable keeps its range.                                         *)
TypeOK == /\ child \in [Pids -> [at : {"unborn", "read", "write", "zombie"},
                                 serves : Clients \cup {NoClient},
                                 holds : SUBSET Clients]]
          /\ sigchld \in BOOLEAN /\ handler \in BOOLEAN
          /\ cfd \in Fds \cup {-1} /\ eintr \in BOOLEAN /\ faults \subseteq {"accept", "fork"}
          /\ pc \in {"accept", "test", "close"}
=============================================================================
