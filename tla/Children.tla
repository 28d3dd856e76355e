------------------------------ MODULE Children ------------------------------
(***************************************************************************)
(* What a server that forks sees of the kernel: its child processes, the   *)
(* connections each has open, and SIGCHLD, of which one at most is pending *)
(* and which waits while its handler runs.                                 *)
(*                                                                         *)
(* A module that instantiates this one supplies the three variables.       *)
(***************************************************************************)
EXTENDS Naturals, FiniteSetsExt

CONSTANTS Pids,         \* bound: the children at one time, as numbers
          NoClient

VARIABLES child,        \* [Pids -> place, connection served, connections held]
          sigchld,      \* SIGCHLD is pending
          handler       \* the handler is running

Unborn == [at |-> "unborn", serves |-> NoClient, holds |-> {}]
ChildrenInit == /\ child = [p \in Pids |-> Unborn]
                /\ sigchld = FALSE /\ handler = FALSE

Alive(p) == child[p].at \notin {"unborn", "zombie"}
Zombies == {p \in Pids : child[p].at = "zombie"}
NoChildren == \A p \in Pids : child[p] = Unborn

(* fork, in a child that begins at the given place.                        *)
Spawn(at, serves, holds) ==
  LET free == {p \in Pids : child[p] = Unborn}
  IN  /\ free # {}
      /\ child' = [child EXCEPT ![Min(free)] =
                     [at |-> at, serves |-> serves, holds |-> holds]]
      /\ UNCHANGED <<sigchld, handler>>

Move(p, from, to) == /\ child[p].at = from
                     /\ child' = [child EXCEPT ![p].at = to]
                     /\ UNCHANGED <<sigchld, handler>>

(* exit, or death by a signal, closes every descriptor.                    *)
Exit(p) == /\ child' = [child EXCEPT ![p].at = "zombie", ![p].holds = {}]
           /\ sigchld' = TRUE
           /\ UNCHANGED handler

Deliver == /\ sigchld /\ ~handler
           /\ sigchld' = FALSE /\ handler' = TRUE
           /\ UNCHANGED child

(* waitpid(-1, NULL, WNOHANG) that returns a child, whose number is free.  *)
Reap(p) == /\ handler /\ p \in Zombies
           /\ child' = [child EXCEPT ![p] = Unborn]
           /\ UNCHANGED <<sigchld, handler>>
ReturnFromHandler == handler /\ handler' = FALSE /\ UNCHANGED <<child, sigchld>>
=============================================================================
