------------------------------ MODULE Monitor ------------------------------
(***************************************************************************)
(* The POSIX mutex and condition variables the thread programs of this     *)
(* repository are built on.  The library is not part of the repository:    *)
(* the operators say what the calls in pro_cus.cpp, pthread_pool.cpp and   *)
(* pthread_cond.c rely on, and what POSIX allows beyond that.              *)
(*                                                                         *)
(* A module that instantiates this one supplies the two variables: the     *)
(* holder of its mutex and, for each condition variable, the set of        *)
(* threads blocked in pthread_cond_wait on it.                             *)
(***************************************************************************)
CONSTANTS Conds,      \* the condition variables
          NoThread    \* the holder of a free mutex

VARIABLES mutex,      \* the thread that holds the mutex, or NoThread
          sleepers    \* [Conds -> sets of threads blocked on the condition]

MonitorInit == /\ mutex = NoThread
               /\ sleepers = [c \in Conds |-> {}]

(* pthread_mutex_lock returns to t.                                        *)
Lock(t) == mutex = NoThread /\ mutex' = t

(* pthread_mutex_unlock, called by the holder.                             *)
Unlock(t) == mutex = t /\ mutex' = NoThread

(* pthread_cond_wait up to the point where t sleeps: releasing the mutex   *)
(* and joining the sleepers is one indivisible step.  The call returns     *)
(* with a later Lock(t), once t no longer sleeps.                          *)
CondWait(c, t) == /\ Unlock(t)
                  /\ sleepers' = [sleepers EXCEPT ![c] = @ \cup {t}]

Awake(t) == \A c \in Conds : t \notin sleepers[c]

WakeUp(c, t) == /\ t \in sleepers[c]
                /\ sleepers' = [sleepers EXCEPT ![c] = @ \ {t}]

(* pthread_cond_signal wakes one sleeper, whichever; with no sleeper it    *)
(* has no effect and is not remembered.                                    *)
Signal(c) == \/ \E t \in sleepers[c] : WakeUp(c, t)
             \/ sleepers[c] = {} /\ UNCHANGED sleepers

(* pthread_cond_broadcast.                                                 *)
Broadcast(c) == sleepers' = [sleepers EXCEPT ![c] = {}]

(* POSIX lets pthread_cond_wait return although nobody signalled.          *)
SpuriousWakeUp(c) == /\ \E t \in sleepers[c] : WakeUp(c, t)
                     /\ UNCHANGED mutex
=============================================================================
