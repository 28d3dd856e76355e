---------------------------- MODULE ProductList ----------------------------
(***************************************************************************)
(* pthread_cond.c: one producer pushes nodes on a linked list, one         *)
(* consumer pops and frees them.  The consumer waits under an if, and the  *)
(* producer signals after it has released the mutex.                       *)
(*                                                                         *)
(* A node is its address; num is left out.  The list is the chain of next  *)
(* pointers from Head on.                                                  *)
(***************************************************************************)
EXTENDS Naturals, Sequences, SequencesExt

CONSTANTS Nodes,      \* bound: the addresses malloc can return
          NULL, NoThread

ASSUME NullAssumption == NULL \notin Nodes
ASSUME NoThreadAssumption == NoThread \notin {"producer", "consumer"}

VARIABLES mutex, sleepers,
          heap,     \* the nodes allocated and not yet freed
          list,     \* the nodes reachable from Head, Head first
          prod,     \* the variable prod of each thread
          pc

vars == <<mutex, sleepers, heap, list, prod, pc>>

Threads == {"producer", "consumer"}
Conds == {"cond"}

INSTANCE Monitor

Init == /\ MonitorInit
        /\ heap = {} /\ list = <<>>
        /\ prod = [t \in Threads |-> NULL]
        /\ pc = [producer |-> "malloc", consumer |-> "lock"]

(* A NULL pointer that is dereferenced ends both threads.                  *)
Alive == pc["consumer"] # "crashed"
Goto(t, from, to) == Alive /\ pc[t] = from /\ pc' = [pc EXCEPT ![t] = to]

-----------------------------------------------------------------------------
MallocOrNull == /\ Goto("producer", "malloc", "lock")             \* mutant
                /\ prod' = [prod EXCEPT !["producer"] = NULL]
                /\ UNCHANGED <<mutex, sleepers, heap, list>>
Malloc == /\ Goto("producer", "malloc", "lock")
          /\ \E n \in Nodes \ heap : /\ heap' = heap \cup {n}
                                     /\ prod' = [prod EXCEPT !["producer"] = n]
          /\ UNCHANGED <<mutex, sleepers, list>>

Insert == /\ Goto("producer", "insert", "unlock")
          /\ list' = <<prod["producer"]>> \o list
          /\ UNCHANGED <<mutex, sleepers, heap, prod>>

SignalIfMore == /\ Goto("producer", "signal", "malloc")           \* mutant
                /\ IF Len(list) > 1 THEN Signal("cond") ELSE UNCHANGED sleepers
                /\ UNCHANGED <<mutex, heap, list, prod>>
NoSignal == /\ Goto("producer", "signal", "malloc")               \* mutant
            /\ UNCHANGED <<mutex, sleepers, heap, list, prod>>
SignalCond == /\ Goto("producer", "signal", "malloc")
              /\ Signal("cond")
              /\ UNCHANGED <<mutex, heap, list, prod>>

LockMutex(t, to) == /\ Goto(t, "lock", to) /\ Lock(t)
                    /\ UNCHANGED <<sleepers, heap, list, prod>>

UnlockMutex(t, to) == /\ Goto(t, "unlock", to) /\ Unlock(t)
                      /\ UNCHANGED <<sleepers, heap, list, prod>>

Wait == /\ Goto("consumer", "test", "asleep")
        /\ list = <<>>
        /\ CondWait("cond", "consumer")
        /\ UNCHANGED <<heap, list, prod>>

(* The if is over after one wait: Head is not looked at again.             *)
Resume == /\ Goto("consumer", "asleep", "take")
          /\ Awake("consumer") /\ Lock("consumer")
          /\ UNCHANGED <<sleepers, heap, list, prod>>

SkipWait == /\ Goto("consumer", "test", "take")
            /\ list # <<>>
            /\ UNCHANGED <<mutex, sleepers, heap, list, prod>>

NotUnlinked == /\ list # <<>>                                     \* mutant
               /\ Goto("consumer", "take", "unlock")
               /\ prod' = [prod EXCEPT !["consumer"] = Head(list)]
               /\ UNCHANGED <<mutex, sleepers, heap, list>>
Take == /\ list # <<>>
        /\ Goto("consumer", "take", "unlock")
        /\ prod' = [prod EXCEPT !["consumer"] = Head(list)]
        /\ list' = Tail(list)
        /\ UNCHANGED <<mutex, sleepers, heap>>

(* Head = Head->next with Head == NULL.                                    *)
TakeNull == /\ list = <<>>
            /\ Goto("consumer", "take", "crashed")
            /\ prod' = [prod EXCEPT !["consumer"] = NULL]
            /\ UNCHANGED <<mutex, sleepers, heap, list>>

Free == /\ Goto("consumer", "free", "lock")
        /\ heap' = heap \ {prod["consumer"]}
        /\ UNCHANGED <<mutex, sleepers, list, prod>>

Spurious == Alive /\ SpuriousWakeUp("cond") /\ UNCHANGED <<heap, list, prod, pc>>

thr_Product == \/ Malloc \/ LockMutex("producer", "insert") \/ Insert
               \/ UnlockMutex("producer", "signal") \/ SignalCond
thr_customer == \/ LockMutex("consumer", "test") \/ Wait \/ Resume \/ SkipWait
                \/ Take \/ TakeNull \/ UnlockMutex("consumer", "free") \/ Free

Next == thr_Product \/ thr_customer \/ Spurious

Spec == Init /\ [][Next]_vars
(* The same where pthread_cond_wait returns only when it was signalled.    *)
SignalledSpec == Init /\ [][thr_Product \/ thr_customer]_vars
FairSpec == Spec /\ SF_vars(thr_Product) /\ SF_vars(thr_customer)

-----------------------------------------------------------------------------
(* Every variable keeps its range: what is linked are nodes, never NULL.   *)
TypeOK == /\ mutex \in Threads \cup {NoThread}
          /\ sleepers \in [Conds -> SUBSET {"consumer"}]
          /\ heap \subseteq Nodes
          /\ list \in Seq(Nodes)
          /\ prod \in [Threads -> Nodes \cup {NULL}]
          /\ pc["producer"] \in {"malloc", "lock", "insert", "unlock", "signal"}
          /\ pc["consumer"] \in {"lock", "test", "asleep", "take", "unlock",
                                 "free", "crashed"}

(* The consumer sleeps next to a non-empty list only while the producer is *)
(* on its way to the signal, which comes after the unlock.                 *)
NoLostWakeup == "consumer" \in sleepers["cond"] /\ list # <<>> =>
                  pc["producer"] \in {"unlock", "signal"}

(* Every allocated node is in exactly one place, the list or the hands of  *)
(* one thread, and nothing else is: no node leaks, is linked twice, or is  *)
(* still linked or held by the producer when the consumer frees it.        *)
InHand(t, places) == IF pc[t] \in places THEN {prod[t]} ELSE {}
Produced == InHand("producer", {"lock", "insert"})
Consumed == InHand("consumer", {"unlock", "free"})
NodesOwnedOnce == /\ heap = ToSet(list) \cup Produced \cup Consumed
                  /\ IsInjective(list)
                  /\ ToSet(list) \cap (Produced \cup Consumed) = {}
                  /\ Produced \cap Consumed = {}

(* A consumer that sleeps while there is a product is woken up.            *)
ConsumerWakes == ("consumer" \in sleepers["cond"] /\ list # <<>>) ~>
                   (pc["consumer"] = "take" \/ ~Alive)

(* "Remove the head node": when the consumer gets to that line there is a  *)
(* head node.                                                              *)
HeadNodeThere == pc["consumer"] = "take" => list # <<>>
=============================================================================
