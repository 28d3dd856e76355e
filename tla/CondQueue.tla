----------------------------- MODULE CondQueue -----------------------------
(***************************************************************************)
(* The blocking queue of pro_cus.cpp: a std::queue guarded by one mutex,   *)
(* with one condition variable for producers and one for consumers, and    *)
(* the threads of main, which push and pop for ever.                       *)
(*                                                                         *)
(* A thread is at "enter" before QueueLock, at "test" in the while loop    *)
(* (holding the mutex), "asleep" inside pthread_cond_wait, and at "leave"  *)
(* before QueueUnlock.                                                     *)
(***************************************************************************)
EXTENDS Naturals, Sequences, FiniteSets

CONSTANTS Producers, Consumers,
          Capacity,   \* _capcity
          Wrap,       \* bound: a producer's int i is taken modulo Wrap
          NoItem, NoThread

ASSUME ThreadAssumption == /\ IsFiniteSet(Producers) /\ Producers # {}
                           /\ IsFiniteSet(Consumers) /\ Consumers # {}
                           /\ Producers \cap Consumers = {}
                           /\ NoThread \notin Producers \cup Consumers
ASSUME SizeAssumption == Capacity \in Nat \ {0} /\ Wrap \in Nat \ {0}

VARIABLES mutex, sleepers,   \* _mutex, and the threads blocked on the conditions
          queue,             \* _queue
          count,             \* i of each producer
          data,              \* data of each consumer
          pc

vars == <<mutex, sleepers, queue, count, data, pc>>

Threads == Producers \cup Consumers
Conds == {"product", "consumer"}     \* _cond_prodoct, _cond_consumer
Item == Producers \X (0 .. Wrap - 1)

INSTANCE Monitor

Init == /\ MonitorInit
        /\ queue = <<>>
        /\ count = [p \in Producers |-> 0]
        /\ data = [c \in Consumers |-> NoItem]
        /\ pc = [t \in Threads |-> "enter"]

Goto(t, from, to) == pc[t] = from /\ pc' = [pc EXCEPT ![t] = to]

-----------------------------------------------------------------------------
FullOneLate == Len(queue) > Capacity                              \* mutant
QueueIsfull == Len(queue) = Capacity

WakeupIfEmpty == IF queue = <<>> THEN Signal("consumer")          \* mutant
                                 ELSE UNCHANGED sleepers
WakeupWrongCond == Signal("product")                              \* mutant
ConsumerWakeup == Signal("consumer")
ProductorWakeup == Signal("product")

QueueLock(t) == /\ Goto(t, "enter", "test")
                /\ Lock(t)
                /\ UNCHANGED <<sleepers, queue, count, data>>

(* pthread_cond_wait returns with the mutex held; the while loop re-tests. *)
Resume(t) == /\ Goto(t, "asleep", "test")
             /\ Awake(t) /\ Lock(t)
             /\ UNCHANGED <<sleepers, queue, count, data>>

QueueUnlock(t) == /\ Goto(t, "leave", "enter")
                  /\ Unlock(t)
                  /\ UNCHANGED <<sleepers, queue, count, data>>

ProductorWait(p) == /\ Goto(p, "test", "asleep")
                    /\ QueueIsfull
                    /\ CondWait("product", p)
                    /\ UNCHANGED <<queue, count, data>>

QueuePush(p) == /\ Goto(p, "test", "leave")
                /\ ~QueueIsfull
                /\ queue' = Append(queue, <<p, count[p]>>)
                /\ count' = [count EXCEPT ![p] = (@ + 1) % Wrap]
                /\ ConsumerWakeup
                /\ UNCHANGED <<mutex, data>>

ConsumerWait(c) == /\ Goto(c, "test", "asleep")
                   /\ queue = <<>>
                   /\ CondWait("consumer", c)
                   /\ UNCHANGED <<queue, count, data>>

PopBeforeFront(c) == /\ Goto(c, "test", "leave")                  \* mutant
                     /\ queue # <<>>
                     /\ queue' = Tail(queue)
                     /\ data' = [data EXCEPT ![c] =
                          IF Len(queue) > 1 THEN queue[2] ELSE NoItem]
                     /\ ProductorWakeup
                     /\ UNCHANGED <<mutex, count>>
QueuePop(c) == /\ Goto(c, "test", "leave")
               /\ queue # <<>>
               /\ data' = [data EXCEPT ![c] = Head(queue)]
               /\ queue' = Tail(queue)
               /\ ProductorWakeup
               /\ UNCHANGED <<mutex, count>>

Spurious(c) == SpuriousWakeUp(c) /\ UNCHANGED <<queue, count, data, pc>>

Next == \/ \E t \in Threads : QueueLock(t) \/ Resume(t) \/ QueueUnlock(t)
        \/ \E p \in Producers : ProductorWait(p) \/ QueuePush(p)
        \/ \E c \in Consumers : ConsumerWait(c) \/ QueuePop(c)
        \/ \E c \in Conds : Spurious(c)

Spec == Init /\ [][Next]_vars

(* A running thread keeps running.  A lock request is granted under strong *)
(* fairness: other threads can take a free mutex first, but not every time.*)
Fairness == /\ \A t \in Threads : /\ WF_vars(QueueUnlock(t))
                                  /\ SF_vars(QueueLock(t) \/ Resume(t))
            /\ \A p \in Producers : WF_vars(ProductorWait(p) \/ QueuePush(p))
            /\ \A c \in Consumers : WF_vars(ConsumerWait(c) \/ QueuePop(c))

FairSpec == Spec /\ Fairness

-----------------------------------------------------------------------------
(* Every variable keeps its range; the queue holds at most _capcity items. *)
TypeOK == /\ mutex \in Threads \cup {NoThread}
          /\ sleepers \in [Conds -> SUBSET Threads]
          /\ sleepers["product"] \subseteq Producers
          /\ sleepers["consumer"] \subseteq Consumers
          /\ queue \in Seq(Item) /\ Len(queue) <= Capacity
          /\ count \in [Producers -> 0 .. Wrap - 1]
          /\ data \in [Consumers -> Item \cup {NoItem}]
          /\ pc \in [Threads -> {"enter", "test", "asleep", "leave"}]

(* While a consumer sleeps there are at least as many consumers up and     *)
(* about as there are items waiting, and while a producer sleeps at least  *)
(* as many producers as free places: one pthread_cond_signal per push and  *)
(* per pop, and a while loop around each wait, leave nobody asleep next to *)
(* work only that thread would do.                                         *)
NoLostWakeup ==
  /\ sleepers["consumer"] # {} =>
       Len(queue) <= Cardinality(Consumers \ sleepers["consumer"])
  /\ sleepers["product"] # {} =>
       Capacity - Len(queue) <= Cardinality(Producers \ sleepers["product"])

(* The queue, the counters and the consumers' variables behave like the    *)
(* bounded first-in first-out buffer of module BoundedBuffer.              *)
Buffer == INSTANCE BoundedBuffer WITH content <- queue, next <- count
BufferPromise == Buffer!Spec

(* An item that was pushed is popped in the end, whatever the order in     *)
(* which the threads get the mutex.                                        *)
Queued(v) == \E k \in DOMAIN queue : queue[k] = v
EveryItemServed == \A v \in Item : Queued(v) ~> ~Queued(v)
=============================================================================
