------------------------------ MODULE SemQueue ------------------------------
(***************************************************************************)
(* The blocking queue of sem.cpp: a ring of slots with a read and a write  *)
(* index, and three semaphores that count the items, count the free slots  *)
(* and guard the indices.  Nothing tests whether the ring is full or       *)
(* empty: the counts alone keep an index from overtaking the other.        *)
(*                                                                         *)
(* pc follows QueuePush_back and QueuePop: "wait" before the thread's own  *)
(* semaphore, "lock" before _sem_lock, "copy" before the slot is accessed, *)
(* "advance" before the index moves, "unlock", then "post" before the      *)
(* other side's semaphore.                                                 *)
(***************************************************************************)
EXTENDS Integers, Sequences, FiniteSets

CONSTANTS Producers, Consumers,
          QueueSize,  \* slots of _queue: the constructor says 10
          Capacity,   \* _capacity, the constructor's argument cap
          Wrap,       \* bound: a producer's int i is taken modulo Wrap
          NoItem

ASSUME ThreadAssumption == /\ IsFiniteSet(Producers) /\ IsFiniteSet(Consumers)
                           /\ Producers \cap Consumers = {}
(* The vector is not resized: with cap > 10 an index leaves it.            *)
ASSUME SizeAssumption == /\ QueueSize \in Nat /\ Wrap \in Nat \ {0}
                         /\ Capacity \in 1 .. QueueSize

VARIABLES slots, read_step, write_step,     \* _queue, _read_step, _write_step
          sem_data, sem_idle, sem_lock,     \* values of the semaphores
          count,                            \* i of each producer
          data,                             \* data of each consumer
          pc

sems == <<sem_data, sem_idle, sem_lock>>
ring == <<slots, read_step, write_step>>
vars == <<slots, read_step, write_step, sem_data, sem_idle, sem_lock,
          count, data, pc>>

Threads == Producers \cup Consumers
Item == Producers \X (0 .. Wrap - 1)

Init == /\ slots = [k \in 0 .. QueueSize - 1 |-> NoItem]
        /\ read_step = 0 /\ write_step = 0
        /\ sem_data = 0 /\ sem_idle = Capacity /\ sem_lock = 1
        /\ count = [p \in Producers |-> 0]
        /\ data = [c \in Consumers |-> NoItem]
        /\ pc = [t \in Threads |-> "wait"]

Goto(t, from, to) == pc[t] = from /\ pc' = [pc EXCEPT ![t] = to]

-----------------------------------------------------------------------------
\* sem_wait on the thread's own resource
ProductWait(p) == /\ Goto(p, "wait", "lock")
                  /\ sem_idle > 0 /\ sem_idle' = sem_idle - 1
                  /\ UNCHANGED <<ring, sem_data, sem_lock, count, data>>

NoConsumerWait(c) == /\ Goto(c, "wait", "lock")                   \* mutant
                     /\ UNCHANGED <<ring, sems, count, data>>
ConsumerWait(c) == /\ Goto(c, "wait", "lock")
                   /\ sem_data > 0 /\ sem_data' = sem_data - 1
                   /\ UNCHANGED <<ring, sem_idle, sem_lock, count, data>>

NoQueueLock(t) == /\ Goto(t, "lock", "copy")                      \* mutant
                  /\ UNCHANGED <<ring, sems, count, data>>
QueueLock(t) == /\ Goto(t, "lock", "copy")
                /\ sem_lock > 0 /\ sem_lock' = sem_lock - 1
                /\ UNCHANGED <<ring, sem_data, sem_idle, count, data>>

QueueUnlock(t) == /\ Goto(t, "unlock", "post")
                  /\ sem_lock' = sem_lock + 1
                  /\ UNCHANGED <<ring, sem_data, sem_idle, count, data>>

Write(p) == /\ Goto(p, "copy", "advance")
            /\ slots' = [slots EXCEPT ![write_step] = <<p, count[p]>>]
            /\ count' = [count EXCEPT ![p] = (@ + 1) % Wrap]
            /\ UNCHANGED <<read_step, write_step, sems, data>>

AdvanceWrite(p) == /\ Goto(p, "advance", "unlock")
                   /\ write_step' = (write_step + 1) % Capacity
                   /\ UNCHANGED <<slots, read_step, sems, count, data>>

Read(c) == /\ Goto(c, "copy", "advance")
           /\ data' = [data EXCEPT ![c] = slots[read_step]]
           /\ UNCHANGED <<ring, sems, count>>

AdvanceModQueueSize(c) ==                                         \* mutant
  /\ Goto(c, "advance", "unlock")
  /\ read_step' = (read_step + 1) % QueueSize
  /\ UNCHANGED <<slots, write_step, sems, count, data>>
AdvanceRead(c) == /\ Goto(c, "advance", "unlock")
                  /\ read_step' = (read_step + 1) % Capacity
                  /\ UNCHANGED <<slots, write_step, sems, count, data>>

ConsumerWakeup(p) == /\ Goto(p, "post", "wait")
                     /\ sem_data' = sem_data + 1
                     /\ UNCHANGED <<ring, sem_idle, sem_lock, count, data>>

NoProductWakeup(c) == /\ Goto(c, "post", "wait")                  \* mutant
                      /\ UNCHANGED <<ring, sems, count, data>>
ProductWakeup(c) == /\ Goto(c, "post", "wait")
                    /\ sem_idle' = sem_idle + 1
                    /\ UNCHANGED <<ring, sem_data, sem_lock, count, data>>

QueuePush_back(p) == \/ ProductWait(p) \/ QueueLock(p) \/ Write(p)
                     \/ AdvanceWrite(p) \/ QueueUnlock(p) \/ ConsumerWakeup(p)
QueuePop(c) == \/ ConsumerWait(c) \/ QueueLock(c) \/ Read(c)
               \/ AdvanceRead(c) \/ QueueUnlock(c) \/ ProductWakeup(c)

Next == \/ \E p \in Producers : QueuePush_back(p)
        \/ \E c \in Consumers : QueuePop(c)

Spec == Init /\ [][Next]_vars

(* A thread blocked in sem_wait is released if posts keep coming.          *)
FairSpec == /\ Spec
            /\ \A p \in Producers : SF_vars(QueuePush_back(p))
            /\ \A c \in Consumers : SF_vars(QueuePop(c))

-----------------------------------------------------------------------------
At(T, places) == {t \in T : pc[t] \in places}
Holding == {"lock", "copy", "advance", "unlock", "post"}
Critical == {"copy", "advance", "unlock"}

(* Every variable keeps its range: the indices stay inside the ring and the*)
(* semaphores never count more than its slots.                             *)
TypeOK == /\ slots \in [0 .. QueueSize - 1 -> Item \cup {NoItem}]
          /\ read_step \in 0 .. Capacity - 1 /\ write_step \in 0 .. Capacity - 1
          /\ sem_data \in 0 .. Capacity /\ sem_idle \in 0 .. Capacity
          /\ sem_lock \in {0, 1}
          /\ count \in [Producers -> 0 .. Wrap - 1]
          /\ data \in [Consumers -> Item \cup {NoItem}]
          /\ pc \in [Threads -> {"wait"} \cup Holding]

(* Every slot is accounted for: counted by one of the two semaphores, or   *)
(* in the hands of exactly one thread between its wait and its post.       *)
SlotAccounting ==
  sem_idle + sem_data + Cardinality(At(Threads, Holding)) = Capacity

(* One thread at a time touches the ring and its indices.                  *)
MutualExclusion ==
  \A t, u \in Threads : pc[t] \in Critical /\ pc[u] \in Critical => t = u

(* The ring behaves like the first-in first-out buffer of BoundedBuffer.   *)
(* A slot is in the buffer from the step that writes it to the step that   *)
(* reads it: counted by sem_data, or still held by the producer that has   *)
(* written it or by the consumer that has yet to read it.                  *)
Written == At(Producers, {"advance", "unlock", "post"})
Unread  == At(Consumers, {"lock", "copy"})
First   == read_step + Cardinality(At(Consumers, {"advance"}))
Content == [k \in 1 .. sem_data + Cardinality(Written \cup Unread) |->
              slots[(First + k - 1) % Capacity]]
Buffer == INSTANCE BoundedBuffer WITH content <- Content, next <- count
BufferPromise == Buffer!Spec

(* A producer with an item in hand finds a slot in the end: consumers give *)
(* back every slot they take.                                              *)
ProducersServed == \A p \in Producers : pc[p] = "wait" ~> pc[p] = "lock"
=============================================================================
