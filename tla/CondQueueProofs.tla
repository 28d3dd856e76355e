-------------------------- MODULE CondQueueProofs --------------------------
(***************************************************************************)
(* What holds of the queue of pro_cus.cpp for any number of threads and    *)
(* any capacity.                                                           *)
(***************************************************************************)
EXTENDS CondQueue, FiniteSetTheorems, SequenceTheorems, TLAPS

LEMMA TypeInit == Init => TypeOK
<1>1. 0 \in 0 .. Wrap - 1
  BY SizeAssumption
<1>2. <<>> \in Seq(Item) /\ Len(<<>>) = 0
  BY EmptySeq
<1> QED
  BY <1>1, <1>2, SizeAssumption DEF Init, MonitorInit, TypeOK, Conds, Threads

(* A signal wakes threads up and puts none to sleep.                       *)
LEMMA SignalShrinks ==
  ASSUME NEW c \in Conds, sleepers \in [Conds -> SUBSET Threads], Signal(c)
  PROVE  /\ sleepers' \in [Conds -> SUBSET Threads]
         /\ \A d \in Conds : sleepers'[d] \subseteq sleepers[d]
         /\ \A d \in Conds \ {c} : sleepers'[d] = sleepers[d]
BY DEF Signal, WakeUp

LEMMA TypeNext == TypeOK /\ [Next]_vars => TypeOK'
<1> SUFFICES ASSUME TypeOK, [Next]_vars PROVE TypeOK'
  OBVIOUS
<1> USE DEF Goto
<1>1. ASSUME NEW t \in Threads, QueueLock(t) \/ Resume(t) \/ QueueUnlock(t)
      PROVE  TypeOK'
  BY <1>1 DEF TypeOK, QueueLock, Resume, QueueUnlock, Lock, Unlock
<1>2. ASSUME NEW p \in Producers, ProductorWait(p)
      PROVE  TypeOK'
  BY <1>2 DEF TypeOK, ProductorWait, CondWait, Unlock, Threads, Conds
<1>3. ASSUME NEW p \in Producers, QueuePush(p)
      PROVE  TypeOK'
  <2>1. <<p, count[p]>> \in Item
    BY <1>3 DEF TypeOK, Item
  <2>2. queue' \in Seq(Item) /\ Len(queue') <= Capacity
    BY <1>3, <2>1, AppendProperties, SizeAssumption DEF TypeOK, QueuePush, QueueIsfull
  <2>3. count' \in [Producers -> 0 .. Wrap - 1]
    <3>1. (count[p] + 1) % Wrap \in 0 .. Wrap - 1
      BY SizeAssumption DEF TypeOK
    <3> QED
      BY <1>3, <3>1 DEF TypeOK, QueuePush
  <2>4. /\ sleepers' \in [Conds -> SUBSET Threads]
        /\ sleepers'["product"] \subseteq Producers
        /\ sleepers'["consumer"] \subseteq Consumers
    BY <1>3, SignalShrinks DEF TypeOK, QueuePush, ConsumerWakeup, Conds
  <2> QED
    BY <1>3, <2>2, <2>3, <2>4 DEF TypeOK, QueuePush, Threads
<1>4. ASSUME NEW c \in Consumers, ConsumerWait(c)
      PROVE  TypeOK'
  BY <1>4 DEF TypeOK, ConsumerWait, CondWait, Unlock, Threads, Conds
<1>5. ASSUME NEW c \in Consumers, QueuePop(c)
      PROVE  TypeOK'
  <2>1. /\ Head(queue) \in Item
        /\ queue' \in Seq(Item) /\ Len(queue') <= Capacity
    BY <1>5, HeadTailProperties, SizeAssumption DEF TypeOK, QueuePop
  <2>2. /\ sleepers' \in [Conds -> SUBSET Threads]
        /\ sleepers'["product"] \subseteq Producers
        /\ sleepers'["consumer"] \subseteq Consumers
    BY <1>5, SignalShrinks DEF TypeOK, QueuePop, ProductorWakeup, Conds
  <2> QED
    BY <1>5, <2>1, <2>2 DEF TypeOK, QueuePop, Threads
<1>6. ASSUME NEW c \in Conds, Spurious(c)
      PROVE  TypeOK'
  BY <1>6 DEF TypeOK, Spurious, SpuriousWakeUp, WakeUp, Conds
<1>7. CASE UNCHANGED vars
  BY <1>7 DEF TypeOK, vars
<1> QED
  BY <1>1, <1>2, <1>3, <1>4, <1>5, <1>6, <1>7 DEF Next

(* Every variable keeps its range; in particular the queue never holds     *)
(* more than _capcity items.                                               *)
THEOREM TypeCorrect == Spec => []TypeOK
BY TypeInit, TypeNext, PTL DEF Spec

-----------------------------------------------------------------------------
(* The threads of a group that are not asleep are finitely many, and a     *)
(* signal adds one to them unless nobody sleeps.                           *)
LEMMA AwakeCount ==
  ASSUME NEW S, IsFiniteSet(S), NEW A \in SUBSET S, NEW B \in SUBSET A
  PROVE  /\ Cardinality(S \ A) \in Nat
         /\ Cardinality(S \ B) \in Nat
         /\ Cardinality(S \ A) <= Cardinality(S \ B)
         /\ \A t \in A : B = A \ {t} => Cardinality(S \ B) = Cardinality(S \ A) + 1
<1>1. IsFiniteSet(S \ A) /\ IsFiniteSet(S \ B)
  BY FS_Subset
<1>2. S \ A \in SUBSET (S \ B)
  OBVIOUS
<1>3. Cardinality(S \ A) <= Cardinality(S \ B)
  BY <1>1, <1>2, FS_Subset
<1>4. ASSUME NEW t \in A, B = A \ {t}
      PROVE  Cardinality(S \ B) = Cardinality(S \ A) + 1
  <2>1. S \ B = (S \ A) \cup {t} /\ t \notin S \ A
    BY <1>4
  <2> QED
    BY <1>1, <2>1, FS_AddElement
<1> QED
  BY <1>1, <1>3, <1>4, FS_CardinalityType

(* The two halves of NoLostWakeup, with the part each step can disturb.    *)
ConsumersUp == Cardinality(Consumers \ sleepers["consumer"])
ProducersUp == Cardinality(Producers \ sleepers["product"])

LEMMA WakeupInit == Init => NoLostWakeup
BY DEF Init, MonitorInit, NoLostWakeup, Conds

LEMMA WakeupNext == TypeOK /\ NoLostWakeup /\ [Next]_vars => NoLostWakeup'
<1> SUFFICES ASSUME TypeOK, NoLostWakeup, [Next]_vars PROVE NoLostWakeup'
  OBVIOUS
<1> USE DEF Goto
<1>1. Len(queue) \in Nat /\ Capacity \in Nat
  BY SizeAssumption DEF TypeOK
<1>2. CASE UNCHANGED <<sleepers, queue>>
  BY <1>2 DEF NoLostWakeup
<1>3. ASSUME NEW p \in Producers, ProductorWait(p)
      PROVE  NoLostWakeup'
  <2>1. /\ queue' = queue /\ Len(queue) = Capacity
        /\ sleepers'["consumer"] = sleepers["consumer"]
    BY <1>3 DEF ProductorWait, CondWait, QueueIsfull, TypeOK, Conds
  <2>2. Cardinality(Producers \ sleepers'["product"]) \in Nat
    BY ThreadAssumption, FS_Subset, FS_CardinalityType
  <2> QED
    BY <1>1, <2>1, <2>2 DEF NoLostWakeup
<1>4. ASSUME NEW c \in Consumers, ConsumerWait(c)
      PROVE  NoLostWakeup'
  <2>1. /\ queue' = queue /\ Len(queue) = 0
        /\ sleepers'["product"] = sleepers["product"]
    BY <1>4 DEF ConsumerWait, CondWait, TypeOK, Conds
  <2>2. Cardinality(Consumers \ sleepers'["consumer"]) \in Nat
    BY ThreadAssumption, FS_Subset, FS_CardinalityType
  <2> QED
    BY <1>1, <2>1, <2>2 DEF NoLostWakeup
<1>5. ASSUME NEW p \in Producers, QueuePush(p)
      PROVE  NoLostWakeup'
  <2>1. Len(queue') = Len(queue) + 1
    BY <1>5, AppendProperties DEF QueuePush, TypeOK, Item
  <2>2. sleepers'["product"] = sleepers["product"]
    BY <1>5, SignalShrinks DEF QueuePush, ConsumerWakeup, TypeOK, Conds
  <2>3. sleepers'["consumer"] # {} => Len(queue') <= ConsumersUp'
    <3> SUFFICES ASSUME sleepers'["consumer"] # {}
                 PROVE  Len(queue') <= ConsumersUp'
      OBVIOUS
    <3>1. PICK t \in sleepers["consumer"] :
            sleepers'["consumer"] = sleepers["consumer"] \ {t}
      BY <1>5 DEF QueuePush, ConsumerWakeup, Signal, WakeUp, TypeOK, Conds
    <3>2. ConsumersUp \in Nat /\ ConsumersUp' = ConsumersUp + 1
      BY <3>1, AwakeCount, ThreadAssumption DEF ConsumersUp, TypeOK
    <3> QED
      BY <1>1, <2>1, <3>1, <3>2 DEF NoLostWakeup, ConsumersUp
  <2>4. ProducersUp \in Nat
    BY ThreadAssumption, FS_Subset, FS_CardinalityType DEF ProducersUp
  <2> QED
    BY <1>1, <2>1, <2>2, <2>3, <2>4 DEF NoLostWakeup, ConsumersUp, ProducersUp
<1>6. ASSUME NEW c \in Consumers, QueuePop(c)
      PROVE  NoLostWakeup'
  <2>1. Len(queue') = Len(queue) - 1
    BY <1>6, HeadTailProperties DEF QueuePop, TypeOK
  <2>2. sleepers'["consumer"] = sleepers["consumer"]
    BY <1>6, SignalShrinks DEF QueuePop, ProductorWakeup, TypeOK, Conds
  <2>3. sleepers'["product"] # {} => Capacity - Len(queue') <= ProducersUp'
    <3> SUFFICES ASSUME sleepers'["product"] # {}
                 PROVE  Capacity - Len(queue') <= ProducersUp'
      OBVIOUS
    <3>1. PICK t \in sleepers["product"] :
            sleepers'["product"] = sleepers["product"] \ {t}
      BY <1>6 DEF QueuePop, ProductorWakeup, Signal, WakeUp, TypeOK, Conds
    <3>2. ProducersUp \in Nat /\ ProducersUp' = ProducersUp + 1
      BY <3>1, AwakeCount, ThreadAssumption DEF ProducersUp, TypeOK
    <3> QED
      BY <1>1, <2>1, <3>1, <3>2 DEF NoLostWakeup, ProducersUp
  <2>4. ConsumersUp \in Nat
    BY ThreadAssumption, FS_Subset, FS_CardinalityType DEF ConsumersUp
  <2> QED
    BY <1>1, <2>1, <2>2, <2>3, <2>4 DEF NoLostWakeup, ConsumersUp, ProducersUp
<1>7. ASSUME NEW d \in Conds, Spurious(d)
      PROVE  NoLostWakeup'
  <2>1. /\ queue' = queue
        /\ sleepers'["consumer"] \subseteq sleepers["consumer"]
        /\ sleepers'["product"] \subseteq sleepers["product"]
    BY <1>7 DEF Spurious, SpuriousWakeUp, WakeUp, TypeOK, Conds
  <2>2. ConsumersUp \in Nat /\ ConsumersUp' \in Nat /\ ConsumersUp <= ConsumersUp'
    BY <2>1, AwakeCount, ThreadAssumption DEF ConsumersUp, TypeOK
  <2>3. ProducersUp \in Nat /\ ProducersUp' \in Nat /\ ProducersUp <= ProducersUp'
    BY <2>1, AwakeCount, ThreadAssumption DEF ProducersUp, TypeOK
  <2> QED
    BY <1>1, <2>1, <2>2, <2>3 DEF NoLostWakeup, ConsumersUp, ProducersUp
<1> QED
  <2>1. ASSUME NEW t \in Threads, QueueLock(t) \/ Resume(t) \/ QueueUnlock(t)
        PROVE  UNCHANGED <<sleepers, queue>>
    BY <2>1 DEF QueueLock, Resume, QueueUnlock
  <2>2. UNCHANGED vars => UNCHANGED <<sleepers, queue>>
    BY DEF vars
  <2> QED
    BY <1>2, <1>3, <1>4, <1>5, <1>6, <1>7, <2>1, <2>2 DEF Next

(* One signal per push and one per pop are enough: nobody sleeps while the *)
(* work that only it would do is waiting.                                  *)
THEOREM WakeupsSuffice == Spec => []NoLostWakeup
BY TypeInit, TypeNext, WakeupInit, WakeupNext, PTL DEF Spec

(* The threads are never all asleep: full and empty exclude one another.   *)
SomeoneAwake == \E t \in Threads : Awake(t)

THEOREM NeverAllAsleep == Spec => []SomeoneAwake
<1>1. TypeOK /\ NoLostWakeup => SomeoneAwake
  <2> SUFFICES ASSUME TypeOK, NoLostWakeup, \A t \in Threads : ~Awake(t)
               PROVE  FALSE
    BY DEF SomeoneAwake
  <2>1. sleepers["consumer"] = Consumers /\ sleepers["product"] = Producers
    BY ThreadAssumption DEF TypeOK, Awake, Conds, Threads
  <2>2. /\ Cardinality(Consumers \ sleepers["consumer"]) = 0
        /\ Cardinality(Producers \ sleepers["product"]) = 0
    <3>1. Consumers \ sleepers["consumer"] = {} /\ Producers \ sleepers["product"] = {}
      BY <2>1
    <3> QED
      BY <3>1, FS_EmptySet
  <2> QED
    BY <2>1, <2>2, ThreadAssumption, SizeAssumption DEF NoLostWakeup, TypeOK
<1> QED
  BY <1>1, TypeCorrect, WakeupsSuffice, PTL

-----------------------------------------------------------------------------
(* The steps of the threads are those of the abstract buffer, or invisible *)
(* to it: a push and a pop take effect while the mutex is held.            *)
THEOREM ImplementsBuffer == Spec => BufferPromise
<1>1. Init => Buffer!Init
  BY DEF Init, Buffer!Init
<1>2. TypeOK /\ [Next]_vars => [Buffer!Next]_(Buffer!bufferVars)
  <2> SUFFICES ASSUME TypeOK, [Next]_vars
               PROVE  [Buffer!Next]_(Buffer!bufferVars)
    OBVIOUS
  <2>1. ASSUME NEW p \in Producers, QueuePush(p)
        PROVE  Buffer!Put(p)
    BY <2>1, SizeAssumption DEF QueuePush, QueueIsfull, TypeOK, Buffer!Put
  <2>2. ASSUME NEW c \in Consumers, QueuePop(c)
        PROVE  Buffer!Get(c)
    BY <2>2 DEF QueuePop, Buffer!Get
  <2>3. ASSUME NEW t \in Threads, QueueLock(t) \/ Resume(t) \/ QueueUnlock(t)
        PROVE  UNCHANGED Buffer!bufferVars
    BY <2>3 DEF QueueLock, Resume, QueueUnlock, Buffer!bufferVars
  <2>4. ASSUME NEW t, ProductorWait(t) \/ ConsumerWait(t) \/ Spurious(t)
        PROVE  UNCHANGED Buffer!bufferVars
    BY <2>4 DEF ProductorWait, ConsumerWait, Spurious, Buffer!bufferVars
  <2>5. UNCHANGED vars => UNCHANGED Buffer!bufferVars
    BY DEF vars, Buffer!bufferVars
  <2> QED
    BY <2>1, <2>2, <2>3, <2>4, <2>5 DEF Next, Buffer!Next
<1> QED
  BY <1>1, <1>2, TypeCorrect, PTL DEF Spec, BufferPromise, Buffer!Spec
=============================================================================
