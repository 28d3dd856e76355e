------------------------- MODULE ProductListProofs -------------------------
(***************************************************************************)
(* What holds of the list of pthread_cond.c, whatever malloc returns:      *)
(* the signal after the unlock loses no wakeup, and every node is in one   *)
(* place, up to the crash that ends both threads.                          *)
(***************************************************************************)
EXTENDS ProductList, SequenceTheorems, TLAPS

-----------------------------------------------------------------------------
(* A list without repetition that a node is put before, or taken from.     *)
LEMMA ConsSet ==
  ASSUME NEW S, NEW s \in Seq(S), NEW e \in S
  PROVE  /\ <<e>> \o s \in Seq(S)
         /\ ToSet(<<e>> \o s) = ToSet(s) \cup {e}
         /\ IsInjective(s) /\ e \notin ToSet(s) => IsInjective(<<e>> \o s)
<1> DEFINE t == <<e>> \o s
<1>1. <<e>> \in Seq(S) /\ Len(<<e>>) = 1 /\ <<e>>[1] = e
  OBVIOUS
<1>2. /\ t \in Seq(S) /\ Len(t) = Len(s) + 1 /\ Len(s) \in Nat
      /\ \A k \in 1 .. Len(s) + 1 : t[k] = IF k = 1 THEN e ELSE s[k - 1]
      /\ DOMAIN s = 1 .. Len(s) /\ DOMAIN t = 1 .. Len(s) + 1
  <2>1. /\ t \in Seq(S) /\ Len(t) = 1 + Len(s) /\ Len(s) \in Nat
        /\ \A k \in 1 .. 1 + Len(s) : t[k] = IF k <= 1 THEN <<e>>[k] ELSE s[k - 1]
    BY <1>1, ConcatProperties, LenProperties
  <2> QED
    BY <1>1, <2>1
<1> HIDE DEF t
<1>3. ToSet(t) \subseteq ToSet(s) \cup {e}
  BY <1>2 DEF ToSet
<1>4. e \in ToSet(t)
  BY <1>2 DEF ToSet
<1>5. ASSUME NEW x \in ToSet(s) PROVE x \in ToSet(t)
  <2>1. PICK k \in 1 .. Len(s) : x = s[k]
    BY <1>2, <1>5 DEF ToSet
  <2>2. k + 1 \in 1 .. Len(s) + 1 /\ t[k + 1] = x
    BY <1>2, <2>1
  <2> QED
    BY <1>2, <2>2 DEF ToSet
<1>6. IsInjective(s) /\ e \notin ToSet(s) => IsInjective(t)
  <2> SUFFICES ASSUME IsInjective(s), e \notin ToSet(s),
                      NEW j \in 1 .. Len(s) + 1, NEW k \in 1 .. Len(s) + 1, t[j] = t[k]
               PROVE  j = k
    BY <1>2 DEF IsInjective
  <2>1. \A l \in 1 .. Len(s) : s[l] # e
    BY <1>2 DEF ToSet
  <2>2. CASE j = 1 \/ k = 1
    BY <1>2, <2>1, <2>2
  <2>3. CASE j # 1 /\ k # 1
    <3>1. j - 1 \in DOMAIN s /\ k - 1 \in DOMAIN s /\ s[j - 1] = s[k - 1]
      BY <1>2, <2>3
    <3> QED
      BY <3>1 DEF IsInjective
  <2> QED
    BY <2>2, <2>3
<1> QED
  BY <1>2, <1>3, <1>4, <1>5, <1>6 DEF t

LEMMA TailSet ==
  ASSUME NEW S, NEW s \in Seq(S), s # <<>>, IsInjective(s)
  PROVE  /\ Head(s) \in S /\ Tail(s) \in Seq(S)
         /\ Head(s) \in ToSet(s)
         /\ ToSet(Tail(s)) = ToSet(s) \ {Head(s)}
         /\ IsInjective(Tail(s))
<1>1. /\ Head(s) \in S /\ Tail(s) \in Seq(S) /\ Len(Tail(s)) = Len(s) - 1
      /\ \A k \in 1 .. Len(s) - 1 : Tail(s)[k] = s[k + 1]
      /\ Len(s) \in Nat /\ Len(s) > 0 /\ Head(s) = s[1]
      /\ DOMAIN s = 1 .. Len(s) /\ DOMAIN Tail(s) = 1 .. Len(s) - 1
  BY HeadTailProperties, EmptySeq
<1>2. ToSet(Tail(s)) \subseteq ToSet(s) \ {Head(s)}
  BY <1>1 DEF ToSet, IsInjective
<1>3. ASSUME NEW x \in ToSet(s) \ {Head(s)} PROVE x \in ToSet(Tail(s))
  <2>1. PICK k \in 1 .. Len(s) : x = s[k]
    BY <1>1, <1>3 DEF ToSet
  <2>2. k # 1
    BY <1>1, <1>3, <2>1
  <2>3. k - 1 \in 1 .. Len(s) - 1 /\ Tail(s)[k - 1] = x
    BY <1>1, <2>1, <2>2
  <2> QED
    BY <1>1, <2>3 DEF ToSet
<1>4. IsInjective(Tail(s))
  BY <1>1 DEF IsInjective
<1> QED
  BY <1>1, <1>2, <1>3, <1>4 DEF ToSet

(* A signal leaves nobody asleep: there is one sleeper at most.            *)
LEMMA SignalWakes ==
  ASSUME sleepers \in [Conds -> SUBSET {"consumer"}], Signal("cond")
  PROVE  sleepers' \in [Conds -> SUBSET {"consumer"}] /\ sleepers'["cond"] = {}
BY DEF Signal, WakeUp, Conds

-----------------------------------------------------------------------------
(* pc is a function, which TypeOK leaves open.                             *)
Places == {"malloc", "lock", "insert", "unlock", "signal",
           "test", "asleep", "take", "free", "crashed"}
PcOK == pc \in [Threads -> Places]

(* The mutex is held exactly between a lock and the unlock, so what        *)
(* happens to the list there may be taken for one step; after a crash it   *)
(* stays with the consumer.                                                *)
Guarded == /\ mutex = "producer" <=> pc["producer"] \in {"insert", "unlock"}
           /\ mutex = "consumer" <=> pc["consumer"] \in {"test", "take", "unlock", "crashed"}

IInv == PcOK /\ TypeOK /\ Guarded /\ NoLostWakeup /\ NodesOwnedOnce

LEMMA InitIInv == Init => IInv
<1> SUFFICES ASSUME Init PROVE IInv
  OBVIOUS
<1>1. pc["producer"] = "malloc" /\ pc["consumer"] = "lock" /\ PcOK
  BY DEF Init, PcOK, Threads, Places
<1>2. <<>> \in Seq(Nodes) /\ ToSet(<<>>) = {} /\ IsInjective(<<>>)
  BY DEF ToSet, IsInjective
<1>3. TypeOK
  BY <1>1, <1>2 DEF Init, MonitorInit, TypeOK, Threads, Conds
<1>4. Guarded /\ NoLostWakeup
  BY <1>1, NoThreadAssumption DEF Init, MonitorInit, Guarded, NoLostWakeup, Conds
<1>5. NodesOwnedOnce
  BY <1>1, <1>2 DEF Init, NodesOwnedOnce, Produced, Consumed, InHand
<1> QED
  BY <1>1, <1>3, <1>4, <1>5 DEF IInv

-----------------------------------------------------------------------------
(* The producer's steps                                                    *)
LEMMA ProducerIInv == IInv /\ thr_Product => IInv'
<1> SUFFICES ASSUME IInv, thr_Product PROVE IInv'
  OBVIOUS
<1> USE DEF IInv, Goto, Threads
<1>1. PcOK'
  BY DEF PcOK, Places, thr_Product, Malloc, LockMutex, Insert, UnlockMutex, SignalCond
<1>2. pc'["consumer"] = pc["consumer"] /\ prod'["consumer"] = prod["consumer"]
  BY DEF PcOK, TypeOK, thr_Product, Malloc, LockMutex, Insert, UnlockMutex, SignalCond
<1>3. CASE Malloc
  <2>1. PICK n \in Nodes \ heap : /\ heap' = heap \cup {n}
                                  /\ prod' = [prod EXCEPT !["producer"] = n]
    BY <1>3 DEF Malloc
  <2>2. /\ UNCHANGED <<mutex, sleepers, list>> /\ prod'["producer"] = n
        /\ pc["producer"] = "malloc" /\ pc'["producer"] = "lock"
    BY <1>3, <2>1 DEF Malloc, PcOK, TypeOK
  <2>3. TypeOK' /\ Guarded' /\ NoLostWakeup'
    BY <1>2, <2>1, <2>2 DEF TypeOK, Guarded, NoLostWakeup
  <2>4. NodesOwnedOnce'
    BY <1>2, <2>1, <2>2 DEF NodesOwnedOnce, Produced, Consumed, InHand
  <2> QED
    BY <1>1, <2>3, <2>4
<1>4. CASE Insert
  <2>1. /\ UNCHANGED <<mutex, sleepers, heap, prod>> /\ list' = <<prod["producer"]>> \o list
        /\ pc["producer"] = "insert" /\ pc'["producer"] = "unlock"
    BY <1>4 DEF Insert, PcOK
  <2>2. prod["producer"] \in Nodes /\ prod["producer"] \notin ToSet(list)
    BY <2>1 DEF NodesOwnedOnce, Produced, InHand, TypeOK
  <2>3. /\ list' \in Seq(Nodes) /\ ToSet(list') = ToSet(list) \cup {prod["producer"]}
        /\ IsInjective(list')
    BY <2>1, <2>2, ConsSet DEF NodesOwnedOnce, TypeOK
  <2>4. TypeOK' /\ Guarded' /\ NoLostWakeup'
    BY <1>2, <2>1, <2>3 DEF TypeOK, Guarded, NoLostWakeup
  <2>5. NodesOwnedOnce'
    BY <1>2, <2>1, <2>3 DEF NodesOwnedOnce, Produced, Consumed, InHand
  <2> QED
    BY <1>1, <2>4, <2>5
<1>5. CASE LockMutex("producer", "insert") \/ UnlockMutex("producer", "signal")
  <2>1. /\ UNCHANGED <<sleepers, heap, list, prod>>
        /\ \/ mutex = NoThread /\ mutex' = "producer"
              /\ pc["producer"] = "lock" /\ pc'["producer"] = "insert"
           \/ mutex = "producer" /\ mutex' = NoThread
              /\ pc["producer"] = "unlock" /\ pc'["producer"] = "signal"
    BY <1>5 DEF LockMutex, UnlockMutex, Lock, Unlock, PcOK
  <2>2. TypeOK' /\ Guarded' /\ NoLostWakeup'
    BY <1>2, <2>1, NoThreadAssumption DEF TypeOK, Guarded, NoLostWakeup
  <2>3. NodesOwnedOnce'
    BY <1>2, <2>1 DEF NodesOwnedOnce, Produced, Consumed, InHand
  <2> QED
    BY <1>1, <2>2, <2>3
<1>6. CASE SignalCond
  <2>1. /\ UNCHANGED <<mutex, heap, list, prod>>
        /\ pc["producer"] = "signal" /\ pc'["producer"] = "malloc"
    BY <1>6 DEF SignalCond, PcOK
  <2>2. sleepers' \in [Conds -> SUBSET {"consumer"}] /\ sleepers'["cond"] = {}
    BY <1>6, SignalWakes DEF SignalCond, TypeOK
  <2>3. TypeOK' /\ Guarded' /\ NoLostWakeup'
    BY <1>2, <2>1, <2>2 DEF TypeOK, Guarded, NoLostWakeup
  <2>4. NodesOwnedOnce'
    BY <1>2, <2>1 DEF NodesOwnedOnce, Produced, Consumed, InHand
  <2> QED
    BY <1>1, <2>3, <2>4
<1> QED
  BY <1>3, <1>4, <1>5, <1>6 DEF thr_Product

-----------------------------------------------------------------------------
(* The consumer's steps                                                    *)
LEMMA ConsumerIInv == IInv /\ thr_customer => IInv'
<1> SUFFICES ASSUME IInv, thr_customer PROVE IInv'
  OBVIOUS
<1> USE DEF IInv, Goto, Threads
<1>1. PcOK'
  BY DEF PcOK, Places, thr_customer, LockMutex, Wait, Resume, SkipWait, Take, TakeNull,
         UnlockMutex, Free
<1>2. pc'["producer"] = pc["producer"] /\ prod'["producer"] = prod["producer"]
  BY DEF PcOK, TypeOK, thr_customer, LockMutex, Wait, Resume, SkipWait, Take, TakeNull,
         UnlockMutex, Free
<1>3. CASE \/ LockMutex("consumer", "test") \/ UnlockMutex("consumer", "free")
           \/ Resume \/ SkipWait
  <2>1. /\ UNCHANGED <<sleepers, heap, list, prod>>
        /\ \/ /\ mutex = NoThread /\ mutex' = "consumer"
              /\ pc["consumer"] \in {"lock", "asleep"} /\ pc'["consumer"] \in {"test", "take"}
           \/ /\ mutex = "consumer" /\ mutex' = NoThread
              /\ pc["consumer"] = "unlock" /\ pc'["consumer"] = "free"
           \/ /\ mutex' = mutex /\ pc["consumer"] = "test" /\ pc'["consumer"] = "take"
    BY <1>3 DEF LockMutex, UnlockMutex, Resume, SkipWait, Lock, Unlock, PcOK
  <2>2. TypeOK' /\ Guarded' /\ NoLostWakeup'
    BY <1>2, <2>1, NoThreadAssumption DEF TypeOK, Guarded, NoLostWakeup
  <2>3. NodesOwnedOnce'
    BY <1>2, <2>1 DEF NodesOwnedOnce, Produced, Consumed, InHand
  <2> QED
    BY <1>1, <2>2, <2>3
<1>4. CASE Wait
  <2>1. /\ UNCHANGED <<heap, list, prod>> /\ list = <<>>
        /\ mutex = "consumer" /\ mutex' = NoThread
        /\ sleepers' = [sleepers EXCEPT !["cond"] = @ \cup {"consumer"}]
        /\ pc["consumer"] = "test" /\ pc'["consumer"] = "asleep"
    BY <1>4 DEF Wait, CondWait, Unlock, PcOK
  <2>2. TypeOK' /\ Guarded' /\ NoLostWakeup'
    BY <1>2, <2>1, NoThreadAssumption DEF TypeOK, Guarded, NoLostWakeup
  <2>3. NodesOwnedOnce'
    BY <1>2, <2>1 DEF NodesOwnedOnce, Produced, Consumed, InHand
  <2> QED
    BY <1>1, <2>2, <2>3
<1>5. CASE Take
  <2>1. /\ UNCHANGED <<mutex, sleepers, heap>> /\ list # <<>> /\ list' = Tail(list)
        /\ pc["consumer"] = "take" /\ pc'["consumer"] = "unlock"
        /\ prod' = [prod EXCEPT !["consumer"] = Head(list)]
    BY <1>5 DEF Take, PcOK
  <2>2. /\ Head(list) \in Nodes /\ list' \in Seq(Nodes) /\ Head(list) \in ToSet(list)
        /\ ToSet(list') = ToSet(list) \ {Head(list)} /\ IsInjective(list')
    BY <2>1, TailSet DEF NodesOwnedOnce, TypeOK
  <2>3. prod'["consumer"] = Head(list)
    BY <2>1 DEF TypeOK
  <2>4. TypeOK' /\ Guarded' /\ NoLostWakeup'
    BY <1>2, <2>1, <2>2 DEF TypeOK, Guarded, NoLostWakeup
  <2>5. NodesOwnedOnce'
    BY <1>2, <2>1, <2>2, <2>3 DEF NodesOwnedOnce, Produced, Consumed, InHand
  <2> QED
    BY <1>1, <2>4, <2>5
<1>6. CASE TakeNull
  <2>1. /\ UNCHANGED <<mutex, sleepers, heap, list>>
        /\ pc["consumer"] = "take" /\ pc'["consumer"] = "crashed"
        /\ prod' = [prod EXCEPT !["consumer"] = NULL]
    BY <1>6 DEF TakeNull, PcOK
  <2>2. TypeOK' /\ Guarded' /\ NoLostWakeup'
    BY <1>2, <2>1 DEF TypeOK, Guarded, NoLostWakeup
  <2>3. NodesOwnedOnce'
    BY <1>2, <2>1 DEF NodesOwnedOnce, Produced, Consumed, InHand
  <2> QED
    BY <1>1, <2>2, <2>3
<1>7. CASE Free
  <2>1. /\ UNCHANGED <<mutex, sleepers, list, prod>> /\ heap' = heap \ {prod["consumer"]}
        /\ pc["consumer"] = "free" /\ pc'["consumer"] = "lock"
    BY <1>7 DEF Free, PcOK
  <2>2. TypeOK' /\ Guarded' /\ NoLostWakeup'
    BY <1>2, <2>1 DEF TypeOK, Guarded, NoLostWakeup
  <2>3. NodesOwnedOnce'
    BY <1>2, <2>1 DEF NodesOwnedOnce, Produced, Consumed, InHand
  <2> QED
    BY <1>1, <2>2, <2>3
<1> QED
  BY <1>3, <1>4, <1>5, <1>6, <1>7 DEF thr_customer

LEMMA NextIInv == IInv /\ [Next]_vars => IInv'
<1> SUFFICES ASSUME IInv, [Next]_vars PROVE IInv'
  OBVIOUS
<1>1. CASE thr_Product
  BY <1>1, ProducerIInv
<1>2. CASE thr_customer
  BY <1>2, ConsumerIInv
<1>3. CASE Spurious
  <2>1. /\ UNCHANGED <<mutex, heap, list, prod, pc>>
        /\ sleepers' \in [Conds -> SUBSET {"consumer"}]
        /\ sleepers'["cond"] \subseteq sleepers["cond"]
    BY <1>3 DEF Spurious, SpuriousWakeUp, WakeUp, Conds, IInv, TypeOK
  <2> QED
    BY <2>1 DEF IInv, PcOK, TypeOK, Guarded, NoLostWakeup, NodesOwnedOnce, Produced,
                Consumed, InHand
<1>4. CASE UNCHANGED vars
  BY <1>4 DEF vars, IInv, PcOK, TypeOK, Guarded, NoLostWakeup, NodesOwnedOnce, Produced,
              Consumed, InHand
<1> QED
  BY <1>1, <1>2, <1>3, <1>4 DEF Next

LEMMA Invariance == Spec => []IInv
BY InitIInv, NextIInv, PTL DEF Spec

-----------------------------------------------------------------------------
(* Every variable keeps its range: a NULL is never linked.                 *)
THEOREM TypeCorrect == Spec => []TypeOK
BY Invariance, PTL DEF IInv

(* The consumer does not sleep next to a product, unless the producer is   *)
(* about to signal, although the signal comes when the mutex is free.      *)
THEOREM SignalSuffices == Spec => []NoLostWakeup
BY Invariance, PTL DEF IInv

(* No node leaks, is linked twice, or is freed while it is linked, although*)
(* it is freed outside the mutex and malloc may return it at once.         *)
THEOREM NodesSafe == Spec => []NodesOwnedOnce
BY Invariance, PTL DEF IInv

(* Only the thread that holds the mutex is at the list: the statements     *)
(* between lock and unlock may be taken for one step.                      *)
THEOREM ListGuarded == Spec => []Guarded
BY Invariance, PTL DEF IInv
=============================================================================
