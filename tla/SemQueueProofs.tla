--------------------------- MODULE SemQueueProofs ---------------------------
(***************************************************************************)
(* What the three semaphores of sem.cpp guarantee for any number of        *)
(* threads and any capacity: every slot is accounted for, one thread at a  *)
(* time touches the ring, the indices and counts stay in range, and the    *)
(* ring is a first-in first-out buffer.                                    *)
(***************************************************************************)
EXTENDS SemQueue, FiniteSetTheorems, SequenceTheorems, TLAPS

LEMMA ThreadsFinite == IsFiniteSet(Threads)
BY ThreadAssumption, FS_Union DEF Threads

(* A thread that moves from one place to another changes the number of     *)
(* threads at a set of places by what the two places say.                  *)
LEMMA MoveCount ==
  ASSUME NEW t \in Threads, NEW from, NEW to, NEW places,
         pc \in [Threads -> {"wait"} \cup Holding],
         Goto(t, from, to)
  PROVE  /\ Cardinality(At(Threads, places)) \in Nat
         /\ (from \in places <=> to \in places) =>
              Cardinality(At(Threads, places))' = Cardinality(At(Threads, places))
         /\ from \notin places /\ to \in places =>
              Cardinality(At(Threads, places))' = Cardinality(At(Threads, places)) + 1
         /\ from \in places /\ to \notin places =>
              Cardinality(At(Threads, places))' = Cardinality(At(Threads, places)) - 1
<1> DEFINE S == At(Threads, places)
<1>1. IsFiniteSet(S) /\ Cardinality(S) \in Nat
  BY ThreadsFinite, FS_Subset, FS_CardinalityType DEF At
<1>2. (from \in places <=> to \in places) => S' = S
  BY DEF At, Goto
<1>3. from \notin places /\ to \in places => S' = S \cup {t} /\ t \notin S
  BY DEF At, Goto
<1>4. from \in places /\ to \notin places => S' = S \ {t} /\ t \in S
  BY DEF At, Goto
<1>5. /\ t \notin S => Cardinality(S \cup {t}) = Cardinality(S) + 1
      /\ t \in S => Cardinality(S \ {t}) = Cardinality(S) - 1
  BY <1>1, FS_AddElement, FS_RemoveElement
<1> QED
  BY <1>1, <1>2, <1>3, <1>4, <1>5

-----------------------------------------------------------------------------
(* The lock semaphore and the threads between its wait and its post.       *)
LockAccounting == sem_lock + Cardinality(At(Threads, Critical)) = 1

(* The ranges of the variables, the semaphores' upper bounds left out:     *)
(* those follow from the two sums.                                         *)
Shape == /\ slots \in [0 .. QueueSize - 1 -> Item \cup {NoItem}]
         /\ read_step \in 0 .. Capacity - 1 /\ write_step \in 0 .. Capacity - 1
         /\ sem_data \in Nat /\ sem_idle \in Nat /\ sem_lock \in Nat
         /\ count \in [Producers -> 0 .. Wrap - 1]
         /\ data \in [Consumers -> Item \cup {NoItem}]
         /\ pc \in [Threads -> {"wait"} \cup Holding]

Inv == Shape /\ SlotAccounting /\ LockAccounting

LEMMA InvInit == Init => Inv
<1> SUFFICES ASSUME Init PROVE Inv
  OBVIOUS
<1>1. At(Threads, Holding) = {} /\ At(Threads, Critical) = {}
  BY DEF Init, At, Holding, Critical
<1>2. 0 \in 0 .. Capacity - 1 /\ 0 \in 0 .. Wrap - 1 /\ Capacity \in Nat
  BY SizeAssumption
<1> QED
  BY <1>1, <1>2, FS_EmptySet DEF Init, Inv, Shape, SlotAccounting, LockAccounting

(* The ranges: the indices wrap at Capacity, within the vector.            *)
LEMMA ShapeNext == Shape /\ [Next]_vars => Shape'
<1> SUFFICES ASSUME Shape, [Next]_vars PROVE Shape'
  OBVIOUS
<1> USE DEF Shape, Goto, Holding, Threads, ring, sems
<1>1. \A n \in Nat : (n + 1) % Capacity \in 0 .. Capacity - 1 /\ (n + 1) % Wrap \in 0 .. Wrap - 1
  BY SizeAssumption
<1>2. ASSUME NEW p \in Producers, QueuePush_back(p)
      PROVE  Shape'
  <2>1. CASE ProductWait(p)
    BY <2>1 DEF ProductWait
  <2>2. CASE QueueLock(p)
    BY <2>2 DEF QueueLock
  <2>3. CASE Write(p)
    <3>1. <<p, count[p]>> \in Item
      BY DEF Item
    <3>2. slots' \in [0 .. QueueSize - 1 -> Item \cup {NoItem}]
      BY <2>3, <3>1 DEF Write
    <3>3. count' \in [Producers -> 0 .. Wrap - 1]
      BY <2>3, <1>1 DEF Write
    <3> QED
      BY <2>3, <3>2, <3>3 DEF Write
  <2>4. CASE AdvanceWrite(p)
    BY <2>4, <1>1 DEF AdvanceWrite
  <2>5. CASE QueueUnlock(p)
    BY <2>5 DEF QueueUnlock
  <2>6. CASE ConsumerWakeup(p)
    BY <2>6 DEF ConsumerWakeup
  <2> QED
    BY <1>2, <2>1, <2>2, <2>3, <2>4, <2>5, <2>6 DEF QueuePush_back
<1>3. ASSUME NEW c \in Consumers, QueuePop(c)
      PROVE  Shape'
  <2>1. CASE ConsumerWait(c)
    BY <2>1 DEF ConsumerWait
  <2>2. CASE QueueLock(c)
    BY <2>2 DEF QueueLock
  <2>3. CASE Read(c)
    <3>1. slots[read_step] \in Item \cup {NoItem}
      BY SizeAssumption
    <3> QED
      BY <2>3, <3>1 DEF Read
  <2>4. CASE AdvanceRead(c)
    BY <2>4, <1>1 DEF AdvanceRead
  <2>5. CASE QueueUnlock(c)
    BY <2>5 DEF QueueUnlock
  <2>6. CASE ProductWakeup(c)
    BY <2>6 DEF ProductWakeup
  <2> QED
    BY <1>3, <2>1, <2>2, <2>3, <2>4, <2>5, <2>6 DEF QueuePop
<1>4. CASE UNCHANGED vars
  BY <1>4 DEF vars
<1> QED
  BY <1>2, <1>3, <1>4 DEF Next

(* Each step moves one unit between a semaphore and the threads that hold  *)
(* a slot, or the lock.                                                    *)
LEMMA SumsNext == Inv /\ [Next]_vars => SlotAccounting' /\ LockAccounting'
<1> SUFFICES ASSUME Inv, [Next]_vars PROVE SlotAccounting' /\ LockAccounting'
  OBVIOUS
<1> DEFINE held == Cardinality(At(Threads, Holding))
           inside == Cardinality(At(Threads, Critical))
<1>0. /\ "wait" \notin Holding /\ {"lock", "post"} \cup Critical \subseteq Holding
      /\ {"wait", "lock", "post"} \cap Critical = {}
      /\ "copy" \in Critical /\ "advance" \in Critical /\ "unlock" \in Critical
      /\ pc \in [Threads -> {"wait"} \cup Holding]
  BY DEF Holding, Critical, Inv, Shape
<1>1. held \in Nat /\ inside \in Nat /\ Capacity \in Nat
  BY ThreadsFinite, FS_Subset, FS_CardinalityType, SizeAssumption DEF At
<1>2. /\ sem_idle \in Nat /\ sem_data \in Nat /\ sem_lock \in Nat
      /\ sem_idle + sem_data + held = Capacity
      /\ sem_lock + inside = 1
  BY DEF Inv, Shape, SlotAccounting, LockAccounting
<1>3. ASSUME NEW t \in Threads, Goto(t, "wait", "lock"),
             \/ UNCHANGED <<sem_data, sem_lock>> /\ sem_idle' = sem_idle - 1
             \/ UNCHANGED <<sem_idle, sem_lock>> /\ sem_data' = sem_data - 1
      PROVE  SlotAccounting' /\ LockAccounting'
  <2>1. held' = held + 1 /\ inside' = inside
    <3>1. held' = held + 1
      BY <1>3, <1>0, MoveCount
    <3>2. inside' = inside
      BY <1>3, <1>0, MoveCount
    <3> QED
      BY <3>1, <3>2
  <2> HIDE DEF held, inside
  <2>2. sem_idle' + sem_data' + held' = Capacity /\ sem_lock' + inside' = 1
    BY <1>1, <1>2, <1>3, <2>1
  <2> QED
    BY <2>2 DEF SlotAccounting, LockAccounting, held, inside
<1>4. ASSUME NEW t \in Threads, QueueLock(t)
      PROVE  SlotAccounting' /\ LockAccounting'
  <2>1. held' = held /\ inside' = inside + 1
    <3>1. held' = held
      BY <1>4, <1>0, MoveCount DEF QueueLock
    <3>2. inside' = inside + 1
      BY <1>4, <1>0, MoveCount DEF QueueLock
    <3> QED
      BY <3>1, <3>2
  <2> HIDE DEF held, inside
  <2>2. sem_idle' + sem_data' + held' = Capacity /\ sem_lock' + inside' = 1
    BY <1>1, <1>2, <1>4, <2>1 DEF QueueLock
  <2> QED
    BY <2>2 DEF SlotAccounting, LockAccounting, held, inside
<1>5. ASSUME NEW t \in Threads, UNCHANGED sems,
             Goto(t, "copy", "advance") \/ Goto(t, "advance", "unlock")
      PROVE  SlotAccounting' /\ LockAccounting'
  <2>1. held' = held /\ inside' = inside
    <3>1. held' = held
      BY <1>5, <1>0, MoveCount
    <3>2. inside' = inside
      BY <1>5, <1>0, MoveCount
    <3> QED
      BY <3>1, <3>2
  <2> HIDE DEF held, inside
  <2>2. sem_idle' + sem_data' + held' = Capacity /\ sem_lock' + inside' = 1
    BY <1>1, <1>2, <1>5, <2>1 DEF sems
  <2> QED
    BY <2>2 DEF SlotAccounting, LockAccounting, held, inside
<1>6. ASSUME NEW t \in Threads, QueueUnlock(t)
      PROVE  SlotAccounting' /\ LockAccounting'
  <2>1. held' = held /\ inside' = inside - 1
    <3>1. held' = held
      BY <1>6, <1>0, MoveCount DEF QueueUnlock
    <3>2. inside' = inside - 1
      BY <1>6, <1>0, MoveCount DEF QueueUnlock
    <3> QED
      BY <3>1, <3>2
  <2> HIDE DEF held, inside
  <2>2. sem_idle' + sem_data' + held' = Capacity /\ sem_lock' + inside' = 1
    BY <1>1, <1>2, <1>6, <2>1 DEF QueueUnlock
  <2> QED
    BY <2>2 DEF SlotAccounting, LockAccounting, held, inside
<1>7. ASSUME NEW t \in Threads, Goto(t, "post", "wait"),
             \/ UNCHANGED <<sem_data, sem_lock>> /\ sem_idle' = sem_idle + 1
             \/ UNCHANGED <<sem_idle, sem_lock>> /\ sem_data' = sem_data + 1
      PROVE  SlotAccounting' /\ LockAccounting'
  <2>1. held' = held - 1 /\ inside' = inside
    <3>1. held' = held - 1
      BY <1>7, <1>0, MoveCount
    <3>2. inside' = inside
      BY <1>7, <1>0, MoveCount
    <3> QED
      BY <3>1, <3>2
  <2> HIDE DEF held, inside
  <2>2. sem_idle' + sem_data' + held' = Capacity /\ sem_lock' + inside' = 1
    BY <1>1, <1>2, <1>7, <2>1
  <2> QED
    BY <2>2 DEF SlotAccounting, LockAccounting, held, inside
<1>8. CASE UNCHANGED vars
  <2>1. held' = held /\ inside' = inside
    BY <1>8 DEF vars, At
  <2> QED
    BY <1>2, <1>8, <2>1 DEF vars, SlotAccounting, LockAccounting
<1> QED
  <2>1. ASSUME NEW p \in Producers, QueuePush_back(p)
        PROVE  SlotAccounting' /\ LockAccounting'
    BY <2>1, <1>3, <1>4, <1>5, <1>6, <1>7
       DEF QueuePush_back, ProductWait, Write, AdvanceWrite, ConsumerWakeup, Threads, sems
  <2>2. ASSUME NEW c \in Consumers, QueuePop(c)
        PROVE  SlotAccounting' /\ LockAccounting'
    BY <2>2, <1>3, <1>4, <1>5, <1>6, <1>7
       DEF QueuePop, ConsumerWait, Read, AdvanceRead, ProductWakeup, Threads, sems
  <2> QED
    BY <1>8, <2>1, <2>2 DEF Next

LEMMA InvHolds == Spec => []Inv
BY InvInit, ShapeNext, SumsNext, PTL DEF Spec, Inv

-----------------------------------------------------------------------------
(* The free slots, the items and the slots in a thread's hands add up to   *)
(* the capacity, always.                                                   *)
THEOREM SlotsAccounted == Spec => []SlotAccounting
BY InvHolds, PTL DEF Inv

(* The bounds TypeOK adds to Shape are those the two sums give.            *)
THEOREM TypeCorrect == Spec => []TypeOK
<1>1. Inv => TypeOK
  <2> SUFFICES ASSUME Inv PROVE TypeOK
    OBVIOUS
  <2>1. /\ Cardinality(At(Threads, Holding)) \in Nat
        /\ Cardinality(At(Threads, Critical)) \in Nat
    BY ThreadsFinite, FS_Subset, FS_CardinalityType DEF At
  <2>2. /\ sem_data \in 0 .. Capacity /\ sem_idle \in 0 .. Capacity
        /\ sem_lock \in {0, 1}
    BY <2>1, SizeAssumption DEF Inv, Shape, SlotAccounting, LockAccounting
  <2> QED
    BY <2>2 DEF Inv, Shape, TypeOK
<1> QED
  BY <1>1, InvHolds, PTL

LEMMA InvExcludes == Inv => MutualExclusion
<1> SUFFICES ASSUME Inv, NEW t \in Threads, NEW u \in Threads,
                    pc[t] \in Critical, pc[u] \in Critical, t # u
             PROVE  FALSE
  BY DEF MutualExclusion
<1> DEFINE S == At(Threads, Critical)
<1>1. IsFiniteSet(S) /\ t \in S /\ u \in S
  BY ThreadsFinite, FS_Subset DEF At
<1>2. Cardinality(S) \in Nat /\ Cardinality(S) <= 1
  BY <1>1, FS_CardinalityType DEF Inv, Shape, LockAccounting
<1>3. Cardinality({t, u}) = 2 /\ IsFiniteSet({t, u})
  <2>1. IsFiniteSet({t}) /\ Cardinality({t}) = 1
    BY FS_Singleton
  <2>2. IsFiniteSet({t} \cup {u}) /\ Cardinality({t} \cup {u}) = 2
    <3> DEFINE T == {t}
    <3>1. u \notin T /\ IsFiniteSet(T) /\ Cardinality(T) = 1
      BY <2>1
    <3> HIDE DEF T
    <3>2. IsFiniteSet(T \cup {u}) /\ Cardinality(T \cup {u}) = 2
      BY <3>1, FS_AddElement
    <3> QED
      BY <3>2 DEF T
  <2>3. {t, u} = {t} \cup {u}
    OBVIOUS
  <2> QED
    BY <2>2, <2>3
<1>4. {t, u} \in SUBSET S
  BY <1>1
<1> QED
  BY <1>1, <1>2, <1>3, <1>4, FS_Subset

(* A semaphore that starts at 1 lets one thread at a time to the ring.     *)
THEOREM OneAtATime == Spec => []MutualExclusion
BY InvExcludes, InvHolds, PTL

-----------------------------------------------------------------------------
(* The refinement of BoundedBuffer.  Positions of the ring are sums of an  *)
(* index and a length, and so below twice the capacity.                    *)
LEMMA ModSmall ==
  ASSUME NEW x \in Nat, x < 2 * Capacity
  PROVE  x % Capacity = IF x < Capacity THEN x ELSE x - Capacity
<1>1. Capacity \in Nat /\ Capacity > 0
  BY SizeAssumption
<1>2. CASE x < Capacity
  BY <1>1, <1>2
<1>3. CASE x >= Capacity
  BY <1>1, <1>3
<1> QED
  BY <1>1, <1>2, <1>3

Size == sem_data + Cardinality(Written \cup Unread)
NextFree == write_step + Cardinality(At(Producers, {"advance"}))

(* The producers write where the buffer ends.                              *)
Meet == (First + Size) % Capacity = NextFree % Capacity

RInv == Inv /\ Meet

(* What the two sums say of the buffer: it fits the ring, and nobody has   *)
(* moved an index halfway while another is inside.                         *)
LEMMA BufferShape ==
  ASSUME Inv
  PROVE  /\ Size \in 0 .. Capacity /\ First \in 0 .. Capacity
         /\ NextFree \in 0 .. Capacity /\ First + Size < 2 * Capacity
         /\ Size \in Nat /\ First \in Nat /\ NextFree \in Nat
         /\ \A t \in Threads : pc[t] = "copy" => First = read_step /\ NextFree = write_step
         /\ \A c \in Consumers : pc[c] = "advance" => First = read_step + 1
         /\ \A c \in Consumers : pc[c] \in {"lock", "copy"} => Size > 0
         /\ \A p \in Producers : pc[p] = "advance" => NextFree = write_step + 1
         /\ \A p \in Producers : pc[p] = "copy" => Size < Capacity
<1> DEFINE B == Written \cup Unread
           AC == At(Consumers, {"advance"})
           AP == At(Producers, {"advance"})
           H == At(Threads, Holding)
<1>1. IsFiniteSet(H) /\ Cardinality(H) \in Nat /\ IsFiniteSet(B) /\ Cardinality(B) \in Nat
  <2>1. B \subseteq Threads
    BY DEF Written, Unread, At, Threads
  <2> QED
    BY <2>1, ThreadsFinite, FS_Subset, FS_CardinalityType DEF At
<1>2. B \subseteq H
  BY DEF Written, Unread, At, Threads, Holding
<1>3. Cardinality(B) <= Cardinality(H)
  BY <1>1, <1>2, FS_Subset
<1>4. ASSUME NEW t \in H, t \notin B PROVE Cardinality(B) + 1 <= Cardinality(H)
  <2>1. B \cup {t} \subseteq H
    BY <1>2, <1>4
  <2>2. Cardinality(B \cup {t}) = Cardinality(B) + 1
    BY <1>1, <1>4, FS_AddElement
  <2> QED
    BY <1>1, <2>1, <2>2, FS_Subset
<1>5. /\ sem_data \in Nat /\ sem_idle \in Nat
      /\ sem_idle + sem_data + Cardinality(H) = Capacity
      /\ read_step \in 0 .. Capacity - 1 /\ write_step \in 0 .. Capacity - 1
      /\ Capacity \in Nat
  BY SizeAssumption DEF Inv, Shape, SlotAccounting
<1>6. MutualExclusion
  BY InvExcludes
<1>7. /\ \A t \in Threads : pc[t] = "copy" => AC = {} /\ AP = {}
      /\ \A c \in Consumers : pc[c] = "advance" => AC = {c}
      /\ \A p \in Producers : pc[p] = "advance" => AP = {p}
      /\ AC = {} \/ \E c \in Consumers : pc[c] = "advance" /\ AC = {c}
      /\ AP = {} \/ \E p \in Producers : pc[p] = "advance" /\ AP = {p}
  BY <1>6 DEF MutualExclusion, Critical, At, Threads
<1>8. /\ \A c \in Consumers : pc[c] = "advance" => c \in H /\ c \notin B
      /\ \A p \in Producers : pc[p] = "copy" => p \in H /\ p \notin B
  BY ThreadAssumption DEF At, Written, Unread, Holding, Threads
<1>9. ASSUME NEW c \in Consumers, pc[c] \in {"lock", "copy"} PROVE Cardinality(B) > 0
  <2>1. c \in B
    BY <1>9 DEF Unread, At
  <2> QED
    BY <1>1, <2>1, FS_EmptySet
<1>10. \A t : Cardinality({t}) = 1
  BY FS_Singleton
<1>11. Cardinality({}) = 0
  BY FS_EmptySet
<1>12. /\ AC = {} => First = read_step
       /\ \A c : AC = {c} => First = read_step + 1
       /\ AP = {} => NextFree = write_step
       /\ \A p : AP = {p} => NextFree = write_step + 1
  <2>1. /\ AC = {} => Cardinality(AC) = 0
        /\ \A c : AC = {c} => Cardinality(AC) = 1
        /\ AP = {} => Cardinality(AP) = 0
        /\ \A p : AP = {p} => Cardinality(AP) = 1
    BY <1>10, <1>11
  <2>2. First = read_step + Cardinality(AC) /\ NextFree = write_step + Cardinality(AP)
    BY DEF First, NextFree
  <2>3. AC = {} => First = read_step
    BY <1>5, <2>1, <2>2
  <2>4. ASSUME NEW c, AC = {c} PROVE First = read_step + 1
    <3>1. Cardinality(AC) = 1
      BY <2>1, <2>4
    <3> QED
      BY <2>2, <3>1
  <2>5. AP = {} => NextFree = write_step
    BY <1>5, <2>1, <2>2
  <2>6. ASSUME NEW p, AP = {p} PROVE NextFree = write_step + 1
    <3>1. Cardinality(AP) = 1
      BY <2>1, <2>6
    <3> QED
      BY <2>2, <3>1
  <2> QED
    BY <2>3, <2>4, <2>5, <2>6
<1>13. Size = sem_data + Cardinality(B)
  BY DEF Size
<1> HIDE DEF B, AC, AP, H
<1>14. Size \in 0 .. Capacity
  BY <1>1, <1>3, <1>5, <1>13
<1>15. First \in 0 .. Capacity /\ NextFree \in 0 .. Capacity
  <2>1. First = read_step \/ First = read_step + 1
    BY <1>7, <1>12
  <2>2. NextFree = write_step \/ NextFree = write_step + 1
    BY <1>7, <1>12
  <2> QED
    BY <1>5, <2>1, <2>2
<1>16. First + Size < 2 * Capacity
  <2>1. CASE AC = {}
    BY <1>5, <1>12, <1>14, <2>1
  <2>2. CASE AC # {}
    <3>1. PICK c \in Consumers : pc[c] = "advance" /\ AC = {c}
      BY <1>7, <2>2
    <3>2. Cardinality(B) + 1 <= Cardinality(H)
      BY <1>4, <1>8, <3>1
    <3>3. First = read_step + 1
      BY <1>12, <3>1
    <3> QED
      BY <1>1, <1>5, <1>13, <3>2, <3>3
  <2> QED
    BY <2>1, <2>2
<1>17. ASSUME NEW p \in Producers, pc[p] = "copy" PROVE Size < Capacity
  <2>1. Cardinality(B) + 1 <= Cardinality(H)
    BY <1>4, <1>8, <1>17
  <2> QED
    BY <1>1, <1>5, <1>13, <2>1
<1>18. ASSUME NEW c \in Consumers, pc[c] \in {"lock", "copy"} PROVE Size > 0
  BY <1>1, <1>5, <1>9, <1>13, <1>18
<1>19. Size \in Nat /\ First \in Nat /\ NextFree \in Nat
  BY <1>5, <1>14, <1>15
<1> QED
  BY <1>7, <1>12, <1>14, <1>15, <1>16, <1>17, <1>18, <1>19

(* A thread that moves joins or leaves the ones between an index and its   *)
(* next value, and the ones whose slot is in the buffer beyond sem_data.   *)
InBuffer(t, place) ==
  \/ t \in Producers /\ place \in {"advance", "unlock", "post"}
  \/ t \in Consumers /\ place \in {"lock", "copy"}

LEMMA MoveBuffer ==
  ASSUME NEW t \in Threads, NEW from, NEW to,
         pc \in [Threads -> {"wait"} \cup Holding], Goto(t, from, to)
  PROVE  LET n == Cardinality(Written \cup Unread)
         IN  /\ n \in Nat
             /\ (InBuffer(t, from) <=> InBuffer(t, to)) => n' = n
             /\ ~InBuffer(t, from) /\ InBuffer(t, to) => n' = n + 1
             /\ InBuffer(t, from) /\ ~InBuffer(t, to) => n' = n - 1
<1> DEFINE S == Written \cup Unread
<1>1. IsFiniteSet(S) /\ Cardinality(S) \in Nat
  <2>1. S \subseteq Threads
    BY DEF Written, Unread, At, Threads
  <2> QED
    BY <2>1, ThreadsFinite, FS_Subset, FS_CardinalityType
<1>2. /\ S = {u \in Threads : InBuffer(u, pc[u])}
      /\ S' = {u \in Threads : InBuffer(u, pc'[u])}
  BY DEF Written, Unread, At, Threads, InBuffer
<1>3. pc[t] = from /\ pc'[t] = to /\ \A u \in Threads : u # t => pc'[u] = pc[u]
  BY DEF Goto
<1>4. (InBuffer(t, from) <=> InBuffer(t, to)) => S' = S
  BY <1>2, <1>3
<1>5. ~InBuffer(t, from) /\ InBuffer(t, to) => S' = S \cup {t} /\ t \notin S
  BY <1>2, <1>3
<1>6. InBuffer(t, from) /\ ~InBuffer(t, to) => S' = S \ {t} /\ t \in S
  BY <1>2, <1>3
<1>7. /\ t \notin S => Cardinality(S \cup {t}) = Cardinality(S) + 1
      /\ t \in S => Cardinality(S \ {t}) = Cardinality(S) - 1
  BY <1>1, FS_AddElement, FS_RemoveElement
<1> QED
  BY <1>1, <1>4, <1>5, <1>6, <1>7

LEMMA MoveIndex ==
  ASSUME NEW t \in Threads, NEW from, NEW to, NEW T \in SUBSET Threads,
         pc \in [Threads -> {"wait"} \cup Holding], Goto(t, from, to)
  PROVE  LET n == Cardinality(At(T, {"advance"}))
         IN  /\ n \in Nat
             /\ t \notin T \/ (from # "advance" /\ to # "advance") => n' = n
             /\ t \in T /\ from # "advance" /\ to = "advance" => n' = n + 1
             /\ t \in T /\ from = "advance" /\ to # "advance" => n' = n - 1
<1> DEFINE S == At(T, {"advance"})
<1>1. IsFiniteSet(S) /\ Cardinality(S) \in Nat
  BY ThreadsFinite, FS_Subset, FS_CardinalityType DEF At
<1>2. t \notin T \/ (from # "advance" /\ to # "advance") => S' = S
  BY DEF At, Goto
<1>3. t \in T /\ from # "advance" /\ to = "advance" => S' = S \cup {t} /\ t \notin S
  BY DEF At, Goto
<1>4. t \in T /\ from = "advance" /\ to # "advance" => S' = S \ {t} /\ t \in S
  BY DEF At, Goto
<1>5. /\ t \notin S => Cardinality(S \cup {t}) = Cardinality(S) + 1
      /\ t \in S => Cardinality(S \ {t}) = Cardinality(S) - 1
  BY <1>1, FS_AddElement, FS_RemoveElement
<1> QED
  BY <1>1, <1>2, <1>3, <1>4, <1>5

(* What a move does to the positions.                                      *)
LEMMA MovePositions ==
  ASSUME Inv, Inv', NEW t \in Threads, NEW from, NEW to, Goto(t, from, to)
  PROVE  /\ read_step' = read_step /\ (t \notin Consumers \/ (from # "advance" /\ to # "advance"))
              => First' = First
         /\ read_step' = read_step /\ t \in Consumers /\ from # "advance" /\ to = "advance"
              => First' = First + 1
         /\ t \in Consumers /\ from = "advance" /\ to # "advance" => First' = read_step'
         /\ write_step' = write_step /\ (t \notin Producers \/ (from # "advance" /\ to # "advance"))
              => NextFree' = NextFree
         /\ write_step' = write_step /\ t \in Producers /\ from # "advance" /\ to = "advance"
              => NextFree' = NextFree + 1
         /\ t \in Producers /\ from = "advance" /\ to # "advance" => NextFree' = write_step'
         /\ sem_data' = sem_data /\ (InBuffer(t, from) <=> InBuffer(t, to)) => Size' = Size
         /\ sem_data' = sem_data /\ ~InBuffer(t, from) /\ InBuffer(t, to) => Size' = Size + 1
         /\ sem_data' = sem_data /\ InBuffer(t, from) /\ ~InBuffer(t, to) => Size' = Size - 1
         /\ sem_data' = sem_data + 1 /\ InBuffer(t, from) /\ ~InBuffer(t, to) => Size' = Size
         /\ sem_data' = sem_data - 1 /\ ~InBuffer(t, from) /\ InBuffer(t, to) => Size' = Size
<1> DEFINE a == Cardinality(At(Consumers, {"advance"}))
           b == Cardinality(At(Producers, {"advance"}))
           n == Cardinality(Written \cup Unread)
<1>1. /\ pc \in [Threads -> {"wait"} \cup Holding] /\ pc[t] = from /\ pc'[t] = to
      /\ read_step \in Nat /\ write_step \in Nat /\ sem_data \in Nat
      /\ read_step' \in Nat /\ write_step' \in Nat /\ sem_data' \in Nat
      /\ Consumers \in SUBSET Threads /\ Producers \in SUBSET Threads
  BY SizeAssumption DEF Inv, Shape, Goto, Threads
<1>2. /\ a \in Nat
      /\ t \notin Consumers \/ (from # "advance" /\ to # "advance") => a' = a
      /\ t \in Consumers /\ from # "advance" /\ to = "advance" => a' = a + 1
      /\ t \in Consumers /\ from = "advance" /\ to # "advance" => a' = a - 1
  BY <1>1, MoveIndex
<1>3. /\ b \in Nat
      /\ t \notin Producers \/ (from # "advance" /\ to # "advance") => b' = b
      /\ t \in Producers /\ from # "advance" /\ to = "advance" => b' = b + 1
      /\ t \in Producers /\ from = "advance" /\ to # "advance" => b' = b - 1
  BY <1>1, MoveIndex
<1>4. /\ n \in Nat
      /\ (InBuffer(t, from) <=> InBuffer(t, to)) => n' = n
      /\ ~InBuffer(t, from) /\ InBuffer(t, to) => n' = n + 1
      /\ InBuffer(t, from) /\ ~InBuffer(t, to) => n' = n - 1
  BY <1>1, MoveBuffer
<1>5. /\ First = read_step + a /\ First' = read_step' + a'
      /\ NextFree = write_step + b /\ NextFree' = write_step' + b'
      /\ Size = sem_data + n /\ Size' = sem_data' + n'
  BY DEF First, NextFree, Size
<1>6. /\ t \in Consumers /\ from = "advance" => First = read_step + 1
      /\ t \in Producers /\ from = "advance" => NextFree = write_step + 1
  BY <1>1, BufferShape
<1> HIDE DEF a, b, n
<1>7. /\ t \in Consumers /\ from = "advance" => a = 1
      /\ t \in Producers /\ from = "advance" => b = 1
  BY <1>1, <1>2, <1>3, <1>5, <1>6
<1>8. /\ t \in Consumers /\ from = "advance" /\ to # "advance" => First' = read_step'
      /\ t \in Producers /\ from = "advance" /\ to # "advance" => NextFree' = write_step'
  BY <1>1, <1>2, <1>3, <1>5, <1>7
<1>9. /\ read_step' = read_step /\ (t \notin Consumers \/ (from # "advance" /\ to # "advance"))
           => First' = First
      /\ read_step' = read_step /\ t \in Consumers /\ from # "advance" /\ to = "advance"
           => First' = First + 1
  BY <1>1, <1>2, <1>5
<1>10. /\ write_step' = write_step /\ (t \notin Producers \/ (from # "advance" /\ to # "advance"))
            => NextFree' = NextFree
       /\ write_step' = write_step /\ t \in Producers /\ from # "advance" /\ to = "advance"
            => NextFree' = NextFree + 1
  BY <1>1, <1>3, <1>5
<1>11. /\ n' = n => sem_data' + n' = sem_data' + n
       /\ n' = n + 1 => sem_data' + n' = (sem_data' + n) + 1
       /\ n' = n - 1 => sem_data' + n' = (sem_data' + n) - 1
       /\ sem_data' = sem_data + 1 /\ n' = n - 1 => sem_data' + n' = sem_data + n
       /\ sem_data' = sem_data - 1 /\ n' = n + 1 => sem_data' + n' = sem_data + n
  BY <1>1, <1>4
<1>12. /\ sem_data' = sem_data /\ n' = n => Size' = Size
       /\ sem_data' = sem_data /\ n' = n + 1 => Size' = Size + 1
       /\ sem_data' = sem_data /\ n' = n - 1 => Size' = Size - 1
       /\ sem_data' = sem_data + 1 /\ n' = n - 1 => Size' = Size
       /\ sem_data' = sem_data - 1 /\ n' = n + 1 => Size' = Size
  BY <1>5, <1>11
<1> QED
  BY <1>4, <1>8, <1>9, <1>10, <1>12

-----------------------------------------------------------------------------
(* The buffer is a sequence of the slots from First on.                    *)
ContentIsSlots ==
  /\ Content \in Seq(Item \cup {NoItem})
  /\ Len(Content) = Size
  /\ \A k \in 1 .. Size : Content[k] = slots[(First + k - 1) % Capacity]

LEMMA FunctionIsSeq ==
  ASSUME NEW S, NEW n \in Nat, NEW f \in [1 .. n -> S]
  PROVE  f \in Seq(S) /\ Len(f) = n
<1>1. f \in Seq(S)
  BY SeqDef
<1>2. Len(f) \in Nat /\ DOMAIN f = 1 .. Len(f) /\ DOMAIN f = 1 .. n
  BY <1>1, LenProperties
<1> QED
  BY <1>1, <1>2

LEMMA ContentShape == Inv => ContentIsSlots
<1> SUFFICES ASSUME Inv PROVE ContentIsSlots
  OBVIOUS
<1>1. Content = [k \in 1 .. Size |-> slots[(First + k - 1) % Capacity]]
  BY DEF Content, Size
<1>2. Size \in Nat /\ First \in Nat
  BY BufferShape
<1>3. ASSUME NEW k \in 1 .. Size
      PROVE  slots[(First + k - 1) % Capacity] \in Item \cup {NoItem}
  <2>1. First + k - 1 \in Nat /\ Capacity \in Nat /\ Capacity > 0
    BY <1>2, SizeAssumption
  <2>2. (First + k - 1) % Capacity \in 0 .. Capacity - 1
    BY <2>1
  <2>3. (First + k - 1) % Capacity \in 0 .. QueueSize - 1
    BY <2>2, SizeAssumption
  <2> QED
    BY <2>3 DEF Inv, Shape
<1>4. Content \in [1 .. Size -> Item \cup {NoItem}]
  BY <1>1, <1>3
<1>5. Content \in Seq(Item \cup {NoItem}) /\ Len(Content) = Size
  BY <1>2, <1>4, FunctionIsSeq
<1> QED
  BY <1>1, <1>5 DEF ContentIsSlots

LEMMA ContentShapeNext == Inv' => ContentIsSlots'
BY ContentShape, PTL

(* When neither the slots of the buffer nor where it lies change, the      *)
(* content does not.                                                       *)
LEMMA SameContent ==
  ASSUME Inv, Inv', slots' = slots, Size' = Size,
         \A k \in 1 .. Size : (First' + k - 1) % Capacity = (First + k - 1) % Capacity
  PROVE  Content' = Content
<1>1. /\ Content = [k \in 1 .. Size |-> slots[(First + k - 1) % Capacity]]
      /\ Content' = [k \in 1 .. Size' |-> slots'[(First' + k - 1) % Capacity]]
  BY DEF Content, Size
<1> QED
  BY <1>1

(* A thread that waits, locks, unlocks or posts moves no index and touches *)
(* no slot: the buffer is as it was.                                       *)
LEMMA StaysInBuffer ==
  ASSUME RInv, Inv', NEW t \in Threads, NEW from, NEW to, Goto(t, from, to),
         from # "advance", to # "advance", UNCHANGED <<ring, count, data>>,
         \/ sem_data' = sem_data /\ (InBuffer(t, from) <=> InBuffer(t, to))
         \/ sem_data' = sem_data + 1 /\ InBuffer(t, from) /\ ~InBuffer(t, to)
         \/ sem_data' = sem_data - 1 /\ ~InBuffer(t, from) /\ InBuffer(t, to)
  PROVE  Meet' /\ UNCHANGED Buffer!bufferVars
<1>1. First' = First /\ NextFree' = NextFree /\ Size' = Size /\ slots' = slots
  BY MovePositions DEF RInv, ring
<1>2. Content' = Content
  BY <1>1, SameContent DEF RInv
<1> QED
  BY <1>1, <1>2 DEF RInv, Meet, Buffer!bufferVars

(* A producer writes the slot where the buffer ends, which no other place  *)
(* of the buffer is.                                                       *)
LEMMA WritePuts ==
  ASSUME RInv, Inv', NEW p \in Producers, Write(p)
  PROVE  Meet' /\ Buffer!Put(p)
<1> DEFINE e == <<p, count[p]>>
           D == Item \cup {NoItem}
<1>1. /\ Inv /\ Goto(p, "copy", "advance") /\ p \in Threads /\ pc[p] = "copy"
      /\ read_step' = read_step /\ write_step' = write_step /\ sem_data' = sem_data
      /\ slots' = [slots EXCEPT ![write_step] = e]
      /\ slots \in [0 .. QueueSize - 1 -> D]
      /\ Capacity \in Nat /\ Capacity > 0 /\ Capacity <= QueueSize /\ QueueSize \in Nat
      /\ write_step \in 0 .. Capacity - 1 /\ read_step \in 0 .. Capacity - 1
  BY SizeAssumption DEF RInv, Inv, Shape, Write, Goto, Threads, ring, sems
<1>2. p \notin Consumers /\ ~InBuffer(p, "copy") /\ InBuffer(p, "advance")
  BY ThreadAssumption DEF InBuffer
<1>3. First' = First /\ NextFree' = NextFree + 1 /\ Size' = Size + 1
  BY <1>1, <1>2, MovePositions
<1>4. /\ First = read_step /\ NextFree = write_step
      /\ Size \in Nat /\ Size < Capacity
  BY <1>1, BufferShape
<1>5. (First + Size) % Capacity = write_step
  <2>1. (First + Size) % Capacity = NextFree % Capacity
    BY DEF RInv, Meet
  <2>2. write_step % Capacity = write_step
    <3>1. write_step \in Nat /\ write_step < Capacity /\ write_step < 2 * Capacity
      BY <1>1
    <3> QED
      BY <3>1, ModSmall
  <2> QED
    BY <1>4, <2>1, <2>2
<1>6. Meet'
  <2>1. /\ First + Size \in Nat /\ First + Size + 1 \in Nat /\ First + Size + 1 < 2 * Capacity
        /\ write_step + 1 \in Nat /\ write_step + 1 < 2 * Capacity
    BY <1>1, <1>4
  <2>2. (First + Size + 1) % Capacity = (write_step + 1) % Capacity
    BY <1>1, <1>4, <1>5, <2>1, ModSmall
  <2>3. First' + Size' = First + Size + 1 /\ NextFree' = write_step + 1
    BY <1>1, <1>3, <1>4
  <2> QED
    BY <2>2, <2>3 DEF Meet
<1>7. ASSUME NEW k \in 1 .. Size
      PROVE  slots'[(First + k - 1) % Capacity] = slots[(First + k - 1) % Capacity]
  <2>1. First + k - 1 \in Nat /\ First + k - 1 < 2 * Capacity /\ First + Size \in Nat
    BY <1>1, <1>4
  <2>2. First + Size < 2 * Capacity
    BY <1>1, <1>4
  <2>3. /\ (First + k - 1) % Capacity \in 0 .. Capacity - 1
        /\ (First + k - 1) % Capacity # write_step
    BY <1>1, <1>4, <1>5, <2>1, <2>2, ModSmall
  <2>4. (First + k - 1) % Capacity \in 0 .. QueueSize - 1
    BY <1>1, <2>3
  <2> QED
    BY <1>1, <2>3, <2>4
<1>8. slots'[write_step] = e
  <2>1. write_step \in 0 .. QueueSize - 1
    BY <1>1
  <2> QED
    BY <1>1, <2>1
<1>9. Content' = Append(Content, e)
  <2>1. e \in D
    BY DEF Item, RInv, Inv, Shape
  <2>2. /\ Content \in Seq(D) /\ Len(Content) = Size
        /\ \A k \in 1 .. Size : Content[k] = slots[(First + k - 1) % Capacity]
    BY <1>1, ContentShape DEF ContentIsSlots
  <2>3. /\ Content' \in Seq(D) /\ Len(Content') = Size'
        /\ \A k \in 1 .. Size' : Content'[k] = slots'[(First' + k - 1) % Capacity]
    BY <1>1, ContentShapeNext DEF ContentIsSlots, Item
  <2> DEFINE r == Append(Content, e)
  <2>4. /\ r \in Seq(D) /\ Len(r) = Size + 1 /\ r[Size + 1] = e
        /\ \A k \in 1 .. Size : r[k] = Content[k]
    BY <2>1, <2>2, AppendProperties
  <2> HIDE DEF r, e, D
  <2>5. ASSUME NEW k \in 1 .. Size + 1 PROVE Content'[k] = r[k]
    <3>1. CASE k = Size + 1
      <4>1. First' + k - 1 = First + Size
        BY <1>3, <1>4, <1>1, <3>1
      <4> QED
        BY <1>3, <1>5, <1>8, <2>3, <2>4, <3>1, <4>1
    <3>2. CASE k # Size + 1
      <4>1. k \in 1 .. Size
        BY <1>4, <3>2
      <4> QED
        BY <1>3, <1>7, <2>2, <2>3, <2>4, <4>1
    <3> QED
      BY <3>1, <3>2
  <2> QED
    BY <1>3, <2>3, <2>4, <2>5, SeqEqual DEF r
<1>10. Len(Content) < Capacity
  BY <1>1, <1>4, ContentShape DEF ContentIsSlots
<1> QED
  BY <1>6, <1>9, <1>10 DEF Buffer!Put, Write

(* A consumer reads the slot where the buffer begins.                      *)
LEMMA ReadGets ==
  ASSUME RInv, Inv', NEW c \in Consumers, Read(c)
  PROVE  Meet' /\ Buffer!Get(c)
<1> DEFINE D == Item \cup {NoItem}
<1>1. /\ Inv /\ Goto(c, "copy", "advance") /\ c \in Threads /\ pc[c] = "copy"
      /\ read_step' = read_step /\ write_step' = write_step /\ sem_data' = sem_data
      /\ slots' = slots
      /\ Capacity \in Nat /\ Capacity > 0 /\ read_step \in 0 .. Capacity - 1
  BY SizeAssumption DEF RInv, Inv, Shape, Read, Goto, Threads, ring, sems
<1>2. c \notin Producers /\ InBuffer(c, "copy") /\ ~InBuffer(c, "advance")
  BY ThreadAssumption DEF InBuffer
<1>3. First' = First + 1 /\ NextFree' = NextFree /\ Size' = Size - 1
  BY <1>1, <1>2, MovePositions
<1>4. First = read_step /\ Size \in Nat /\ Size > 0
  BY <1>1, BufferShape
<1>5. Meet'
  <2>1. First' + Size' = First + Size
    BY <1>1, <1>3, <1>4
  <2> QED
    BY <1>3, <2>1 DEF RInv, Meet
<1>6. /\ Content \in Seq(D) /\ Len(Content) = Size
      /\ \A k \in 1 .. Size : Content[k] = slots[(First + k - 1) % Capacity]
  BY <1>1, ContentShape DEF ContentIsSlots
<1>7. /\ Content' \in Seq(D) /\ Len(Content') = Size'
      /\ \A k \in 1 .. Size' : Content'[k] = slots'[(First' + k - 1) % Capacity]
  BY <1>1, ContentShapeNext DEF ContentIsSlots, Item
<1>8. Content # <<>>
  BY <1>4, <1>6, EmptySeq
<1>9. Head(Content) = slots[read_step]
  <2>1. Head(Content) = Content[1] /\ 1 \in 1 .. Size
    BY <1>4, <1>6, <1>8
  <2>2. First + 1 - 1 = read_step /\ read_step % Capacity = read_step
    BY <1>1, <1>4
  <2> QED
    BY <1>6, <2>1, <2>2
<1>10. Content' = Tail(Content)
  <2> DEFINE r == Tail(Content)
  <2>1. /\ r \in Seq(D) /\ Len(r) = Size - 1
        /\ \A k \in 1 .. Size - 1 : r[k] = Content[k + 1]
    BY <1>6, <1>8, HeadTailProperties
  <2> HIDE DEF r, D
  <2>2. ASSUME NEW k \in 1 .. Size - 1 PROVE Content'[k] = r[k]
    <3>1. k + 1 \in 1 .. Size /\ First' + k - 1 = First + (k + 1) - 1
      BY <1>1, <1>3, <1>4
    <3> QED
      BY <1>1, <1>3, <1>6, <1>7, <2>1, <3>1
  <2> QED
    BY <1>3, <1>7, <2>1, <2>2, SeqEqual DEF r
<1> QED
  BY <1>5, <1>8, <1>9, <1>10 DEF Buffer!Get, Read

(* An index that has moved wraps around, to the same place of the ring.    *)
LEMMA IndexMoves ==
  ASSUME RInv, Inv', NEW t \in Threads, Goto(t, "advance", "unlock"),
         UNCHANGED <<slots, sems, count, data>>,
         \/ /\ t \in Producers /\ t \notin Consumers
            /\ read_step' = read_step
            /\ write_step' = (write_step + 1) % Capacity
         \/ /\ t \in Consumers /\ t \notin Producers
            /\ write_step' = write_step
            /\ read_step' = (read_step + 1) % Capacity
  PROVE  Meet' /\ UNCHANGED Buffer!bufferVars
<1>1. /\ Inv /\ pc[t] = "advance" /\ sem_data' = sem_data
      /\ Capacity \in Nat /\ Capacity > 0
      /\ write_step \in 0 .. Capacity - 1 /\ read_step \in 0 .. Capacity - 1
  BY SizeAssumption DEF RInv, Inv, Shape, Goto, sems
<1>2. /\ Size \in Nat /\ First \in Nat /\ NextFree \in Nat
      /\ First + Size < 2 * Capacity
  BY <1>1, BufferShape
<1>3. InBuffer(t, "advance") <=> InBuffer(t, "unlock")
  <2>1. CASE t \in Producers
    BY <2>1 DEF InBuffer
  <2>2. CASE t \in Consumers /\ t \notin Producers
    BY <2>2 DEF InBuffer
  <2> QED
    BY <2>1, <2>2
<1>4. Size' = Size
  BY <1>1, <1>3, MovePositions
<1>5. CASE t \in Producers
  <2>1. First' = First /\ NextFree' = write_step' /\ NextFree = write_step + 1
    BY <1>1, <1>5, MovePositions, BufferShape
  <2>2. NextFree' % Capacity = NextFree % Capacity
    <3>1. write_step' = (write_step + 1) % Capacity
      BY <1>5
    <3>2. (write_step + 1) % Capacity \in 0 .. Capacity - 1
      BY <1>1
    <3> QED
      BY <1>1, <2>1, <3>1, <3>2
  <2>3. Content' = Content
    BY <1>1, <1>4, <2>1, SameContent
  <2> QED
    BY <1>4, <2>1, <2>2, <2>3 DEF RInv, Meet, Buffer!bufferVars
<1>6. CASE t \in Consumers /\ t \notin Producers
  <2>1. /\ First' = (read_step + 1) % Capacity /\ NextFree' = NextFree
        /\ First = read_step + 1
    BY <1>1, <1>6, MovePositions, BufferShape
  <2>2. First' = IF First < Capacity THEN First ELSE First - Capacity
    BY <1>1, <1>2, <2>1, ModSmall
  <2>3. ASSUME NEW n \in 0 .. Size
        PROVE  (First' + n) % Capacity = (First + n) % Capacity
    <3>1. First + n \in Nat /\ First + n < 2 * Capacity
      BY <1>1, <1>2
    <3>2. CASE First < Capacity
      BY <2>2, <3>2
    <3>3. CASE First >= Capacity
      <4>1. First' = 0 /\ First = Capacity
        BY <1>1, <2>1, <2>2, <3>3
      <4>2. (First + n) % Capacity = n /\ n < Capacity /\ n \in Nat
        BY <1>1, <1>2, <3>1, <4>1, ModSmall
      <4> QED
        BY <1>1, <4>1, <4>2
    <3> QED
      BY <1>1, <1>2, <3>2, <3>3
  <2>4. (First' + Size) % Capacity = (First + Size) % Capacity
    BY <1>2, <2>3
  <2>5. ASSUME NEW k \in 1 .. Size
        PROVE  (First' + k - 1) % Capacity = (First + k - 1) % Capacity
    <3>1. k - 1 \in 0 .. Size /\ First' \in Nat
      BY <1>1, <1>2, <2>1
    <3>2. First' + k - 1 = First' + (k - 1) /\ First + k - 1 = First + (k - 1)
      BY <1>2, <3>1
    <3> QED
      BY <2>3, <3>1, <3>2
  <2>6. Content' = Content
    BY <1>1, <1>4, <2>5, SameContent
  <2> QED
    BY <1>4, <2>1, <2>4, <2>6 DEF RInv, Meet, Buffer!bufferVars
<1> QED
  BY <1>5, <1>6

LEMMA BufferStep ==
  ASSUME RInv, [Next]_vars
  PROVE  RInv' /\ [Buffer!Next]_(Buffer!bufferVars)
<1>1. Inv /\ Inv'
  BY ShapeNext, SumsNext DEF RInv, Inv
<1>2. ASSUME NEW p \in Producers, QueuePush_back(p)
      PROVE  Meet' /\ [Buffer!Next]_(Buffer!bufferVars)
  <2>1. p \in Threads /\ p \notin Consumers
    BY ThreadAssumption DEF Threads
  <2>2. /\ ~InBuffer(p, "wait") /\ ~InBuffer(p, "lock") /\ ~InBuffer(p, "copy")
        /\ InBuffer(p, "unlock") /\ InBuffer(p, "post")
    BY <2>1 DEF InBuffer
  <2>3. CASE ProductWait(p)
    BY <1>1, <2>1, <2>2, <2>3, StaysInBuffer DEF ProductWait
  <2>4. CASE QueueLock(p)
    BY <1>1, <2>1, <2>2, <2>4, StaysInBuffer DEF QueueLock
  <2>5. CASE Write(p)
    BY <1>1, <2>5, WritePuts DEF Buffer!Next
  <2>6. CASE AdvanceWrite(p)
    BY <1>1, <2>1, <2>6, IndexMoves DEF AdvanceWrite
  <2>7. CASE QueueUnlock(p)
    BY <1>1, <2>1, <2>2, <2>7, StaysInBuffer DEF QueueUnlock
  <2>8. CASE ConsumerWakeup(p)
    BY <1>1, <2>1, <2>2, <2>8, StaysInBuffer DEF ConsumerWakeup
  <2> QED
    BY <1>2, <2>3, <2>4, <2>5, <2>6, <2>7, <2>8 DEF QueuePush_back
<1>3. ASSUME NEW c \in Consumers, QueuePop(c)
      PROVE  Meet' /\ [Buffer!Next]_(Buffer!bufferVars)
  <2>1. c \in Threads /\ c \notin Producers
    BY ThreadAssumption DEF Threads
  <2>2. /\ ~InBuffer(c, "wait") /\ InBuffer(c, "lock") /\ InBuffer(c, "copy")
        /\ ~InBuffer(c, "unlock") /\ ~InBuffer(c, "post")
    BY <2>1 DEF InBuffer
  <2>3. CASE ConsumerWait(c)
    BY <1>1, <2>1, <2>2, <2>3, StaysInBuffer DEF ConsumerWait
  <2>4. CASE QueueLock(c)
    BY <1>1, <2>1, <2>2, <2>4, StaysInBuffer DEF QueueLock
  <2>5. CASE Read(c)
    BY <1>1, <2>5, ReadGets DEF Buffer!Next
  <2>6. CASE AdvanceRead(c)
    BY <1>1, <2>1, <2>6, IndexMoves DEF AdvanceRead
  <2>7. CASE QueueUnlock(c)
    BY <1>1, <2>1, <2>2, <2>7, StaysInBuffer DEF QueueUnlock
  <2>8. CASE ProductWakeup(c)
    BY <1>1, <2>1, <2>2, <2>8, StaysInBuffer DEF ProductWakeup
  <2> QED
    BY <1>3, <2>3, <2>4, <2>5, <2>6, <2>7, <2>8 DEF QueuePop
<1>4. CASE UNCHANGED vars
  <2>1. Content' = Content
    BY <1>4 DEF vars, Content, First, Written, Unread, At
  <2>2. Meet'
    BY <1>4 DEF vars, RInv, Meet, First, Size, NextFree, Written, Unread, At
  <2>3. UNCHANGED Buffer!bufferVars
    BY <1>4, <2>1 DEF vars, Buffer!bufferVars
  <2> QED
    BY <1>1, <2>2, <2>3 DEF RInv
<1> QED
  BY <1>1, <1>2, <1>3, <1>4 DEF Next, RInv

(* The ring is the first-in first-out buffer of BoundedBuffer for any      *)
(* number of threads and any capacity up to the size of the vector: no     *)
(* item is overwritten unread, read twice or read out of turn, although    *)
(* nothing compares the indices.                                           *)
THEOREM ImplementsBuffer == Spec => BufferPromise
<1>1. Init => RInv /\ Buffer!Init
  <2> SUFFICES ASSUME Init PROVE Meet /\ Content = <<>>
    BY InvInit DEF RInv, Init, Buffer!Init
  <2>1. Inv
    BY InvInit
  <2>2. /\ Written \cup Unread = {} /\ At(Consumers, {"advance"}) = {}
        /\ At(Producers, {"advance"}) = {}
    BY DEF Init, Written, Unread, At, Threads
  <2>3. Size = 0 /\ First = 0 /\ NextFree = 0
    <3>1. /\ sem_data = 0 /\ read_step = 0 /\ write_step = 0
          /\ Cardinality({}) = 0
      BY FS_EmptySet DEF Init
    <3> QED
      BY <2>2, <3>1 DEF Size, First, NextFree
  <2>4. Content = <<>>
    BY <2>1, <2>3, ContentShape, EmptySeq DEF ContentIsSlots
  <2> QED
    BY <2>3, <2>4 DEF Meet
<1>2. RInv /\ [Next]_vars => RInv' /\ [Buffer!Next]_(Buffer!bufferVars)
  BY BufferStep
<1> QED
  BY <1>1, <1>2, PTL DEF Spec, BufferPromise, Buffer!Spec
=============================================================================
