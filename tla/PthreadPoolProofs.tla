------------------------- MODULE PthreadPoolProofs -------------------------
(***************************************************************************)
(* What the pool of pthread_pool.cpp guarantees for any number of workers  *)
(* and tasks, although _cur_size is decremented without the mutex: when    *)
(* ThreadQuit returns, no worker is left and every task was run once.      *)
(***************************************************************************)
EXTENDS PthreadPool, FiniteSetTheorems, SequenceTheorems, TLAPS

-----------------------------------------------------------------------------
(* Sequences without repetition, as the queue is.                          *)
LEMMA AppendSet ==
  ASSUME NEW T, NEW s \in Seq(T), NEW e \in T
  PROVE  /\ ToSet(Append(s, e)) = ToSet(s) \cup {e}
         /\ IsInjective(s) /\ e \notin ToSet(s) => IsInjective(Append(s, e))
<1>1. /\ Append(s, e) \in Seq(T) /\ Len(Append(s, e)) = Len(s) + 1
      /\ Append(s, e)[Len(s) + 1] = e
      /\ \A k \in 1 .. Len(s) : Append(s, e)[k] = s[k]
      /\ DOMAIN s = 1 .. Len(s) /\ DOMAIN Append(s, e) = 1 .. Len(s) + 1
      /\ Len(s) \in Nat
  BY AppendProperties
<1>2. ToSet(Append(s, e)) = ToSet(s) \cup {e}
  BY <1>1 DEF ToSet
<1>3. IsInjective(s) /\ e \notin ToSet(s) => IsInjective(Append(s, e))
  BY <1>1 DEF ToSet, IsInjective
<1> QED
  BY <1>2, <1>3

LEMMA TailSet ==
  ASSUME NEW T, NEW s \in Seq(T), s # <<>>, IsInjective(s)
  PROVE  /\ Head(s) \in ToSet(s)
         /\ ToSet(Tail(s)) = ToSet(s) \ {Head(s)}
         /\ IsInjective(Tail(s))
<1>1. /\ Tail(s) \in Seq(T) /\ Len(Tail(s)) = Len(s) - 1
      /\ \A k \in 1 .. Len(Tail(s)) : Tail(s)[k] = s[k + 1]
      /\ Len(s) \in Nat /\ Len(s) > 0 /\ Head(s) = s[1]
      /\ DOMAIN s = 1 .. Len(s) /\ DOMAIN Tail(s) = 1 .. Len(s) - 1
  BY HeadTailProperties, EmptySeq
<1>2. ToSet(Tail(s)) \subseteq ToSet(s) \ {Head(s)}
  BY <1>1 DEF ToSet, IsInjective
<1>3. ASSUME NEW x \in ToSet(s) \ {Head(s)} PROVE x \in ToSet(Tail(s))
  <2>1. PICK k \in 1 .. Len(s) : x = s[k] /\ k # 1
    BY <1>1, <1>3 DEF ToSet
  <2>2. k - 1 \in 1 .. Len(Tail(s)) /\ Tail(s)[k - 1] = x
    BY <1>1, <2>1
  <2> QED
    BY <1>1, <2>2 DEF ToSet
<1>4. IsInjective(Tail(s))
  BY <1>1 DEF IsInjective
<1> QED
  BY <1>1, <1>2, <1>3, <1>4 DEF ToSet

-----------------------------------------------------------------------------
(* Ranges                                                                  *)
LEMMA WorkersCount == Cardinality(Workers) \in Nat /\ Cardinality(Workers) > 0
BY ThreadAssumption, FS_CardinalityType, FS_EmptySet

LEMMA SignalShrinks ==
  ASSUME NEW c \in Conds, sleepers \in [Conds -> SUBSET Threads],
         Signal(c) \/ Broadcast(c)
  PROVE  /\ sleepers' \in [Conds -> SUBSET Threads]
         /\ \A d \in Conds : sleepers'[d] \subseteq sleepers[d]
         /\ \A d \in Conds \ {c} : sleepers'[d] = sleepers[d]
BY DEF Signal, WakeUp, Broadcast

(* Where main is says how far it has got: while it pushes there is a task  *)
(* left to push, and once the flag is set all of them were pushed.         *)
Phase == /\ i \in 0 .. NumTasks
         /\ pc[Main] = "create" => i = 0
         /\ pc[Main] \in {"lock", "test", "asleep"} => i < NumTasks
         /\ pc[Main] \in {"quit", "drain", "done"} => i = NumTasks
         /\ quit_flag <=> pc[Main] \in {"drain", "done"}

(* Program counters and the variables of main.                             *)
PcOK == /\ pc \in [Threads -> WorkerPlaces \cup MainPlaces]
        /\ pc[Main] \in MainPlaces
        /\ \A w \in Workers : pc[w] \in WorkerPlaces
        /\ quit_flag \in BOOLEAN
        /\ Phase

LEMMA PcInit == Init => PcOK
<1> SUFFICES ASSUME Init PROVE PcOK
  OBVIOUS
<1>1. /\ pc[Main] = "create"
      /\ \A w \in Workers : pc[w] = "unborn"
      /\ pc \in [Threads -> {"create", "unborn"}]
  BY ThreadAssumption DEF Init, Threads
<1>2. i = 0 /\ i \in 0 .. NumTasks /\ quit_flag = FALSE
  BY TaskAssumption DEF Init
<1> QED
  BY <1>1, <1>2 DEF PcOK, Phase, WorkerPlaces, MainPlaces

(* A worker that moves does not change what PcOK says of main.             *)
LEMMA WorkerMoves ==
  ASSUME PcOK, NEW w \in Workers, NEW from, NEW to \in WorkerPlaces,
         Goto(w, from, to), UNCHANGED <<i, quit_flag>>
  PROVE  PcOK'
BY ThreadAssumption DEF PcOK, Phase, Goto, Threads

LEMMA MainMoves ==
  ASSUME PcOK, NEW from, NEW to \in MainPlaces, Goto(Main, from, to),
         Phase', quit_flag' \in BOOLEAN
  PROVE  PcOK'
BY ThreadAssumption DEF PcOK, Goto, Threads

LEMMA PcNext == PcOK /\ [Next]_vars => PcOK'
<1> SUFFICES ASSUME PcOK, [Next]_vars PROVE PcOK'
  OBVIOUS
<1>0. quit_flag \in BOOLEAN
  BY DEF PcOK
<1>1. ASSUME NEW w \in Workers, thr_start(w)
      PROVE  PcOK'
  <2> USE DEF WorkerPlaces, poolVars
  <2>1. CASE QueueLock(w) \/ Resume(w) \/ QuitNotSet(w) \/ ConWait(w) \/ QuitSet(w)
    BY <2>1, WorkerMoves DEF QueueLock, Resume, QuitNotSet, ConWait, QuitSet
  <2>2. CASE QuitUnlock(w) \/ LoadCurSize(w) \/ StoreCurSize(w)
    BY <2>2, WorkerMoves DEF QuitUnlock, LoadCurSize, StoreCurSize
  <2>3. CASE PopTask(w) \/ QueueUnlock(w) \/ RunTask(w)
    BY <2>3, WorkerMoves DEF PopTask, QueueUnlock, RunTask
  <2> QED
    BY <1>1, <2>1, <2>2, <2>3 DEF thr_start
<1>2. CASE CreateThread
  BY <1>2, WorkerMoves DEF CreateThread, WorkerPlaces, poolVars
<1>3. CASE ThreadInitReturns
  <2>1. i = 0 /\ UNCHANGED <<i, quit_flag>> /\ NumTasks \in Nat
    BY <1>3, TaskAssumption DEF ThreadInitReturns, Goto, poolVars, PcOK, Phase
  <2>2. CASE NumTasks = 0
    <3>1. Goto(Main, "create", "quit")
      BY <1>3, <2>2 DEF ThreadInitReturns
    <3>2. Phase'
      BY <2>1, <2>2, <3>1, ThreadAssumption DEF Goto, PcOK, Phase, Threads
    <3> QED
      BY <2>1, <3>1, <3>2, <1>0, MainMoves DEF MainPlaces
  <2>3. CASE NumTasks # 0
    <3>1. Goto(Main, "create", "lock")
      BY <1>3, <2>3 DEF ThreadInitReturns
    <3>2. Phase'
      BY <2>1, <2>3, <3>1, ThreadAssumption DEF Goto, PcOK, Phase, Threads
    <3> QED
      BY <2>1, <3>1, <3>2, <1>0, MainMoves DEF MainPlaces
  <2> QED
    BY <2>2, <2>3
<1>4. CASE PushLock \/ ProWait \/ Resume(Main)
  <2>1. Phase' /\ UNCHANGED quit_flag
    BY <1>4, ThreadAssumption
       DEF PushLock, ProWait, Resume, Goto, poolVars, PcOK, Phase, Threads
  <2> QED
    BY <1>4, <2>1, <1>0, MainMoves DEF PushLock, ProWait, Resume, MainPlaces
<1>5. CASE PushTask
  <2>1. i' \in 0 .. NumTasks
    BY <1>5, TaskAssumption DEF PushTask, Goto, PcOK, Phase
  <2>2. Phase' /\ UNCHANGED quit_flag
    BY <1>5, <2>1, ThreadAssumption DEF PushTask, Goto, PcOK, Phase, Threads
  <2> QED
    BY <1>5, <2>2, <1>0, MainMoves DEF PushTask, MainPlaces
<1>6. CASE PushUnlock
  <2>1. i \in 0 .. NumTasks /\ UNCHANGED <<i, quit_flag>>
    BY <1>6 DEF PushUnlock, poolVars, PcOK, Phase
  <2>2. CASE i < NumTasks
    <3>1. Goto(Main, "unlock", "lock")
      BY <1>6, <2>2 DEF PushUnlock
    <3>2. Phase'
      BY <2>1, <2>2, <3>1, ThreadAssumption DEF Goto, PcOK, Phase, Threads
    <3> QED
      BY <2>1, <3>1, <3>2, <1>0, MainMoves DEF MainPlaces
  <2>3. CASE ~(i < NumTasks)
    <3>1. Goto(Main, "unlock", "quit") /\ i = NumTasks
      BY <1>6, <2>1, <2>3, TaskAssumption DEF PushUnlock
    <3>2. Phase'
      BY <2>1, <3>1, ThreadAssumption DEF Goto, PcOK, Phase, Threads
    <3> QED
      BY <2>1, <3>1, <3>2, <1>0, MainMoves DEF MainPlaces
  <2> QED
    BY <2>2, <2>3
<1>7. CASE SetQuitFlag
  <2>1. Phase' /\ quit_flag' = TRUE
    BY <1>7, ThreadAssumption DEF SetQuitFlag, Goto, PcOK, Phase, Threads
  <2> QED
    BY <1>7, <2>1, <1>0, MainMoves DEF SetQuitFlag, MainPlaces
<1>8. CASE ThreadQuitReturns
  <2>1. Phase' /\ UNCHANGED quit_flag
    BY <1>8, ThreadAssumption
       DEF ThreadQuitReturns, Goto, poolVars, PcOK, Phase, Threads
  <2> QED
    BY <1>8, <2>1, <1>0, MainMoves DEF ThreadQuitReturns, MainPlaces
<1>9. CASE ConWakeAll \/ (\E c \in Conds : Spurious(c)) \/ UNCHANGED vars
  <2>1. UNCHANGED <<pc, i, quit_flag>>
    BY <1>9 DEF ConWakeAll, Spurious, vars, poolVars
  <2> QED
    BY <2>1 DEF PcOK, Phase
<1> QED
  BY <1>1, <1>2, <1>3, <1>4, <1>5, <1>6, <1>7, <1>8, <1>9
     DEF Next, main, Create, Push, ThreadQuit

-----------------------------------------------------------------------------
(* _cur_size and every loaded copy of it that is about to be stored are at *)
(* least the number of threads left.  A lost decrement only raises         *)
(* _cur_size above that number.                                            *)
Counts == /\ cur_size \in 0 .. Cardinality(Workers)
          /\ reg \in [Workers -> 0 .. Cardinality(Workers)]
          /\ Cardinality(Left) <= cur_size
          /\ \A w \in Workers : pc[w] = "store" => Cardinality(Left) <= reg[w]

LEMMA LeftFinite == IsFiniteSet(Left) /\ Cardinality(Left) \in Nat
BY ThreadAssumption, FS_Subset, FS_CardinalityType DEF Left

LEMMA CountsInit == Init => Counts
<1> SUFFICES ASSUME Init PROVE Counts
  OBVIOUS
<1>1. \A w \in Workers : pc[w] = "unborn"
  BY ThreadAssumption DEF Init, Threads
<1>2. Left = Workers
  BY <1>1 DEF Left
<1>3. 0 \in 0 .. Cardinality(Workers) /\ Cardinality(Workers) \in 0 .. Cardinality(Workers)
  BY WorkersCount
<1> QED
  BY <1>1, <1>2, <1>3, WorkersCount DEF Init, Counts

(* A step that ends neither before a store nor after it leaves the counts  *)
(* as they were.                                                           *)
LEMMA CountsKept ==
  ASSUME PcOK, Counts, NEW t \in Threads, NEW from, NEW to,
         Goto(t, from, to), from # "gone", to \notin {"gone", "store"},
         UNCHANGED <<cur_size, reg>>
  PROVE  Counts'
<1>1. Left' = Left
  BY DEF Left, Goto, PcOK, Threads
<1>2. \A w \in Workers : pc'[w] = "store" => pc[w] = "store"
  BY DEF Goto, PcOK, Threads
<1> QED
  BY <1>1, <1>2 DEF Counts

LEMMA CountsNext == PcOK /\ Counts /\ [Next]_vars => Counts'
<1> SUFFICES ASSUME PcOK, Counts, [Next]_vars PROVE Counts'
  OBVIOUS
<1> USE DEF poolVars
<1>1. ASSUME NEW w \in Workers, LoadCurSize(w)
      PROVE  Counts'
  <2>1. Left' = Left
    BY <1>1 DEF Left, LoadCurSize, Goto, PcOK, Threads
  <2>2. \A v \in Workers : pc'[v] = "store" => v = w \/ pc[v] = "store"
    BY <1>1 DEF LoadCurSize, Goto, PcOK, Threads
  <2>3. reg' = [reg EXCEPT ![w] = cur_size] /\ cur_size' = cur_size
    BY <1>1 DEF LoadCurSize
  <2> QED
    BY <2>1, <2>2, <2>3 DEF Counts
<1>2. ASSUME NEW w \in Workers, StoreCurSize(w)
      PROVE  Counts'
  <2>1. Left' = Left \ {w} /\ w \in Left
    BY <1>2 DEF Left, StoreCurSize, Goto, PcOK, Threads
  <2>2. Cardinality(Left') = Cardinality(Left) - 1
    BY <2>1, LeftFinite, FS_RemoveElement
  <2>3. Cardinality(Left') \in Nat
    BY <2>1, LeftFinite, FS_Subset, FS_CardinalityType
  <2>4. pc[w] = "store" /\ cur_size' = reg[w] - 1 /\ reg' = reg
    BY <1>2 DEF StoreCurSize, Goto
  <2>5. /\ reg[w] \in 0 .. Cardinality(Workers)
        /\ Cardinality(Left) <= reg[w]
    BY <2>4 DEF Counts
  <2>6. /\ cur_size' \in 0 .. Cardinality(Workers)
        /\ Cardinality(Left') <= cur_size'
    BY <2>2, <2>3, <2>4, <2>5, LeftFinite, WorkersCount
  <2>7. \A v \in Workers : pc'[v] = "store" => pc[v] = "store"
    BY <1>2 DEF StoreCurSize, Goto, PcOK, Threads
  <2>8. \A v \in Workers : pc'[v] = "store" => Cardinality(Left') <= reg[v]
    <3> SUFFICES ASSUME NEW v \in Workers, pc'[v] = "store"
                 PROVE  Cardinality(Left') <= reg[v]
      OBVIOUS
    <3>1. Cardinality(Left) <= reg[v] /\ reg[v] \in Nat
      BY <2>7, WorkersCount DEF Counts
    <3> QED
      BY <3>1, <2>2, <2>3, LeftFinite
  <2> QED
    BY <2>4, <2>6, <2>8 DEF Counts
<1>3. ASSUME NEW w \in Workers, thr_start(w), ~LoadCurSize(w), ~StoreCurSize(w)
      PROVE  Counts'
  <2> USE CountsKept DEF Threads
  <2>1. CASE QueueLock(w) \/ Resume(w) \/ QuitNotSet(w) \/ ConWait(w)
    BY <2>1 DEF QueueLock, Resume, QuitNotSet, ConWait
  <2>2. CASE QuitSet(w) \/ QuitUnlock(w)
    BY <2>2 DEF QuitSet, QuitUnlock
  <2>3. CASE PopTask(w) \/ QueueUnlock(w) \/ RunTask(w)
    BY <2>3 DEF PopTask, QueueUnlock, RunTask
  <2> QED
    BY <1>3, <2>1, <2>2, <2>3 DEF thr_start
<1>4. CASE CreateThread
  BY <1>4, CountsKept DEF CreateThread, Threads
<1>5. CASE ThreadInitReturns \/ Push
  <2> USE CountsKept DEF Threads
  <2>1. CASE ThreadInitReturns \/ PushUnlock
    <3>1. PICK to \in {"lock", "quit"}, from \in {"create", "unlock"} :
            Goto(Main, from, to)
      BY <2>1 DEF ThreadInitReturns, PushUnlock
    <3> QED
      BY <2>1, <3>1 DEF ThreadInitReturns, PushUnlock
  <2>2. CASE PushLock \/ ProWait \/ PushTask \/ Resume(Main)
    BY <2>2 DEF PushLock, ProWait, PushTask, Resume
  <2> QED
    BY <1>5, <2>1, <2>2 DEF Push
<1>6. CASE SetQuitFlag \/ ThreadQuitReturns
  BY <1>6, CountsKept DEF SetQuitFlag, ThreadQuitReturns, Threads
<1>7. CASE ConWakeAll \/ (\E c \in Conds : Spurious(c)) \/ UNCHANGED vars
  <2>1. UNCHANGED <<pc, cur_size, reg>>
    BY <1>7 DEF ConWakeAll, Spurious, vars
  <2> QED
    BY <2>1 DEF Counts, Left
<1> QED
  BY <1>1, <1>2, <1>3, <1>4, <1>5, <1>6, <1>7 DEF Next, main, Create, ThreadQuit

-----------------------------------------------------------------------------
(* Where the tasks are.  Those in the queue and in the workers' hands have *)
(* been pushed, have not run, and are in one place only.                   *)
QueueOK == /\ queue \in Seq(Tasks)
           /\ IsInjective(queue)
           /\ \A k \in ToSet(queue) : k \in Tasks /\ k < i /\ ran[k] = 0

HandsOK == /\ task \in [Workers -> Tasks \cup {NoTask}]
           /\ \A w \in Workers : Running(w) =>
                /\ task[w] \in Tasks /\ task[w] < i /\ ran[task[w]] = 0
                /\ task[w] \notin ToSet(queue)
           /\ \A w, v \in Workers :
                w # v /\ Running(w) /\ Running(v) => task[w] # task[v]

RanOK == /\ ran \in [Tasks -> Nat]
         /\ \A k \in Tasks : ran[k] <= 1

(* A task that was not pushed has not run.                                 *)
FreshUnrun == \A k \in Tasks : ~(k < i) => ran[k] = 0

(* A task that was pushed is in the queue, in a worker's hands, or has run.*)
NoneLost == \A k \in Tasks : k < i =>
              \/ k \in ToSet(queue)
              \/ \E w \in Workers : Running(w) /\ task[w] = k
              \/ ran[k] = 1

(* A worker leaves when the flag is set and the queue is empty, for good.  *)
Out(w) == pc[w] \in {"leave", "load", "store", "gone"}
QuietAfterQuit == \A w \in Workers : Out(w) => quit_flag /\ queue = <<>>

TasksInv == QueueOK /\ HandsOK /\ RanOK /\ FreshUnrun /\ NoneLost /\ QuietAfterQuit

LEMMA TasksInit == Init => TasksInv
<1> SUFFICES ASSUME Init PROVE TasksInv
  OBVIOUS
<1>1. \A w \in Workers : pc[w] = "unborn"
  BY ThreadAssumption DEF Init, Threads
<1>2. queue = <<>> /\ queue \in Seq(Tasks) /\ ToSet(queue) = {} /\ IsInjective(queue)
  BY EmptySeq DEF Init, ToSet, IsInjective
<1>3. i = 0 /\ (\A k \in Tasks : ~(k < i)) /\ ran = [k \in Tasks |-> 0]
  BY TaskAssumption DEF Init, Tasks
<1>4. task \in [Workers -> Tasks \cup {NoTask}]
  BY DEF Init
<1> QED
  BY <1>1, <1>2, <1>3, <1>4
     DEF TasksInv, QueueOK, HandsOK, RanOK, FreshUnrun, NoneLost, QuietAfterQuit,
         Running, Out

(* A step that moves no task, and after which the threads that run a task  *)
(* or are on their way out are those that were before.                     *)
LEMMA TasksKept ==
  ASSUME TasksInv, UNCHANGED <<queue, i, task, ran>>, quit_flag => quit_flag',
         \A w \in Workers : Running(w)' <=> Running(w),
         \A w \in Workers : Out(w)' => Out(w) \/ (quit_flag /\ queue = <<>>)
  PROVE  TasksInv'
<1>1. QueueOK' /\ RanOK' /\ FreshUnrun'
  BY DEF TasksInv, QueueOK, RanOK, FreshUnrun
<1>2. HandsOK' /\ NoneLost'
  BY DEF TasksInv, HandsOK, NoneLost
<1>3. QuietAfterQuit'
  BY DEF TasksInv, QuietAfterQuit
<1> QED
  BY <1>1, <1>2, <1>3 DEF TasksInv

LEMMA TasksPush == PcOK /\ TasksInv /\ PushTask => TasksInv'
<1> SUFFICES ASSUME PcOK, TasksInv, PushTask PROVE TasksInv'
  OBVIOUS
<1>1. /\ queue' = Append(queue, i) /\ i' = i + 1
      /\ task' = task /\ ran' = ran /\ quit_flag' = quit_flag
  BY DEF PushTask
<1>2. i \in Tasks /\ i \in Nat /\ ~quit_flag
  BY TaskAssumption DEF PushTask, Goto, PcOK, Phase, Tasks
<1>3. \A w \in Workers : pc'[w] = pc[w]
  BY ThreadAssumption DEF PushTask, Goto, PcOK, Threads
<1>4. \A w \in Workers : Running(w)' <=> Running(w)
  BY <1>3 DEF Running
<1>5. i \notin ToSet(queue)
  BY <1>2 DEF TasksInv, QueueOK
<1>6. /\ queue' \in Seq(Tasks) /\ IsInjective(queue')
      /\ ToSet(queue') = ToSet(queue) \cup {i}
  BY <1>1, <1>2, <1>5, AppendSet, AppendProperties DEF TasksInv, QueueOK
<1>7. \A k \in Tasks : k \in Nat /\ (k < i => k < i + 1) /\ (k < i + 1 => k < i \/ k = i)
  BY <1>2, TaskAssumption DEF Tasks
<1>8. ran[i] = 0
  <2>1. i \notin ToSet(queue) /\ ~(i < i)
    BY <1>2, <1>5
  <2> QED
    BY <1>2, <2>1 DEF TasksInv, FreshUnrun
<1>9. QueueOK'
  <2>1. ASSUME NEW k \in ToSet(queue')
        PROVE  k \in Tasks /\ k < i + 1 /\ ran[k] = 0
    <3>1. CASE k = i
      BY <1>2, <1>8, <3>1
    <3>2. CASE k \in ToSet(queue)
      BY <1>7, <3>2 DEF TasksInv, QueueOK
    <3> QED
      BY <1>6, <3>1, <3>2
  <2> QED
    BY <1>1, <1>6, <2>1 DEF QueueOK
<1>10. HandsOK'
  <2>1. \A w \in Workers : Running(w) => task[w] # i
    BY <1>2 DEF TasksInv, HandsOK
  <2> QED
    BY <1>1, <1>4, <1>6, <1>7, <2>1 DEF TasksInv, HandsOK
<1>11. NoneLost'
  BY <1>1, <1>4, <1>6, <1>7 DEF TasksInv, NoneLost
<1>12. QuietAfterQuit'
  BY <1>2, <1>3 DEF TasksInv, QuietAfterQuit, Out
<1> QED
  <2>1. RanOK' /\ FreshUnrun'
    BY <1>1, <1>7 DEF TasksInv, RanOK, FreshUnrun
  <2> QED
    BY <1>9, <1>10, <1>11, <1>12, <2>1 DEF TasksInv

LEMMA TasksPop == PcOK /\ TasksInv /\ (\E w \in Workers : PopTask(w)) => TasksInv'
<1> SUFFICES ASSUME PcOK, TasksInv, NEW w \in Workers, PopTask(w) PROVE TasksInv'
  OBVIOUS
<1>1. /\ queue # <<>> /\ queue' = Tail(queue)
      /\ task' = [task EXCEPT ![w] = Head(queue)]
      /\ i' = i /\ ran' = ran /\ quit_flag' = quit_flag
  BY DEF PopTask
<1>2. /\ Head(queue) \in ToSet(queue)
      /\ queue' \in Seq(Tasks) /\ IsInjective(queue')
      /\ ToSet(queue') = ToSet(queue) \ {Head(queue)}
  BY <1>1, TailSet, HeadTailProperties DEF TasksInv, QueueOK
<1>3. /\ Head(queue) \in Tasks /\ Head(queue) < i /\ ran[Head(queue)] = 0
  BY <1>2 DEF TasksInv, QueueOK
<1>4. /\ pc[w] = "test" /\ pc'[w] = "unlock"
      /\ \A v \in Workers : v # w => pc'[v] = pc[v]
  BY DEF PopTask, Goto, PcOK, Threads
<1>5. /\ ~Running(w) /\ Running(w)'
      /\ \A v \in Workers : v # w => (Running(v)' <=> Running(v))
  BY <1>4 DEF Running
<1>6. /\ task'[w] = Head(queue)
      /\ \A v \in Workers : v # w => task'[v] = task[v]
      /\ task' \in [Workers -> Tasks \cup {NoTask}]
  BY <1>1, <1>3 DEF TasksInv, HandsOK
<1>7. QueueOK' /\ RanOK' /\ FreshUnrun'
  BY <1>1, <1>2 DEF TasksInv, QueueOK, RanOK, FreshUnrun
<1>8. HandsOK'
  <2>1. ASSUME NEW v \in Workers, Running(v)'
        PROVE  /\ task'[v] \in Tasks /\ task'[v] < i /\ ran[task'[v]] = 0
               /\ task'[v] \notin ToSet(queue')
    BY <1>2, <1>3, <1>5, <1>6, <2>1 DEF TasksInv, HandsOK
  <2>2. ASSUME NEW v \in Workers, NEW u \in Workers, v # u, Running(v)', Running(u)'
        PROVE  task'[v] # task'[u]
    BY <1>2, <1>5, <1>6, <2>2 DEF TasksInv, HandsOK
  <2> QED
    BY <1>1, <1>6, <2>1, <2>2 DEF HandsOK
<1>9. NoneLost'
  <2> SUFFICES ASSUME NEW k \in Tasks, k < i, k \notin ToSet(queue'), ran[k] # 1
               PROVE  \E v \in Workers : Running(v)' /\ task'[v] = k
    BY <1>1 DEF NoneLost
  <2>1. CASE k = Head(queue)
    BY <2>1, <1>5, <1>6
  <2>2. CASE k # Head(queue)
    BY <2>2, <1>2, <1>5, <1>6 DEF TasksInv, NoneLost
  <2> QED
    BY <2>1, <2>2
<1>10. QuietAfterQuit'
  BY <1>1, <1>4 DEF TasksInv, QuietAfterQuit, Out
<1> QED
  BY <1>7, <1>8, <1>9, <1>10 DEF TasksInv

LEMMA TasksRun == PcOK /\ TasksInv /\ (\E w \in Workers : RunTask(w)) => TasksInv'
<1> SUFFICES ASSUME PcOK, TasksInv, NEW w \in Workers, RunTask(w) PROVE TasksInv'
  OBVIOUS
<1>1. /\ pc[w] = "run" /\ pc'[w] = "lock"
      /\ \A v \in Workers : v # w => pc'[v] = pc[v]
      /\ UNCHANGED <<queue, i, task, quit_flag>>
      /\ ran' = [ran EXCEPT ![task[w]] = ran[task[w]] + 1]
  BY DEF RunTask, Goto, PcOK, Threads
<1>2. /\ Running(w) /\ ~Running(w)'
      /\ \A v \in Workers : v # w => (Running(v)' <=> Running(v))
  BY <1>1 DEF Running
<1>3. /\ task[w] \in Tasks /\ task[w] < i /\ ran[task[w]] = 0
      /\ task[w] \notin ToSet(queue)
      /\ \A v \in Workers : v # w /\ Running(v) => task[v] # task[w]
  BY <1>2 DEF TasksInv, HandsOK
<1>4. /\ ran' \in [Tasks -> Nat] /\ ran'[task[w]] = 1
      /\ \A k \in Tasks : k # task[w] => ran'[k] = ran[k]
  BY <1>1, <1>3 DEF TasksInv, RanOK
<1>5. QueueOK'
  BY <1>1, <1>3, <1>4 DEF TasksInv, QueueOK
<1>6. HandsOK'
  BY <1>1, <1>2, <1>3, <1>4 DEF TasksInv, HandsOK
<1>7. RanOK'
  <2>1. \A k \in Tasks : ran'[k] <= 1
    BY <1>4 DEF TasksInv, RanOK
  <2> QED
    BY <1>4, <2>1 DEF RanOK
<1>8. FreshUnrun'
  BY <1>1, <1>3, <1>4 DEF TasksInv, FreshUnrun
<1>9. NoneLost'
  <2> SUFFICES ASSUME NEW k \in Tasks, k < i, k \notin ToSet(queue), ran'[k] # 1
               PROVE  \E v \in Workers : Running(v)' /\ task[v] = k
    BY <1>1 DEF NoneLost
  <2>1. k # task[w] /\ ran[k] # 1
    BY <1>4
  <2> QED
    BY <1>2, <2>1 DEF TasksInv, NoneLost
<1>10. QuietAfterQuit'
  BY <1>1 DEF TasksInv, QuietAfterQuit, Out
<1> QED
  BY <1>5, <1>6, <1>7, <1>8, <1>9, <1>10 DEF TasksInv

LEMMA TasksNext == PcOK /\ TasksInv /\ [Next]_vars => TasksInv'
<1> SUFFICES ASSUME PcOK, TasksInv, [Next]_vars PROVE TasksInv'
  OBVIOUS
<1> USE DEF poolVars
<1>1. ASSUME NEW t \in Threads, NEW from, NEW to, Goto(t, from, to),
             UNCHANGED <<queue, i, task, ran>>, quit_flag => quit_flag',
             from \in {"unlock", "run"} <=> to \in {"unlock", "run"},
             to \in {"leave", "load", "store", "gone"} =>
               from \in {"leave", "load", "store", "gone"} \/ (quit_flag /\ queue = <<>>)
      PROVE  TasksInv'
  <2>1. \A w \in Workers : Running(w)' <=> Running(w)
    BY <1>1 DEF Running, Goto, PcOK, Threads
  <2>2. \A w \in Workers : Out(w)' => Out(w) \/ (quit_flag /\ queue = <<>>)
    BY <1>1 DEF Out, Goto, PcOK, Threads
  <2> QED
    BY <1>1, <2>1, <2>2, TasksKept
<1>2. ASSUME NEW w \in Workers, thr_start(w), ~PopTask(w), ~RunTask(w)
      PROVE  TasksInv'
  <2> USE <1>1 DEF Threads
  <2>1. CASE QueueLock(w) \/ Resume(w) \/ QuitNotSet(w) \/ ConWait(w)
    BY <2>1 DEF QueueLock, Resume, QuitNotSet, ConWait
  <2>2. CASE QuitSet(w) \/ QuitUnlock(w) \/ QueueUnlock(w)
    BY <2>2 DEF QuitSet, QuitUnlock, QueueUnlock
  <2>3. CASE LoadCurSize(w) \/ StoreCurSize(w)
    BY <2>3 DEF LoadCurSize, StoreCurSize
  <2> QED
    BY <1>2, <2>1, <2>2, <2>3 DEF thr_start
<1>3. CASE CreateThread
  BY <1>3, <1>1 DEF CreateThread, Threads
<1>4. ASSUME main, ~CreateThread, ~PushTask
      PROVE  TasksInv'
  <2>1. /\ UNCHANGED <<queue, i, task, ran>> /\ (quit_flag => quit_flag')
        /\ \A w \in Workers : pc'[w] = pc[w]
    BY <1>4, ThreadAssumption
       DEF main, Create, Push, ThreadQuit, ThreadInitReturns, PushLock, ProWait,
           PushUnlock, Resume, SetQuitFlag, ConWakeAll, ThreadQuitReturns, Goto,
           PcOK, Threads
  <2> QED
    BY <2>1, TasksKept DEF Running, Out
<1>5. CASE (\E c \in Conds : Spurious(c)) \/ UNCHANGED vars
  BY <1>5, TasksKept DEF Spurious, vars, Running, Out
<1> QED
  BY <1>2, <1>3, <1>4, <1>5, TasksPush, TasksPop, TasksRun DEF Next, main, Create

-----------------------------------------------------------------------------
Inv == PcOK /\ Counts /\ TasksInv
DoneMeansZero == pc[Main] = "done" => cur_size <= 0

LEMMA InvHolds == Spec => []Inv
BY PcInit, CountsInit, TasksInit, PcNext, CountsNext, TasksNext, PTL DEF Spec, Inv

(* A task is in one place, and is run at most once.                        *)
THEOREM TasksRunOnce == Spec => []TaskOnce
<1>1. Inv => TaskOnce
  BY DEF Inv, TasksInv, QueueOK, HandsOK, RanOK, TaskOnce
<1> QED
  BY <1>1, InvHolds, PTL

(* ThreadQuit returns when _cur_size is 0.  Counts says that no thread is  *)
(* left then; a thread that has gone found the flag set and the queue      *)
(* empty, so every task had been pushed and popped, and, nobody having one *)
(* in hand, run.                                                           *)
THEOREM QuitIsSafe == Spec => []QuitSafe
<1>1. Inv /\ DoneMeansZero => QuitSafe
  <2> SUFFICES ASSUME Inv, DoneMeansZero, pc[Main] = "done"
               PROVE  Left = {} /\ queue = <<>> /\ \A k \in Tasks : ran[k] = 1
    BY DEF QuitSafe
  <2>1. Left = {}
    <3>1. Cardinality(Left) = 0
      BY LeftFinite, WorkersCount DEF Inv, Counts, DoneMeansZero
    <3> QED
      BY <3>1, LeftFinite, FS_EmptySet
  <2>2. queue = <<>>
    <3>1. \E w \in Workers : Out(w)
      BY <2>1, ThreadAssumption DEF Left, Out
    <3> QED
      BY <3>1 DEF Inv, TasksInv, QuietAfterQuit
  <2>3. ASSUME NEW k \in Tasks PROVE ran[k] = 1
    <3>1. k < i
      BY TaskAssumption DEF Inv, PcOK, Phase, Tasks
    <3>2. k \notin ToSet(queue)
      BY <2>2, EmptySeq DEF ToSet
    <3>3. \A w \in Workers : ~Running(w)
      BY <2>1 DEF Left, Running
    <3> QED
      BY <3>1, <3>2, <3>3 DEF Inv, TasksInv, NoneLost
  <2> QED
    BY <2>1, <2>2, <2>3
<1>2. Init => DoneMeansZero
  BY ThreadAssumption DEF Init, DoneMeansZero, Threads
<1>3. Inv /\ DoneMeansZero /\ [Next]_vars => DoneMeansZero'
  <2> SUFFICES ASSUME Inv, DoneMeansZero, [Next]_vars, pc'[Main] = "done"
               PROVE  cur_size' <= 0
    BY DEF DoneMeansZero
  <2>1. CASE pc[Main] = "done"
    <3>1. UNCHANGED cur_size
      BY <2>1 DEF Next, main, Create, CreateThread, ThreadInitReturns, Push,
            PushLock, ProWait, PushTask, PushUnlock, Resume, ThreadQuit,
            SetQuitFlag, ConWakeAll, ThreadQuitReturns, thr_start, QueueLock,
            QuitNotSet, ConWait, QuitSet, QuitUnlock, LoadCurSize, StoreCurSize,
            PopTask, QueueUnlock, RunTask, Spurious, Goto, vars, poolVars
    <3> QED
      BY <2>1, <3>1 DEF DoneMeansZero
  <2>2. CASE pc[Main] # "done"
    <3>1. ThreadQuitReturns
      BY <2>2, ThreadAssumption
         DEF Next, main, Create, CreateThread, ThreadInitReturns, Push,
            PushLock, ProWait, PushTask, PushUnlock, Resume, ThreadQuit,
            SetQuitFlag, ConWakeAll, thr_start, QueueLock,
            QuitNotSet, ConWait, QuitSet, QuitUnlock, LoadCurSize, StoreCurSize,
            PopTask, QueueUnlock, RunTask, Spurious, Goto, vars,
            Inv, PcOK, Threads
    <3> QED
      BY <3>1 DEF ThreadQuitReturns, poolVars
  <2> QED
    BY <2>1, <2>2
<1> QED
  BY <1>1, <1>2, <1>3, InvHolds, PTL DEF Spec

-----------------------------------------------------------------------------
(* The rest of the type invariant: mutex, sleepers and the queue's bound.  *)
MonitorOK == /\ mutex \in Threads \cup {NoThread}
             /\ sleepers \in [Conds -> SUBSET Threads]
             /\ sleepers["pro"] \subseteq {Main}
             /\ sleepers["con"] \subseteq Workers
             /\ queue \in Seq(Tasks) /\ Len(queue) <= Capacity

LEMMA MonitorStart == Init => MonitorOK
<1>1. <<>> \in Seq(Tasks) /\ Len(<<>>) = 0
  BY EmptySeq
<1> QED
  BY <1>1, TaskAssumption DEF Init, MonitorInit, MonitorOK, Conds, Threads

LEMMA MonitorNext == Inv /\ MonitorOK /\ [Next]_vars => MonitorOK'
<1> SUFFICES ASSUME Inv, MonitorOK, [Next]_vars PROVE MonitorOK'
  OBVIOUS
<1> USE DEF poolVars
<1>1. ASSUME NEW t \in Threads, Lock(t) \/ Unlock(t), UNCHANGED <<sleepers, queue>>
      PROVE  MonitorOK'
  BY <1>1 DEF MonitorOK, Lock, Unlock
<1>2. ASSUME UNCHANGED <<mutex, sleepers, queue>>
      PROVE  MonitorOK'
  BY <1>2 DEF MonitorOK
<1>3. CASE ProWait \/ \E w \in Workers : ConWait(w)
  BY <1>3 DEF ProWait, ConWait, CondWait, Unlock, MonitorOK, Conds, Threads
<1>4. CASE PushTask
  <2>1. /\ queue' = Append(queue, i) /\ i \in Tasks /\ Len(queue) # Capacity
        /\ mutex' = mutex /\ Signal("con")
    BY <1>4, TaskAssumption
       DEF PushTask, QueueIsfull, ConWakeUp, Goto, Inv, PcOK, Phase, Tasks
  <2>2. queue' \in Seq(Tasks) /\ Len(queue') <= Capacity
    BY <2>1, AppendProperties, TaskAssumption DEF MonitorOK
  <2> QED
    BY <2>1, <2>2, SignalShrinks DEF MonitorOK, Conds
<1>5. ASSUME NEW w \in Workers, PopTask(w)
      PROVE  MonitorOK'
  <2>1. queue # <<>> /\ queue' = Tail(queue) /\ mutex' = mutex /\ Signal("pro")
    BY <1>5 DEF PopTask, ProWakeUp
  <2>2. queue' \in Seq(Tasks) /\ Len(queue') <= Capacity
    BY <2>1, HeadTailProperties, TaskAssumption DEF MonitorOK
  <2> QED
    BY <2>1, <2>2, SignalShrinks DEF MonitorOK, Conds
<1>6. CASE ConWakeAll \/ \E c \in Conds : Spurious(c)
  <2>1. /\ UNCHANGED <<mutex, queue>>
        /\ sleepers' \in [Conds -> SUBSET Threads]
        /\ \A d \in Conds : sleepers'[d] \subseteq sleepers[d]
    BY <1>6 DEF ConWakeAll, Broadcast, Spurious, SpuriousWakeUp, WakeUp, MonitorOK
  <2> QED
    BY <2>1 DEF MonitorOK, Conds
<1>7. ASSUME NEW w \in Workers, thr_start(w), ~PopTask(w), ~ConWait(w)
      PROVE  MonitorOK'
  <2>1. CASE QueueLock(w) \/ Resume(w) \/ QuitUnlock(w) \/ QueueUnlock(w)
    BY <2>1, <1>1 DEF QueueLock, Resume, QuitUnlock, QueueUnlock, Threads
  <2>2. CASE QuitNotSet(w) \/ QuitSet(w) \/ LoadCurSize(w) \/ StoreCurSize(w)
               \/ RunTask(w)
    BY <2>2, <1>2 DEF QuitNotSet, QuitSet, LoadCurSize, StoreCurSize, RunTask
  <2> QED
    BY <1>7, <2>1, <2>2 DEF thr_start
<1>8. ASSUME main, ~ProWait, ~PushTask, ~ConWakeAll
      PROVE  MonitorOK'
  <2>1. CASE PushLock \/ PushUnlock \/ Resume(Main)
    BY <2>1, <1>1 DEF PushLock, PushUnlock, Resume, Threads
  <2>2. CASE Create \/ SetQuitFlag \/ ThreadQuitReturns
    BY <2>2, <1>2
       DEF Create, CreateThread, ThreadInitReturns, SetQuitFlag, ThreadQuitReturns
  <2> QED
    BY <1>8, <2>1, <2>2 DEF main, Push, ThreadQuit
<1> QED
  BY <1>2, <1>3, <1>4, <1>5, <1>6, <1>7, <1>8 DEF Next, vars

(* Every variable keeps its range.  That _cur_size stays within 0 ..       *)
(* _max_size is the part that needs Counts.                                *)
THEOREM TypeCorrect == Spec => []TypeOK
<1>1. Inv /\ MonitorOK => TypeOK
  BY DEF Inv, PcOK, Phase, Counts, TasksInv, HandsOK, RanOK, MonitorOK, TypeOK
<1> QED
  BY <1>1, InvHolds, MonitorStart, MonitorNext, PTL DEF Spec

-----------------------------------------------------------------------------
(* The wakeups.  Who is inside the queue's calls holds the mutex, so the   *)
(* queue is still empty when a worker goes to sleep; and only those who    *)
(* called pthread_cond_wait are asleep.                                    *)
InCall(t) == pc[t] \in {"test", "wait", "unlock", "leave"}
Exclusion == \A t \in Threads : InCall(t) => mutex = t
WaitsOnEmpty == \A w \in Workers : pc[w] = "wait" => queue = <<>>
SleepersWait == \A c \in Conds : \A t \in sleepers[c] : pc[t] = "asleep"
WakeupInv == Exclusion /\ WaitsOnEmpty /\ SleepersWait /\ NoLostWakeup

Up == Busy \ sleepers["con"]

LEMMA UpFinite == /\ IsFiniteSet(Up) /\ Cardinality(Up) \in Nat
                  /\ IsFiniteSet(Up') /\ Cardinality(Up') \in Nat
<1>1. Up \subseteq Workers /\ Up' \subseteq Workers
  BY DEF Up, Busy
<1> QED
  BY <1>1, ThreadAssumption, FS_Subset, FS_CardinalityType

LEMMA WakeupStart == Init => WakeupInv
<1> SUFFICES ASSUME Init PROVE WakeupInv
  OBVIOUS
<1>1. \A t \in Threads : pc[t] \in {"create", "unborn"}
  BY DEF Init
<1>2. sleepers = [c \in Conds |-> {}]
  BY DEF Init, MonitorInit
<1>3. \A w \in Workers : w \in Threads
  BY DEF Threads
<1> QED
  BY <1>1, <1>2, <1>3
     DEF WakeupInv, Exclusion, InCall, WaitsOnEmpty, SleepersWait, NoLostWakeup, Conds

(* Whoever moves inside the mutex is alone there, whoever moves outside    *)
(* does not get in without it.                                             *)
LEMMA ExclusionNext == Inv /\ MonitorOK /\ Exclusion /\ [Next]_vars => Exclusion'
<1> SUFFICES ASSUME Inv, MonitorOK, Exclusion, [Next]_vars PROVE Exclusion'
  OBVIOUS
<1> USE ThreadAssumption DEF poolVars
<1>1. ASSUME NEW t \in Threads, NEW from, NEW to, Goto(t, from, to),
             \/ Lock(t)
             \/ Unlock(t) /\ to \notin {"test", "wait", "unlock", "leave"}
             \/ mutex' = mutex /\ from = "test"
             \/ mutex' = mutex /\ to \notin {"test", "wait", "unlock", "leave"}
      PROVE  Exclusion'
  <2>1. \A u \in Threads : pc'[u] = IF u = t THEN to ELSE pc[u]
    BY <1>1 DEF Goto, Inv, PcOK
  <2>2. pc[t] = from
    BY <1>1 DEF Goto
  <2>3. CASE Lock(t)
    BY <2>1, <2>3 DEF Exclusion, InCall, Lock, Threads
  <2>4. CASE Unlock(t) /\ to \notin {"test", "wait", "unlock", "leave"}
    BY <2>1, <2>4 DEF Exclusion, InCall, Unlock
  <2>5. CASE mutex' = mutex /\ from = "test"
    BY <2>1, <2>2, <2>5 DEF Exclusion, InCall
  <2>6. CASE mutex' = mutex /\ to \notin {"test", "wait", "unlock", "leave"}
    BY <2>1, <2>6 DEF Exclusion, InCall
  <2> QED
    BY <1>1, <2>3, <2>4, <2>5, <2>6
<1>2. ASSUME NEW w \in Workers, thr_start(w) PROVE Exclusion'
  <2> USE <1>1 DEF Threads
  <2>1. CASE QueueLock(w) \/ Resume(w)
    BY <2>1 DEF QueueLock, Resume
  <2>2. CASE QuitNotSet(w) \/ QuitSet(w) \/ PopTask(w)
    BY <2>2 DEF QuitNotSet, QuitSet, PopTask
  <2>3. CASE ConWait(w) \/ QuitUnlock(w) \/ QueueUnlock(w)
    BY <2>3 DEF ConWait, CondWait, QuitUnlock, QueueUnlock
  <2>4. CASE LoadCurSize(w) \/ StoreCurSize(w) \/ RunTask(w)
    BY <2>4 DEF LoadCurSize, StoreCurSize, RunTask
  <2> QED
    BY <1>2, <2>1, <2>2, <2>3, <2>4 DEF thr_start
<1>3. ASSUME main, ~ConWakeAll PROVE Exclusion'
  <2> USE <1>1 DEF Threads
  <2>1. CASE CreateThread
    BY <2>1 DEF CreateThread
  <2>2. CASE ThreadInitReturns \/ PushUnlock
    <3>1. PICK to \in {"lock", "quit"}, from \in {"create", "unlock"} :
            Goto(Main, from, to)
      BY <2>2 DEF ThreadInitReturns, PushUnlock
    <3>2. Unlock(Main) \/ mutex' = mutex
      BY <2>2 DEF ThreadInitReturns, PushUnlock
    <3> QED
      BY <3>1, <3>2
  <2>3. CASE PushLock \/ Resume(Main)
    BY <2>3 DEF PushLock, Resume
  <2>4. CASE ProWait \/ PushTask
    BY <2>4 DEF ProWait, CondWait, PushTask
  <2>5. CASE SetQuitFlag \/ ThreadQuitReturns
    BY <2>5 DEF SetQuitFlag, ThreadQuitReturns
  <2> QED
    BY <1>3, <2>1, <2>2, <2>3, <2>4, <2>5 DEF main, Create, Push, ThreadQuit
<1>4. CASE ConWakeAll \/ (\E c \in Conds : Spurious(c)) \/ UNCHANGED vars
  BY <1>4 DEF ConWakeAll, Spurious, SpuriousWakeUp, vars, Exclusion, InCall
<1> QED
  BY <1>2, <1>3, <1>4 DEF Next

LEMMA SleepersNext ==
  Inv /\ MonitorOK /\ SleepersWait /\ [Next]_vars => SleepersWait'
<1> SUFFICES ASSUME Inv, MonitorOK, SleepersWait, [Next]_vars PROVE SleepersWait'
  OBVIOUS
<1> USE ThreadAssumption DEF poolVars
<1>1. ASSUME NEW t \in Threads, NEW from, NEW to, Goto(t, from, to),
             from = "asleep" => Awake(t),
             \A d \in Conds : sleepers'[d] \subseteq sleepers[d]
      PROVE  SleepersWait'
  BY <1>1 DEF Goto, Inv, PcOK, SleepersWait, MonitorOK, Awake
<1>2. ASSUME NEW t \in Threads, NEW from, Goto(t, from, "asleep"),
             NEW c \in Conds, CondWait(c, t)
      PROVE  SleepersWait'
  BY <1>2 DEF Goto, CondWait, Inv, PcOK, SleepersWait, MonitorOK
<1>3. ASSUME NEW w \in Workers, thr_start(w) PROVE SleepersWait'
  <2> USE <1>1 DEF Threads
  <2>1. CASE QueueLock(w) \/ Resume(w) \/ QuitNotSet(w) \/ QuitSet(w)
    BY <2>1 DEF QueueLock, Resume, QuitNotSet, QuitSet
  <2>2. CASE PopTask(w)
    BY <2>2, SignalShrinks DEF PopTask, ProWakeUp, MonitorOK, Conds
  <2>3. CASE ConWait(w)
    BY <1>2, <2>3 DEF ConWait, Conds
  <2>4. CASE QuitUnlock(w) \/ QueueUnlock(w) \/ LoadCurSize(w) \/ StoreCurSize(w)
               \/ RunTask(w)
    BY <2>4 DEF QuitUnlock, QueueUnlock, LoadCurSize, StoreCurSize, RunTask
  <2> QED
    BY <1>3, <2>1, <2>2, <2>3, <2>4 DEF thr_start
<1>4. ASSUME main, ~ConWakeAll PROVE SleepersWait'
  <2> USE <1>1 DEF Threads
  <2>1. CASE CreateThread
    BY <2>1 DEF CreateThread
  <2>2. CASE ThreadInitReturns \/ PushUnlock
    <3>1. PICK to \in {"lock", "quit"}, from \in {"create", "unlock"} :
            Goto(Main, from, to)
      BY <2>2 DEF ThreadInitReturns, PushUnlock
    <3> QED
      BY <2>2, <3>1 DEF ThreadInitReturns, PushUnlock
  <2>3. CASE PushLock \/ Resume(Main)
    BY <2>3 DEF PushLock, Resume
  <2>4. CASE ProWait
    BY <1>2, <2>4 DEF ProWait, Conds
  <2>5. CASE PushTask
    BY <2>5, SignalShrinks DEF PushTask, ConWakeUp, MonitorOK, Conds
  <2>6. CASE SetQuitFlag \/ ThreadQuitReturns
    BY <2>6 DEF SetQuitFlag, ThreadQuitReturns
  <2> QED
    BY <1>4, <2>1, <2>2, <2>3, <2>4, <2>5, <2>6 DEF main, Create, Push, ThreadQuit
<1>5. CASE ConWakeAll \/ (\E c \in Conds : Spurious(c))
  <2>1. pc' = pc /\ \A d \in Conds : sleepers'[d] \subseteq sleepers[d]
    BY <1>5 DEF ConWakeAll, Broadcast, Spurious, SpuriousWakeUp, WakeUp, MonitorOK
  <2> QED
    BY <2>1 DEF SleepersWait
<1>6. CASE UNCHANGED vars
  BY <1>6 DEF vars, SleepersWait
<1> QED
  BY <1>3, <1>4, <1>5, <1>6 DEF Next

(* No other thread is at the queue while a worker is about to wait.        *)
LEMMA WaitNext ==
  Inv /\ MonitorOK /\ Exclusion /\ WaitsOnEmpty /\ [Next]_vars => WaitsOnEmpty'
<1> SUFFICES ASSUME Inv, MonitorOK, Exclusion, WaitsOnEmpty, [Next]_vars,
                    NEW w \in Workers, pc'[w] = "wait"
             PROVE  queue' = <<>>
  BY DEF WaitsOnEmpty
<1>1. CASE pc[w] = "wait"
  <2>1. queue = <<>> /\ mutex = w /\ w \in Threads /\ w # Main
    BY <1>1, ThreadAssumption DEF WaitsOnEmpty, Exclusion, InCall, Threads
  <2>2. \A v \in Workers : pc[v] = "test" => mutex = v
    BY DEF Exclusion, InCall, Threads
  <2>3. pc[Main] = "test" => mutex = Main
    BY DEF Exclusion, InCall, Threads
  <2>4. UNCHANGED queue
    BY <1>1, <2>1, <2>2, <2>3
       DEF Next, main, Create, CreateThread, ThreadInitReturns, Push,
           PushLock, ProWait, PushTask, PushUnlock, Resume, ThreadQuit,
           SetQuitFlag, ConWakeAll, ThreadQuitReturns, thr_start, QueueLock,
           QuitNotSet, ConWait, QuitSet, QuitUnlock, LoadCurSize, StoreCurSize,
           PopTask, QueueUnlock, RunTask, Spurious, Goto, vars, poolVars
  <2> QED
    BY <2>1, <2>4
<1>2. CASE pc[w] # "wait"
  <2> USE DEF Goto, Inv, PcOK, Threads, poolVars
  <2>1. pc \in [Threads -> WorkerPlaces \cup MainPlaces] /\ w \in Threads /\ w # Main
    BY ThreadAssumption
  <2>2. ~main /\ (\A c \in Conds : ~Spurious(c)) /\ ~UNCHANGED vars
    BY <1>2, <2>1
       DEF main, Create, CreateThread, ThreadInitReturns, Push, PushLock, ProWait,
           PushTask, PushUnlock, Resume, ThreadQuit, SetQuitFlag, ConWakeAll,
           ThreadQuitReturns, Spurious, vars
  <2>3. ASSUME NEW v \in Workers, thr_start(v) PROVE QuitNotSet(w)
    BY <1>2, <2>1, <2>3
       DEF thr_start, QueueLock, Resume, ConWait, QuitNotSet, QuitSet, QuitUnlock,
           LoadCurSize, StoreCurSize, PopTask, QueueUnlock, RunTask
  <2>4. QuitNotSet(w)
    BY <2>2, <2>3 DEF Next
  <2> QED
    BY <2>4 DEF QuitNotSet
<1> QED
  BY <1>1, <1>2

(* A step that leaves the queue and main's sleep alone, and costs no       *)
(* worker that is up.                                                      *)
LEMMA WakeupKept ==
  ASSUME MonitorOK, NoLostWakeup, queue' = queue, Up \subseteq Up',
         sleepers'["con"] # {} => sleepers["con"] # {} \/ queue = <<>>,
         sleepers'["pro"] \subseteq sleepers["pro"]
  PROVE  NoLostWakeup'
<1>1. Cardinality(Up) <= Cardinality(Up')
  BY UpFinite, FS_Subset
<1>2. Len(queue) \in Nat /\ (queue = <<>> => Len(queue) = 0)
  BY EmptySeq DEF MonitorOK
<1> QED
  BY <1>1, <1>2, UpFinite DEF NoLostWakeup, Up

LEMMA WakeupNext == Inv /\ MonitorOK /\ WakeupInv /\ [Next]_vars => NoLostWakeup'
<1> SUFFICES ASSUME Inv, MonitorOK, WakeupInv, [Next]_vars PROVE NoLostWakeup'
  OBVIOUS
<1> USE ThreadAssumption DEF poolVars
<1>1. Len(queue) \in Nat /\ (queue = <<>> => Len(queue) = 0) /\ NoLostWakeup
  BY EmptySeq DEF MonitorOK, WakeupInv
<1>2. ASSUME queue' = queue, sleepers' = sleepers,
             NEW t \in Threads, NEW from, NEW to, Goto(t, from, to),
             \/ t = Main
             \/ to \in {"lock", "test", "wait", "unlock", "run"}
             \/ from \in {"leave", "load", "store"}
      PROVE  NoLostWakeup'
  <2>1. \A u \in Threads : pc'[u] = IF u = t THEN to ELSE pc[u]
    BY <1>2 DEF Goto, Inv, PcOK
  <2>2. Up \subseteq Up'
    BY <1>2, <2>1 DEF Up, Busy, Goto, Threads
  <2> QED
    BY <1>1, <1>2, <2>2, WakeupKept
<1>3. CASE PushTask
  <2>1. Len(queue') = Len(queue) + 1
    BY <1>3, AppendProperties, TaskAssumption
       DEF PushTask, MonitorOK, Goto, Inv, PcOK, Phase, Tasks
  <2>2. Main \notin sleepers'["pro"]
    <3>1. pc[Main] = "test" /\ sleepers'["pro"] = sleepers["pro"]
      BY <1>3, SignalShrinks DEF PushTask, ConWakeUp, Goto, MonitorOK, Conds
    <3> QED
      BY <3>1 DEF WakeupInv, SleepersWait, Conds
  <2>3. ASSUME sleepers'["con"] # {}
        PROVE  Len(queue') <= Cardinality(Up')
    <3>1. PICK t \in sleepers["con"] : sleepers'["con"] = sleepers["con"] \ {t}
      BY <1>3, <2>3 DEF PushTask, ConWakeUp, Signal, WakeUp, MonitorOK, Conds
    <3>2. t \in Busy /\ Busy' = Busy
      <4>1. t \in Workers /\ pc[t] = "asleep"
        BY <3>1 DEF WakeupInv, SleepersWait, MonitorOK, Conds
      <4>2. \A w \in Workers : pc'[w] = pc[w]
        BY <1>3 DEF PushTask, Goto, Inv, PcOK, Threads
      <4> QED
        BY <4>1, <4>2 DEF Busy
    <3>3. Up' = Up \cup {t} /\ t \notin Up
      BY <3>1, <3>2 DEF Up
    <3>4. Cardinality(Up') = Cardinality(Up) + 1
      BY <3>3, UpFinite, FS_AddElement
    <3> QED
      BY <1>1, <2>1, <3>1, <3>4, UpFinite DEF NoLostWakeup, Up
  <2> QED
    BY <2>2, <2>3 DEF NoLostWakeup, Up
<1>4. ASSUME NEW w \in Workers, PopTask(w) PROVE NoLostWakeup'
  <2>1. Len(queue') = Len(queue) - 1
    BY <1>4, HeadTailProperties DEF PopTask, MonitorOK
  <2>2. sleepers'["pro"] = {} /\ sleepers'["con"] = sleepers["con"]
    <3>1. sleepers'["con"] = sleepers["con"]
      BY <1>4, SignalShrinks DEF PopTask, ProWakeUp, MonitorOK, Conds
    <3>2. sleepers'["pro"] = {}
      BY <1>4 DEF PopTask, ProWakeUp, Signal, WakeUp, MonitorOK, Conds
    <3> QED
      BY <3>1, <3>2
  <2>3. Busy' = Busy
    BY <1>4 DEF PopTask, Goto, Inv, PcOK, Threads, Busy
  <2> QED
    BY <1>1, <2>1, <2>2, <2>3, UpFinite DEF NoLostWakeup, Up
<1>5. CASE ProWait
  <2>1. /\ queue' = queue /\ Len(queue) = Capacity
        /\ sleepers'["con"] = sleepers["con"]
    BY <1>5 DEF ProWait, CondWait, QueueIsfull, MonitorOK, Conds
  <2>2. Busy' = Busy
    BY <1>5 DEF ProWait, Goto, Inv, PcOK, Threads, Busy
  <2> QED
    BY <1>1, <2>1, <2>2 DEF NoLostWakeup
<1>6. ASSUME NEW w \in Workers, ConWait(w) PROVE NoLostWakeup'
  <2>1. /\ queue' = queue /\ queue = <<>>
        /\ sleepers'["pro"] = sleepers["pro"]
    BY <1>6 DEF ConWait, CondWait, Goto, WakeupInv, WaitsOnEmpty, MonitorOK, Conds
  <2> QED
    BY <1>1, <2>1, UpFinite DEF NoLostWakeup, Up
<1>7. ASSUME NEW w \in Workers, QuitSet(w) PROVE NoLostWakeup'
  BY <1>1, <1>7, UpFinite DEF QuitSet, NoLostWakeup, Up
<1>8. CASE ConWakeAll \/ \E c \in Conds : Spurious(c)
  <2>1. /\ queue' = queue /\ pc' = pc
        /\ \A d \in Conds : sleepers'[d] \subseteq sleepers[d]
    BY <1>8 DEF ConWakeAll, Broadcast, Spurious, SpuriousWakeUp, WakeUp, MonitorOK
  <2>2. Busy' = Busy /\ sleepers'["con"] \subseteq sleepers["con"]
    BY <2>1 DEF Busy, Conds
  <2>3. Up \subseteq Up'
    BY <2>2 DEF Up
  <2> QED
    BY <1>1, <2>1, <2>3, WakeupKept DEF Conds
<1>9. CASE UNCHANGED vars
  BY <1>1, <1>9 DEF vars, NoLostWakeup, Busy
<1>10. ASSUME NEW w \in Workers, thr_start(w), ~PopTask(w), ~ConWait(w), ~QuitSet(w)
       PROVE  NoLostWakeup'
  <2> USE <1>2 DEF Threads
  <2>1. CASE QueueLock(w) \/ Resume(w) \/ QuitNotSet(w)
    BY <2>1 DEF QueueLock, Resume, QuitNotSet
  <2>2. CASE QuitUnlock(w) \/ LoadCurSize(w) \/ StoreCurSize(w)
    BY <2>2 DEF QuitUnlock, LoadCurSize, StoreCurSize
  <2>3. CASE QueueUnlock(w) \/ RunTask(w)
    BY <2>3 DEF QueueUnlock, RunTask
  <2> QED
    BY <1>10, <2>1, <2>2, <2>3 DEF thr_start
<1>11. ASSUME main, ~PushTask, ~ProWait, ~ConWakeAll PROVE NoLostWakeup'
  <2> USE <1>2 DEF Threads
  <2>1. CASE CreateThread
    BY <2>1 DEF CreateThread
  <2>2. CASE ThreadInitReturns \/ PushUnlock
    <3>1. PICK to \in {"lock", "quit"}, from \in {"create", "unlock"} :
            Goto(Main, from, to)
      BY <2>2 DEF ThreadInitReturns, PushUnlock
    <3> QED
      BY <2>2, <3>1 DEF ThreadInitReturns, PushUnlock
  <2>3. CASE PushLock \/ Resume(Main)
    BY <2>3 DEF PushLock, Resume
  <2>4. CASE SetQuitFlag \/ ThreadQuitReturns
    BY <2>4 DEF SetQuitFlag, ThreadQuitReturns
  <2> QED
    BY <1>11, <2>1, <2>2, <2>3, <2>4 DEF main, Create, Push, ThreadQuit
<1> QED
  BY <1>3, <1>4, <1>5, <1>6, <1>7, <1>8, <1>9, <1>10, <1>11 DEF Next

(* No wakeup is lost in either direction: a worker sleeps only while       *)
(* others are up for every task in the queue, also the one that its own    *)
(* look at the flag delayed, and main only while the queue is full.        *)
THEOREM WakeupsSuffice == Spec => []NoLostWakeup
<1>1. Inv /\ MonitorOK /\ WakeupInv /\ [Next]_vars => WakeupInv'
  BY ExclusionNext, SleepersNext, WaitNext, WakeupNext DEF WakeupInv
<1>2. WakeupInv => NoLostWakeup
  BY DEF WakeupInv
<1> QED
  BY <1>1, <1>2, InvHolds, MonitorStart, MonitorNext, WakeupStart, PTL DEF Spec
=============================================================================
