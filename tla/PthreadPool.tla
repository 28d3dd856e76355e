---------------------------- MODULE PthreadPool ----------------------------
(***************************************************************************)
(* The thread pool of pthread_pool.cpp and its main, which creates the     *)
(* pool, pushes its tasks and quits.                                       *)
(*                                                                         *)
(* Two fields are shared without the mutex: _quit_flag, which main sets    *)
(* and workers read inside Con_wait, and _cur_size, which every exiting    *)
(* worker decrements after it has unlocked.  The decrement is a load and   *)
(* a store.                                                                *)
(*                                                                         *)
(* A worker is at "lock", "test" (the while loop, with the mutex), "wait"  *)
(* (in Con_wait, the flag found false), "asleep", "unlock", "run", or, on  *)
(* its way out, "leave", "load", "store", "gone".  main is at "create",    *)
(* "lock", "test", "asleep", "unlock", "quit", "drain", "done".            *)
(***************************************************************************)
EXTENDS Integers, Sequences, SequencesExt, FiniteSets

CONSTANTS Workers,      \* the threads ThreadInit sets out to create
          Main,
          Capacity,     \* _capacity
          NumTasks,     \* the tasks main pushes
          NoThread, NoTask

ASSUME ThreadAssumption == /\ IsFiniteSet(Workers) /\ Workers # {}
                           /\ Main \notin Workers
                           /\ NoThread \notin Workers \cup {Main}
ASSUME TaskAssumption == /\ Capacity \in Nat \ {0} /\ NumTasks \in Nat
                         /\ NoTask \notin 0 .. NumTasks - 1

VARIABLES mutex, sleepers,
          queue,        \* _queue
          cur_size,     \* _cur_size
          quit_flag,    \* _quit_flag
          i,            \* main's loop counter: the tasks pushed so far
          task,         \* task of each worker
          reg,          \* [Workers -> the value of _cur_size it has loaded]
          ran,          \* history: [tasks -> how often it was run]
          pc

vars == <<mutex, sleepers, queue, cur_size, quit_flag, i, task, reg, ran, pc>>

Tasks == 0 .. NumTasks - 1
Threads == Workers \cup {Main}
Conds == {"pro", "con"}     \* _pro_con, _con_con

INSTANCE Monitor

Init == /\ MonitorInit
        /\ queue = <<>>
        /\ cur_size = Cardinality(Workers)
        /\ quit_flag = FALSE
        /\ i = 0
        /\ task = [w \in Workers |-> NoTask]
        /\ reg = [w \in Workers |-> 0]
        /\ ran = [k \in Tasks |-> 0]
        /\ pc = [t \in Threads |-> IF t = Main THEN "create" ELSE "unborn"]

(* When main returns the process ends, and every thread with it.           *)
Goto(t, from, to) == /\ pc[Main] # "done"
                     /\ pc[t] = from /\ pc' = [pc EXCEPT ![t] = to]

poolVars == <<queue, cur_size, quit_flag, i, task, reg, ran>>

-----------------------------------------------------------------------------
(* ThreadInit                                                              *)
CreateThread == \E w \in Workers : /\ pc[Main] = "create"
                                   /\ Goto(w, "unborn", "lock")
                                   /\ UNCHANGED <<mutex, sleepers, poolVars>>

(* The loop is over, or pthread_create failed: main does not look at the   *)
(* result of ThreadInit and goes on.                                       *)
ThreadInitReturns ==
  /\ Goto(Main, "create", IF NumTasks = 0 THEN "quit" ELSE "lock")
  /\ UNCHANGED <<mutex, sleepers, poolVars>>

-----------------------------------------------------------------------------
(* PushTask, called by main                                                *)
FullOneLate == Len(queue) > Capacity                              \* mutant
QueueIsfull == Len(queue) = Capacity

ConWakeIfEmpty == IF queue = <<>> THEN Signal("con")              \* mutant
                                  ELSE UNCHANGED sleepers
ConWakeUp == Signal("con")
ProWakeUp == Signal("pro")

PushLock == /\ ~quit_flag
            /\ Goto(Main, "lock", "test") /\ Lock(Main)
            /\ UNCHANGED <<sleepers, poolVars>>

ProWait == /\ QueueIsfull
           /\ Goto(Main, "test", "asleep") /\ CondWait("pro", Main)
           /\ UNCHANGED poolVars

PushTask == /\ ~QueueIsfull
            /\ Goto(Main, "test", "unlock")
            /\ queue' = Append(queue, i)
            /\ i' = i + 1
            /\ ConWakeUp
            /\ UNCHANGED <<mutex, cur_size, quit_flag, task, reg, ran>>

PushUnlock == /\ Goto(Main, "unlock", IF i < NumTasks THEN "lock" ELSE "quit")
              /\ Unlock(Main)
              /\ UNCHANGED <<sleepers, poolVars>>

-----------------------------------------------------------------------------
(* ThreadQuit, called by main                                              *)
SetQuitFlag == /\ Goto(Main, "quit", "drain")
               /\ quit_flag' = TRUE
               /\ UNCHANGED <<mutex, sleepers, queue, cur_size, i, task, reg, ran>>

WakeProducers == /\ pc[Main] = "drain" /\ cur_size > 0            \* mutant
                 /\ Broadcast("pro")
                 /\ UNCHANGED <<mutex, poolVars, pc>>
ConWakeAll == /\ pc[Main] = "drain" /\ cur_size > 0
              /\ Broadcast("con")
              /\ UNCHANGED <<mutex, poolVars, pc>>

QuitOneEarly == /\ cur_size <= 1                                  \* mutant
                /\ Goto(Main, "drain", "done")
                /\ UNCHANGED <<mutex, sleepers, poolVars>>
ThreadQuitReturns == /\ cur_size <= 0
                     /\ Goto(Main, "drain", "done")
                     /\ UNCHANGED <<mutex, sleepers, poolVars>>

-----------------------------------------------------------------------------
(* thr_start                                                               *)
QueueLock(w) == /\ Goto(w, "lock", "test") /\ Lock(w)
                /\ UNCHANGED <<sleepers, poolVars>>

Resume(t) == /\ Goto(t, "asleep", "test") /\ Awake(t) /\ Lock(t)
             /\ UNCHANGED <<sleepers, poolVars>>

(* Con_wait looks at the flag, and only then calls pthread_cond_wait.      *)
QuitNotSet(w) == /\ queue = <<>> /\ ~quit_flag
                 /\ Goto(w, "test", "wait")
                 /\ UNCHANGED <<mutex, sleepers, poolVars>>

ConWait(w) == /\ Goto(w, "wait", "asleep") /\ CondWait("con", w)
              /\ UNCHANGED poolVars

QuitWithTasks(w) == /\ quit_flag                                  \* mutant
                    /\ Goto(w, "test", "leave")
                    /\ UNCHANGED <<mutex, sleepers, poolVars>>
QuitSet(w) == /\ queue = <<>> /\ quit_flag
              /\ Goto(w, "test", "leave")
              /\ UNCHANGED <<mutex, sleepers, poolVars>>

QuitUnlock(w) == /\ Goto(w, "leave", "load") /\ Unlock(w)
                 /\ UNCHANGED <<sleepers, poolVars>>

LoadCurSize(w) == /\ Goto(w, "load", "store")
                  /\ reg' = [reg EXCEPT ![w] = cur_size]
                  /\ UNCHANGED <<mutex, sleepers, queue, cur_size, quit_flag,
                                 i, task, ran>>

StoreCurSize(w) == /\ Goto(w, "store", "gone")
                   /\ cur_size' = reg[w] - 1
                   /\ UNCHANGED <<mutex, sleepers, queue, quit_flag, i, task,
                                  reg, ran>>

TopTask(w) == /\ queue # <<>>                                     \* mutant
              /\ Goto(w, "test", "unlock")
              /\ task' = [task EXCEPT ![w] = Head(queue)]
              /\ ProWakeUp
              /\ UNCHANGED <<mutex, queue, cur_size, quit_flag, i, reg, ran>>
PopTask(w) == /\ queue # <<>>
              /\ Goto(w, "test", "unlock")
              /\ task' = [task EXCEPT ![w] = Head(queue)]
              /\ queue' = Tail(queue)
              /\ ProWakeUp
              /\ UNCHANGED <<mutex, cur_size, quit_flag, i, reg, ran>>

QueueUnlock(w) == /\ Goto(w, "unlock", "run") /\ Unlock(w)
                  /\ UNCHANGED <<sleepers, poolVars>>

RunTask(w) == /\ Goto(w, "run", "lock")
              /\ ran' = [ran EXCEPT ![task[w]] = @ + 1]
              /\ UNCHANGED <<mutex, sleepers, queue, cur_size, quit_flag, i,
                             task, reg>>

Spurious(c) == pc[Main] # "done" /\ SpuriousWakeUp(c) /\ UNCHANGED <<poolVars, pc>>

-----------------------------------------------------------------------------
Create == CreateThread \/ ThreadInitReturns
Push == PushLock \/ ProWait \/ PushTask \/ PushUnlock \/ Resume(Main)
ThreadQuit == SetQuitFlag \/ ConWakeAll \/ ThreadQuitReturns
main == Create \/ Push \/ ThreadQuit
thr_start(w) == \/ QueueLock(w) \/ Resume(w) \/ QuitNotSet(w) \/ ConWait(w)
                \/ QuitSet(w) \/ QuitUnlock(w) \/ LoadCurSize(w) \/ StoreCurSize(w)
                \/ PopTask(w) \/ QueueUnlock(w) \/ RunTask(w)

Next == main \/ (\E w \in Workers : thr_start(w)) \/ (\E c \in Conds : Spurious(c))

Spec == Init /\ [][Next]_vars

(* Every thread keeps running; a lock request is granted in the end, and   *)
(* main's loop broadcasts again and again.                                 *)
FairSpec == /\ Spec
            /\ WF_vars(Create) /\ SF_vars(Push)
            /\ WF_vars(SetQuitFlag) /\ WF_vars(ConWakeAll) /\ WF_vars(ThreadQuitReturns)
            /\ \A w \in Workers : SF_vars(thr_start(w))

-----------------------------------------------------------------------------
WorkerPlaces == {"unborn", "lock", "test", "wait", "asleep", "unlock", "run",
                 "leave", "load", "store", "gone"}
MainPlaces == {"create", "lock", "test", "asleep", "unlock", "quit", "drain", "done"}

(* Every variable keeps its range: the queue within _capacity, and _cur_size*)
(* between 0 and _max_size.                                                *)
TypeOK == /\ mutex \in Threads \cup {NoThread}
          /\ sleepers \in [Conds -> SUBSET Threads]
          /\ sleepers["pro"] \subseteq {Main} /\ sleepers["con"] \subseteq Workers
          /\ queue \in Seq(Tasks) /\ Len(queue) <= Capacity
          /\ cur_size \in 0 .. Cardinality(Workers)
          /\ quit_flag \in BOOLEAN
          /\ i \in 0 .. NumTasks
          /\ task \in [Workers -> Tasks \cup {NoTask}]
          /\ reg \in [Workers -> 0 .. Cardinality(Workers)]
          /\ ran \in [Tasks -> Nat]
          /\ pc \in [Threads -> WorkerPlaces \cup MainPlaces]
          /\ pc[Main] \in MainPlaces
          /\ \A w \in Workers : pc[w] \in WorkerPlaces

(* While a worker sleeps, there are at least as many workers up and about  *)
(* as tasks in the queue; while main sleeps the queue is full.             *)
Busy == {w \in Workers : pc[w] \in {"lock", "test", "wait", "asleep", "unlock", "run"}}
NoLostWakeup ==
  /\ sleepers["con"] # {} => Len(queue) <= Cardinality(Busy \ sleepers["con"])
  /\ Main \in sleepers["pro"] => Len(queue) = Capacity

(* However many decrements are lost, _cur_size never counts fewer threads  *)
(* than are left; so when ThreadQuit returns and the pool goes out of      *)
(* scope no worker uses it, and every task pushed was run, once.           *)
Left == {w \in Workers : pc[w] # "gone"}
QuitSafe == pc[Main] = "done" =>
              /\ Left = {}
              /\ queue = <<>>
              /\ \A k \in Tasks : ran[k] = 1

(* A task is never in two places, and never run twice.                     *)
Running(w) == pc[w] \in {"unlock", "run"}
TaskOnce == /\ IsInjective(queue)
            /\ \A w \in Workers : Running(w) => task[w] \notin ToSet(queue)
            /\ \A w, v \in Workers :
                 w # v /\ Running(w) /\ Running(v) => task[w] # task[v]
            /\ \A k \in Tasks : ran[k] <= 1

(* Every task that is pushed is run in the end, if there is a worker.      *)
EveryTaskRuns == \A k \in Tasks :
                   (k \in ToSet(queue)
                      /\ \E w \in Workers : pc[w] # "unborn") ~> ran[k] = 1

(* A broadcast can come between a worker's look at the flag and its wait,  *)
(* and be missed; main's loop repeats it until every worker has left.      *)
WorkersLeave == \A w \in Workers :
                  (quit_flag /\ pc[w] # "unborn") ~> pc[w] = "gone"

(* "Wake all threads up for deletion": with all its threads created,       *)
(* ThreadQuit returns.                                                     *)
QuitReturns == (pc[Main] = "drain" /\ \A w \in Workers : pc[w] # "unborn")
                 ~> pc[Main] = "done"
=============================================================================
