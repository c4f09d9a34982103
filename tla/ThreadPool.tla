----------------------------- MODULE ThreadPool -----------------------------
(***************************************************************************)
(* The thread pool (threadpool.c) as the hub uses it through               *)
(* threadpoolwrapper.c: created by the first task that is added, by the    *)
(* MQTT client's receiving thread, and destroyed by the main thread at     *)
(* exit.  Each critical section under pool->lock is one step.              *)
(***************************************************************************)
EXTENDS Integers, Sequences, FiniteSets

CONSTANTS
    Threads,    \* the pool's threads, thread_count of them
    QueueSize,  \* queue_size
    MaxTasks,   \* bound: tasks offered in a behaviour
    Shutdowns,  \* how ThreadPoolWrapper_deinit may be called: see ShutdownKinds
    Faults      \* what may go wrong: see FaultKinds

ShutdownKinds == {"immediate", "graceful"}

(* What can fail: pthread_create; the allocations of threadpool_create.    *)
FaultKinds == {"thread", "memory"}

ASSUME ThreadsAssumption == IsFiniteSet(Threads) /\ Threads # {}
ASSUME SizeAssumption == QueueSize \in Nat \ {0}
ASSUME BoundAssumption == MaxTasks \in Nat
ASSUME ShutdownsAssumption == Shutdowns \subseteq ShutdownKinds
ASSUME FaultsAssumption == Faults \subseteq FaultKinds

VARIABLES
    pool,           \* g_threadpool: "none" while NULL or under construction, "made", "freed"
    queue,          \* pool->queue: slot -> task, 0 where none was ever stored
    head, tail, count,
    shutdown,       \* pool->shutdown: "no", or one of ShutdownKinds
    started,        \* pool->started
    tpc, task,      \* per thread: where it is, the task it has grabbed
    ppc,            \* where the receiving thread is in ThreadPoolWrapper_addTask
    mpc,            \* where the main thread is
    offered,        \* tasks offered so far; a task is its number
    taken           \* history: the tasks grabbed, in order

ring == <<queue, head, tail, count>>

vars == <<pool, ring, shutdown, started, tpc, task, ppc, mpc, offered, taken>>

Slots == 0 .. QueueSize - 1

Tasks == 1 .. MaxTasks

Created == {w \in Threads : tpc[w] # "none"}

Waiting == {w \in Threads : tpc[w] = "wait"}

Move(w, label) == tpc' = [tpc EXCEPT ![w] = label]

(* Mutant: no thread is woken.                                             *)
SignalNobody == UNCHANGED tpc

(* pthread_cond_signal.                                                    *)
Signal ==
    IF Waiting = {} THEN UNCHANGED tpc ELSE \E w \in Waiting : Move(w, "loop")

(* Mutant: pthread_cond_signal in place of pthread_cond_broadcast.         *)
BroadcastToOne == Signal

Broadcast == tpc' = [w \in Threads |-> IF w \in Waiting THEN "loop" ELSE tpc[w]]

-----------------------------------------------------------------------------
(* The receiving thread: ThreadPoolWrapper_addTask.                        *)

(* A message arrives.  The MQTT client calls back under its own mutex,     *)
(* which MQTTAsync_destroy takes: there are no calls after it.             *)
addTask ==
    /\ ppc = "idle" /\ mpc = "run" /\ offered < MaxTasks
    /\ offered' = offered + 1
    /\ ppc' = IF pool = "none" THEN "create" ELSE "add"
    /\ UNCHANGED <<pool, ring, shutdown, started, tpc, task, mpc, taken>>

(* threadpool_create, up to the loop that starts the threads.              *)
CreatePool ==
    /\ ppc = "create"
    /\ queue' = [i \in Slots |-> 0] /\ head' = 0 /\ tail' = 0 /\ count' = 0
    /\ shutdown' = "no" /\ started' = 0
    /\ ppc' = "spawn"
    /\ UNCHANGED <<pool, tpc, task, mpc, offered, taken>>

(* Its "err:" path: nothing is left of the pool.                           *)
NoMemory ==
    /\ ppc = "create" /\ "memory" \in Faults
    /\ ppc' = "idle"
    /\ UNCHANGED <<pool, ring, shutdown, started, tpc, task, mpc, offered, taken>>

(* pthread_create and the two counts; the thread looks at neither.         *)
CreateThread ==
    /\ ppc = "spawn"
    /\ \E w \in Threads \ Created : Move(w, "loop")
    /\ started' = started + 1
    /\ UNCHANGED <<pool, ring, shutdown, task, ppc, mpc, offered, taken>>

CreateDone ==
    /\ ppc = "spawn" /\ Created = Threads
    /\ pool' = "made"
    /\ ppc' = "add"
    /\ UNCHANGED <<ring, shutdown, started, tpc, task, mpc, offered, taken>>

(* threadpool_destroy(pool, 0) when a thread cannot be created.            *)
CreateFailed ==
    /\ ppc = "spawn" /\ Created # Threads /\ "thread" \in Faults
    /\ shutdown' = "immediate"
    /\ Broadcast
    /\ ppc' = "join"
    /\ UNCHANGED <<pool, ring, started, task, mpc, offered, taken>>

(* The threads are joined and the pool is freed; the next task tries again.*)
CreateUndone ==
    /\ ppc = "join" /\ \A w \in Created : tpc[w] = "exited"
    /\ tpc' = [w \in Threads |-> "none"]
    /\ ppc' = "idle"
    /\ UNCHANGED <<pool, ring, shutdown, started, task, mpc, offered, taken>>

(* Mutant: the index runs to the end of the array.                         *)
NextTailUnwrapped(i) == IF i = QueueSize - 1 THEN i ELSE i + 1

NextTail(i) == (i + 1) % QueueSize

IsFull == count = QueueSize

threadpool_add ==
    /\ ppc = "add"
    /\ IF IsFull \/ shutdown # "no"
       THEN UNCHANGED <<ring, tpc>>
       ELSE /\ queue' = [queue EXCEPT ![tail] = offered]
            /\ tail' = NextTail(tail)
            /\ count' = count + 1
            /\ Signal
            /\ UNCHANGED head
    /\ ppc' = "idle"
    /\ UNCHANGED <<pool, shutdown, started, task, mpc, offered, taken>>

-----------------------------------------------------------------------------
(* The pool's threads: threadpool_thread.                                  *)

(* Mutant: a thread that leaves is not counted out.                        *)
StartedUncounted == started

StartedAfterExit == started - 1

(* Mutant: a graceful shutdown is taken for an immediate one.              *)
MustExitAtOnce == shutdown # "no"

MustExit == shutdown = "immediate" \/ (shutdown = "graceful" /\ count = 0)

(* "while((pool->count == 0) && (!pool->shutdown))": it gives the lock     *)
(* back and waits.                                                         *)
Wait(w) ==
    /\ tpc[w] = "loop" /\ count = 0 /\ shutdown = "no"
    /\ Move(w, "wait")
    /\ UNCHANGED <<pool, ring, shutdown, started, task, ppc, mpc, offered, taken>>

(* pthread_cond_wait may return without a signal.                          *)
SpuriousWakeup(w) ==
    /\ tpc[w] = "wait"
    /\ Move(w, "loop")
    /\ UNCHANGED <<pool, ring, shutdown, started, task, ppc, mpc, offered, taken>>

Exit(w) ==
    /\ tpc[w] = "loop" /\ MustExit
    /\ started' = StartedAfterExit
    /\ Move(w, "exited")
    /\ UNCHANGED <<pool, ring, shutdown, task, ppc, mpc, offered, taken>>

Grab(w) ==
    /\ tpc[w] = "loop" /\ ~(count = 0 /\ shutdown = "no") /\ ~MustExit
    /\ task' = [task EXCEPT ![w] = queue[head]]
    /\ taken' = Append(taken, queue[head])
    /\ head' = (head + 1) % QueueSize
    /\ count' = count - 1
    /\ Move(w, "run")
    /\ UNCHANGED <<pool, queue, tail, shutdown, started, ppc, mpc, offered>>

(* The task returns.                                                       *)
Run(w) ==
    /\ tpc[w] = "run"
    /\ task' = [task EXCEPT ![w] = 0]
    /\ Move(w, "loop")
    /\ UNCHANGED <<pool, ring, shutdown, started, ppc, mpc, offered, taken>>

-----------------------------------------------------------------------------
(* The main thread leaves: MQTTClientWrapper_deinit, then                  *)
(* ThreadPoolWrapper_deinit.                                               *)

Deinit ==
    /\ mpc = "run" /\ ppc = "idle"
    /\ mpc' = IF pool = "none" THEN "done" ELSE "destroy"
    /\ UNCHANGED <<pool, ring, shutdown, started, tpc, task, ppc, offered, taken>>

threadpool_destroy ==
    /\ mpc = "destroy"
    /\ shutdown' \in Shutdowns
    /\ Broadcast
    /\ mpc' = "join"
    /\ UNCHANGED <<pool, ring, started, task, ppc, offered, taken>>

AllJoined == \A w \in Created : tpc[w] = "exited"

(* The threads are joined.  threadpool_free leaves a pool alone that still *)
(* has started threads.                                                    *)
Joined ==
    /\ mpc = "join" /\ AllJoined
    /\ pool' = IF started > 0 THEN pool ELSE "freed"
    /\ mpc' = "done"
    /\ UNCHANGED <<ring, shutdown, started, tpc, task, ppc, offered, taken>>

-----------------------------------------------------------------------------

Init ==
    /\ pool = "none"
    /\ queue = [i \in Slots |-> 0] /\ head = 0 /\ tail = 0 /\ count = 0
    /\ shutdown = "no" /\ started = 0
    /\ tpc = [w \in Threads |-> "none"] /\ task = [w \in Threads |-> 0]
    /\ ppc = "idle" /\ mpc = "run"
    /\ offered = 0 /\ taken = <<>>

Thread(w) == Wait(w) \/ Exit(w) \/ Grab(w) \/ Run(w)

Receiver ==
    \/ CreatePool \/ NoMemory \/ CreateThread \/ CreateDone \/ CreateFailed
    \/ CreateUndone \/ threadpool_add

Main == threadpool_destroy \/ Joined

Next ==
    \/ addTask \/ Receiver \/ Deinit \/ Main
    \/ \E w \in Threads : Thread(w) \/ SpuriousWakeup(w)

Spec == Init /\ [][Next]_vars

-----------------------------------------------------------------------------
(* Properties.                                                             *)

(* Type invariant: the fields of threadpool_t and where each thread is.    *)
TypeOK ==
    /\ pool \in {"none", "made", "freed"}
    /\ queue \in [Slots -> Tasks \cup {0}] /\ head \in Slots /\ tail \in Slots
    /\ count \in 0 .. QueueSize
    /\ shutdown \in ShutdownKinds \cup {"no"} /\ started \in Nat
    /\ tpc \in [Threads -> {"none", "loop", "wait", "run", "exited"}]
    /\ task \in [Threads -> Tasks \cup {0}]
    /\ ppc \in {"idle", "create", "spawn", "join", "add"}
    /\ mpc \in {"run", "destroy", "join", "done"}
    /\ offered \in 0 .. MaxTasks /\ taken \in Seq(Tasks)

(* threadpool_destroy and threadpool_free: once the pool is freed no       *)
(* thread of the pool and no caller touches it, and it is always freed in  *)
(* the end: pool->started has counted every thread out.                    *)
FreedUnused ==
    /\ pool = "freed" => ppc = "idle" /\ \A w \in Threads : tpc[w] = "exited"
    /\ mpc = "done" => pool \in {"none", "freed"}

(* The queue of the abstract pool: the occupied part of the ring.          *)
Slot(i) == IF head + i <= QueueSize THEN head + i - 1 ELSE head + i - 1 - QueueSize

Pending == [i \in 1 .. count |-> queue[Slot(i)]]

Phase ==
    IF mpc = "done" THEN "gone" ELSE IF mpc = "join" THEN shutdown ELSE "open"

Running == {task[w] : w \in {u \in Threads : tpc[u] = "run"}}

Abstract == INSTANCE TaskQueue WITH
    Size <- QueueSize, waiting <- Pending, taken <- taken, running <- Running,
    phase <- Phase

(* threadpool.h: the pool is a bounded first-in first-out queue of tasks,  *)
(* each taken once; an immediate shutdown takes no more, a graceful one    *)
(* "doesn't accept any new tasks but processes all pending tasks before    *)
(* shutdown", and no task runs once the pool has gone.                     *)
IsTaskQueue == Abstract!Spec

(* No wakeup is lost: a task in the queue is taken, or the pool is shut    *)
(* down.                                                                   *)
PendingIsTaken ==
    \A t \in Tasks : []<>(shutdown # "no" \/ \A i \in 1 .. count : Pending[i] # t)

(* ThreadPoolWrapper_deinit returns: every thread is woken and leaves.     *)
DestroyReturns == []<>(mpc \in {"run", "done"})

=============================================================================
