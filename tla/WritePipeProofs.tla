-------------------------- MODULE WritePipeProofs --------------------------
(***************************************************************************)
(* Theorems about ThreadPool, for any number of threads, slots and tasks   *)
(* and every fault: its types, that the pool is freed only when nobody     *)
(* uses it, and that it implements TaskQueue.  Then, from its invariant,   *)
(* about WritePipe, whose threads are the pool's: for any number of        *)
(* threads the descriptor of the FIFO is not lost; for one thread, the     *)
(* order of the commands is kept.                                          *)
(***************************************************************************)
EXTENDS WritePipe, FiniteSetTheorems, SequenceTheorems, TLAPS

-----------------------------------------------------------------------------
USE DEF ShutdownKinds

Alive == {w \in Threads : tpc[w] \in {"loop", "wait", "run"}}

(* Where the receiving and the main thread are says which threads there    *)
(* are and what the pool's fields hold.                                    *)
Control ==
    /\ ppc # "idle" => mpc = "run"
    /\ ppc \in {"create", "spawn", "join"} => pool = "none"
    /\ ppc = "add" => pool = "made"
    /\ ppc = "join" => shutdown = "immediate"
    /\ ppc = "spawn" => shutdown = "no"
    /\ pool = "none" => count = 0 /\ \A w \in Threads : tpc[w] # "run"
    /\ pool = "none" /\ ppc \in {"idle", "create"} =>
         \A w \in Threads : tpc[w] = "none"
    /\ pool = "made" => \A w \in Threads : tpc[w] # "none"
    /\ pool = "made" /\ mpc \in {"run", "destroy"} => shutdown = "no"
    /\ mpc \in {"destroy", "join"} => pool = "made"
    /\ mpc = "join" => shutdown # "no"
    /\ mpc = "done" => pool \in {"none", "freed"}
    /\ pool = "freed" => mpc = "done" /\ \A w \in Threads : tpc[w] = "exited"
    /\ \A w \in Threads :
         tpc[w] = "exited" => shutdown # "no" /\ (shutdown = "graceful" => count = 0)

(* pool->started counts the threads that have not left threadpool_thread.  *)
Counted == started = Cardinality(Alive)

(* The ring: tail is count slots after head.                               *)
Ring == tail = IF head + count < QueueSize THEN head + count ELSE head + count - QueueSize

(* Tasks are queued and taken in the order they were offered.              *)
PendingOffered ==
    \A i \in 1 .. count : /\ Pending[i] \in 1 .. offered
                          /\ ppc # "idle" => Pending[i] < offered

PendingAscends == \A i, j \in 1 .. count : i < j => Pending[i] < Pending[j]

TakenOffered ==
    \A i \in 1 .. Len(taken) : /\ taken[i] \in 1 .. offered
                               /\ ppc # "idle" => taken[i] < offered

TakenFirst == \A i \in 1 .. Len(taken), j \in 1 .. count : taken[i] < Pending[j]

Numbered ==
    /\ PendingOffered /\ PendingAscends /\ TakenOffered /\ TakenFirst
    /\ ppc # "idle" => offered # 0

(* No two threads run the same task.                                       *)
Distinct ==
    /\ \A w \in Threads :
         tpc[w] = "run" => \E i \in 1 .. Len(taken) : taken[i] = task[w]
    /\ \A u, w \in Threads : 
         tpc[u] = "run" /\ tpc[w] = "run" /\ u # w => task[u] # task[w]

Inv == TypeOK /\ Control /\ Counted /\ Ring /\ Numbered /\ Distinct

-----------------------------------------------------------------------------
(* Lemmas about the ring.                                                  *)

(* "(x + 1) % queue_size" is the next slot.                                *)
LEMMA NextSlot ==
    ASSUME NEW x \in Slots
    PROVE  (x + 1) % QueueSize = IF x + 1 = QueueSize THEN 0 ELSE x + 1
  BY SizeAssumption DEF Slots

LEMMA SameSequence ==
    ASSUME NEW S, NEW s \in Seq(S), NEW t \in Seq(S),
           Len(s) = Len(t), \A i \in 1 .. Len(s) : s[i] = t[i]
    PROVE  s = t
  OBVIOUS

LEMMA PendingIsSequence ==
    ASSUME TypeOK
    PROVE  Pending \in Seq(Tasks \cup {0}) /\ Len(Pending) = count
  <1>1. \A i \in 1 .. count : Slot(i) \in Slots
    BY SizeAssumption DEF TypeOK, Slot, Slots
  <1>2. \A i \in 1 .. count : queue[Slot(i)] \in Tasks \cup {0}
    BY Zenon, <1>1 DEF TypeOK
  <1>3. count \in Nat
    BY SizeAssumption DEF TypeOK
  <1> QED BY <1>2, <1>3 DEF Pending

(* threadpool_add stores at tail: the task is the queue's last.            *)
LEMMA PendingAfterAdd ==
    ASSUME TypeOK, Ring, ~IsFull,
           queue' = [queue EXCEPT ![tail] = offered],
           tail' = NextTail(tail), count' = count + 1, head' = head
    PROVE  Pending' = Append(Pending, offered) /\ Ring'
  <1>1. /\ head \in Slots /\ tail \in Slots /\ count \in 0 .. QueueSize - 1
        /\ queue \in [Slots -> Tasks \cup {0}]
    BY SizeAssumption DEF TypeOK, IsFull
  <1>2. Ring'
    BY <1>1, NextSlot, SizeAssumption DEF Ring, NextTail, Slots
  <1>3. \A i \in 1 .. count : Slot(i) \in Slots /\ Slot(i) # tail /\ Slot(i)' = Slot(i)
    BY <1>1, SizeAssumption DEF Slot, Slots, Ring
  <1>4. \A i \in 1 .. count : queue'[Slot(i)'] = queue[Slot(i)]
    BY Zenon, <1>1, <1>3
  <1>5. \A i \in {count + 1} : Slot(i)' = tail
    BY <1>1, SizeAssumption DEF Slot, Slots, Ring
  <1>6. \A i \in {count + 1} : queue'[Slot(i)'] = offered
    BY Zenon, <1>1, <1>5
  <1>7. Pending \in Seq(Tasks \cup {0}) /\ Len(Pending) = count
    BY Zenon, PendingIsSequence
  <1>8. Pending' = [i \in 1 .. count + 1 |-> queue'[Slot(i)']]
    BY Zenon DEF Pending
  <1>9. \A i \in 1 .. count : Pending[i] = queue[Slot(i)]
    BY Zenon DEF Pending
  <1>10. count \in Nat
    BY <1>1
  <1>11. \A i \in 1 .. count + 1 : Pending'[i] = Append(Pending, offered)[i]
    BY <1>4, <1>6, <1>7, <1>8, <1>9, <1>10
  <1>12. Pending' \in [1 .. count + 1 -> Tasks \cup {0, offered}]
    BY <1>1, <1>3, <1>4, <1>6, <1>8
  <1>13. Pending' = Append(Pending, offered)
    BY <1>7, <1>10, <1>11, <1>12
  <1> QED BY Zenon, <1>2, <1>13

(* threadpool_thread takes from head: the queue's first.                   *)
LEMMA PendingAfterGrab ==
    ASSUME TypeOK, Ring, count # 0,
           queue' = queue, tail' = tail,
           head' = (head + 1) % QueueSize, count' = count - 1
    PROVE  /\ Pending' = Tail(Pending) /\ Ring'
           /\ Pending # <<>> /\ Head(Pending) = queue[head]
           /\ head' \in Slots /\ count' \in 0 .. QueueSize
  <1>1. /\ head \in Slots /\ tail \in Slots /\ count \in 1 .. QueueSize
        /\ queue \in [Slots -> Tasks \cup {0}]
    BY SizeAssumption DEF TypeOK
  <1>2. head' = IF head + 1 = QueueSize THEN 0 ELSE head + 1
    BY Zenon, <1>1, NextSlot
  <1>3. Ring' /\ head' \in Slots /\ count' \in 0 .. QueueSize
    BY <1>1, <1>2, SizeAssumption DEF Ring, Slots
  <1>4. \A i \in 1 .. count - 1 : Slot(i)' = Slot(i + 1)
    BY <1>1, <1>2, SizeAssumption DEF Slot, Slots
  <1>5. Slot(1) = head
    BY <1>1, SizeAssumption DEF Slot, Slots
  <1>6. Pending \in Seq(Tasks \cup {0}) /\ Len(Pending) = count
    BY Zenon, PendingIsSequence
  <1>7. Pending' = [i \in 1 .. count - 1 |-> queue[Slot(i)']]
    BY Zenon DEF Pending
  <1>8. \A i \in 1 .. count - 1 : queue[Slot(i)'] = Pending[i + 1]
    BY <1>1, <1>4 DEF Pending
  <1>9. count \in Nat /\ count >= 1
    BY <1>1, SizeAssumption
  <1>10. Pending' = Tail(Pending)
    <2>1. /\ Tail(Pending) \in Seq(Tasks \cup {0}) /\ Len(Tail(Pending)) = count - 1
          /\ \A i \in 1 .. count - 1 : Tail(Pending)[i] = Pending[i + 1]
      BY <1>6, <1>9
    <2>2. Pending' \in Seq(Tasks \cup {0}) /\ Len(Pending') = count - 1
      BY <1>6, <1>7, <1>8, <1>9
    <2>3. \A i \in 1 .. count - 1 : Pending'[i] = Tail(Pending)[i]
      BY Zenon, <2>1, <1>7, <1>8
    <2> QED BY Zenon, <2>1, <2>2, <2>3, SameSequence
  <1>11. Pending # <<>> /\ Head(Pending) = Pending[1] /\ Pending[1] = queue[head]
    BY <1>5, <1>6, <1>9 DEF Pending
  <1> QED BY Zenon, <1>3, <1>10, <1>11

LEMMA PendingUnchanged ==
    ASSUME UNCHANGED ring
    PROVE  Pending' = Pending /\ (Ring => Ring')
  BY Zenon DEF ring, Pending, Slot, Ring

LEMMA NumberedUnchanged ==
    ASSUME TypeOK, Numbered, UNCHANGED <<ring, offered, taken>>, ppc' # "idle" => ppc # "idle"
    PROVE  Numbered'
  <1>1. Pending' = Pending /\ count' = count
    BY Zenon, PendingUnchanged DEF ring
  <1> QED BY Zenon, <1>1
      DEF TypeOK, Numbered, PendingOffered, PendingAscends, TakenOffered, TakenFirst

-----------------------------------------------------------------------------
(* pool->started and the threads.                                          *)

LEMMA AliveIsFinite == IsFiniteSet(Alive) /\ Cardinality(Alive) \in Nat
  <1>1. IsFiniteSet(Alive)
    BY Zenon, ThreadsAssumption, FS_Subset DEF Alive
  <1> QED BY Zenon, <1>1, FS_CardinalityType

(* A step of a thread within threadpool_thread.                            *)
LEMMA CountedAfterMove ==
    ASSUME TypeOK, Counted, NEW w \in Alive, NEW label \in {"loop", "wait", "run"},
           Move(w, label), started' = started
    PROVE  Counted' /\ Alive' = Alive
  <1>1. Alive' = Alive
    BY Zenon DEF Alive, Move, TypeOK
  <1> QED BY Zenon, <1>1 DEF Counted

LEMMA CountedAfterExit ==
    ASSUME TypeOK, Counted, NEW w \in Alive, Move(w, "exited"), started' = started - 1
    PROVE  Counted' /\ started' \in Nat
  <1>1. Alive' = Alive \ {w}
    BY Zenon DEF Alive, Move, TypeOK
  <1>2. Cardinality(Alive \ {w}) = Cardinality(Alive) - 1
    BY Zenon, AliveIsFinite, FS_RemoveElement
  <1>3. Cardinality(Alive \ {w}) \in Nat
    BY Zenon, AliveIsFinite, FS_Subset, FS_CardinalityType, Alive \ {w} \subseteq Alive
  <1> QED BY Zenon, <1>1, <1>2, <1>3 DEF Counted

LEMMA CountedAfterCreate ==
    ASSUME TypeOK, Counted, NEW w \in Threads \ Created, Move(w, "loop"),
           started' = started + 1
    PROVE  Counted'
  <1>1. Alive' = Alive \cup {w} /\ w \notin Alive
    BY Zenon DEF Alive, Move, TypeOK, Created
  <1>2. Cardinality(Alive \cup {w}) = Cardinality(Alive) + 1
    BY Zenon, <1>1, AliveIsFinite, FS_AddElement
  <1> QED BY Zenon, <1>1, <1>2 DEF Counted

(* No thread: pool->started is 0.                                          *)
LEMMA NobodyAlive ==
    ASSUME \A w \in Threads : tpc[w] \notin {"loop", "wait", "run"}
    PROVE  Alive = {} /\ Cardinality(Alive) = 0
  <1>1. Alive = {}
    BY Zenon DEF Alive
  <1> QED BY Zenon, <1>1, FS_EmptySet

(* Waking threads up moves some that wait to the loop.                     *)
LEMMA WakingUp ==
    ASSUME TypeOK, Signal \/ Broadcast
    PROVE  /\ tpc' \in [Threads -> {"none", "loop", "wait", "run", "exited"}]
           /\ \A w \in Threads : tpc'[w] = tpc[w] \/ (tpc[w] = "wait" /\ tpc'[w] = "loop")
           /\ Alive' = Alive
           /\ Running' = {task'[w] : w \in {u \in Threads : tpc[u] = "run"}}
  <1>1. /\ tpc' \in [Threads -> {"none", "loop", "wait", "run", "exited"}]
        /\ \A w \in Threads : tpc'[w] = tpc[w] \/ (tpc[w] = "wait" /\ tpc'[w] = "loop")
    <2>1. CASE Broadcast
      BY Zenon, <2>1 DEF TypeOK, Broadcast, Waiting
    <2>2. CASE Signal
      BY Zenon, <2>2 DEF TypeOK, Signal, Waiting, Move
    <2> QED BY Zenon, <2>1, <2>2
  <1>2. Alive' = Alive
    BY Zenon, <1>1 DEF Alive, TypeOK
  <1>3. {u \in Threads : tpc'[u] = "run"} = {u \in Threads : tpc[u] = "run"}
    BY Zenon, <1>1 DEF TypeOK
  <1> QED BY Zenon, <1>1, <1>2, <1>3 DEF Running

-----------------------------------------------------------------------------
(* The invariant is preserved: the receiving thread.                       *)

LEMMA AddTaskKeeps == ASSUME Inv, addTask PROVE Inv'
  <1>1. TypeOK'
    BY BoundAssumption DEF Inv, TypeOK, addTask, ring, Tasks
  <1>2. Control'
    BY Zenon DEF Inv, TypeOK, Control, addTask, ring
  <1>3. Counted'
    BY Zenon DEF Inv, Counted, Alive, addTask
  <1>4. Ring'
    BY Zenon, PendingUnchanged DEF Inv, addTask
  <1>5. Numbered'
    BY PendingUnchanged, BoundAssumption DEF Inv, TypeOK, Numbered, PendingOffered, PendingAscends, TakenOffered, TakenFirst, addTask, ring
  <1>6. Distinct'
    BY Zenon DEF Inv, TypeOK, Distinct, addTask
  <1> QED BY Zenon, <1>1, <1>2, <1>3, <1>4, <1>5, <1>6 DEF Inv

LEMMA CreatePoolKeeps == ASSUME Inv, CreatePool PROVE Inv'
  <1>1. TypeOK'
    BY SizeAssumption DEF Inv, TypeOK, CreatePool, Slots
  <1>2. Control'
    BY Zenon DEF Inv, TypeOK, Control, CreatePool, ring
  <1>3. Counted'
    BY Zenon, NobodyAlive DEF Inv, Control, Counted, Alive, CreatePool
  <1>4. Ring'
    BY SizeAssumption DEF Ring, CreatePool
  <1>5. Numbered'
    BY DEF Inv, TypeOK, Control, Numbered, PendingOffered, PendingAscends, TakenOffered, TakenFirst, CreatePool
  <1>6. Distinct'
    BY Zenon DEF Inv, TypeOK, Distinct, CreatePool
  <1> QED BY Zenon, <1>1, <1>2, <1>3, <1>4, <1>5, <1>6 DEF Inv

LEMMA NoMemoryKeeps == ASSUME Inv, NoMemory PROVE Inv'
  <1>1. TypeOK'
    BY Zenon DEF Inv, TypeOK, NoMemory, ring
  <1>2. Control'
    BY Zenon DEF Inv, TypeOK, Control, NoMemory, ring
  <1>3. Counted'
    BY Zenon DEF Inv, Counted, Alive, NoMemory
  <1>4. Ring'
    BY Zenon, PendingUnchanged DEF Inv, NoMemory
  <1>5. Numbered'
    BY Zenon, NumberedUnchanged DEF Inv, NoMemory
  <1>6. Distinct'
    BY Zenon DEF Inv, TypeOK, Distinct, NoMemory
  <1> QED BY Zenon, <1>1, <1>2, <1>3, <1>4, <1>5, <1>6 DEF Inv

LEMMA CreateThreadKeeps == ASSUME Inv, CreateThread PROVE Inv'
  <1>1. PICK w \in Threads \ Created : Move(w, "loop")
    BY Zenon DEF CreateThread
  <1>2. tpc[w] = "none" /\ tpc' = [tpc EXCEPT ![w] = "loop"]
    BY Zenon, <1>1 DEF Created, Move
  <1>3. TypeOK'
    BY <1>2 DEF Inv, TypeOK, CreateThread, ring
  <1>4. Control'
    BY Zenon, <1>2 DEF Inv, TypeOK, Control, CreateThread, ring
  <1>5. Counted'
    BY Zenon, <1>1, CountedAfterCreate DEF Inv, CreateThread
  <1>6. Ring'
    BY Zenon, PendingUnchanged DEF Inv, CreateThread
  <1>7. Numbered'
    BY Zenon, NumberedUnchanged DEF Inv, CreateThread
  <1>8. Distinct'
    BY Zenon, <1>2 DEF Inv, TypeOK, Distinct, CreateThread
  <1> QED BY Zenon, <1>3, <1>4, <1>5, <1>6, <1>7, <1>8 DEF Inv

LEMMA CreateDoneKeeps == ASSUME Inv, CreateDone PROVE Inv'
  <1>1. TypeOK'
    BY Zenon DEF Inv, TypeOK, CreateDone, ring
  <1>2. Control'
    BY Zenon DEF Inv, TypeOK, Control, CreateDone, ring, Created
  <1>3. Counted'
    BY Zenon DEF Inv, Counted, Alive, CreateDone
  <1>4. Ring'
    BY Zenon, PendingUnchanged DEF Inv, CreateDone
  <1>5. Numbered'
    BY Zenon, NumberedUnchanged DEF Inv, CreateDone
  <1>6. Distinct'
    BY Zenon DEF Inv, TypeOK, Distinct, CreateDone
  <1> QED BY Zenon, <1>1, <1>2, <1>3, <1>4, <1>5, <1>6 DEF Inv

LEMMA CreateFailedKeeps == ASSUME Inv, CreateFailed PROVE Inv'
  <1>1. TypeOK'
    BY Zenon, WakingUp DEF Inv, TypeOK, CreateFailed, ring
  <1>2. Control'
    BY Zenon, WakingUp DEF Inv, TypeOK, Control, CreateFailed, ring
  <1>3. Counted'
    BY Zenon, WakingUp DEF Inv, Counted, CreateFailed
  <1>4. Ring'
    BY Zenon, PendingUnchanged DEF Inv, CreateFailed
  <1>5. Numbered'
    BY Zenon, NumberedUnchanged DEF Inv, CreateFailed
  <1>6. Distinct'
    BY Zenon, WakingUp DEF Inv, TypeOK, Distinct, CreateFailed
  <1> QED BY Zenon, <1>1, <1>2, <1>3, <1>4, <1>5, <1>6 DEF Inv

LEMMA CreateUndoneKeeps == ASSUME Inv, CreateUndone PROVE Inv'
  <1>1. TypeOK'
    BY Zenon DEF Inv, TypeOK, CreateUndone, ring
  <1>2. Control'
    BY Zenon DEF Inv, TypeOK, Control, CreateUndone, ring, Created
  <1>3. Counted'
    <2>1. Alive = {} /\ Alive' = {} /\ started' = started
      BY Zenon DEF Alive, CreateUndone, Created
    <2> QED BY Zenon, <2>1, FS_EmptySet DEF Inv, Counted
  <1>4. Ring'
    BY Zenon, PendingUnchanged DEF Inv, CreateUndone
  <1>5. Numbered'
    BY Zenon, NumberedUnchanged DEF Inv, CreateUndone
  <1>6. Distinct'
    BY Zenon DEF Inv, TypeOK, Distinct, CreateUndone
  <1> QED BY Zenon, <1>1, <1>2, <1>3, <1>4, <1>5, <1>6 DEF Inv

LEMMA AddKeeps == ASSUME Inv, threadpool_add PROVE Inv'
  <1>1. CASE IsFull \/ shutdown # "no"
    <2>1. TypeOK'
      BY Zenon, <1>1 DEF Inv, TypeOK, threadpool_add, ring
    <2>2. Control'
      BY Zenon, <1>1 DEF Inv, TypeOK, Control, threadpool_add, ring
    <2>3. Counted'
      BY Zenon, <1>1 DEF Inv, Counted, Alive, threadpool_add
    <2>4. Ring'
      BY Zenon, <1>1, PendingUnchanged DEF Inv, threadpool_add
    <2>5. Numbered'
      BY Zenon, <1>1, NumberedUnchanged DEF Inv, threadpool_add
    <2>6. Distinct'
      BY Zenon, <1>1 DEF Inv, TypeOK, Distinct, threadpool_add
    <2> QED BY Zenon, <2>1, <2>2, <2>3, <2>4, <2>5, <2>6 DEF Inv
  <1>2. CASE ~(IsFull \/ shutdown # "no")
    <2>1. Pending' = Append(Pending, offered) /\ Ring'
      BY Zenon, <1>2, PendingAfterAdd DEF Inv, threadpool_add
    <2>2. /\ Signal /\ tail' = NextTail(tail) /\ count' = count + 1 /\ head' = head
          /\ queue' = [queue EXCEPT ![tail] = offered] /\ ppc' = "idle"
          /\ UNCHANGED <<pool, shutdown, started, task, mpc, offered, taken>>
      BY Zenon, <1>2 DEF threadpool_add
    <2>3. tail' \in Slots /\ count' \in 0 .. QueueSize /\ offered \in Tasks
      BY <1>2, <2>2, NextSlot, SizeAssumption, BoundAssumption
      DEF Inv, TypeOK, NextTail, IsFull, Slots, Tasks, Numbered, PendingOffered, PendingAscends, TakenOffered, TakenFirst, threadpool_add
    <2>4. TypeOK'
      BY Zenon, <2>2, <2>3, WakingUp DEF Inv, TypeOK
    <2>5. Control'
      BY Zenon, <1>2, <2>2, WakingUp DEF Inv, TypeOK, Control, threadpool_add
    <2>6. Counted'
      BY Zenon, <2>2, WakingUp DEF Inv, Counted
    <2>7. Numbered'
      <3>1. Pending \in Seq(Tasks \cup {0}) /\ Len(Pending) = count /\ count \in Nat
        BY PendingIsSequence, SizeAssumption DEF Inv, TypeOK
      <3>2. /\ \A i \in 1 .. count : Pending'[i] = Pending[i]
            /\ Pending'[count + 1] = offered
        BY <2>1, <3>1
      <3>3. /\ offered > 0 /\ offered \in Nat
            /\ \A i \in 1 .. count : Pending[i] \in 1 .. offered - 1
            /\ \A i, j \in 1 .. count : i < j => Pending[i] < Pending[j]
            /\ \A i \in 1 .. Len(taken) : taken[i] \in 1 .. offered - 1
            /\ \A i \in 1 .. Len(taken), j \in 1 .. count : taken[i] < Pending[j]
        BY BoundAssumption DEF Inv, TypeOK, Numbered, PendingOffered, PendingAscends, TakenOffered, TakenFirst, threadpool_add
      <3>4. \A i \in 1 .. count + 1 : i \in 1 .. count \/ Pending'[i] = offered
        BY <3>1, <3>2
      <3>5. \A i \in 1 .. count + 1 : Pending'[i] \in 1 .. offered
        BY <3>2, <3>3, <3>4
      <3>6. \A i, j \in 1 .. count + 1 : i < j => Pending'[i] < Pending'[j]
        <4> SUFFICES ASSUME NEW i \in 1 .. count + 1, NEW j \in 1 .. count + 1, i < j
                     PROVE  Pending'[i] < Pending'[j]
          BY Zenon
        <4>1. i \in 1 .. count /\ Pending'[i] = Pending[i]
          BY <3>1, <3>2
        <4>2. CASE j = count + 1
          BY <4>1, <4>2, <3>2, <3>3
        <4>3. CASE j \in 1 .. count
          BY Zenon, <4>1, <4>3, <3>2, <3>3
        <4> QED BY <4>2, <4>3, <3>1
      <3>7. \A i \in 1 .. Len(taken), j \in 1 .. count + 1 : taken[i] < Pending'[j]
        BY <3>2, <3>3, <3>4
      <3>8. \A i \in 1 .. Len(taken) : taken[i] \in 1 .. offered
        BY <3>3
      <3> QED BY Zenon, <2>2, <3>5, <3>6, <3>7, <3>8 DEF Numbered, PendingOffered, PendingAscends, TakenOffered, TakenFirst
    <2>8. Distinct'
      BY Zenon, <2>2, WakingUp DEF Inv, TypeOK, Distinct
    <2> QED BY Zenon, <2>1, <2>4, <2>5, <2>6, <2>7, <2>8 DEF Inv
  <1> QED BY Zenon, <1>1, <1>2

-----------------------------------------------------------------------------
(* The pool's threads.                                                     *)

LEMMA WaitKeeps == ASSUME Inv, NEW w \in Threads, Wait(w) \/ SpuriousWakeup(w) PROVE Inv'
  <1>1. PICK label \in {"loop", "wait"} : Move(w, label)
    BY Zenon DEF Wait, SpuriousWakeup
  <1>2. /\ tpc[w] \in {"loop", "wait"} /\ tpc' = [tpc EXCEPT ![w] = label] /\ w \in Alive
        /\ UNCHANGED <<pool, ring, shutdown, started, task, ppc, mpc, offered, taken>>
    BY Zenon, <1>1 DEF Wait, SpuriousWakeup, Move, Alive
  <1>3. TypeOK'
    BY Zenon, <1>2 DEF Inv, TypeOK, ring
  <1>4. Control'
    BY Zenon, <1>2 DEF Inv, TypeOK, Control, ring
  <1>5. Counted'
    BY Zenon, <1>1, <1>2, CountedAfterMove DEF Inv
  <1>6. Ring'
    BY Zenon, <1>2, PendingUnchanged DEF Inv
  <1>7. Numbered'
    BY Zenon, <1>2, NumberedUnchanged DEF Inv
  <1>8. Distinct'
    BY Zenon, <1>2 DEF Inv, TypeOK, Distinct
  <1> QED BY Zenon, <1>3, <1>4, <1>5, <1>6, <1>7, <1>8 DEF Inv

LEMMA ExitKeeps == ASSUME Inv, NEW w \in Threads, Exit(w) PROVE Inv'
  <1>1. /\ tpc[w] = "loop" /\ tpc' = [tpc EXCEPT ![w] = "exited"] /\ w \in Alive
        /\ started' = started - 1 /\ Move(w, "exited") /\ MustExit
        /\ UNCHANGED <<pool, ring, shutdown, task, ppc, mpc, offered, taken>>
    BY Zenon DEF Exit, Move, Alive, StartedAfterExit
  <1>2. Counted' /\ started' \in Nat
    BY Zenon, <1>1, CountedAfterExit DEF Inv
  <1>3. TypeOK'
    BY Zenon, <1>1, <1>2 DEF Inv, TypeOK, ring
  <1>4. Control'
    BY Zenon, <1>1 DEF Inv, TypeOK, Control, ring, MustExit
  <1>5. Ring'
    BY Zenon, <1>1, PendingUnchanged DEF Inv
  <1>6. Numbered'
    BY Zenon, <1>1, NumberedUnchanged DEF Inv
  <1>7. Distinct'
    BY Zenon, <1>1 DEF Inv, TypeOK, Distinct
  <1> QED BY Zenon, <1>2, <1>3, <1>4, <1>5, <1>6, <1>7 DEF Inv

(* A thread that grabs finds a task.                                       *)
LEMMA GrabbedTask ==
    ASSUME Inv, NEW w \in Threads, Grab(w)
    PROVE  /\ count # 0 /\ Pending' = Tail(Pending) /\ Ring'
           /\ Pending # <<>> /\ Head(Pending) = queue[head]
           /\ head' \in Slots /\ count' \in 0 .. QueueSize
           /\ Pending[1] = queue[head] /\ queue[head] \in Tasks
           /\ Pending \in Seq(Tasks \cup {0}) /\ Len(Pending) = count /\ count \in Nat
  <1>1. count # 0
    BY Zenon DEF Inv, TypeOK, Grab, MustExit
  <1>2. Pending \in Seq(Tasks \cup {0}) /\ Len(Pending) = count /\ count \in Nat
    BY PendingIsSequence, SizeAssumption DEF Inv, TypeOK
  <1>3. /\ Pending' = Tail(Pending) /\ Ring'
        /\ Pending # <<>> /\ Head(Pending) = queue[head]
        /\ head' \in Slots /\ count' \in 0 .. QueueSize
    BY Zenon, <1>1, PendingAfterGrab DEF Inv, Grab
  <1>4. Pending[1] = queue[head] /\ 1 \in 1 .. count
    BY <1>1, <1>2, <1>3
  <1>5. queue[head] \in Tasks
    BY <1>4, BoundAssumption DEF Inv, TypeOK, Numbered, PendingOffered, Tasks
  <1> QED BY Zenon, <1>1, <1>2, <1>3, <1>4, <1>5

LEMMA GrabKeeps == ASSUME Inv, NEW w \in Threads, Grab(w) PROVE Inv'
  <1> DEFINE t == queue[head]
  <1>1. /\ tpc[w] = "loop" /\ tpc' = [tpc EXCEPT ![w] = "run"] /\ w \in Alive
        /\ Move(w, "run") /\ task' = [task EXCEPT ![w] = t] /\ taken' = Append(taken, t)
        /\ count' = count - 1
        /\ UNCHANGED <<pool, queue, tail, shutdown, started, ppc, mpc, offered>>
    BY Zenon DEF Grab, Move, Alive
  <1>2. /\ count # 0 /\ Pending' = Tail(Pending) /\ Ring'
        /\ head' \in Slots /\ count' \in 0 .. QueueSize /\ Pending[1] = t /\ t \in Tasks
        /\ Pending \in Seq(Tasks \cup {0}) /\ Len(Pending) = count /\ count \in Nat
    BY Zenon, GrabbedTask
  <1> HIDE DEF t
  <1>3. TypeOK'
    BY <1>1, <1>2 DEF Inv, TypeOK
  <1>4. Control'
    BY Zenon, <1>1, <1>2 DEF Inv, TypeOK, Control
  <1>5. Counted'
    BY Zenon, <1>1, CountedAfterMove DEF Inv
  <1>6. /\ Len(taken') = Len(taken) + 1 /\ taken'[Len(taken) + 1] = t
        /\ \A i \in 1 .. Len(taken) : taken'[i] = taken[i]
        /\ Len(taken) \in Nat
    BY <1>1 DEF Inv, TypeOK
  <1>7. Numbered'
    <2>1. \A i \in 1 .. count - 1 : Pending'[i] = Pending[i + 1]
      BY <1>2
    <2>2. \A i \in 1 .. Len(taken') : i \in 1 .. Len(taken) \/ taken'[i] = t
      BY <1>6
    <2>3. /\ \A i \in 1 .. count' : /\ Pending'[i] \in 1 .. offered
                                    /\ ppc # "idle" => Pending'[i] < offered
          /\ \A i, j \in 1 .. count' : i < j => Pending'[i] < Pending'[j]
      BY <1>1, <1>2, <2>1 DEF Inv, Numbered, PendingOffered, PendingAscends
    <2>4. t \in 1 .. offered /\ (ppc # "idle" => t < offered)
      BY <1>2 DEF Inv, Numbered, PendingOffered
    <2>5. TakenOffered'
      <3> SUFFICES ASSUME NEW i \in 1 .. Len(taken')
                   PROVE  taken'[i] \in 1 .. offered' /\ (ppc' # "idle" => taken'[i] < offered')
        BY Zenon DEF TakenOffered
      <3> QED BY Zenon, <1>1, <1>6, <2>2, <2>4 DEF Inv, Numbered, TakenOffered
    <2>6. \A j \in 1 .. count - 1 : t < Pending'[j]
      BY <1>2, <2>1 DEF Inv, Numbered, PendingAscends
    <2>7. \A i \in 1 .. Len(taken), j \in 1 .. count - 1 : taken[i] < Pending'[j]
      BY <1>2, <2>1 DEF Inv, Numbered, TakenFirst
    <2>8. \A i \in 1 .. Len(taken'), j \in 1 .. count' : taken'[i] < Pending'[j]
      BY Zenon, <1>1, <1>6, <2>2, <2>6, <2>7
    <2>9. ppc' = ppc /\ offered' = offered
      BY Zenon, <1>1
    <2>10. PendingOffered' /\ PendingAscends'
      BY <2>3, <2>9, Zenon DEF PendingOffered, PendingAscends
    <2>11. TakenFirst'
      BY Zenon, <2>8 DEF TakenFirst
    <2> QED BY Zenon, <2>5, <2>9, <2>10, <2>11 DEF Inv, Numbered
  <1>8. Distinct'
    <2>1. \A i \in 1 .. Len(taken) : taken[i] # t
      BY <1>2, BoundAssumption DEF Inv, TypeOK, Numbered, TakenFirst, Tasks
    <2>2. \A u \in Threads : tpc'[u] = "run" => u = w \/ tpc[u] = "run"
      BY Zenon, <1>1 DEF Inv, TypeOK
    <2>3. task'[w] = t /\ \A u \in Threads : u # w => task'[u] = task[u]
      BY Zenon, <1>1 DEF Inv, TypeOK
    <2>4. \A u \in Threads : tpc[u] = "run" => task[u] # t
      BY Zenon, <2>1 DEF Inv, Distinct
    <2>5. \A u \in Threads :
            tpc'[u] = "run" => \E i \in 1 .. Len(taken') : taken'[i] = task'[u]
      <3> SUFFICES ASSUME NEW u \in Threads, tpc'[u] = "run"
                   PROVE  \E i \in 1 .. Len(taken') : taken'[i] = task'[u]
        BY Zenon
      <3>1. CASE u = w
        BY <3>1, <1>6, <2>3
      <3>2. CASE u # w
        <4>1. PICK i \in 1 .. Len(taken) : taken[i] = task[u]
          BY Zenon, <3>2, <2>2 DEF Inv, Distinct
        <4> QED BY <3>2, <4>1, <1>6, <2>3
      <3> QED BY Zenon, <3>1, <3>2
    <2> QED BY <2>2, <2>3, <2>4, <2>5 DEF Inv, Distinct
  <1> QED BY Zenon, <1>2, <1>3, <1>4, <1>5, <1>7, <1>8 DEF Inv

LEMMA RunKeeps == ASSUME Inv, NEW w \in Threads, Run(w) PROVE Inv'
  <1>1. /\ tpc[w] = "run" /\ tpc' = [tpc EXCEPT ![w] = "loop"] /\ w \in Alive
        /\ Move(w, "loop") /\ task' = [task EXCEPT ![w] = 0]
        /\ UNCHANGED <<pool, ring, shutdown, started, ppc, mpc, offered, taken>>
    BY Zenon DEF Run, Move, Alive
  <1>2. TypeOK'
    BY Zenon, <1>1 DEF Inv, TypeOK, ring
  <1>3. Control'
    BY Zenon, <1>1 DEF Inv, TypeOK, Control, ring
  <1>4. Counted'
    BY Zenon, <1>1, CountedAfterMove DEF Inv
  <1>5. Ring'
    BY Zenon, <1>1, PendingUnchanged DEF Inv
  <1>6. Numbered'
    BY Zenon, <1>1, NumberedUnchanged DEF Inv
  <1>7. Distinct'
    BY Zenon, <1>1 DEF Inv, TypeOK, Distinct
  <1> QED BY Zenon, <1>2, <1>3, <1>4, <1>5, <1>6, <1>7 DEF Inv

-----------------------------------------------------------------------------
(* The main thread.                                                        *)

LEMMA DeinitKeeps == ASSUME Inv, Deinit PROVE Inv'
  <1>1. TypeOK'
    BY Zenon DEF Inv, TypeOK, Deinit, ring
  <1>2. Control'
    BY Zenon DEF Inv, TypeOK, Control, Deinit, ring
  <1>3. Counted'
    BY Zenon DEF Inv, Counted, Alive, Deinit
  <1>4. Ring'
    BY Zenon, PendingUnchanged DEF Inv, Deinit
  <1>5. Numbered'
    BY Zenon, NumberedUnchanged DEF Inv, Deinit
  <1>6. Distinct'
    BY Zenon DEF Inv, TypeOK, Distinct, Deinit
  <1> QED BY Zenon, <1>1, <1>2, <1>3, <1>4, <1>5, <1>6 DEF Inv

LEMMA DestroyKeeps == ASSUME Inv, threadpool_destroy PROVE Inv'
  <1>1. TypeOK'
    BY Zenon, ShutdownsAssumption, WakingUp DEF Inv, TypeOK, threadpool_destroy, ring
  <1>2. Control'
    BY Zenon, ShutdownsAssumption, WakingUp DEF Inv, TypeOK, Control, threadpool_destroy, ring
  <1>3. Counted'
    BY Zenon, WakingUp DEF Inv, Counted, threadpool_destroy
  <1>4. Ring'
    BY Zenon, PendingUnchanged DEF Inv, threadpool_destroy
  <1>5. Numbered'
    BY Zenon, NumberedUnchanged DEF Inv, threadpool_destroy
  <1>6. Distinct'
    BY Zenon, WakingUp DEF Inv, TypeOK, Distinct, threadpool_destroy
  <1> QED BY Zenon, <1>1, <1>2, <1>3, <1>4, <1>5, <1>6 DEF Inv

LEMMA JoinedKeeps == ASSUME Inv, Joined PROVE Inv'
  <1>1. TypeOK'
    BY Zenon DEF Inv, TypeOK, Joined, ring
  <1>2. Control'
    BY NobodyAlive, ThreadsAssumption DEF Inv, TypeOK, Control, Counted, Joined, ring, AllJoined, Created
  <1>3. Counted'
    BY Zenon DEF Inv, Counted, Alive, Joined
  <1>4. Ring'
    BY Zenon, PendingUnchanged DEF Inv, Joined
  <1>5. Numbered'
    BY Zenon, NumberedUnchanged DEF Inv, Joined
  <1>6. Distinct'
    BY Zenon DEF Inv, TypeOK, Distinct, Joined
  <1> QED BY Zenon, <1>1, <1>2, <1>3, <1>4, <1>5, <1>6 DEF Inv

-----------------------------------------------------------------------------

LEMMA InvInit == ASSUME Init PROVE Inv
  <1>1. TypeOK
    BY SizeAssumption, BoundAssumption DEF Init, TypeOK, Slots
  <1>2. Control
    BY Zenon DEF Init, Control
  <1>3. Counted
    BY Zenon, NobodyAlive DEF Init, Counted
  <1>4. Ring /\ Numbered /\ Distinct
    BY SizeAssumption DEF Init, Ring, Numbered, PendingOffered, PendingAscends, TakenOffered, TakenFirst, Distinct
  <1> QED BY Zenon, <1>1, <1>2, <1>3, <1>4 DEF Inv

LEMMA InvStep == ASSUME Inv, [Next]_vars PROVE Inv'
  <1>1. CASE addTask
    BY Zenon, <1>1, AddTaskKeeps
  <1>2. CASE Receiver
    BY Zenon, <1>2, CreatePoolKeeps, NoMemoryKeeps, CreateThreadKeeps, CreateDoneKeeps,
       CreateFailedKeeps, CreateUndoneKeeps, AddKeeps DEF Receiver
  <1>3. CASE Deinit
    BY Zenon, <1>3, DeinitKeeps
  <1>4. CASE Main
    BY Zenon, <1>4, DestroyKeeps, JoinedKeeps DEF Main
  <1>5. ASSUME NEW w \in Threads, Thread(w) \/ SpuriousWakeup(w) PROVE Inv'
    BY Zenon, <1>5, WaitKeeps, ExitKeeps, GrabKeeps, RunKeeps DEF Thread
  <1>6. CASE UNCHANGED vars
    <2>1. Pending' = Pending /\ Ring'
      BY Zenon, <1>6, PendingUnchanged DEF vars, Inv
    <2>2. TypeOK' /\ Control' /\ Counted'
      BY Zenon, <1>6 DEF vars, ring, Inv, TypeOK, Control, Counted, Alive
    <2>3. Numbered' /\ Distinct'
      BY Zenon, <1>6, NumberedUnchanged DEF vars, Inv, Distinct
    <2> QED BY Zenon, <2>1, <2>2, <2>3 DEF Inv
  <1> QED BY Zenon, <1>1, <1>2, <1>3, <1>4, <1>5, <1>6 DEF Next

(* The fields of threadpool_t keep their types: count stays within the     *)
(* ring, head and tail are slots, and started is never negative.           *)
THEOREM PoolTypes == Spec => []TypeOK
  <1>1. Inv => TypeOK
    BY Zenon DEF Inv
  <1> QED BY <1>1, InvInit, InvStep, PTL DEF Spec

(* threadpool_free: a pool that is freed has no thread and no caller left, *)
(* and the pool is freed whenever ThreadPoolWrapper_deinit has returned.   *)
THEOREM FreedWhenUnused == Spec => []FreedUnused
  <1>1. Inv => FreedUnused
    BY Zenon DEF Inv, Control, TypeOK, FreedUnused
  <1> QED BY <1>1, InvInit, InvStep, PTL DEF Spec

-----------------------------------------------------------------------------
AbstractVars == <<Pending, taken, Running, Phase>>

LEMMA RunningUnchanged ==
    ASSUME TypeOK, task' = task,
           \A w \in Threads : tpc'[w] = "run" <=> tpc[w] = "run"
    PROVE  Running' = Running
  <1>1. {u \in Threads : tpc'[u] = "run"} = {u \in Threads : tpc[u] = "run"}
    BY Zenon
  <1> QED BY Zenon, <1>1 DEF Running

(* Setting the pool up shows no task to anybody.                           *)
LEMMA ReceiverStutters ==
    ASSUME Inv, addTask \/ (Receiver /\ ~threadpool_add)
    PROVE  UNCHANGED AbstractVars
  <1>1. CASE addTask
    BY Zenon, <1>1, PendingUnchanged, RunningUnchanged DEF Inv, addTask, Phase, AbstractVars
  <1>2. CASE CreatePool
    <2>1. count = 0 /\ count' = 0
      BY Zenon, <1>2 DEF Inv, Control, CreatePool
    <2>2. Pending = <<>> /\ Pending' = <<>>
      BY <2>1 DEF Pending
    <2>3. Phase' = Phase
      BY Zenon, <1>2 DEF Inv, Control, CreatePool, Phase
    <2> QED BY Zenon, <1>2, <2>2, <2>3, RunningUnchanged DEF Inv, CreatePool, AbstractVars
  <1>3. CASE NoMemory
    BY Zenon, <1>3, PendingUnchanged, RunningUnchanged DEF Inv, NoMemory, Phase, AbstractVars
  <1>4. CASE CreateThread
    <2>1. \A w \in Threads : tpc'[w] = "run" <=> tpc[w] = "run"
      BY Zenon, <1>4 DEF Inv, TypeOK, CreateThread, Move, Created
    <2> QED BY Zenon, <1>4, <2>1, PendingUnchanged, RunningUnchanged
        DEF Inv, CreateThread, Phase, AbstractVars
  <1>5. CASE CreateDone
    BY Zenon, <1>5, PendingUnchanged, RunningUnchanged DEF Inv, CreateDone, Phase, AbstractVars
  <1>6. CASE CreateFailed
    <2>1. \A w \in Threads : tpc'[w] = "run" <=> tpc[w] = "run"
      BY Zenon, <1>6, WakingUp DEF Inv, CreateFailed
    <2>2. Phase' = Phase
      BY Zenon, <1>6 DEF Inv, Control, CreateFailed, Phase
    <2> QED BY Zenon, <1>6, <2>1, <2>2, PendingUnchanged, RunningUnchanged
        DEF Inv, CreateFailed, AbstractVars
  <1>7. CASE CreateUndone
    <2>1. \A w \in Threads : tpc'[w] = "run" <=> tpc[w] = "run"
      BY Zenon, <1>7 DEF Inv, TypeOK, CreateUndone, Created
    <2> QED BY Zenon, <1>7, <2>1, PendingUnchanged, RunningUnchanged
        DEF Inv, CreateUndone, Phase, AbstractVars
  <1> QED BY Zenon, <1>1, <1>2, <1>3, <1>4, <1>5, <1>6, <1>7 DEF Receiver

(* threadpool_add accepts the task, or refuses it and changes nothing.     *)
LEMMA AddAccepts ==
    ASSUME Inv, threadpool_add
    PROVE  Abstract!Accept \/ UNCHANGED AbstractVars
  <1>1. CASE IsFull \/ shutdown # "no"
    BY Zenon, <1>1, PendingUnchanged, RunningUnchanged DEF Inv, threadpool_add, Phase, AbstractVars
  <1>2. CASE ~(IsFull \/ shutdown # "no")
    <2>1. Pending' = Append(Pending, offered)
      BY Zenon, <1>2, PendingAfterAdd DEF Inv, threadpool_add
    <2>2. Len(Pending) = count /\ Len(Pending) < QueueSize
      BY <1>2, PendingIsSequence, SizeAssumption DEF Inv, TypeOK, IsFull
    <2>3. Running' = Running
      <3>1. \A w \in Threads : tpc'[w] = "run" <=> tpc[w] = "run"
        BY Zenon, <1>2, WakingUp DEF Inv, threadpool_add
      <3> QED BY Zenon, <3>1, RunningUnchanged DEF Inv, threadpool_add
    <2>4. taken' = taken /\ Phase' = Phase /\ Phase = "open"
      BY Zenon DEF Inv, Control, threadpool_add, Phase
    <2>5. offered \in Tasks
      BY BoundAssumption DEF Inv, TypeOK, Numbered, threadpool_add, Tasks
    <2>6. \A i \in 1 .. Len(Pending) : Pending[i] < offered
      BY Zenon, <2>2 DEF Inv, Numbered, PendingOffered, threadpool_add
    <2>7. \A i \in 1 .. Len(taken) : taken[i] < offered
      BY Zenon DEF Inv, Numbered, TakenOffered, threadpool_add
    <2> QED BY Zenon, <2>1, <2>2, <2>3, <2>4, <2>5, <2>6, <2>7 DEF Abstract!Accept
  <1> QED BY Zenon, <1>1, <1>2

(* A thread that grabs takes the first task of the queue.                  *)
LEMMA GrabTakes ==
    ASSUME Inv, NEW w \in Threads, Grab(w)
    PROVE  Abstract!Take
  <1>1. Pending' = Tail(Pending) /\ Pending # <<>> /\ Head(Pending) = queue[head]
    BY Zenon, GrabbedTask
  <1>2. Running' = Running \cup {queue[head]}
    <2>1. {u \in Threads : tpc'[u] = "run"} = {u \in Threads : tpc[u] = "run"} \cup {w}
      BY Zenon DEF Inv, TypeOK, Grab, Move
    <2>2. task'[w] = queue[head] /\ \A u \in Threads : u # w => task'[u] = task[u]
      BY Zenon DEF Inv, TypeOK, Grab
    <2>3. tpc[w] # "run"
      BY Zenon DEF Grab
    <2> QED BY ZenonT(60), <2>1, <2>2, <2>3 DEF Running
  <1>3. taken' = Append(taken, queue[head])
    BY Zenon DEF Grab
  <1>4. Phase' = Phase /\ Phase \in {"open", "graceful"}
    <2>1. pool = "made"
      BY Zenon DEF Inv, TypeOK, Control, Grab, MustExit
    <2>2. shutdown \in {"no", "graceful"}
      BY Zenon DEF Inv, TypeOK, Grab, MustExit
    <2> QED BY Zenon, <2>1, <2>2 DEF Inv, TypeOK, Control, Grab, Phase
  <1> QED BY Zenon, <1>1, <1>2, <1>3, <1>4 DEF Abstract!Take

(* A task that returns has been run once: no other thread has it.          *)
LEMMA RunCompletes ==
    ASSUME Inv, NEW w \in Threads, Run(w)
    PROVE  Abstract!Complete
  <1>1. {u \in Threads : tpc'[u] = "run"} = {u \in Threads : tpc[u] = "run"} \ {w}
    BY Zenon DEF Inv, TypeOK, Run, Move
  <1>2. \A u \in Threads : u # w => task'[u] = task[u]
    BY Zenon DEF Inv, TypeOK, Run
  <1>3. \A u \in Threads : tpc[u] = "run" /\ u # w => task[u] # task[w]
    BY Zenon DEF Inv, Distinct, Run
  <1>4. Running' = {task[u] : u \in {v \in Threads : tpc[v] = "run"} \ {w}}
    BY Zenon, <1>1, <1>2 DEF Running
  <1>5. Running' = Running \ {task[w]} /\ task[w] \in Running
    BY Zenon, <1>3, <1>4 DEF Running, Run
  <1>6. Pending' = Pending /\ taken' = taken /\ Phase' = Phase
    BY Zenon, PendingUnchanged DEF Run, Phase
  <1> QED BY Zenon, <1>5, <1>6 DEF Abstract!Complete

LEMMA IdleThreadStutters ==
    ASSUME Inv, NEW w \in Threads, Wait(w) \/ SpuriousWakeup(w) \/ Exit(w)
    PROVE  UNCHANGED AbstractVars
  <1>1. \A u \in Threads : tpc'[u] = "run" <=> tpc[u] = "run"
    BY Zenon DEF Inv, TypeOK, Wait, SpuriousWakeup, Exit, Move
  <1>2. Pending' = Pending /\ taken' = taken /\ task' = task /\ Phase' = Phase
    BY Zenon, PendingUnchanged DEF Wait, SpuriousWakeup, Exit, Phase
  <1> QED BY Zenon, <1>1, <1>2, RunningUnchanged DEF Inv, AbstractVars

(* The main thread closes the pool, and the pool is gone when no task runs *)
(* and, after a graceful shutdown, none waits.                             *)
LEMMA MainCloses ==
    ASSUME Inv, Deinit \/ Main
    PROVE  Abstract!Close \/ Abstract!Vanish \/ UNCHANGED AbstractVars
  <1>1. CASE Deinit
    <2>1. Pending' = Pending /\ taken' = taken /\ Running' = Running
      BY Zenon, <1>1, PendingUnchanged, RunningUnchanged DEF Inv, Deinit
    <2>2. CASE pool = "none"
      <3>1. Phase = "open" /\ Phase' = "gone"
        BY Zenon, <1>1, <2>2 DEF Deinit, Phase
      <3>2. Running = {}
        BY Zenon, <2>2 DEF Inv, Control, Running
      <3>3. Pending = <<>>
        BY <2>2 DEF Inv, Control, Pending
      <3> QED BY Zenon, <2>1, <3>1, <3>2, <3>3 DEF Abstract!Vanish
    <2>3. CASE pool # "none"
      BY Zenon, <1>1, <2>1, <2>3 DEF Deinit, Phase, AbstractVars
    <2> QED BY Zenon, <2>2, <2>3
  <1>2. CASE threadpool_destroy
    <2>1. Running' = Running
      <3>1. \A w \in Threads : tpc'[w] = "run" <=> tpc[w] = "run"
        BY Zenon, <1>2, WakingUp DEF Inv, threadpool_destroy
      <3> QED BY Zenon, <1>2, <3>1, RunningUnchanged DEF Inv, threadpool_destroy
    <2>2. Pending' = Pending /\ taken' = taken
      BY Zenon, <1>2, PendingUnchanged DEF threadpool_destroy
    <2>3. Phase = "open" /\ Phase' \in {"immediate", "graceful"}
      BY Zenon, <1>2, ShutdownsAssumption DEF threadpool_destroy, Phase
    <2> QED BY Zenon, <2>1, <2>2, <2>3 DEF Abstract!Close
  <1>3. CASE Joined
    <2>1. \A w \in Threads : tpc[w] = "exited"
      BY Zenon, <1>3 DEF Inv, Control, Joined, AllJoined, Created
    <2>2. Running = {} /\ Running' = Running
      BY Zenon, <1>3, <2>1, RunningUnchanged DEF Inv, Joined, Running
    <2>3. Pending' = Pending /\ taken' = taken
      BY Zenon, <1>3, PendingUnchanged DEF Joined
    <2>4. shutdown = "graceful" => count = 0
      BY Zenon, <2>1, ThreadsAssumption DEF Inv, Control
    <2>5. Phase = shutdown /\ Phase' = "gone" /\ shutdown \in {"immediate", "graceful"}
      BY Zenon, <1>3 DEF Inv, TypeOK, Control, Joined, Phase
    <2>6. count = 0 => Pending = <<>>
      BY DEF Pending
    <2> QED BY Zenon, <2>2, <2>3, <2>4, <2>5, <2>6 DEF Abstract!Vanish
  <1> QED BY Zenon, <1>1, <1>2, <1>3 DEF Main

LEMMA AbstractInit == ASSUME Init PROVE Abstract!Init
  <1>1. Pending = <<>>
    BY DEF Init, Pending
  <1>2. Running = {}
    BY Zenon DEF Init, Running
  <1> QED BY Zenon, <1>1, <1>2 DEF Init, Abstract!Init, Phase

LEMMA AbstractStep ==
    ASSUME Inv, [Next]_vars
    PROVE  [Abstract!Next]_<<Pending, taken, Running, Phase>>
  <1>1. CASE addTask \/ (Receiver /\ ~threadpool_add)
    BY Zenon, <1>1, ReceiverStutters DEF AbstractVars
  <1>2. CASE threadpool_add
    BY Zenon, <1>2, AddAccepts DEF AbstractVars, Abstract!Next
  <1>3. CASE Deinit \/ Main
    BY Zenon, <1>3, MainCloses DEF AbstractVars, Abstract!Next
  <1>4. ASSUME NEW w \in Threads, Thread(w) \/ SpuriousWakeup(w)
        PROVE  [Abstract!Next]_<<Pending, taken, Running, Phase>>
    BY Zenon, <1>4, IdleThreadStutters, GrabTakes, RunCompletes
    DEF Thread, AbstractVars, Abstract!Next
  <1>5. CASE UNCHANGED vars
    BY Zenon, <1>5, PendingUnchanged DEF vars, Running, Phase
  <1> QED BY Zenon, <1>1, <1>2, <1>3, <1>4, <1>5 DEF Next, Receiver

(* The pool is the bounded queue of TaskQueue: each task is accepted at    *)
(* most once and taken once, in order; a graceful shutdown leaves none     *)
(* behind, an immediate one takes no more; nothing runs afterwards.        *)
THEOREM PoolIsTaskQueue == Spec => IsTaskQueue
  <1> QED BY InvInit, InvStep, AbstractInit, AbstractStep, PTL
      DEF Spec, IsTaskQueue, Abstract!Spec

-----------------------------------------------------------------------------
(* The pipe.                                                               *)

(* The steps of the pool that are none of write_pipe_thread_fun.           *)
PoolStep ==
    \/ addTask \/ Receiver \/ threadpool_destroy \/ Joined \/ Deinit
    \/ \E w \in Threads : Wait(w) \/ Exit(w) \/ Grab(w) \/ SpuriousWakeup(w)

LEMMA PipeStepCases ==
    ASSUME [PipeNext]_allVars
    PROVE  \/ PoolStep /\ UNCHANGED pipeVars
           \/ \E w \in Threads : Task(w)
           \/ close_write_pipe \/ ReadFifo \/ ReaderFlaps
           \/ UNCHANGED allVars
  BY Zenon DEF PipeNext, msg_received_handler, PipeReceiver, PipeMain, DestroyPool, PipeThread,
               PoolStep

(* Every step of the pipe is one of the pool or leaves the pool as it is.  *)
LEMMA PipeStepIsPoolStep ==
    ASSUME [PipeNext]_allVars
    PROVE  [Next]_vars
  <1>1. CASE PoolStep
    BY Zenon, <1>1 DEF PoolStep, Next, Main, Thread
  <1>2. ASSUME NEW w \in Threads, Task(w) PROVE [Next]_vars
    BY Zenon, <1>2 DEF Task, TaskLock, TaskOpen, TaskWrite, TaskEnd, Next, Thread
  <1> QED
    BY Zenon, <1>1, <1>2, PipeStepCases
       DEF close_write_pipe, ReadFifo, ReaderFlaps, allVars

(* A running task stays as it is while the pool goes on, and only Grab     *)
(* begins one.                                                             *)
LEMMA RunningGoesOn ==
    ASSUME Inv, PoolStep
    PROVE  /\ \A w \in Threads : tpc[w] = "run" => tpc'[w] = "run" /\ task'[w] = task[w]
           /\ \/ /\ taken' = taken
                 /\ \A w \in Threads : tpc'[w] = "run" => tpc[w] = "run"
              \/ \E w \in Threads : Grab(w)
  <1> USE DEF Inv, TypeOK, Move, Signal, Broadcast, Waiting, Created, ring
  <1>1. CASE addTask \/ Deinit \/ Joined
    BY Zenon, <1>1 DEF addTask, Deinit, Joined
  <1>2. CASE CreatePool \/ NoMemory \/ CreateThread \/ CreateDone
    BY Zenon, <1>2 DEF CreatePool, NoMemory, CreateThread, CreateDone
  <1>3. CASE CreateFailed \/ CreateUndone
    BY Zenon, <1>3 DEF CreateFailed, CreateUndone, Control
  <1>4. CASE threadpool_add \/ threadpool_destroy
    BY Zenon, <1>4 DEF threadpool_add, threadpool_destroy
  <1>5. ASSUME NEW w \in Threads, Wait(w) \/ Exit(w) \/ SpuriousWakeup(w)
        PROVE  /\ \A u \in Threads : tpc[u] = "run" <=> tpc'[u] = "run"
               /\ task' = task /\ taken' = taken
    BY Zenon, <1>5 DEF Wait, Exit, SpuriousWakeup
  <1>6. ASSUME NEW w \in Threads, Grab(w)
        PROVE  \A u \in Threads : tpc[u] = "run" => tpc'[u] = "run" /\ task'[u] = task[u]
    BY Zenon, <1>6 DEF Grab
  <1> QED BY Zenon, <1>1, <1>2, <1>3, <1>4, <1>5, <1>6 DEF PoolStep, Receiver

-----------------------------------------------------------------------------
(* The mutex of write_pipe_thread_fun and the descriptor.                  *)

(* The types of the variables that matter here.                            *)
PipeTypes ==
    /\ fd \in {"zero", "negative", "open", "closed"} /\ pipeLock \subseteq Threads
    /\ step \in [Threads -> {"begin", "open", "write", "end"}]
    /\ fifo \in Seq(Tasks) /\ delivered \in Seq(Tasks)

(* A thread past the lock runs a task and is the only one that holds the   *)
(* mutex, and it opens the FIFO only while it is not open.  That the main  *)
(* thread closes it without the mutex does no harm to this.                *)
Holding ==
    /\ \A w \in Threads : step[w] # "begin" => tpc[w] = "run" /\ pipeLock = {w}
    /\ \A w \in Threads : step[w] = "open" => fd \in {"zero", "negative"}

PipeInv == Inv /\ PipeTypes /\ Holding

LEMMA PipeInvInit == ASSUME PipeInit PROVE PipeInv
  BY InvInit
     DEF PipeInit, open_write_pipe, PipeInv, PipeTypes, Holding

(* The task that a running thread writes is one.                           *)
LEMMA TaskIsOne ==
    ASSUME Inv, NEW w \in Threads, tpc[w] = "run"
    PROVE  task[w] \in Tasks
  BY DEF Inv, TypeOK, Distinct

LEMMA TaskKeeps ==
    ASSUME PipeInv, NEW w \in Threads, Task(w)
    PROVE  PipeTypes' /\ Holding'
  <1> USE DEF PipeInv, PipeTypes, Holding, Goto
  <1>1. CASE TaskLock(w)
    BY Zenon, <1>1 DEF TaskLock, LockFree, IsOpen, vars
  <1>2. CASE TaskOpen(w)
    BY Zenon, <1>2 DEF TaskOpen, open_write_pipe, vars
  <1>3. CASE TaskWrite(w)
    <2>1. task[w] \in Tasks
      BY Zenon, <1>3, TaskIsOne DEF TaskWrite
    <2> QED BY <1>3, <2>1 DEF TaskWrite, vars
  <1>4. CASE TaskEnd(w)
    BY <1>4 DEF TaskEnd, Run, Move, Inv, TypeOK
  <1> QED BY Zenon, <1>1, <1>2, <1>3, <1>4 DEF Task

LEMMA PipeInvStep == ASSUME PipeInv, [PipeNext]_allVars PROVE PipeInv'
  <1>1. Inv'
    BY Zenon, PipeStepIsPoolStep, InvStep DEF PipeInv
  <1>2. CASE PoolStep /\ UNCHANGED pipeVars
    BY Zenon, <1>1, <1>2, RunningGoesOn DEF PipeInv, PipeTypes, Holding, pipeVars
  <1>3. ASSUME NEW w \in Threads, Task(w) PROVE PipeInv'
    BY Zenon, <1>1, <1>3, TaskKeeps DEF PipeInv
  <1>4. CASE close_write_pipe
    <2>1. fd' \in {fd, "closed"} /\ (fd' # fd => fd = "open") /\ fifo' \in {fifo, <<>>}
      BY Zenon, <1>4 DEF close_write_pipe
    <2>2. UNCHANGED <<pipeLock, step, delivered, tpc>>
      BY Zenon, <1>4 DEF close_write_pipe, vars
    <2>3. fifo' \in Seq(Tasks)
      BY Zenon, <2>1, EmptySeq DEF PipeInv, PipeTypes
    <2>4. PipeTypes' /\ Holding'
      BY Zenon, <2>1, <2>2, <2>3 DEF PipeInv, PipeTypes, Holding
    <2> QED BY Zenon, <1>1, <2>4 DEF PipeInv
  <1>5. CASE ReadFifo
    <2>1. fifo' \in Seq(Tasks) /\ delivered' \in Seq(Tasks)
      BY Zenon, <1>5, HeadTailProperties, AppendProperties DEF ReadFifo, PipeInv, PipeTypes
    <2>2. UNCHANGED <<fd, pipeLock, step, tpc>>
      BY Zenon, <1>5 DEF ReadFifo, vars
    <2> QED BY Zenon, <1>1, <2>1, <2>2 DEF PipeInv, PipeTypes, Holding
  <1>6. CASE ReaderFlaps
    BY <1>1, <1>6 DEF ReaderFlaps, vars, PipeInv, PipeTypes, Holding
  <1>7. CASE UNCHANGED allVars
    BY Zenon, <1>1, <1>7 DEF allVars, pipeVars, vars, PipeInv, PipeTypes, Holding
  <1> QED BY Zenon, <1>2, <1>3, <1>4, <1>5, <1>6, <1>7, PipeStepCases

(* write_pipe_thread_fun opens the FIFO under g_write_pipe_mutex and only  *)
(* when it is not open, for any number of pool threads and with the main   *)
(* thread closing it at any time: open_write_pipe overwrites no descriptor *)
(* that is open.                                                           *)
THEOREM DescriptorKept == PipeSpec => []NoDescriptorLeak
  <1>1. PipeInv => NoDescriptorLeak
    BY Zenon DEF PipeInv, Holding, NoDescriptorLeak
  <1> QED BY <1>1, PipeInvInit, PipeInvStep, PTL DEF PipeSpec

-----------------------------------------------------------------------------
(* The order of the commands with one thread.                              *)

Ascends(s) == \A i, j \in 1 .. Len(s) : i < j => s[i] < s[j]

(* What has been written was taken, and before what is still to be written *)
(* by the thread at work.                                                  *)
WasTaken(s) == \A i \in 1 .. Len(s) : \E j \in 1 .. Len(taken) : s[i] = taken[j]

Before(s, w) ==
    tpc[w] = "run" /\ step[w] # "end" => \A i \in 1 .. Len(s) : s[i] < task[w]

Order ==
    /\ Ascends(delivered) /\ Ascends(fifo)
    /\ \A i \in 1 .. Len(delivered), j \in 1 .. Len(fifo) : delivered[i] < fifo[j]
    /\ WasTaken(delivered) /\ WasTaken(fifo)
    /\ \A w \in Threads : Before(delivered, w) /\ Before(fifo, w)

(* A task taken is later than all that were.                               *)
LEMMA GrabIsLater ==
    ASSUME Inv, NEW w \in Threads, Grab(w), NEW s, WasTaken(s)
    PROVE  /\ \A i \in 1 .. Len(s) : \E j \in 1 .. Len(taken') : s[i] = taken'[j]
           /\ \A i \in 1 .. Len(s) : s[i] < task'[w]
  <1>1. /\ taken' = Append(taken, queue[head]) /\ task'[w] = queue[head]
        /\ count \in Nat /\ count # 0 /\ Pending[1] = queue[head] /\ taken \in Seq(Tasks)
        /\ queue[head] \in Tasks
    BY Zenon, GrabbedTask DEF Grab, Inv, TypeOK
  <1>2. \A j \in 1 .. Len(taken) : taken[j] < queue[head]
    BY <1>1 DEF Inv, Numbered, TakenFirst
  <1>3. /\ Len(taken') = Len(taken) + 1 /\ Len(taken) \in Nat
        /\ \A j \in 1 .. Len(taken) : taken'[j] = taken[j]
    BY <1>1, AppendProperties
  <1> QED BY <1>1, <1>2, <1>3 DEF WasTaken

LEMMA OrderPool ==
    ASSUME PipeInv, Order, PoolStep, UNCHANGED pipeVars, \A u, w \in Threads : u = w
    PROVE  Order'
  <1>1. UNCHANGED <<step, fifo, delivered>>
    BY Zenon DEF pipeVars
  <1>2. CASE taken' = taken /\ \A w \in Threads : tpc'[w] = "run" => tpc[w] = "run"
    <2>1. \A w \in Threads : tpc'[w] = "run" => tpc[w] = "run" /\ task'[w] = task[w]
      BY Zenon, <1>2, RunningGoesOn DEF PipeInv
    <2> QED BY Zenon, <1>1, <1>2, <2>1 DEF Order, Ascends, WasTaken, Before
  <1>3. ASSUME NEW w \in Threads, Grab(w) PROVE Order'
    <2>1. /\ \A i \in 1 .. Len(fifo) : \E j \in 1 .. Len(taken') : fifo[i] = taken'[j]
          /\ \A i \in 1 .. Len(fifo) : fifo[i] < task'[w]
      BY Zenon, <1>3, GrabIsLater DEF PipeInv, Order
    <2>2. /\ \A i \in 1 .. Len(delivered) :
               \E j \in 1 .. Len(taken') : delivered[i] = taken'[j]
          /\ \A i \in 1 .. Len(delivered) : delivered[i] < task'[w]
      BY Zenon, <1>3, GrabIsLater DEF PipeInv, Order
    <2>3. \A u \in Threads : u = w
      BY Zenon
    <2> QED BY Zenon, <1>1, <2>1, <2>2, <2>3 DEF Order, Ascends, WasTaken, Before
  <1> QED BY Zenon, <1>2, <1>3, RunningGoesOn DEF PipeInv

(* A task writes at the end of the FIFO what is later than all before it.  *)
LEMMA OrderTask ==
    ASSUME PipeInv, Order, NEW w \in Threads, Task(w), \A u, v \in Threads : u = v
    PROVE  Order'
  <1>1. taken' = taken /\ delivered' = delivered /\ tpc[w] = "run"
    BY Zenon DEF Task, TaskLock, TaskOpen, TaskWrite, TaskEnd, Run, vars, PipeInv, Holding
  <1>2. tpc'[w] = "run" /\ step'[w] # "end" => step[w] # "end" /\ task'[w] = task[w]
    BY Zenon DEF Task, TaskLock, TaskOpen, TaskWrite, TaskEnd, Run, Move, Goto, vars, PipeInv,
           PipeTypes, Inv, TypeOK
  <1>3. \A u \in Threads : u = w
    BY Zenon
  <1>4. CASE fifo' = fifo
    BY Zenon, <1>1, <1>2, <1>3, <1>4 DEF Order, Ascends, WasTaken, Before
  <1>5. CASE fifo' # fifo
    <2>1. /\ step[w] = "write" /\ step'[w] = "end" /\ fifo' = Append(fifo, task[w])
      BY Zenon, <1>5 DEF Task, TaskLock, TaskOpen, TaskWrite, TaskEnd, Goto, PipeInv, PipeTypes
    <2>2. task[w] \in Tasks /\ fifo \in Seq(Tasks) /\ delivered \in Seq(Tasks)
      BY Zenon, <1>1, TaskIsOne DEF PipeInv, PipeTypes
    <2>3. /\ Len(fifo) \in Nat /\ Len(fifo') = Len(fifo) + 1
          /\ \A i \in 1 .. Len(fifo) : fifo'[i] = fifo[i]
          /\ fifo'[Len(fifo) + 1] = task[w]
      BY <2>1, <2>2, AppendProperties
    <2>4. \E j \in 1 .. Len(taken) : task[w] = taken[j]
      BY Zenon, <1>1 DEF PipeInv, Inv, Distinct
    <2>5. /\ \A i \in 1 .. Len(fifo) : fifo[i] < task[w]
          /\ \A i \in 1 .. Len(delivered) : delivered[i] < task[w]
      BY Zenon, <1>1, <2>1 DEF Order, Before
    <2>6. Ascends(fifo')
      BY <2>3, <2>5 DEF Order, Ascends
    <2>7. \A i \in 1 .. Len(delivered), j \in 1 .. Len(fifo') : delivered[i] < fifo'[j]
      BY <2>3, <2>5 DEF Order
    <2>8. \A i \in 1 .. Len(fifo') : \E j \in 1 .. Len(taken) : fifo'[i] = taken[j]
      <3> SUFFICES ASSUME NEW i \in 1 .. Len(fifo')
                   PROVE  \E j \in 1 .. Len(taken) : fifo'[i] = taken[j]
        BY Zenon
      <3>1. CASE i \in 1 .. Len(fifo)
        BY ZenonT(30), <2>3, <3>1 DEF Order, WasTaken
      <3>2. CASE i = Len(fifo) + 1
        BY Zenon, <2>3, <2>4, <3>2
      <3>3. i \in 1 .. Len(fifo) \/ i = Len(fifo) + 1
        BY <2>3
      <3> QED BY Zenon, <3>1, <3>2, <3>3
    <2> QED BY Zenon, <1>1, <1>3, <2>1, <2>6, <2>7, <2>8 DEF Order, Ascends, WasTaken, Before
  <1> QED BY Zenon, <1>4, <1>5

(* What is lost with the FIFO leaves the order of the rest.                *)
LEMMA OrderFifoLost ==
    ASSUME Order, fifo' \in {fifo, <<>>}, UNCHANGED <<taken, tpc, task, step, delivered>>
    PROVE  Order'
  <1>1. CASE fifo' = fifo
    BY Zenon, <1>1 DEF Order, Ascends, WasTaken, Before
  <1>2. CASE fifo' = <<>>
    <2>1. \A i \in 1 .. Len(fifo') : FALSE
      BY <1>2
    <2> QED BY Zenon, <2>1 DEF Order, Ascends, WasTaken, Before
  <1> QED BY Zenon, <1>1, <1>2

LEMMA OrderRead ==
    ASSUME PipeInv, Order, ReadFifo
    PROVE  Order'
  <1>1. /\ fifo \in Seq(Tasks) /\ fifo # <<>> /\ delivered \in Seq(Tasks)
        /\ fifo' = Tail(fifo) /\ delivered' = Append(delivered, Head(fifo))
        /\ UNCHANGED <<taken, tpc, task, step>>
    BY Zenon DEF ReadFifo, vars, PipeInv, PipeTypes
  <1>2. /\ Len(fifo) \in Nat /\ Len(fifo) > 0 /\ Len(fifo') = Len(fifo) - 1
        /\ \A i \in 1 .. Len(fifo') : fifo'[i] = fifo[i + 1]
    BY <1>1, HeadTailProperties, EmptySeq
  <1>3. Head(fifo) = fifo[1] /\ Head(fifo) \in Tasks
    BY <1>1, HeadTailProperties
  <1>4. /\ Len(delivered) \in Nat /\ Len(delivered') = Len(delivered) + 1
        /\ \A i \in 1 .. Len(delivered) : delivered'[i] = delivered[i]
        /\ delivered'[Len(delivered) + 1] = fifo[1]
    BY <1>1, <1>3, AppendProperties
  <1>5. \A i \in 1 .. Len(fifo') : i + 1 \in 1 .. Len(fifo) /\ 1 < i + 1
    BY <1>2
  <1>6. 1 \in 1 .. Len(fifo)
    BY <1>2
  <1>7. \A i \in 1 .. Len(delivered') : i \in 1 .. Len(delivered) \/ delivered'[i] = fifo[1]
    BY <1>4
  <1>8. Ascends(delivered') /\ Ascends(fifo')
    <2>1. Ascends(fifo')
      BY <1>2, <1>5 DEF Order, Ascends
    <2>2. ASSUME NEW i \in 1 .. Len(delivered'), NEW j \in 1 .. Len(delivered'), i < j
          PROVE  delivered'[i] < delivered'[j]
      <3>1. i \in 1 .. Len(delivered) /\ delivered'[i] = delivered[i]
        BY <1>4, <2>2
      <3>2. CASE j \in 1 .. Len(delivered)
        BY Zenon, <1>4, <2>2, <3>1, <3>2 DEF Order, Ascends
      <3>3. CASE delivered'[j] = fifo[1]
        BY Zenon, <1>6, <3>1, <3>3 DEF Order
      <3> QED BY Zenon, <1>7, <3>2, <3>3
    <2> QED BY Zenon, <2>1, <2>2 DEF Ascends
  <1>9. \A i \in 1 .. Len(delivered'), j \in 1 .. Len(fifo') : delivered'[i] < fifo'[j]
    BY Zenon, <1>2, <1>4, <1>5, <1>6, <1>7 DEF Order, Ascends
  <1>10. /\ \A i \in 1 .. Len(delivered') : \E j \in 1 .. Len(taken) : delivered'[i] = taken[j]
         /\ \A i \in 1 .. Len(fifo') : \E j \in 1 .. Len(taken) : fifo'[i] = taken[j]
    <2>1. ASSUME NEW i \in 1 .. Len(delivered')
          PROVE  \E j \in 1 .. Len(taken) : delivered'[i] = taken[j]
      BY SMTT(30), <1>4, <1>6, <1>7 DEF Order, WasTaken
    <2>2. ASSUME NEW i \in 1 .. Len(fifo')
          PROVE  \E j \in 1 .. Len(taken) : fifo'[i] = taken[j]
      BY <1>2, <1>5 DEF Order, WasTaken
    <2> QED BY Zenon, <2>1, <2>2
  <1>11. ASSUME NEW w \in Threads, tpc[w] = "run", step[w] # "end"
         PROVE  /\ \A i \in 1 .. Len(delivered') : delivered'[i] < task[w]
                /\ \A i \in 1 .. Len(fifo') : fifo'[i] < task[w]
    BY Zenon, <1>2, <1>4, <1>5, <1>6, <1>7, <1>11 DEF Order, Before
  <1> QED BY Zenon, <1>1, <1>8, <1>9, <1>10, <1>11 DEF Order, Ascends, WasTaken, Before

LEMMA OrderStep ==
    ASSUME \A u, w \in Threads : u = w, PipeInv, Order, [PipeNext]_allVars
    PROVE  Order'
  <1>1. CASE close_write_pipe \/ ReaderFlaps \/ UNCHANGED allVars
    BY Zenon, <1>1, OrderFifoLost DEF close_write_pipe, ReaderFlaps, allVars, pipeVars, vars
  <1> QED BY Zenon, <1>1, OrderPool, OrderTask, OrderRead, PipeStepCases

(* With one thread, as the hub is configured (THREAD_COUNT), commands      *)
(* reach the reader of the FIFO in the order in which they were received   *)
(* and none of them twice, for any size of the queue and of the FIFO and   *)
(* whatever the full queue, the FIFO and its reader lose.                  *)
THEOREM CommandsInOrder ==
    ASSUME \A u, w \in Threads : u = w
    PROVE  PipeSpec => []InOrder
  <1>1. PipeInit => Order
    BY DEF PipeInit, Init, Order, Ascends, WasTaken, Before
  <1>2. PipeInv /\ Order => InOrder
    <2> SUFFICES ASSUME PipeInv, Order PROVE InOrder
      BY Zenon
    <2> DEFINE all == delivered \o fifo
    <2>1. /\ Len(all) = Len(delivered) + Len(fifo)
          /\ Len(delivered) \in Nat /\ Len(fifo) \in Nat
          /\ \A i \in 1 .. Len(delivered) + Len(fifo) :
               all[i] = IF i <= Len(delivered) THEN delivered[i] ELSE fifo[i - Len(delivered)]
      BY ConcatProperties DEF PipeInv, PipeTypes
    <2> HIDE DEF all
    <2> SUFFICES ASSUME NEW i \in 1 .. Len(all), NEW j \in 1 .. Len(all), i < j
                 PROVE  all[i] < all[j]
      BY Zenon DEF InOrder, all
    <2>2. CASE j <= Len(delivered)
      BY <2>1, <2>2 DEF Order, Ascends
    <2>3. CASE i <= Len(delivered) /\ j > Len(delivered)
      BY <2>1, <2>3 DEF Order
    <2>4. CASE i > Len(delivered)
      <3> DEFINE d == Len(delivered)
      <3>1. i - d \in 1 .. Len(fifo) /\ j - d \in 1 .. Len(fifo) /\ i - d < j - d
        BY <2>1, <2>4
      <3>2. all[i] = fifo[i - d] /\ all[j] = fifo[j - d]
        BY <2>1, <2>4
      <3> HIDE DEF d
      <3> QED BY Zenon, <3>1, <3>2 DEF Order, Ascends
    <2> QED BY <2>1, <2>2, <2>3, <2>4
  <1> QED BY <1>1, <1>2, PipeInvInit, PipeInvStep, OrderStep, PTL DEF PipeSpec

=============================================================================
