------------------------------ MODULE WritePipe ------------------------------
(***************************************************************************)
(* Received messages on their way to the FIFO (msgrevhandler.c,            *)
(* writepipe.c): the MQTT client's receiving thread adds a task per        *)
(* command to the thread pool, and the pool's thread writes it.  The steps *)
(* of ThreadPool stay as they are; a task's run is refined here into the   *)
(* steps of write_pipe_thread_fun.                                         *)
(***************************************************************************)
EXTENDS ThreadPool

CONSTANTS
    FifoSize,   \* messages the FIFO holds
    MaxFlaps    \* bound: how often the reader comes or goes

ASSUME FifoAssumption == FifoSize \in Nat \ {0} /\ MaxFlaps \in Nat

VARIABLES
    fd,         \* g_pipe_fd: "zero", "negative", "open", or "closed": a number the hub no longer owns
    pipeLock,   \* who holds g_write_pipe_mutex: a set of at most one thread
    step,       \* per thread: where it is in write_pipe_thread_fun
    closed,     \* the main thread has passed close_write_pipe
    reader,     \* another process has the FIFO open for reading
    flaps,
    fifo,       \* the messages in the FIFO
    delivered   \* history: the messages that were read, in order

pipeVars == <<fd, pipeLock, step, closed, reader, flaps, fifo, delivered>>

allVars == <<vars, pipeVars>>

(* open_write_pipe: open(fifo, O_WRONLY | O_NONBLOCK) fails while nobody   *)
(* reads; mkfifo may fail too, before g_pipe_fd is assigned.               *)
open_write_pipe(old) == IF reader THEN {"open"} ELSE {"negative", old}

-----------------------------------------------------------------------------
(* msg_received_handler: a command for this device, or for all, with a     *)
(* payload goes to the pool; anything else is dropped before and is no     *)
(* step here.                                                              *)
msg_received_handler == addTask /\ UNCHANGED pipeVars

(* Mutant: only a descriptor that was never opened counts as not open.     *)
IsOpenUnlessZero == fd # "zero"

IsOpen == fd \notin {"zero", "negative"}

(* Mutant: no mutex.                                                       *)
LockAlwaysFree == TRUE

LockFree == pipeLock = {}

Goto(w, label) == step' = [step EXCEPT ![w] = label]

TaskLock(w) ==
    /\ tpc[w] = "run" /\ step[w] = "begin" /\ LockFree
    /\ pipeLock' = pipeLock \cup {w}
    /\ Goto(w, IF IsOpen THEN "write" ELSE "open")
    /\ UNCHANGED <<vars, fd, closed, reader, flaps, fifo, delivered>>

TaskOpen(w) ==
    /\ step[w] = "open"
    /\ fd' \in open_write_pipe(fd)
    /\ Goto(w, IF reader THEN "write" ELSE "end")
    /\ UNCHANGED <<vars, pipeLock, closed, reader, flaps, fifo, delivered>>

(* The result of write is only logged: with no reader (EPIPE), a full FIFO *)
(* (EAGAIN) or a closed descriptor (EBADF) the message is gone.  Commands  *)
(* are at most PIPE_BUF bytes long: a longer one may be taken in part.     *)
TaskWrite(w) ==
    /\ step[w] = "write"
    /\ fifo' = IF fd = "open" /\ reader /\ Len(fifo) < FifoSize
               THEN Append(fifo, task[w]) ELSE fifo
    /\ Goto(w, "end")
    /\ UNCHANGED <<vars, fd, pipeLock, closed, reader, flaps, delivered>>

(* "EXIT:", and the task returns.                                          *)
TaskEnd(w) ==
    /\ step[w] = "end"
    /\ pipeLock' = pipeLock \ {w}
    /\ Goto(w, "begin")
    /\ Run(w)
    /\ UNCHANGED <<fd, closed, reader, flaps, fifo, delivered>>

Task(w) == TaskLock(w) \/ TaskOpen(w) \/ TaskWrite(w) \/ TaskEnd(w)

-----------------------------------------------------------------------------
(* At exit, between MQTTClientWrapper_deinit and ThreadPoolWrapper_deinit: *)
(* the descriptor is closed without the mutex and keeps its number.        *)
close_write_pipe ==
    /\ mpc \in {"destroy", "done"} /\ ~closed
    /\ IF fd = "open"
       THEN fd' = "closed" /\ fifo' = IF reader THEN fifo ELSE <<>>
       ELSE UNCHANGED <<fd, fifo>>
    /\ closed' = TRUE
    /\ UNCHANGED <<vars, pipeLock, step, reader, flaps, delivered>>

DestroyPool == closed /\ threadpool_destroy /\ UNCHANGED pipeVars

(* The process at the other end reads, comes and goes; what it has not     *)
(* read is lost with it when the hub does not hold the FIFO open either.   *)
ReadFifo ==
    /\ reader /\ fifo # <<>>
    /\ fifo' = Tail(fifo) /\ delivered' = Append(delivered, Head(fifo))
    /\ UNCHANGED <<vars, fd, pipeLock, step, closed, reader, flaps>>

ReaderFlaps ==
    /\ flaps < MaxFlaps
    /\ flaps' = flaps + 1
    /\ reader' = ~reader
    /\ fifo' = IF reader /\ fd # "open" THEN <<>> ELSE fifo
    /\ UNCHANGED <<vars, fd, pipeLock, step, closed, delivered>>

-----------------------------------------------------------------------------
(* open_write_pipe has been called once by run_app.                        *)
PipeInit ==
    /\ Init
    /\ reader \in BOOLEAN /\ fd \in open_write_pipe("zero")
    /\ pipeLock = {} /\ step = [w \in Threads |-> "begin"] /\ closed = FALSE
    /\ flaps = 0 /\ fifo = <<>> /\ delivered = <<>>

PipeThread(w) ==
    \/ (Wait(w) \/ Exit(w) \/ Grab(w)) /\ UNCHANGED pipeVars
    \/ Task(w)

PipeMain == close_write_pipe \/ DestroyPool \/ (Joined /\ UNCHANGED pipeVars)

PipeReceiver == Receiver /\ UNCHANGED pipeVars

PipeNext ==
    \/ msg_received_handler \/ PipeReceiver \/ PipeMain \/ ReadFifo \/ ReaderFlaps
    \/ (Deinit /\ UNCHANGED pipeVars)
    \/ \E w \in Threads : PipeThread(w) \/ (SpuriousWakeup(w) /\ UNCHANGED pipeVars)

PipeSpec == PipeInit /\ [][PipeNext]_allVars

(* Threads that can take a step do, a task comes to its end, and a reader  *)
(* reads.  Messages, spurious wakeups and the end of the hub may come or   *)
(* not.                                                                    *)
PipeFairness ==
    /\ WF_allVars(PipeReceiver) /\ WF_allVars(PipeMain) /\ WF_allVars(ReadFifo)
    /\ \A w \in Threads : WF_allVars(PipeThread(w))

PipeLiveSpec == PipeSpec /\ PipeFairness

-----------------------------------------------------------------------------
(* Properties.                                                             *)

(* Type invariant: g_pipe_fd, its mutex, the FIFO, and each task's place.  *)
PipeTypeOK ==
    /\ fd \in {"zero", "negative", "open", "closed"}
    /\ pipeLock \subseteq Threads /\ Cardinality(pipeLock) <= 1
    /\ step \in [Threads -> {"begin", "open", "write", "end"}]
    /\ closed \in BOOLEAN /\ reader \in BOOLEAN /\ flaps \in 0 .. MaxFlaps
    /\ fifo \in Seq(Tasks) /\ Len(fifo) <= FifoSize /\ delivered \in Seq(Tasks)

(* open_write_pipe overwrites g_pipe_fd: a task opens the FIFO only while  *)
(* no descriptor of it is open, or one would leak.                         *)
NoDescriptorLeak == \A w \in Threads : step[w] = "open" => fd # "open"

(* With THREAD_COUNT = 1: commands reach the reader in the order in which  *)
(* they were received, none of them twice, whatever was dropped between.   *)
InOrder ==
    LET all == delivered \o fifo
    IN  \A i, j \in 1 .. Len(all) : i < j => all[i] < all[j]

(* A pool thread about to write this command finds no room for it.        *)
FindsFull(command) ==
    \E w \in Threads : step[w] = "write" /\ task[w] = command /\ Len(fifo) = FifoSize

(* write_pipe_thread_fun opens the FIFO again when it is not open: a       *)
(* command the pool accepts while a reader is there is read, finds the     *)
(* FIFO full, or the reader goes or the hub exits first, however often     *)
(* readers have come and gone, and opening or writing has failed for the   *)
(* commands before it.  (It is stated for the last one.)                   *)
ReaderIsServed ==
    (ppc = "add" /\ offered = MaxTasks /\ ~IsFull /\ reader)
        ~> \/ mpc # "run" \/ ~reader \/ FindsFull(MaxTasks)
           \/ \E i \in 1 .. Len(delivered) : delivered[i] = MaxTasks

(* The comment in write_pipe_thread_fun, "sleep 0.05 second, to void FIFO  *)
(* data lost": no command written for a reader that is there gets lost.    *)
(* It does not hold: the write fails while the FIFO is full.               *)
NoFifoDataLost ==
    [][\A w \in Threads :
         step[w] = "write" /\ step'[w] = "end" /\ reader /\ ~closed
            => fifo' = Append(fifo, task[w])]_allVars

=============================================================================
