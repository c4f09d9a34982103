----------------------------- MODULE MCHubParts -----------------------------
(* Parts of the hub that share no state, in one run: a behaviour is one of *)
(* one of them, while the others stay in their initial states.             *)
(* MsgCounter, SingleInstance and RequestBody have the instances of the    *)
(* configuration.                                                          *)
EXTENDS MsgCounter, SingleInstance, RequestBody

CONSTANTS NoPriority, Partial   \* of OfflineMsgCache

VARIABLES
    part,           \* the part that runs
    pool, queue, head, tail, count, shutdown, started, tpc, task, ppc, mpc, offered, taken,
    fd, pipeLock, step, closed, reader, flaps, fifo, delivered,     \* WritePipe
    up, capacity, list, listMade, listLock, isAsyncSending, files, connected, cb, wpc, req,
    drain, node, buf, stamp, restarts, cut, acked, sent, discarded, dropped     \* OfflineMsgCache

(* Timer threads are interchangeable.                                      *)
SaverSymmetry == Permutations(Savers)

(* The counters when nothing goes wrong around the hub.                    *)
Working == INSTANCE MsgCounter WITH MaxEvents <- 2, MaxCrashes <- 0, Faults <- {}

(* With THREAD_COUNT = 1, as the hub is configured.                        *)
Pipe == INSTANCE WritePipe WITH
    Threads <- {"w1"}, QueueSize <- 2, MaxTasks <- 4, Shutdowns <- {"immediate"},
    Faults <- {"thread", "memory"}, FifoSize <- 2, MaxFlaps <- 3

(* The offline cache with one worker, one drain thread at a time and       *)
(* nothing going wrong around the hub but a crash.                         *)
Ordered == INSTANCE OfflineMsgCache WITH
    Workers <- {"worker"}, Senders <- {"sender"}, MaxMsgs <- 3, MaxCrashes <- 1,
    Priorities <- {1, 2}, Capacities <- {1, 2}, DefaultPriority <- 8, Faults <- {},
    spc <- drain, clock <- stamp, crashes <- restarts

counterVars == vars
pipeVars == <<pool, queue, head, tail, count, shutdown, started, tpc, task, ppc, mpc, offered,
              taken, fd, pipeLock, step, closed, reader, flaps, fifo, delivered>>
cacheVars == <<up, capacity, list, listMade, listLock, isAsyncSending, files, connected, cb,
               wpc, req, drain, node, buf, stamp, restarts, cut, acked, sent, discarded,
               dropped>>

PartsInit ==
    /\ part \in {"counter", "working", "pipe", "launch", "body", "cache"}
    /\ Init
    /\ Pipe!PipeInit /\ (part # "pipe" => fd = "zero" /\ ~reader)
    /\ LaunchInit /\ BodyInit
    /\ Ordered!Init /\ (part # "cache" => capacity = 1)

CounterStep ==
    /\ \/ part = "counter" /\ Next
       \/ part = "working" /\ Working!Next
    /\ UNCHANGED <<pipeVars, launchVars, bodyVars, cacheVars>>

PipeStep ==
    /\ part = "pipe" /\ Pipe!PipeNext
    /\ UNCHANGED <<counterVars, launchVars, bodyVars, cacheVars>>

Launches ==
    /\ part = "launch" /\ LaunchNext
    /\ UNCHANGED <<counterVars, pipeVars, bodyVars, cacheVars>>

BodyStep ==
    /\ part = "body" /\ BodyNext
    /\ UNCHANGED <<counterVars, pipeVars, launchVars, cacheVars>>

CacheStep ==
    /\ part = "cache" /\ Ordered!Next
    /\ UNCHANGED <<counterVars, pipeVars, launchVars, bodyVars>>

PartsNext ==
    /\ CounterStep \/ PipeStep \/ Launches \/ BodyStep \/ CacheStep
    /\ UNCHANGED part

PartsSpec ==
    PartsInit /\ [][PartsNext]_<<part, counterVars, pipeVars, launchVars, bodyVars, cacheVars>>

-----------------------------------------------------------------------------
(* Properties of the instances.                                            *)

(* Every event is reported, in memory or on its way to the next report;    *)
(* the only loss is that of events saved to the file between               *)
(* on_mqtt_client_connected's reading of the totals and its                *)
(* clear_msg_count_file.                                                   *)
LossOnlyByClear == part = "working" => Working!OnlyClearLoses

(* Commands reach the reader of the FIFO in the order in which they were   *)
(* received and none of them twice, whatever write_pipe_thread_fun and the *)
(* full queue drop in between.                                             *)
InOrder == part = "pipe" => Pipe!InOrder

(* g_list is kept, put back into and loaded in the order of caching when   *)
(* one worker caches at a time: evictions, put-backs and restarts keep the *)
(* order.                                                                  *)
OrderedQueue == part = "cache" => Ordered!QueueInOrder

=============================================================================
