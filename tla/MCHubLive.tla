----------------------------- MODULE MCHubLive ------------------------------
(* What the hub gets done, in one run: a behaviour is one of the pool and  *)
(* the pipe, of the counters, of the offline cache, or of one of the two   *)
(* linked lists, while the others stay in their initial states.  WritePipe *)
(* has the instance of the configuration.                                  *)
EXTENDS WritePipe

CONSTANTS
    Pair,           \* the timer threads of the counters
    TheSender,      \* the drain thread of the cache, a member of Pair
    TheReporter, TheWorker, NoThread, NoPriority, Partial

VARIABLES
    part,           \* the part that runs
    mem, file, iniLock, cspc, idx, tot, rpc, rep, reports, ccrashes, happened, reported,
    since, swallowed, interrupted,                                  \* MsgCounter
    up, capacity, list, listMade, listLock, isAsyncSending, files, connected, cb, wpc, req,
    spc, node, buf, clock, crashes, cut, acked, sent, discarded, dropped,   \* OfflineMsgCache
    lhead, ltail, len, lnode, owned, op,                            \* UtilList
    pfirst, plast, current, pcount, el, pop                         \* LinkedList

Counter == INSTANCE MsgCounter WITH
    Savers <- Pair, Reporter <- TheReporter, MaxEvents <- 1, MaxReports <- 1,
    MaxCrashes <- 0, Faults <- {}, spc <- cspc, crashes <- ccrashes

Cache == INSTANCE OfflineMsgCache WITH
    Workers <- {TheWorker}, Senders <- {TheSender}, MaxMsgs <- 2, MaxCrashes <- 1,
    Priorities <- {1}, Capacities <- {1, 2}, DefaultPriority <- 8, Faults <- {}

List == INSTANCE UtilList WITH
    Val <- {"v1", "v2"}, Address <- {"a1", "a2", "a3"}, NULL <- "NULL",
    head <- lhead, tail <- ltail, node <- lnode

PahoList == INSTANCE LinkedList WITH
    Content <- {"c1", "c2"}, Address <- {"a1", "a2", "a3"}, NULL <- "NULL",
    first <- pfirst, last <- plast, count <- pcount, op <- pop

counterVars == <<mem, file, iniLock, cspc, idx, tot, rpc, rep, reports, ccrashes, happened,
                 reported, since, swallowed, interrupted>>
cacheVars == <<up, capacity, list, listMade, listLock, isAsyncSending, files, connected, cb,
               wpc, req, spc, node, buf, clock, crashes, cut, acked, sent, discarded, dropped>>

listVars == <<lhead, ltail, len, lnode, owned, op>>
pahoListVars == <<pfirst, plast, current, pcount, el, pop>>

LiveInit ==
    /\ part \in {"pipe", "counter", "cache", "list", "pahoList"}
    /\ PipeInit /\ Counter!Init /\ Cache!Init /\ List!Init /\ PahoList!Init
    /\ part # "pipe" => fd = "zero" /\ ~reader
    /\ part # "cache" => capacity = 1

LiveNext ==
    /\ \/ part = "pipe" /\ PipeNext /\ UNCHANGED <<counterVars, cacheVars>>
       \/ part = "counter" /\ Counter!Next /\ UNCHANGED <<allVars, cacheVars>>
       \/ part = "cache" /\ Cache!Next /\ UNCHANGED <<allVars, counterVars>>
    /\ UNCHANGED <<part, listVars, pahoListVars>>

ListNext ==
    /\ \/ part = "list" /\ List!Next /\ UNCHANGED pahoListVars
       \/ part = "pahoList" /\ PahoList!Next /\ UNCHANGED listVars
    /\ UNCHANGED <<part, allVars, counterVars, cacheVars>>

bothVars == <<counterVars, cacheVars>>

(* A step A of the counters or a step B of the cache, whichever runs.      *)
Either(A, B) ==
    \/ part = "counter" /\ A /\ UNCHANGED cacheVars
    \/ part = "cache" /\ B /\ UNCHANGED counterVars

Asyn == Cache!AsynCount \/ Cache!AsynReadFlag \/ Cache!AsynCreateThread

(* Fairness of WritePipe (nothing that it is about can happen in           *)
(* PipeInit), MsgCounter and OfflineMsgCache.  As one part runs, fairness  *)
(* of Either is fairness of each.                                          *)
HubLiveSpec ==
    /\ LiveInit /\ [][LiveNext \/ ListNext]_<<part, allVars, bothVars, listVars, pahoListVars>>
    /\ PipeFairness
    /\ \A x \in Pair :
          /\ WF_bothVars(Either(Counter!Saving(x), x = TheSender /\ Cache!Sender(x)))
          /\ SF_bothVars(Either(Counter!SaverLock(x), x = TheSender /\ Cache!DrainSend(x)))
    /\ WF_bothVars(Either(\E x \in Pair : Counter!SaverStart(x), Cache!WorkerStep(TheWorker)))
    /\ WF_bothVars(Either(Counter!Reporting, Cache!on_connect))
    /\ WF_bothVars(Either(FALSE, Asyn))
    /\ WF_bothVars(Either(FALSE, Cache!Start))

-----------------------------------------------------------------------------
(* Properties of the instances.                                            *)

(* sync_msg_count_file: every event counted comes to be in the file or in  *)
(* a report, or is swallowed by a clear, as long as the file can be        *)
(* written.                                                                *)
CountsAreSaved == Counter!CountsAreSaved

(* Every request is answered: the worker leaves the eviction loop and gets *)
(* the mutexes it needs.                                                   *)
EnqueueReturns == Cache!EnqueueReturns

(* send_messages_thread_fun: a hub that connects again and again sends, or *)
(* discards, every message it has cached.                                  *)
ReconnectsDrain == Cache!ReconnectsDrain

(* The links of both lists agree in the two directions, from end to end,   *)
(* so that list_at finds a node from either end, and the current element   *)
(* of a List of LinkedList.c, kept from a search over any later operation, *)
(* is never one that was freed.                                            *)
LinksAgree ==
    /\ part = "list" => List!WellLinked /\ List!AtIsPosition
    /\ part = "pahoList" => PahoList!WellLinked /\ PahoList!CurrentInList

(* list.c and LinkedList.c implement a sequence.                           *)
ListsAreSequences == List!IsSequenceList /\ PahoList!IsSequenceList

=============================================================================
