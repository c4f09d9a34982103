--------------------------- MODULE OfflineMsgCache ---------------------------
(***************************************************************************)
(* The offline message cache of the hub (offlinemsgcache.c) together with  *)
(* the threads that use it: the HTTP worker threads that fall back to it   *)
(* when a message cannot be sent (httprequestcallback.c), the MQTT         *)
(* callback that starts a drain when the connection comes up (app.c), and  *)
(* the detached threads that drain it.  The cache directory survives a     *)
(* crash of the process; everything else does not.                         *)
(*                                                                         *)
(* A step is what a thread does between two points where another thread    *)
(* can interfere: one critical section, one file operation, one call into  *)
(* the MQTT client.                                                        *)
(***************************************************************************)
EXTENDS Integers, FiniteSets, Sequences

CONSTANTS
    Workers,        \* HTTP worker threads (httpd_thread) that can be alive
    Senders,        \* drain threads (send_messages_thread_fun) ditto
    MaxMsgs,        \* bound: requests received in a behaviour
    MaxCrashes,     \* bound: crashes of the process in a behaviour
    Priorities,     \* values of "cache_priority" in requests
    Capacities,     \* values "cachecapacity" may have at a start of the hub
    DefaultPriority,\* VALUE_CACHE_PRIORITY_DEFAULT
    Faults,         \* what may go wrong around the hub: see FaultKinds
    NoThread, NoPriority, Partial

FaultKinds == {"write",    \* the cache file cannot be created or filled
               "scandir",  \* the cache directory cannot be read at start
               "clock",    \* CLOCK_REALTIME repeats or steps back
               "thread"}   \* pthread_create fails

ASSUME ThreadsAssumption == NoThread \notin Workers
ASSUME BoundsAssumption == MaxMsgs \in Nat /\ MaxCrashes \in Nat
ASSUME PrioritiesAssumption == Priorities \subseteq Int /\ DefaultPriority \in Nat
ASSUME CapacitiesAssumption == Capacities \subseteq Nat /\ Capacities # {}
ASSUME FaultsAssumption == Faults \subseteq FaultKinds
ASSUME SentinelsAssumption == NoPriority \notin Int /\ Partial \notin Int

VARIABLES
    up,             \* the process runs
    capacity,       \* g_cacheCapacity
    list,           \* g_list: the nodes' cache_file_headers, <<>> while NULL
    listMade,       \* g_list # NULL
    listLock,       \* the worker inside the eviction loop holds g_list_mutex
    isAsyncSending, \* g_isAsyncSending
    files,          \* the cache directory: path -> request number, or Partial
    connected,      \* mqttClientStatus.connected
    cb,             \* where on_mqtt_client_connected is
    wpc, req,       \* per worker: where it is, the request it handles
    spc, node, buf, \* per sender: where it is, the node popped, the request read
    clock,          \* the last reading of CLOCK_REALTIME
    crashes,        \* crashes so far
    cut,            \* request -> crashes between its sendMessage and its unlink
    acked,          \* requests answered "message was cached to offline queue"
    sent,           \* request -> times the MQTT client accepted it
    discarded,      \* requests evicted or refused, and counted as discarded
    dropped         \* requests dropped because the queue was full at put-back

vars == <<up, capacity, list, listMade, listLock, isAsyncSending, files,
          connected, cb, wpc, req, spc, node, buf, clock, crashes, cut,
          acked, sent, discarded, dropped>>

process == <<up, capacity, crashes, cut>>
queue   == <<list, listMade, listLock>>
mqtt    == <<connected, cb>>
workers == <<wpc, req, clock>>
senders == <<spc, node, buf, isAsyncSending>>
history == <<acked, sent, discarded, dropped>>

Msgs == 1 .. Len(sent)

Headers == [cache_priority : Int, timestamp : Nat]

Paths == [timestamp : Nat, cache_priority : Int \cup {NoPriority}]

NoRequest == [msg |-> 0, priority |-> 0, timestamp |-> 0, cache |-> FALSE]

NoNode == [cache_priority |-> 0, timestamp |-> 0]

-----------------------------------------------------------------------------
(* File names.                                                             *)

(* "<timestamp>-<priority>.cache", or "<timestamp>.cache" when the         *)
(* priority is negative.                                                   *)
get_cache_file_path(h) ==
    [timestamp |-> h.timestamp,
     cache_priority |-> IF h.cache_priority >= 0 THEN h.cache_priority ELSE NoPriority]

(* Reads a name back; a name without a priority gets the default one.      *)
get_cache_file_header_from_file_base(p) ==
    [cache_priority |-> IF p.cache_priority = NoPriority
                        THEN DefaultPriority ELSE p.cache_priority,
     timestamp |-> p.timestamp]

Unlink(p) == files' = [q \in DOMAIN files \ {p} |-> files[q]]

(* Mutant: the bytes stay in the buffer.                                   *)
WriteFileUnflushed(p, content) ==
    files' = [q \in DOMAIN files \cup {p} |-> IF q = p THEN Partial ELSE files[q]]

WriteFile(p, content) ==
    files' = [q \in DOMAIN files \cup {p} |-> IF q = p THEN content ELSE files[q]]

-----------------------------------------------------------------------------
(* The queue.                                                              *)

list_lpush(q, e) == <<e>> \o q

list_remove(q, i) == SubSeq(q, 1, i - 1) \o SubSeq(q, i + 1, Len(q))

HeaderOf(r) == [cache_priority |-> r.priority, timestamp |-> r.timestamp]

(* Mutant: one node too many.                                              *)
HasRoomForOneMore == Len(list) <= capacity

(* Mutant: one node too few.                                               *)
HasRoomForOneLess == Len(list) < capacity - 1

HasRoom == Len(list) < capacity

can_message_enter_offine_queue(priority) ==
    \/ HasRoom
    \/ \E i \in 1 .. Len(list) : list[i].cache_priority <= priority

(* The first node, from the head, that has the lowest priority.            *)
IsFirstLowest(i) ==
    /\ \A j \in 1 .. Len(list) : list[i].cache_priority <= list[j].cache_priority
    /\ \A j \in 1 .. i - 1 : list[j].cache_priority > list[i].cache_priority

(* The orders in which scandir may return the cache files: by timestamp,   *)
(* ties in any order.                                                      *)
LoadOrders ==
    {s \in [1 .. Cardinality(DOMAIN files) -> DOMAIN files] :
        \A i, j \in DOMAIN s : i < j => s[i] # s[j] /\ s[i].timestamp <= s[j].timestamp}

-----------------------------------------------------------------------------
(* HTTP workers: _http_callback_mqtt_send.                                 *)

Goto(t, label) == wpc' = [wpc EXCEPT ![t] = label]

Finish(t) ==
    /\ Goto(t, "idle")
    /\ req' = [req EXCEPT ![t] = NoRequest]

(* sendMessage did not take the message: it is cached, or discarded.       *)
Failed(t, r) ==
    IF r.cache
    THEN Goto(t, "cache") /\ req' = [req EXCEPT ![t] = r]
    ELSE Finish(t)

(* A request that parses (one that does not is answered and forgotten),    *)
(* and the look at the connection.                                         *)
Receive(t) ==
    /\ up /\ wpc[t] = "idle" /\ Len(sent) < MaxMsgs
    /\ \E p \in Priorities, c \in BOOLEAN :
          LET r == [msg |-> Len(sent) + 1, priority |-> p, timestamp |-> 0, cache |-> c]
          IN  IF connected
              THEN Goto(t, "send") /\ req' = [req EXCEPT ![t] = r]
              ELSE Failed(t, r)
    /\ sent' = Append(sent, 0)
    /\ UNCHANGED <<process, queue, files, mqtt, clock, senders, acked, discarded, dropped>>

(* MQTTClientWrapper_sendMessage: the MQTT client queues the message, or   *)
(* refuses it (encryption failed, connection gone, no message id left).    *)
SendOnline(t) ==
    /\ wpc[t] = "send"
    /\ \/ sent' = [sent EXCEPT ![req[t].msg] = @ + 1] /\ Finish(t)
       \/ Failed(t, req[t]) /\ UNCHANGED sent
    /\ UNCHANGED <<process, queue, files, mqtt, clock, senders, acked, discarded, dropped>>

(* Mutant: the time difference has the wrong sign.                         *)
ClockReadingsBackwards == {clock - 1}

ClockReadings == IF "clock" \in Faults THEN 0 .. clock + 1 ELSE {clock + 1}

(* Takes the timestamp, then reads g_list without the mutex.               *)
StartCaching(t) ==
    /\ wpc[t] = "cache"
    /\ \E now \in ClockReadings :
          /\ clock' = now
          /\ req' = [req EXCEPT ![t].timestamp = now]
    /\ Goto(t, IF listMade THEN "canEnter" ELSE "initList")
    /\ UNCHANGED <<process, queue, files, mqtt, senders, history>>

(* init_list: the worker saw NULL, so it installs a new list, whatever     *)
(* g_list is by now.                                                       *)
InitList(t) ==
    /\ wpc[t] = "initList" /\ listLock = NoThread
    /\ list' = <<>> /\ listMade' = TRUE
    /\ Goto(t, "canEnter")
    /\ UNCHANGED <<process, listLock, files, mqtt, req, clock, senders, history>>

CanEnter(t) ==
    /\ wpc[t] = "canEnter" /\ listLock = NoThread
    /\ IF ~can_message_enter_offine_queue(req[t].priority)
       THEN Finish(t) /\ discarded' = discarded \cup {req[t].msg}
       ELSE /\ IF req[t].timestamp <= 0 THEN Finish(t) ELSE Goto(t, "open") /\ UNCHANGED req
            /\ UNCHANGED discarded
    /\ UNCHANGED <<process, queue, files, mqtt, clock, senders, acked, sent, dropped>>

(* write_file_string: fopen truncates or creates the file.  A failure is   *)
(* the largest size_t, which the test "writeSize < 0" never sees.          *)
OpenFile(t) ==
    /\ wpc[t] = "open"
    /\ \/ WriteFile(get_cache_file_path(HeaderOf(req[t])), Partial) /\ Goto(t, "fill")
       \/ "write" \in Faults /\ Goto(t, "push") /\ UNCHANGED files
    /\ UNCHANGED <<process, queue, mqtt, req, clock, senders, history>>

(* fwrite and fclose.  On a full disk the bytes may not reach the file     *)
(* although fwrite reports them; when it reports none the file is removed. *)
FillFile(t) ==
    LET p == get_cache_file_path(HeaderOf(req[t])) IN
    /\ wpc[t] = "fill"
    /\ \/ WriteFile(p, req[t].msg) /\ Goto(t, "push") /\ UNCHANGED req
       \/ "write" \in Faults /\ Goto(t, "push") /\ UNCHANGED <<files, req>>
       \/ "write" \in Faults /\ Unlink(p) /\ Finish(t)
    /\ UNCHANGED <<process, queue, mqtt, clock, senders, history>>

(* One round of "while (len >= g_cacheCapacity)", which runs under         *)
(* g_list_mutex: remove_one_lowest_priority_message.  On an empty list it  *)
(* removes nothing, and the loop goes round.                               *)
EvictOne(t) ==
    /\ wpc[t] = "push" /\ listLock \in {NoThread, t} /\ ~HasRoom
    /\ listLock' = t
    /\ IF list = <<>>
       THEN UNCHANGED <<list, files, discarded>>
       ELSE \E i \in 1 .. Len(list) :
                LET p == get_cache_file_path(list[i]) IN
                /\ IsFirstLowest(i)
                /\ list' = list_remove(list, i)
                /\ Unlink(p)
                /\ discarded' = discarded \cup {m \in Msgs : p \in DOMAIN files /\ files[p] = m}
    /\ UNCHANGED <<process, listMade, mqtt, workers, senders, acked, sent, dropped>>

(* The loop is over: list_rpush, unlock, and the answer "message was       *)
(* cached".                                                                *)
PushNode(t) ==
    /\ wpc[t] = "push" /\ listLock \in {NoThread, t} /\ HasRoom
    /\ list' = Append(list, HeaderOf(req[t]))
    /\ listLock' = NoThread
    /\ acked' = acked \cup {req[t].msg}
    /\ Finish(t)
    /\ UNCHANGED <<process, listMade, files, mqtt, clock, senders, sent, discarded, dropped>>

-----------------------------------------------------------------------------
(* The MQTT connection.  Both callbacks run under the MQTT client's own    *)
(* mutex, so a loss is reported only after on_connect has returned.        *)

on_connect ==
    /\ up /\ ~connected /\ cb = "idle"
    /\ connected' = TRUE
    /\ cb' = "count"
    /\ UNCHANGED <<process, queue, files, workers, senders, history>>

on_connection_lost ==
    /\ up /\ connected /\ cb = "idle"
    /\ connected' = FALSE
    /\ UNCHANGED <<process, queue, files, cb, workers, senders, history>>

(* on_mqtt_client_connected and asyn_send_offline_messages: both look at   *)
(* the count first.                                                        *)
AsynCount ==
    /\ cb = "count" /\ listLock = NoThread
    /\ cb' = IF list = <<>> THEN "idle" ELSE "flag"
    /\ UNCHANGED <<process, queue, files, connected, workers, senders, history>>

AsynReadFlag ==
    /\ cb = "flag"
    /\ cb' = IF isAsyncSending THEN "idle" ELSE "create"
    /\ UNCHANGED <<process, queue, files, connected, workers, senders, history>>

(* pthread_create.  Its error numbers are positive, so a failure is taken  *)
(* for success.                                                            *)
AsynCreateThread ==
    /\ cb = "create"
    /\ cb' = "idle"
    /\ \/ \E s \in Senders : spc[s] = "none" /\ spc' = [spc EXCEPT ![s] = "start"]
       \/ "thread" \in Faults /\ UNCHANGED spc
    /\ UNCHANGED <<process, queue, files, connected, workers, node, buf, isAsyncSending,
                   history>>

-----------------------------------------------------------------------------
(* Drain threads: send_messages_thread_fun.                                *)

Step(s, label) == spc' = [spc EXCEPT ![s] = label]

(* The end of a round: the node is freed and the count is read again.      *)
EndRound(s) ==
    /\ Step(s, "count")
    /\ node' = [node EXCEPT ![s] = NoNode]
    /\ buf' = [buf EXCEPT ![s] = 0]

AlreadySending == isAsyncSending

SenderStart(s) ==
    /\ spc[s] = "start"
    /\ Step(s, IF AlreadySending THEN "none" ELSE "count")
    /\ isAsyncSending' = TRUE
    /\ UNCHANGED <<process, queue, files, mqtt, workers, node, buf, history>>

SenderCount(s) ==
    /\ spc[s] = "count" /\ listLock = NoThread
    /\ Step(s, IF list # <<>> THEN "isConnected" ELSE "clear")
    /\ UNCHANGED <<process, queue, files, mqtt, workers, node, buf, isAsyncSending, history>>

SenderIsConnected(s) ==
    /\ spc[s] = "isConnected"
    /\ Step(s, IF connected THEN "pop" ELSE "clear")
    /\ UNCHANGED <<process, queue, files, mqtt, workers, node, buf, isAsyncSending, history>>

(* Mutant: the head is read and left in the list.                          *)
ListAfterPeek == list

ListAfterPop == Tail(list)

(* The list may have been emptied since it was counted.                    *)
SenderPop(s) ==
    /\ spc[s] = "pop" /\ listLock = NoThread
    /\ IF list = <<>>
       THEN Step(s, "count") /\ UNCHANGED <<list, node>>
       ELSE /\ node' = [node EXCEPT ![s] = Head(list)]
            /\ list' = ListAfterPop
            /\ Step(s, "read")
    /\ UNCHANGED <<process, listMade, listLock, files, mqtt, workers, buf, isAsyncSending,
                   history>>

(* No file: the node is dropped.  A file that is empty or does not parse   *)
(* is removed.                                                             *)
SenderRead(s) ==
    LET p == get_cache_file_path(node[s]) IN
    /\ spc[s] = "read"
    /\ IF p \in DOMAIN files /\ files[p] # Partial
       THEN Step(s, "send") /\ buf' = [buf EXCEPT ![s] = files[p]] /\ UNCHANGED <<files, node>>
       ELSE Unlink(p) /\ EndRound(s)
    /\ UNCHANGED <<process, queue, mqtt, workers, isAsyncSending, history>>

(* Mutant: the return code of sendMessage is not looked at.                *)
AfterAcceptedUnseen == "putBack"

AfterAccepted == "unlink"

SenderSend(s) ==
    /\ spc[s] = "send"
    /\ \/ sent' = [sent EXCEPT ![buf[s]] = @ + 1] /\ Step(s, AfterAccepted)
       \/ Step(s, "putBack") /\ UNCHANGED sent
    /\ UNCHANGED <<process, queue, files, mqtt, workers, node, buf, isAsyncSending,
                   acked, discarded, dropped>>

SenderUnlink(s) ==
    /\ spc[s] = "unlink"
    /\ Unlink(get_cache_file_path(node[s]))
    /\ EndRound(s)
    /\ UNCHANGED <<process, queue, mqtt, workers, isAsyncSending, history>>

(* Mutant: list_rpush in place of list_lpush.                              *)
ListAfterRpush(s) == Append(list, node[s])

ListAfterLpush(s) == list_lpush(list, node[s])

(* "Put back to offline messaeg queue if not full, otherwise discard."     *)
SenderPutBack(s) ==
    /\ spc[s] = "putBack" /\ listLock = NoThread
    /\ IF HasRoom
       THEN list' = ListAfterLpush(s) /\ UNCHANGED dropped
       ELSE dropped' = dropped \cup {buf[s]} /\ UNCHANGED list
    /\ EndRound(s)
    /\ UNCHANGED <<process, listMade, listLock, files, mqtt, workers, isAsyncSending,
                   acked, sent, discarded>>

(* Mutant: the flag stays set.                                             *)
LeaveFlag == UNCHANGED isAsyncSending

ClearFlag == isAsyncSending' = FALSE

SenderClear(s) ==
    /\ spc[s] = "clear"
    /\ ClearFlag
    /\ Step(s, "none")
    /\ UNCHANGED <<process, queue, files, mqtt, workers, node, buf, history>>

-----------------------------------------------------------------------------
(* The process.                                                            *)

Crash ==
    /\ up /\ crashes < MaxCrashes
    /\ up' = FALSE
    /\ crashes' = crashes + 1
    /\ cut' = [m \in DOMAIN cut |->
                  IF \E s \in Senders : spc[s] = "unlink" /\ buf[s] = m THEN cut[m] + 1 ELSE cut[m]]
    /\ list' = <<>> /\ listMade' = FALSE /\ listLock' = NoThread
    /\ connected' = FALSE /\ cb' = "idle"
    /\ wpc' = [t \in Workers |-> "idle"] /\ req' = [t \in Workers |-> NoRequest]
    /\ spc' = [s \in Senders |-> "none"] /\ node' = [s \in Senders |-> NoNode]
    /\ buf' = [s \in Senders |-> 0] /\ isAsyncSending' = FALSE
    /\ UNCHANGED <<capacity, files, clock, history>>

(* run_app up to MQTTClientWrapper_connect: the capacity is read from the  *)
(* configuration, then load_offline_messages queues every file it finds,   *)
(* however many there are.  No other thread exists yet.                    *)
Start ==
    /\ ~up
    /\ up' = TRUE
    /\ capacity' \in Capacities
    /\ \/ /\ \E s \in LoadOrders :
                list' = [i \in 1 .. Len(s) |-> get_cache_file_header_from_file_base(s[i])]
          /\ listMade' = TRUE
       \/ "scandir" \in Faults /\ UNCHANGED <<list, listMade>>
    /\ UNCHANGED <<crashes, cut, listLock, files, mqtt, workers, senders, history>>

Init ==
    /\ up = FALSE /\ crashes = 0 /\ capacity \in Capacities
    /\ cut = [m \in 1 .. MaxMsgs |-> 0]
    /\ list = <<>> /\ listMade = FALSE /\ listLock = NoThread
    /\ files = [p \in {} |-> Partial]
    /\ connected = FALSE /\ cb = "idle"
    /\ wpc = [t \in Workers |-> "idle"] /\ req = [t \in Workers |-> NoRequest]
    /\ clock = 0
    /\ spc = [s \in Senders |-> "none"] /\ node = [s \in Senders |-> NoNode]
    /\ buf = [s \in Senders |-> 0] /\ isAsyncSending = FALSE
    /\ acked = {} /\ sent = <<>> /\ discarded = {} /\ dropped = {}

Worker(t) ==
    \/ Receive(t) \/ SendOnline(t) \/ StartCaching(t) \/ InitList(t) \/ CanEnter(t)
    \/ OpenFile(t) \/ FillFile(t) \/ EvictOne(t) \/ PushNode(t)

Callback ==
    \/ on_connect \/ on_connection_lost \/ AsynCount \/ AsynReadFlag \/ AsynCreateThread

Sender(s) ==
    \/ SenderStart(s) \/ SenderCount(s) \/ SenderIsConnected(s) \/ SenderPop(s)
    \/ SenderRead(s) \/ SenderSend(s) \/ SenderUnlink(s) \/ SenderPutBack(s)
    \/ SenderClear(s)

Next ==
    \/ \E t \in Workers : Worker(t)
    \/ \E s \in Senders : Sender(s)
    \/ Callback \/ Crash \/ Start

Spec == Init /\ [][Next]_vars

(***************************************************************************)
(* The system may rely on this much scheduling: a thread that can take a   *)
(* step eventually does, a hub that is down is started again, and a lost   *)
(* connection comes back (automaticReconnect).  The MQTT client does not   *)
(* refuse every message of a drain.                                        *)
(***************************************************************************)
WorkerStep(t) == Worker(t) /\ wpc[t] # "idle"

DrainSend(s) == SenderSend(s) /\ spc'[s] = "unlink"

Fairness ==
    /\ \A t \in Workers : WF_vars(WorkerStep(t))
    /\ \A s \in Senders :
          /\ WF_vars(Sender(s))
          /\ SF_vars(DrainSend(s))
    /\ WF_vars(on_connect)
    /\ WF_vars(AsynCount \/ AsynReadFlag \/ AsynCreateThread)
    /\ WF_vars(Start)

LiveSpec == Spec /\ Fairness

-----------------------------------------------------------------------------
(* Properties.                                                             *)

WorkerLabels == {"idle", "send", "cache", "initList", "canEnter", "open", "fill", "push"}

SenderLabels == {"none", "start", "count", "isConnected", "pop", "read", "send",
                 "unlink", "putBack", "clear"}

Requests == [msg : Nat, priority : Int, timestamp : Nat, cache : BOOLEAN]

(* Type invariant: the variables of offlinemsgcache.c and of the threads   *)
(* around it have the shapes the declarations give them.                   *)
TypeOK ==
    /\ up \in BOOLEAN /\ crashes \in Nat /\ capacity \in Nat
    /\ cut \in [1 .. MaxMsgs -> Nat] /\ Msgs \subseteq 1 .. MaxMsgs
    /\ list \in Seq(Headers) /\ listMade \in BOOLEAN
    /\ listLock \in Workers \cup {NoThread}
    /\ DOMAIN files \subseteq Paths
    /\ \A p \in DOMAIN files : files[p] \in Msgs \cup {Partial}
    /\ connected \in BOOLEAN /\ cb \in {"idle", "count", "flag", "create"}
    /\ wpc \in [Workers -> WorkerLabels] /\ req \in [Workers -> Requests]
    /\ clock \in Nat
    /\ spc \in [Senders -> SenderLabels] /\ node \in [Senders -> Headers]
    /\ buf \in [Senders -> Nat] /\ isAsyncSending \in BOOLEAN
    /\ acked \subseteq Msgs /\ sent \in Seq(Nat)
    /\ discarded \subseteq Msgs /\ dropped \subseteq Msgs

Draining(s) == spc[s] \notin {"none", "start"}

(* send_messages_thread_fun: however the callback and the threads it       *)
(* creates interleave, at most one thread is between setting and clearing  *)
(* g_isAsyncSending, and the flag is set exactly while one is.             *)
SingleSender ==
    /\ \A s1, s2 \in Senders : Draining(s1) /\ Draining(s2) => s1 = s2
    /\ isAsyncSending <=> \E s \in Senders : Draining(s)

OnDisk(m) == \E p \in DOMAIN files : files[p] = m

(* enqueue_offline_message: a request answered "message was cached" is on  *)
(* disk until the MQTT client has accepted it or an eviction has counted   *)
(* it as discarded, across crashes at any point.                           *)
AckedKept ==
    \A m \in acked : OnDisk(m) \/ sent[m] > 0 \/ m \in discarded

(* Every node of g_list has its file in the cache directory, so the drain  *)
(* never meets a node it cannot read.                                      *)
NodeHasFile ==
    \A i \in 1 .. Len(list) : get_cache_file_path(list[i]) \in DOMAIN files

InHand(s) == spc[s] \in {"read", "send", "unlink", "putBack"}

(* While the hub runs, a cached message that is on disk has its node in    *)
(* g_list or in the hand of the drain thread, unless it was dropped at     *)
(* put-back: no cached message is forgotten until the next restart.        *)
FileHasNode ==
    up => \A p \in DOMAIN files : files[p] \in acked \ dropped =>
        \/ \E i \in 1 .. Len(list) : get_cache_file_path(list[i]) = p
        \/ \E s \in Senders : InHand(s) /\ get_cache_file_path(node[s]) = p

(* The list in memory and the directory of files that survives a crash     *)
(* agree, whichever of pop, eviction, put-back and restart comes between:  *)
(* every node has its file, and no file is left that no node will send.    *)
QueueIsDirectory == NodeHasFile /\ FileHasNode

(* A request reaches the MQTT client at most once, online or through the   *)
(* cache, and once more for each crash between its sendMessage and the     *)
(* unlink of its file; so never twice in a life of the process.            *)
OncePerLife == \A m \in Msgs : sent[m] \in {cut[m], cut[m] + 1}

(* cache_offline_message and the put-back: g_list never grows beyond the   *)
(* capacity while the hub runs, even when it was loaded over full.         *)
GrowthWithinCapacity ==
    [][up /\ Len(list') > Len(list) => Len(list') <= capacity]_vars

(* When requests do not overlap, the queue holds the messages in the order *)
(* they were cached, and the one in the drain thread's hand precedes them: *)
(* evictions, put-backs and restarts keep the order.                       *)
QueueInOrder ==
    /\ \A i, j \in 1 .. Len(list) : i < j => list[i].timestamp < list[j].timestamp
    /\ \A s \in Senders : InHand(s) =>
          \A i \in 1 .. Len(list) : node[s].timestamp < list[i].timestamp

(* A node is evicted only for a message of the same or a higher priority:  *)
(* can_message_enter_offine_queue refuses the newcomer otherwise.          *)
EvictsNoHigherPriority ==
    [][\A t \in Workers : EvictOne(t) =>
          \A i \in 1 .. Len(list) :
              list[i] \notin {list'[j] : j \in 1 .. Len(list')} => list[i].cache_priority <= req[t].priority]_vars

(* "Put back to offline messaeg queue if not full, otherwise discard.": a  *)
(* message dropped at put-back is gone from the disk as well.              *)
DroppedIsDiscarded == \A m \in dropped : ~OnDisk(m)

(* Every request is answered: the worker leaves the eviction loop and gets *)
(* the mutexes it needs.                                                   *)
EnqueueReturns == \A t \in Workers : []<>(wpc[t] = "idle")

(* From some point on, a connection outlives the start of a drain: it is   *)
(* not lost before the drain thread has looked at it.                      *)
SessionsOutliveStart ==
    <>[][on_connection_lost =>
            \A s \in Senders : spc[s] \notin {"start", "count", "isConnected"}]_vars

(* If the connection is lost again and again (and so comes back again and  *)
(* again) and sessions are not too short, everything queued eventually     *)
(* leaves the queue: sent, evicted or dropped.                             *)
ReconnectsDrain ==
    SessionsOutliveStart /\ []<>~connected =>
        \A n \in 1 .. MaxMsgs : []<>(\A i \in 1 .. Len(list) : list[i].timestamp # n)

(* asyn_send_offline_messages "send[s] pending messages async": what is    *)
(* pending while the connection stays up is eventually sent.               *)
PendingIsSent == <>[]connected => <>[](list = <<>>)

=============================================================================
