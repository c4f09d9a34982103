# Verification of the MQTT message hub

The hub (`src/source/mqttmsghub`) takes messages over a local HTTP interface and
publishes them to an MQTT broker. A message that cannot be sent may be cached:
in a queue in memory and in one file per message, to be sent when the
connection is back, after a restart of the process if need be. This directory
holds TLA+ modules for the parts of the hub where threads, files, sockets and
crashes meet, and for the parts of the Paho MQTT client it depends on, with TLC
configurations that check them on small instances, and TLAPS proofs.

## The system

| part | state | operations | talks to |
|---|---|---|---|
| offline cache (`offlinemsgcache.c`) | `g_list`, `g_cacheCapacity`, `g_isAsyncSending`, the cache directory | load, enqueue with eviction, count, start of a drain, drain thread | client wrapper, counter, file system |
| HTTP callbacks (`httprequestcallback.c`) | none | `/mqtt/send`, status, 404 | cache, client wrapper, parser |
| HTTP server (`httpserver.c`) | listening socket | one detached thread per connection | callbacks |
| client wrapper (`mqttclientwrapper.c`) | connected and subscribed flags, Paho handle | init, connect, send, subscribe, disconnect, Paho's callbacks | Paho, connect and message callbacks |
| message counter (`msgcounter.c`) | four counters and a file | increase, total, save, clear | file system |
| schedule job (`schedulejob.c`) | elapsed seconds, a timer | reconnect and save counts periodically | client wrapper, counter |
| thread pool (`threadpool.c`, `threadpoolwrapper.c`) | ring of tasks, worker threads, shutdown flag | add, run, destroy | write pipe |
| write pipe, received messages (`writepipe.c`, `msgrevhandler.c`) | FIFO descriptor | open, write, close, handle a message | thread pool |
| request parser (`mqttsendreqbodyparser.c`) | none | validate a body, fill in defaults | callbacks, drain thread |
| application (`app.c`, `sysutils.c`) | lock file, version file | start in order, connect callback, shut down | all |
| lists (`list.c`, `LinkedList.c`) | nodes and their links | push, pop, find, remove | cache; Paho |
| Paho client (`sharelibs/mqtt-c`) | command and response queues, messages of QoS 1 and 2, sockets and their buffers | a send thread, a receive thread, timeouts, keep alive, retries | client wrapper, broker |

What makes it hard: HTTP workers, Paho's callback threads, drain threads and
timer threads all reach the cache; several of its operations look at shared
state in one critical section and act on it in another; files and list are
changed separately; the process may die between any two steps; and file names
carry the queue's order and priorities over a restart.

Properties wanted of each part: of the cache, that no acknowledged message is
lost or forgotten, or sent twice but for a crash, that the queue keeps its order and
bound, and that it drains; of the wrapper, that the connected flag follows the
connection and that a lost connection is retried; of the counter, that no count
is lost or reported twice; of the pool, that it is a bounded FIFO and that
shutdown ends; of the pipe, that messages arrive in order or not at all; of the
Paho client, that a lost connection is noticed and made again, that QoS 1 and 2
mean what they say over reconnections, that every publication's fate is told
once, and that partial reads and writes do not show.

## Modules

| module | models | proofs | runs |
|---|---|---|---|
| `OfflineMsgCache` | the cache with the threads that use it | `OfflineMsgCacheSafety`, `OfflineMsgCacheNoLoss`, `OfflineMsgCacheQueue` | `MCOfflineMsgCache`, `MCHubParts`, `MCHubLive` |
| `MsgCounter` | the counters, the timer threads that save them, the callback that reports them | `HubPartsProofs` | `MCHubParts`, `MCHubLive` |
| `TaskQueue`, `ThreadPool` | a bounded queue of tasks; the pool that implements it | `WritePipeProofs` | `MCHubLive` |
| `WritePipe` | received commands on their way through the pool to the FIFO; extends `ThreadPool` | `WritePipeProofs` | `MCHubParts`, `MCHubLive` |
| `RequestBody` | a request's JSON body, parsed at once and again from the cache | `HubPartsProofs` | `MCHubParts` |
| `SingleInstance` | launches of the hub, lock file and version file | `HubPartsProofs` | `MCHubParts` |
| `MqttConnection` | client wrapper, reconnecting job and the connection machine of Paho | `PahoPartsProofs` | `MCPaho`, itself |
| `MqttDelivery` | publications and received messages of QoS 0, 1, 2 over lost connections | `MqttDeliveryInvariant`, `MqttDeliveryProofs` | `MCPaho` |
| `MqttKeepalive` | pings and the times they depend on | `PahoPartsProofs` | `MCPaho` |
| `SocketRead` | packets read from a non-blocking socket | | `MCPaho` |
| `SocketWrite` | packets written to a non-blocking socket | `PahoPartsProofs` | `MCPaho` |
| `SequenceList`, `ListHeap`, `LinkedList`, `UtilList` | a sequence with operations; elements in a heap; Paho's list and the hub's list, which implement it | | `MCHubLive` |

`MCHubParts`, `MCHubLive` and `MCPaho` each check several parts that share no
state, one instance of a module per part, in one run. The variable `part` chooses
the part that runs; the others stay in their initial state. A state of such a run
is thus a state of one part, and the number of states is the sum of those of the
parts, not their product. A property of a part is stated under the condition that
it runs, unless it holds in the initial state as well; fairness likewise. In the same
way `HubPartsProofs` and `PahoPartsProofs` hold the theorems about three small modules
each, and `WritePipeProofs` those about the pool and the pipe. The invariant of
`MqttDelivery` and half of its steps are in `MqttDeliveryInvariant`, the other steps
and the theorems in `MqttDeliveryProofs`.

A part that another module models is there only by what it promises: the cache
sees the connection as a flag that callbacks set, `MqttDelivery` sees it as a link
that breaks and comes back, `MqttConnection` sees packets as sent whole, and
`SocketWrite` and `SocketRead` are about how they are.

### OfflineMsgCache

A step is what one thread does between two points where another can interfere:
one critical section, one file operation, one call into the MQTT client.

| variables | code |
|---|---|
| `list`, `listMade`, `listLock`, `capacity`, `isAsyncSending` | the statics of `offlinemsgcache.c`; `listLock` is held across steps only in the eviction loop |
| `files` | the cache directory: a path (timestamp, priority) to the request in it, or `Partial` for a file that is empty or cut short |
| `connected`, `cb` | the wrapper's flag, and where the connect callback is |
| `wpc`, `req`, `clock` | each HTTP worker and its request; the last reading of the clock |
| `spc`, `node`, `buf` | each drain thread, the node it popped and the request it read |
| `up`, `crashes` | the process |
| `acked`, `sent`, `cut`, `discarded`, `dropped` | history, for the properties; `cut` counts, for each request, the crashes between its `sendMessage` and the `unlink` of its file |

Worker actions follow `_http_callback_mqtt_send` and `enqueue_offline_message`:
`Receive`, `SendOnline`, `StartCaching`, `InitList`, `CanEnter`, `OpenFile`,
`FillFile`, `EvictOne`, `PushNode`. Drain actions follow
`send_messages_thread_fun`: `SenderStart`, `SenderCount`, `SenderIsConnected`,
`SenderPop`, `SenderRead`, `SenderSend`, `SenderUnlink`, `SenderPutBack`,
`SenderClear`. `on_connect`, `on_connection_lost` and the `Asyn*` actions are
the callbacks; `Crash` and `Start` the process.

A message is a number and a payload is not modelled: nothing in the cache looks
at it. A file name is modelled by what it keeps, which matters for a negative
priority. Paho runs both callbacks under its own mutex, so a loss is not
reported while the connect callback runs.

`Faults` selects what may go wrong around the hub: writing a cache file,
reading the directory at start, the clock repeating, creating a thread.

A crash loses memory and keeps the files as they are. Loss of data the kernel
has not yet written (the hub calls no `fsync`) is not modelled.

### MsgCounter

| variables | code |
|---|---|
| `mem` | the four counters of `msgcounter.c`, each with its own mutex |
| `file` | `msgcounter.ini`: the keys in it and their values; a key that is missing reads as 0 |
| `iniLock` | who holds `g_ini_file_mutex` |
| `spc`, `idx`, `tot` | each timer thread in `save_msg_count_to_file`, the counter it is at, its local totals |
| `rpc`, `rep`, `reports` | the counting part of `on_mqtt_client_connected`, and the totals it read |
| `happened`, `reported`, `since`, `swallowed`, `interrupted`, `crashes` | history, for the properties |

`increase_msg_count` stands for the four functions that count. A save is
`SaverStart` (a tick), `SaverTest` (the unlocked look at each counter),
`SaverLock`, `SaverDrain` (per counter), `SaverOpen`, `SaverFill`; a report is
`ConnectedCallback`, `get_total_msg_count`, `SendReport`, `ClearLock`,
`ClearOpen`, `ClearFill`. `Crash` loses what is in memory, which is also what an
orderly exit does. `fopen` truncates the file at once and the text reaches it at
`fclose`, so a crash in between leaves it empty. `Faults` allows `fopen` to fail
and the file to be cut short. A counter is a natural number: the models count
far fewer events than an `int` holds.

### TaskQueue, ThreadPool and WritePipe

`ThreadPool` has one action per critical section under `pool->lock`:
`threadpool_add`; a thread's look at the queue, which ends in waiting, leaving or
grabbing a task (`threadpool_thread`); the signals and broadcasts, which move
waiting threads, and spurious wakeups; creation thread by thread with its failures
(`CreatePool`, `CreateThread`, `CreateFailed`, `CreateUndone`); `threadpool_destroy`
and the joins (`Joined`). The pool is made by the first task and destroyed by the
main thread at exit. `TaskQueue` is what it promises: accept in order within the
bound, take the oldest, complete, close, vanish. `WritePipe` refines the run of a
task into the steps of `write_pipe_thread_fun`; `g_pipe_fd` is "zero", "negative",
"open", or "closed" when the main thread has closed it and its number remains. A
command is written whole or not at all, as a FIFO does with up to `PIPE_BUF` bytes.

### MqttConnection

| variables | code |
|---|---|
| `status` | `mqttClientStatus` of the wrapper |
| `c`, `connect`, `retry`, `commands` | `m->c`, `m->connect`, the retry fields of `m`, the command queue |
| `send`, `rcv`, `job` | where the send thread, the receive thread and the timer thread are |
| `net`, `granted` | the socket with what is under way on it; whether the broker holds the subscriptions |

A handler of Paho runs under `mqttasync_mutex` and is one action, callbacks into
the wrapper included. What runs without it is split: the receive thread between
noticing an error and `MQTTAsync_disconnect1`, and the job between its two reads
and what it calls. Time is counted in calls of `MQTTAsync_checkTimeouts`, one
every 3 seconds. The network may refuse, break, or silently drop a connection, and
the broker may forget its sessions, `MaxFaults` times.

### MqttDelivery

Messages are their numbers. A behaviour has one of the `Scenarios`, which stays: the
QoS of each message the hub sends (`OutQos`) and of each the broker has for it
(`InQos`), whether the socket may take a part of a publication (`MayInterrupt`), and
whether the broker sets the DUP bit on a repeated PUBREL (`DupPubrel`), as MQTT 3.1
does and 3.1.1 does not. The client:
`Send`, `ProcessPublish` and the two steps after a partial write (`PublishFlags`,
`PublishResponds`), `ContinueWrite`, `Receive` (PUBLISH, PUBACK, PUBREC, PUBREL,
PUBCOMP), `Retry`, `Close`, `Reconnect`; `LinkBreaks` is the network. The broker is
external, modelled by what the protocol obliges it to do. `succeeded` and `failed`
count the calls of the callbacks.

`MQTTProtocol_retries` repeats the messages one by one, on a reconnection all of them,
otherwise those not touched for the retry interval, which may be any of them. It stops
where the socket takes a part of a packet: the rest of a PUBLISH is pending then
(`partial`), while a PUBREL that is not taken whole ends the session
(`Disconnecting`). After a cut repetition on a reconnection the queue goes on; `skipped`
remembers the messages that the repetition did not come to.

### MqttKeepalive

Ages in seconds of the last packet sent, the last received, the last look and the
last ping; `Cycle` is a pass of `MQTTAsync_cycle`, at least one every 2 seconds.
`MaxDelay` is the broker's time to answer a ping, `MayBlock` whether writes may
stay pending.

### SocketRead and SocketWrite

`SocketRead`: bytes arrive in any division. `MQTTPacket_Factory` reads the header,
decodes the length digit by digit and reads the data, and gives up at any byte that
is not there; the next call starts over from the `socket_queue`. `Base` is the base
of the length's digits (128 in the code), so that few bytes give headers of every
length. The fields that `SocketBuffer_newDefQ` leaves uninitialised hold any value.
A read happens only when `select` has announced something.

`SocketWrite`: a packet is a sequence of buffers, each with the memory it lives in.
`Socket_putdatas` writes what the socket has room for, `Socket_continueWrite` the
rest, `MQTTProtocol_storeQoS0` exchanges the caller's buffers for copies, in a step
of its own. `MQTTProtocol_checkPendingWrites`, which frees the copies, is called where
the code calls it: when a write has been completed and before a socket is closed, each
time only if no write is pending. A byte read from freed memory is `Garbage`.

### Lists

`ListHeap` is a heap of elements whose addresses are reused after a free.
`LinkedList` has Paho's operations with `current`, which `ListFindItem` remembers and
`ListRemove` must not leave on a freed element; `UtilList` those of `list.c`, with
nodes the caller has popped and may push again. Both are mapped to `SequenceList`
by walking the links from the first element.

### SingleInstance

Processes are launched any number of times; `TestLock` and `TakeLock` are the two
calls of `lockf`, the end of a run deletes the version file before the process, and
its lock, go. A crash leaves the file. `open` of the lock file may fail,
after which `run_app` goes on; `openFailed` remembers that it did. Writing the version
file may fail as well, with the file as it was or emptied; `versionless` are the processes
to which that happened.

### RequestBody

A JSON object is a function from the keys it has; a member of another type than the
one looked for is `Other`. `SendFails` parses and caches, `Drain` parses the cached
text again, with a later clock and no MAC. The client's `from` member and the
wording of errors are left out.

## Runs

Passing:

| run | part and instance | shows |
|---|---|---|
| `cache_core` | 2 workers, 1 drain thread, 3 requests, 1 crash, 2 priorities, capacity 1 or 2 | `AckedKept`, `QueueIsDirectory` (`NodeHasFile`, `FileHasNode`), `TypeOK` |
| `cache_faults` | 2 workers, 2 drain threads, 2 requests, 1 crash, every fault, a negative priority, capacity 0 or 2 | `SingleSender`, `GrowthWithinCapacity` and `OncePerLife` (sent once, and once more for each crash between sending and removing the file) still hold |
| `hub_parts` | counters: 2 timer threads, 1 event, 2 reports, 1 crash, `fopen` failing, the file cut short | `NoOverReport`: nothing is reported twice unless a clear was cut off |
| | counters: 2 events, 2 reports, nothing goes wrong | `LossOnlyByClear` (`OnlyClearLoses`): a count is lost only when it is saved between a report's reading and its clear |
| | pipe: 1 thread (`THREAD_COUNT`), 4 commands, full queue and FIFO | `InOrder` |
| | 3 launches, again and again, with crashes and a lock file that may not open | `OnlyOneWithLock`: `OnlyOne` among the launches that could open it; `VersionOfRunning` while all could, of a launch that could write the file |
| | request body: every combination of present, absent and ill-typed members | `DrainSendsTheSame` |
| | cache: 1 worker, 1 drain thread, 3 requests, 1 crash | `OrderedQueue` (`QueueInOrder`) |
| `hub_live` | pool and pipe: 2 threads, 2 slots, 3 tasks, both shutdowns, failing creation, a FIFO for 2 commands, a reader that comes or goes twice | `IsTaskQueue` (refinement), `FreedUnused`, `NoDescriptorLeak`; `PendingIsTaken`: no wakeup is lost; `DestroyReturns`, `ReaderIsServed` |
| | counters: 2 timer threads, 1 event, 1 report, nothing goes wrong | `CountsAreSaved`: every event comes to be in the file or in a report, or in what a clear swallows |
| | cache: 1 worker, 1 drain thread, 2 requests, 1 crash | `EnqueueReturns`, `ReconnectsDrain` |
| | the two lists: 3 addresses, 2 contents | `ListsAreSequences` (refinement, `IsSequenceList` of both), `LinksAgree` (`WellLinked` of both, `AtIsPosition`, `CurrentInList`) |
| `paho_safe` | connection: 2 network faults | `FlagsAreTrue` (`FlagFollowsClient`, `SubscribedIsGranted`), `RetryArmed` |
| | delivery, 2 breaks, 1 retry, four scenarios: 4 messages out (QoS 2, 1, 0, 2), whole writes; 2 messages each way, partial writes; 3 messages out (QoS 0, 2, 0), partial writes that `MQTTAsync_writeComplete` completes; 3 messages out (QoS 1, 2, 1), repetitions that are cut short | `PublishedAsPromised` (`PublishedAtMostOnce`, `PublishedAtLeastOnce`), `ArrivesAsPromised` (`ArrivesAtMostOnce`, `DeliveredHasArrived`), `OrderKept`, `CallbacksAreTrue` (`SuccessIsPublished`, and with whole writes `ToldAtMostOnce` and `CompletedIsTold`) |
| | keep alive: the hub's times, 10 and 1 seconds, answers within a second | `KeepaliveInTime` (`SpeaksInTime`, `DeadIsNoticed`), `AliveIsKept` |
| | reading: 2 packets on each of 2 connections, headers of 2 to 5 bytes, every division | `ReadsWhatWasSent`, with `NothingKeptBack` and `NoFalseError` |
| | writing: 4 packets of up to 5 buffers, room for 3 bytes, 2 connections | `StreamIsPackets`, `WriteMemorySound` (`PendingMemoryLives`, `NothingLeaks`) |
| `paho_live` | connection: 1 fault, then a prompt network | `ConnectsForGood` (`StaysConnected`) |
| | delivery: 2 messages each way, a window of 1, 2 breaks, partial writes and cut repetitions | `AllPublished`, `AllArrive` |
| | keep alive: 4 and 1 seconds, with pending writes | `DeadIsDetectedUnlessPending` |
| | writing: 1 packet on each of 2 connections | `PendingEnds`: a pending write ends and only stored copies stay allocated |

A property with others in parentheses is their conjunction, or an alias, in the
component's module or in that of the run. The type invariants of `MsgCounter` and `ThreadPool` are
theorems and not in a run; those of `WritePipe` and the `Mqtt` modules document
the variables and are in no run either.

Violated, each a disagreement between the code and what it, its header or its
messages say:

| run | property | what happens |
|---|---|---|
| `cache_write_failure` | `AckedKept` | the test `writeSize < 0` on a `size_t` never sees a failed write; the request is answered as cached |
| `cache_negative_priority` | `NodeHasFile` | a negative priority is not in the file name; after a restart the node's path is another one |
| `cache_put_back` | `DroppedIsDiscarded` | a message dropped because the queue is full keeps its file and comes back at the next start |
| `cache_stale_check` | `EvictsNoHigherPriority` | the check and the push are two critical sections; a message of higher priority is evicted |
| `cache_stranded` | `PendingIsSent` | a message queued after the drain has ended waits for the next connect |
| `conn_slow` | `ReconnectsWhenLost` | the automatic reconnect spoils its own attempt whenever the handshake spans a check |

### Disagreements without a run

TLC refutes these as well; each needs only the module and the constants given
(small values for the others).

| property | constants | what happens |
|---|---|---|
| `WritePipe!NoFifoDataLost` | `FifoSize = 1` | a write to a full FIFO fails and is only logged; `writepipe.c:139` pauses "to void FIFO data lost" |
| `MqttConnection!AttemptKeepsItsTime` | `ConnectTimeout = 3`, `JobInterval = 2` | the job connects while an attempt is under way and spoils it; `MQTTAsync.h:791` allows it the `connectTimeout` |
| `MqttConnection!SubscribedIsGranted` | `Refusals = TRUE` | a SUBACK that refuses both topics is taken for success |
| `MCPaho!AllArrive` | `DupPubrel` of the scenario `FALSE`, `Window = 1`, fairness | a repeated PUBREL without DUP is not answered; the broker's window stays used up |
| `MqttDelivery!CompletedIsTold` | a scenario with `OutQos = <<0, 1, 0>>` and `MayInterrupt` | the completion of a partial write frees another command |
| `MqttDelivery!ToldAtMostOnce` | the same with one break | a failed QoS 0 command stays flagged as pending write and is told of again |
| `MqttKeepalive!GivenUpAfterInterval` | `MaxDelay = 4` | a live connection is given up 2 seconds after the ping; the message at `MQTTProtocolClient.c:554` speaks of the keep alive interval |
| `MqttKeepalive!DeadIsDetected` | `MayBlock = TRUE`, fairness | a pending write on a dead connection keeps the ping from being sent; `MQTTAsync.h:742` says it is detected without waiting for TCP |
| `SingleInstance!OnlyOne` | an `open` that fails | a launch that cannot open the lock file runs all the same |

### Bounds

The cache. Two workers are enough for every check-then-act pair, and two drain
threads for the flag. Three requests over a capacity of 1 or 2 make the queue
full, evict, and let a put-back meet a full queue; one crash reaches every
order of a step and a restart, with the capacity chosen again, so that a list
may be loaded over full. Requests and crashes are capped by `MaxMsgs` and
`MaxCrashes` in the guards. Workers and drain threads are symmetric; symmetry
is not used in the runs with temporal properties over fairness.

The counter. Two timer threads make every overlap of two saves, and two reports
let a second one see what the first has left. `hub_parts` has the failing
`fopen` and the file cut short.

The pool and the pipe. Two threads on two slots let the queue be full, wrap
around, and let a signal meet several waiting threads; three or four tasks wrap
the ring. For any number of threads, slots and tasks there are the proofs. The hub
has one pool thread; most runs have two, since nothing in the code depends on
there being one, and `InOrder`, which does, is checked with one. `ReaderIsServed`
is stated for the last command, whatever happened to those before it: with two changes
of the reader one may come to a FIFO that could not be opened before, or go and come
back, and with two places in it and three commands a write may find it full.

The connection. Two faults suffice for a failure during the recovery from another;
intervals are 1 to 3 checks, with the same order as the code's values (minimum
interval, maximum interval, timeout). `MaxQueue` bounds what the job piles up in
the queue.

Delivery. Two breaks let a repetition be interrupted again; a window of 1 makes
the broker wait; the messages cover every pair of QoS that share a list. `MaxRetries`
bounds the retries while packets are on their way; one that comes when nothing is on
its way is not counted, so that there are such retries in `paho_live` although its
`MaxRetries` is 0. A PUBREL taken in part counts as a break. A message
id is not given out again within the next 65534, so ids are not reused here.
The scenario without partial writes (`MayInterrupt = FALSE`) is for the properties
that partial writes break.

The sockets. With base 2 and lengths up to 8 the header takes 2 to 5 bytes; two
connections let the second one meet what the first has left. Three bytes of room
cut packets inside, between and at empty buffers.

The lists. Three addresses and two contents give lists of three with equal
contents, and reuse of an address while `current` is elsewhere.

### Fairness

Liveness properties have the form "again and again" or "from some time on". That
something pending ends is stated as: again and again it is not pending. The two
are the same for what stays pending until it ends.

The cache (`LiveSpec`). A thread that can take a step does so (the scheduler); a
hub that is down is started again; a lost connection comes back
(`automaticReconnect`); and a drain's sends are not refused for ever (strong
fairness of an accepted send). `ReconnectsDrain` also assumes that sessions
are not shorter than the start of a drain, stated as `SessionsOutliveStart`.
`EnqueueReturns` is checked for capacities from 1 up: with capacity 0 and a list
loaded from files, the eviction loop never ends.

The counter: threads take steps, the timer goes on ticking, and a thread waiting for
a mutex that is released again and again gets it.

The pool and the pipe: threads take steps, a task comes to its end, a reader reads.
Messages, spurious wakeups and the exit of the hub may or may not come. A waiting
thread is woken by signals only.

The connection: the three threads run, the broker answers, and at some time the
network does nothing wrong any more. `StaysConnected` also assumes, by strong
fairness, that the timer thread does not fall into the handshake of every single
attempt: without it the defect that refutes `AttemptKeepsItsTime` could repeat for
ever. `conn_slow` is refuted under the same fairness.

Delivery: the client's threads run, a lost connection is noticed and made again
(the subject of `MqttConnection`), the broker sends and answers, and a message that
stays unacknowledged comes due for a retry (the hub sets `retryInterval`), which is
how the messages a cut repetition did not come to get through. One assumption is on the
network: an acknowledgement that has to be written while a write is pending closes the
connection (`Socket_putdatas` refuses it), and that does not happen to every pending
write for ever; stated as strong fairness of `ContinueWrite` on a link that is up.
Keep alive: time passes and `MQTTAsync_cycle` is called; a pending write on
a live connection completes. `SocketWrite`: the receive thread continues a pending
write, and the peer reads or the connection breaks.

## Proofs

For every set of threads, every number of requests and crashes, every capacity
and set of priorities:

- `TypeCorrect`: `TypeOK`. Its strengthening `TypeInv` adds that the directory
  is finite and that what a thread writes or sends is a request received.
- `OneSender`: `SingleSender`, inductive with the types.
- `BoundedGrowth`: the action property `GrowthWithinCapacity`.
- `NoDuplicateInALife`: `OncePerLife`, under every fault: a request was sent as often as
  a crash came between its sending and the removal of its file, or once more. A message
  could be sent again from wherever it is kept, so `OnceInv` says that it is in one place
  only (its worker, one file, or a drain thread that read that file) and that what is
  kept was sent only as often as such a crash came, unless its file is about to be
  removed. It rests on `OneSender`.
- `NoAckedMessageIsLost`: `AckedKept`, assuming `Lossless` (no fault of kind
  `write` or `clock`; the violating runs show that the first is needed). A file
  could be overwritten or removed in another's place, so `KeptInv` says that the
  timestamp of a request being cached belongs to no queued node and to no file
  but its own, and that the file a drain thread is about to remove holds what it
  has sent.
- `ListIsDirectory`: `QueueIsDirectory`, assuming `Faithful` (`Lossless`, the directory
  can be read at start, and no priority is negative, which a violating run shows to be
  needed). The nodes in the list and in a drain thread's hand are `Held`. `DirInv` says
  that each of them has its file, and that each file with a message answered as cached
  and not dropped has its node; that no two files and no two nodes have the same
  timestamp, so that removing one file takes none from another node; that a request
  being cached is not yet answered and has one worker; and that what a drain thread puts
  back or drops is what the file of its node holds. It
  rests on `NoAckedMessageIsLost`, `OneSender` and `NoDuplicateInALife`. A restart needs
  that the sorted listing is a permutation of the directory, by counting.
- `CachedInOrder`: `QueueInOrder`, assuming `Lossless` and one worker. `OrderInv` adds
  that no two files have the same timestamp, so that a restart sorts them strictly, and
  that a request being cached is later than every node.

- `CounterTypes`, `NoEventReportedTwice`, `LostOnlyAtClear`: `TypeOK`,
  `NoOverReport` and `OnlyClearLoses` of `MsgCounter`, for any number of timer
  threads, events, reports and crashes. `CountInv` adds who holds the mutex, that
  the totals in a saving thread's hand are no less than those in the file, that
  a report being sent is covered by events not yet reported (`OverInv`), and
  that until the clear the file holds the totals read plus what was drained
  since (`SinceInv`).

- `PoolTypes`: `TypeOK` of `ThreadPool`, for any number of threads, slots and tasks.
- `FreedWhenUnused`: `FreedUnused`. The strengthening says that `started` counts the
  threads created and not yet gone, that the main thread joins only a pool that is
  shutting down, and where the receiving thread can be meanwhile; counting needs
  the cardinality of the set of live threads.
- `PoolIsTaskQueue`: `IsTaskQueue`, that is `Spec => Abstract!Spec`: the occupied part
  of the ring, read from `head` on, is the abstract queue. Each step maps to a step of
  `TaskQueue` or to none; adding at `tail` is appending and grabbing at `head` is
  taking the first, by lemmas on the slots modulo `QueueSize`, and the numbers in the
  ring are increasing and above those taken.

- `DescriptorKept`: `NoDescriptorLeak` of `WritePipe`, for any number of pool threads.
  Every step of the pipe is a step of the pool or leaves it as it is, so the pool's
  invariant holds here too; `Holding` adds that a thread past the mutex is the only one
  and opens the FIFO only while it is not open.
- `CommandsInOrder`: `InOrder`, for one thread (`THREAD_COUNT`). `Order` says that what
  was written ascends, was taken from the pool, and comes before the task at work; with
  that, a task taken next is later than all that went through, since the pool takes
  tasks in ascending order.

- `NeverGivesUp`: `RetryArmed` of `MqttConnection`, for all intervals and any number of
  faults. `ConnInv` adds the shapes of the records and queues, that the wrapper's flag is
  the client's, and that a client is not both connected and connecting.
- `FlagsTrue`: `FlagsAreTrue`, for a broker that refuses no subscription (`Refusals` is
  `FALSE`; with refusals it does not hold, see above). `GrantInv` adds that a SUBACK under
  way tells the truth and that nothing is under way but on an open link.

- `OneWithLock`, `VersionIsOfRunning`: `OnlyOneWithLock` and `VersionOfRunning` of
  `SingleInstance`, for any number of processes, the second as long as every launch
  could open the lock file, and of a launch that could write the version file.
  `LaunchInv` says that whoever is past `lockf` holds the lock.
- `DrainedIsTheSame`: `DrainSendsTheSame` of `RequestBody`, for any topics, texts and
  numbers. `BodyInv` says that the cached text is complete, so that parsing it again adds
  nothing, and says what the worker tried to send.
- `InTimeAlways`, `AliveKept`: `KeepaliveInTime` and the action property `AliveIsKept` of
  `MqttKeepalive`, for all intervals. Both are for writes that are taken whole
  (`MayBlock` is `FALSE`); the first for looks that come in less than half the keep alive
  interval (the code's come in a tenth of it), the second for a broker that answers a ping
  before the next look. `InTime` bounds each age by that of the last look, `PingIsYoung`
  says that a ping without an answer is younger than the last look.
- `MemorySound`: `WriteMemorySound` of `SocketWrite`, for any packets, room, number of
  packets and connections. `WriteInv` says exactly what is allocated: the own buffers of
  the pending write, the caller's buffers as long as the send thread has not come back
  from the write, and the copies of the stored packets, which stay until a check finds no
  write pending; and that a pending write refers
  to the caller's buffers before that and to the copies after it. So the receive thread
  may complete, fail or abort the write on either side of the exchange.

- `PublishedTheorem`, `OrderTheorem`, `CallbacksTheorem`, `ArrivesTheorem`:
  `PublishedAsPromised`, `OrderKept`, `CallbacksAreTrue` and `ArrivesAsPromised` of
  `MqttDelivery`, for any scenarios, window, number of lost connections and of retries.
  They follow from one invariant, `DeliveryInv`. `SenderInv` relates, for each message of
  the hub, what is on the channels, in `outbound`, in the socket and at the broker. With
  QoS 2 the point is when the broker may forget an id: a message it has published is held
  until it is released, and a release comes after every publication of the message on the
  channel (`PublishFirst`), so that none can come once the id is gone. `ReceiverInv` is the
  same for the other direction. A packet that the socket took in part is a place of its
  own: a PUBLISH cut short (`Cut`) still waits for its receipt as long as the link is up,
  and a PUBREL cut short (`CutRelease`) is one of a message published and received.
  `OrderInv` says that a message that no repetition has left out (`Ordered`: not in
  `skipped`), begun and not published, is on its way as long as the link is up, and behind
  every earlier one (`Fifo`); a reconnection repeats the list oldest first and before new
  commands. `OrderTheorem` says nothing of messages in `skipped`: the code lets new
  messages pass them. `TellInv` says that
  where packets are written whole a message that was begun either waits for its response
  or has been told of once.

The assumptions are the named `ASSUME`s of the modules, which TLC evaluates in the runs
of the modules that extend them, and the hypotheses of the theorems themselves. Two of
these, `EmptyAssumption` (`Empty` is no content of a request) and `NoneAssumption`
(`None` is no packet and no pending write), quantify over all values, which TLC cannot
enumerate; they hold for the model values they are given.

Only model-checked are

- the liveness properties, which are out of the prover's reach;
- `StreamIsPackets` of `SocketWrite` and `ReadsWhatWasSent` of `SocketRead`: what joining
  the buffers of packets gives, and that decoding a length undoes `MQTTPacket_encode`, are
  inductions over data, which the provers cannot do;
- `LinksAgree` and `ListsAreSequences`, that walking the links of the two lists gives a
  sequence: an induction over data as well.

`CommandsInOrder`, `LostOnlyAtClear` and `CachedInOrder` state properties that the runs
check of an instance, under another name (`InOrder`, `LossOnlyByClear`, `OrderedQueue`).

## Not modelled

Of the repository's lines most belong to vendored libraries: libtomcrypt and
libtommath (arithmetic and ciphers on bytes), json-c, zlog, the HTTP library and
Paho. A share of the whole repository says little for that reason; the modules
cover the hub's own stateful code and those parts of Paho its promises rest on.

- Configuration, logging and network helpers read or print and keep no state. The
  ciphers act on bytes through libtomcrypt; a failure is a refused send. The HTTP
  server starts a thread per connection; that is the set `Workers`.
- Text: the decoding of a received command in `msgrevhandler.c`, the status and 404
  answers, `stringutils.c`.
- Of Paho: TLS, persistence (the hub passes `MQTTCLIENT_PERSISTENCE_NONE`), several
  server URIs and several clients in one process, the blocking `MQTTClient.c`, traces,
  the heap tracker, `Tree.c`. The search for a free message id differs from the
  model's only with some 65534 messages in flight.
- Of the writes of Paho: an acknowledgement that the socket takes in part
  (`MqttDelivery` cuts PUBLISH, and PUBREL in a repetition); and a message of QoS 1 or 2
  whose acknowledgement comes while a repetition of it is pending, so that its payload is
  freed before it is written (`SocketWrite` never frees buffers that the message list
  keeps).
- A command of more than `PIPE_BUF` bytes, which a FIFO may take in part.
- In the hub, the sum of elapsed seconds in the schedule job (any tick may run a
  job), destruction of the MQTT client at exit, signals, and memory that is not
  freed when a task is refused.
- A message that `sendMessage` refuses for ever is put back at the head of the queue
  again and again, and the drain spins on it. The cache's module has refusals that
  pass; which text would be refused for ever is not in it.
- What the kernel has not yet written when the machine, not the process, fails.
