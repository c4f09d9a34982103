---------------------------- MODULE MqttConnection ----------------------------
(***************************************************************************)
(* The connection of the hub to its broker: the flags of the client        *)
(* wrapper (mqttclientwrapper.c), the job that looks after the connection  *)
(* (schedulejob.c) and the connection machine of the Paho client           *)
(* (MQTTAsync.c), with its queue of commands, its send thread, its receive *)
(* thread and its automatic reconnect.                                     *)
(*                                                                         *)
(* Every handler of the Paho client runs with mqttasync_mutex held and is  *)
(* one action, the callbacks into the wrapper included.  Three places run  *)
(* without it and are split: the receive thread lets go of the mutex       *)
(* before it asks for a disconnection, the timer thread reads the two      *)
(* flags one after the other, and what it then calls adds a command.       *)
(*                                                                         *)
(* Time is counted in calls of MQTTAsync_checkTimeouts that do their work  *)
(* (one every 3 seconds).                                                  *)
(***************************************************************************)
EXTENDS Integers, Sequences

CONSTANTS
    ConnectTimeout,     \* CONNECT_TIMEOUT, in checks
    MinRetryInterval,   \* MIN_RETRY_INTERVAL, in checks
    MaxRetryInterval,   \* MAX_RETRY_INTERVAL, in checks
    JobInterval,        \* checks between two runs of check_mqtt_connection
    Handshake,          \* checks that pass during a TCP handshake, once the network is stable
    Refusals,           \* TRUE iff the broker may refuse a subscription
    MaxFaults,          \* bound on what the network does wrong
    MaxQueue            \* bound on the requests the timer thread piles up

ASSUME TimesAssumption ==
    /\ {ConnectTimeout, MinRetryInterval, MaxRetryInterval, JobInterval} \subseteq Nat \ {0}
    /\ MinRetryInterval <= MaxRetryInterval
    /\ {Handshake, MaxFaults, MaxQueue} \subseteq Nat
    /\ Refusals \in BOOLEAN

VARIABLES
    status,     \* mqttClientStatus: connected, hasEverConnected, subscribed
    c,          \* m->c: connected and connect_state
    connect,    \* m->connect: the MQTT version and the time since its start_time
    retry,      \* m: shouldBeConnected, retrying, currentInterval and the time since the last failure
    commands,   \* the queue of commands
    rcv,        \* where the receive thread is when it holds no mutex
    send,       \* where the loop of the send thread is
    job,        \* where the timer thread is, and the checks since its last run
    net,        \* the socket: its link, the age of the handshake, what is under way each way
    granted,    \* the broker holds the hub's subscriptions
    faults,     \* what the network has done wrong so far
    stable      \* the network does nothing wrong any more

vars == <<status, c, connect, retry, commands, rcv, send, job, net, granted, faults, stable>>

Minimum(a, b) == IF a <= b THEN a ELSE b

\* A start_time of 0: so long ago that every timeout has passed.
Expired == ConnectTimeout + 1
Longest == MaxRetryInterval + 1

CONNECT(version, age) == [type |-> "CONNECT", version |-> version, age |-> age]
DISCONNECT == [type |-> "DISCONNECT"]
SUBSCRIBE == [type |-> "SUBSCRIBE"]

Closed == [link |-> "none", age |-> 0, out |-> <<>>, in |-> <<>>]
Disconnected == [connected |-> FALSE, connect_state |-> 0]

(***************************************************************************)
(* Functions called by the handlers, as values.                            *)
(***************************************************************************)

\* MQTTAsync_addCommand: a CONNECT or an internal DISCONNECT goes to the head,
\* unless one of its kind is there; anything else goes to the end.
addCommand(cmd) ==
    IF cmd.type = "SUBSCRIBE" THEN Append(commands, cmd)
    ELSE IF commands # <<>> /\ Head(commands).type = cmd.type THEN commands
    ELSE <<cmd>> \o commands

\* The same, for a command put back by the send thread, which has taken it off the head.
addAgain(cmd) ==
    IF Tail(commands) # <<>> /\ Head(Tail(commands)).type = cmd.type THEN Tail(commands)
    ELSE <<cmd>> \o Tail(commands)

\* MQTTAsync_startConnectRetry: an armed retry waits twice as long as the last one.
startConnectRetry ==
    IF ~ retry.shouldBeConnected THEN retry
    ELSE [retry EXCEPT !.since = 0,
                       !.retrying = TRUE,
                       !.interval = IF retry.retrying THEN Minimum(2 * @, MaxRetryInterval)
                                    ELSE MinRetryInterval]

\* MQTTAsync_checkConn: only after version 4 is there another version to try.
checkConn(version) == version = 4

on_connect_failure == [status EXCEPT !.connected = FALSE]

LostStillSubscribed == [status EXCEPT !.connected = FALSE]

on_connection_lost == [status EXCEPT !.connected = FALSE, !.subscribed = FALSE]
on_subscribe == [status EXCEPT !.subscribed = TRUE]
on_subscribe_failure == [status EXCEPT !.subscribed = FALSE]

\* MQTTAsync_closeOnly, and MQTTAsync_closeSession of a client that keeps its session.
closeSession == c' = Disconnected /\ net' = Closed

\* What a failed attempt leads to: the next MQTT version at once, or the failure
\* callback and the wait for the next retry.
nextOrClose ==
    /\ closeSession
    /\ IF checkConn(connect.version)
       THEN /\ commands' = addCommand(CONNECT(connect.version, 0))
            /\ UNCHANGED <<status, retry>>
       ELSE /\ status' = on_connect_failure
            /\ retry' = startConnectRetry
            /\ UNCHANGED commands
    /\ UNCHANGED connect

\* Writing a request: a dead link swallows it.
Sent(n, packet) == IF n.link = "dead" THEN n ELSE [n EXCEPT !.out = Append(@, packet)]

(***************************************************************************)
(* The send thread.                                                        *)
(***************************************************************************)

NextVersion(version) == IF version = 0 THEN 4 ELSE 3

\* processCommand on a CONNECT that finds the client connecting or connected.
ConnectAgain(cmd) ==
    /\ c.connected \/ c.connect_state # 0
    /\ connect' = [version |-> cmd.version, age |-> cmd.age]
    /\ commands' = Tail(commands)
    /\ UNCHANGED <<status, c, retry, net>>

\* processCommand on a CONNECT: the TCP handshake is under way, or already done.
ConnectStarts(cmd) ==
    /\ ~ c.connected /\ c.connect_state = 0
    /\ connect' = [version |-> NextVersion(cmd.version), age |-> cmd.age]
    /\ \/ /\ c' = [c EXCEPT !.connect_state = 1]
          /\ net' = [Closed EXCEPT !.link = "syn"]
       \/ /\ Handshake = 0
          /\ c' = [c EXCEPT !.connect_state = 3]
          /\ net' = [Closed EXCEPT !.link = "open", !.out = <<"CONNECT">>]
    /\ commands' = Tail(commands)
    /\ UNCHANGED <<status, retry>>

\* processCommand on a CONNECT: no socket, no address or no route.  The next version
\* goes back to the head of the queue; after the last one the retry is armed.
\* (MQTTAsync_disconnect finds nothing connected; shouldBeConnected is set again.)
ConnectFails(cmd) ==
    /\ ~ c.connected /\ c.connect_state = 0
    /\ ~ stable /\ faults < MaxFaults
    /\ IF checkConn(NextVersion(cmd.version))
       THEN /\ commands' = addAgain(CONNECT(NextVersion(cmd.version), 0))
            /\ UNCHANGED <<status, connect, retry>>
       ELSE /\ commands' = Tail(commands)
            /\ status' = on_connect_failure
            /\ connect' = [version |-> NextVersion(cmd.version), age |-> cmd.age]
            /\ retry' = startConnectRetry
    /\ UNCHANGED <<c, net>>

\* Mutant: the retry is left to the failure of an attempt.
DisconnectUnarmed ==
    /\ commands' = Tail(commands)
    /\ IF c.connected \/ c.connect_state # 0
       THEN /\ closeSession
            /\ status' = IF c.connected THEN on_connection_lost ELSE on_connect_failure
       ELSE UNCHANGED <<status, c, net>>
    /\ UNCHANGED <<connect, retry>>

\* processCommand on an internal DISCONNECT: an attempt under way is failed first,
\* then MQTTAsync_checkDisconnect closes, reports the loss and arms the retry.
Disconnect ==
    /\ commands' = Tail(commands)
    /\ IF c.connected \/ c.connect_state # 0
       THEN /\ closeSession
            /\ status' = IF c.connected THEN on_connection_lost ELSE on_connect_failure
            /\ retry' = startConnectRetry
       ELSE UNCHANGED <<status, c, retry, net>>
    /\ UNCHANGED connect

\* processCommand on a SUBSCRIBE, which waits for the connection.  If the write fails
\* the failure is reported and a disconnection is asked for.
Subscribe ==
    /\ c.connected /\ c.connect_state = 0
    /\ IF net.link = "broken"
       THEN /\ commands' = addAgain(DISCONNECT)
            /\ status' = on_subscribe_failure
            /\ UNCHANGED net
       ELSE /\ commands' = Tail(commands)
            /\ net' = Sent(net, "SUBSCRIBE")
            /\ UNCHANGED status
    /\ UNCHANGED <<c, connect, retry>>

\* Only the first command of the queue is looked at: a command that must wait keeps
\* every later command of the client waiting.
ProcessCommand ==
    /\ send = "process" /\ commands # <<>>
    /\ LET cmd == Head(commands) IN
       \/ cmd.type = "CONNECT" /\ ConnectAgain(cmd) /\ UNCHANGED faults
       \/ cmd.type = "CONNECT" /\ ConnectStarts(cmd) /\ UNCHANGED faults
       \/ cmd.type = "CONNECT" /\ ConnectFails(cmd) /\ faults' = faults + 1
       \/ cmd.type = "DISCONNECT" /\ Disconnect /\ UNCHANGED faults
       \/ cmd.type = "SUBSCRIBE" /\ Subscribe /\ UNCHANGED faults
    /\ UNCHANGED <<rcv, send, job, granted, stable>>

Processable == commands # <<>> /\ (Head(commands).type = "SUBSCRIBE" => c.connected /\ c.connect_state = 0)

\* The send thread waits on its condition for up to a second.
Waits ==
    /\ send = "process" /\ ~ Processable
    /\ send' = "timeouts"
    /\ UNCHANGED <<status, c, connect, retry, commands, rcv, job, net, granted, faults, stable>>

\* Once the network is stable no check falls into an exchange that the network
\* completes in time: a handshake of the given length, the answer to a request.
Prompt ==
    /\ net.link = "syn" => net.age < Handshake
    /\ net.out = <<>> /\ net.in = <<>>

\* MQTTAsync_checkTimeouts: the timeout of an attempt, or else the automatic reconnect.
CheckTimeouts ==
    /\ send = "timeouts" /\ send' = "process"
    /\ stable => Prompt
    /\ job' = [job EXCEPT !.since = Minimum(@ + 1, JobInterval)]
    /\ LET age == Minimum(connect.age + 1, Expired)
           since == Minimum(retry.since + 1, Longest)
           timedOut == c.connect_state # 0 /\ age > ConnectTimeout
       IN
       IF timedOut THEN nextOrClose
       ELSE /\ connect' = [connect EXCEPT !.age = age]
            /\ retry' = [retry EXCEPT !.since = since]
            /\ net' = IF net.link = "syn" THEN [net EXCEPT !.age = Minimum(@ + 1, ConnectTimeout)] ELSE net
            /\ commands' = IF retry.retrying /\ since > retry.interval
                           THEN addCommand(CONNECT(0, IF c.connect_state = 0 THEN 0 ELSE age))
                           ELSE commands
            /\ UNCHANGED <<status, c>>
    /\ UNCHANGED <<rcv, granted, faults, stable>>

(***************************************************************************)
(* The receive thread.                                                     *)
(***************************************************************************)

\* MQTTAsync_connecting: the TCP handshake is done and the CONNECT packet is sent, in
\* the version m->connect holds by now.  Version 0 is no version: nothing is sent.
TcpCompletes ==
    /\ rcv = "idle" /\ c.connect_state = 1 /\ net.link = "syn"
    /\ stable => net.age >= Handshake
    /\ IF connect.version \in {3, 4}
       THEN /\ c' = [c EXCEPT !.connect_state = 3]
            /\ net' = [net EXCEPT !.link = "open", !.age = 0, !.out = <<"CONNECT">>]
            /\ UNCHANGED <<status, connect, retry, commands>>
       ELSE nextOrClose
    /\ UNCHANGED <<rcv, send, job, granted, faults, stable>>

\* MQTTAsync_connecting: the handshake failed.
TcpRefused ==
    /\ rcv = "idle" /\ c.connect_state = 1 /\ net.link = "syn"
    /\ ~ stable /\ faults < MaxFaults /\ faults' = faults + 1
    /\ nextOrClose
    /\ UNCHANGED <<rcv, send, job, granted, stable>>

\* MQTTAsync_completeConnection on a CONNACK that accepts, and the success callback:
\* on_connect sets the flags and subscribes.
on_connect ==
    IF status.connected
    THEN UNCHANGED <<status, commands>>
    ELSE /\ status' = [status EXCEPT !.connected = TRUE, !.hasEverConnected = TRUE]
         /\ commands' = addCommand(SUBSCRIBE)

ConnackArrives ==
    /\ rcv = "idle" /\ net.in # <<>> /\ Head(net.in) = "CONNACK" /\ c.connect_state = 3
    /\ c' = [connected |-> TRUE, connect_state |-> 0]
    /\ retry' = [retry EXCEPT !.retrying = FALSE]
    /\ net' = [net EXCEPT !.in = Tail(@)]
    /\ on_connect
    /\ UNCHANGED <<connect, rcv, send, job, granted, faults, stable>>

\* A CONNACK that refuses.
RefusalArrives ==
    /\ rcv = "idle" /\ net.in # <<>> /\ Head(net.in) = "REFUSED" /\ c.connect_state = 3
    /\ nextOrClose
    /\ UNCHANGED <<rcv, send, job, granted, faults, stable>>

\* A SUBACK, whatever it grants: the failure callback is for a SUBACK with a single
\* return code, and the hub subscribes to two topics.
SubackArrives ==
    /\ rcv = "idle" /\ net.in # <<>> /\ Head(net.in) = "SUBACK" /\ c.connected
    /\ net' = [net EXCEPT !.in = Tail(@)]
    /\ status' = on_subscribe
    /\ UNCHANGED <<c, connect, retry, commands, rcv, send, job, granted, faults, stable>>

\* MQTTAsync_cycle fails on the socket.  An attempt is failed at once; for a connected
\* client the mutex is released first.
SocketError ==
    /\ rcv = "idle" /\ net.link = "broken"
    /\ \/ /\ c.connect_state # 0
          /\ nextOrClose
          /\ UNCHANGED rcv
       \/ /\ c.connected
          /\ rcv' = "lost"
          /\ UNCHANGED <<status, c, connect, retry, commands, net>>
    /\ UNCHANGED <<send, job, granted, faults, stable>>

\* MQTTAsync_disconnect_internal, without the mutex: is there something to disconnect?
DisconnectChecks ==
    /\ rcv = "lost"
    /\ rcv' = IF c.connected THEN "adding" ELSE "idle"
    /\ UNCHANGED <<status, c, connect, retry, commands, send, job, net, granted, faults, stable>>

\* ... and the command that asks for it, however the connection is by now.
DisconnectAdds ==
    /\ rcv = "adding" /\ rcv' = "idle"
    /\ commands' = addCommand(DISCONNECT)
    /\ UNCHANGED <<status, c, connect, retry, send, job, net, granted, faults, stable>>

\* Mutant: nothing comes of a ping without an answer.
PingIgnored ==
    /\ rcv = "idle" /\ c.connected /\ net.link = "dead"
    /\ UNCHANGED vars

\* MQTTProtocol_keepalive: no PINGRESP.  The cycle holds the mutex here.
PingTimesOut ==
    /\ rcv = "idle" /\ c.connected /\ net.link = "dead"
    /\ commands' = addCommand(DISCONNECT)
    /\ UNCHANGED <<status, c, connect, retry, rcv, send, job, net, granted, faults, stable>>

ReceiveThread ==
    \/ TcpCompletes \/ TcpRefused \/ ConnackArrives \/ RefusalArrives \/ SubackArrives
    \/ SocketError \/ DisconnectChecks \/ DisconnectAdds \/ PingTimesOut

(***************************************************************************)
(* The timer thread: check_mqtt_connection.                                *)
(***************************************************************************)

JobLooks ==
    /\ job.at = "idle" /\ job.since = JobInterval
    /\ job' = [at |-> IF status.connected THEN "connected"
                      ELSE IF ~ status.hasEverConnected THEN "connect" ELSE "idle",
               since |-> 0]
    /\ UNCHANGED <<status, c, connect, retry, commands, rcv, send, net, granted, faults, stable>>

JobLooksAgain ==
    /\ job.at = "connected"
    /\ job' = [job EXCEPT !.at = IF status.subscribed THEN "idle" ELSE "subscribe"]
    /\ UNCHANGED <<status, c, connect, retry, commands, rcv, send, net, granted, faults, stable>>

\* MQTTClientWrapper_subscribe: refused when the client is not connected.
JobSubscribes ==
    /\ job.at = "subscribe" /\ job' = [job EXCEPT !.at = "idle"]
    /\ Len(commands) + Len(net.out) + Len(net.in) < MaxQueue
    /\ commands' = IF c.connected THEN addCommand(SUBSCRIBE) ELSE commands
    /\ UNCHANGED <<status, c, connect, retry, rcv, send, net, granted, faults, stable>>

\* MQTTClientWrapper_connect: a new command, whose start_time is left 0 when an attempt
\* is under way.
JobConnects ==
    /\ job.at = "connect" /\ job' = [job EXCEPT !.at = "idle"]
    /\ retry' = [retry EXCEPT !.shouldBeConnected = TRUE]
    /\ commands' = addCommand(CONNECT(0, IF c.connect_state = 0 THEN 0 ELSE Expired))
    /\ UNCHANGED <<status, c, connect, rcv, send, net, granted, faults, stable>>

Job == JobLooks \/ JobLooksAgain \/ JobSubscribes \/ JobConnects

(***************************************************************************)
(* The network and the broker.                                             *)
(***************************************************************************)

\* The broker answers the oldest request of the connection.
BrokerAnswers ==
    /\ net.link = "open" /\ net.out # <<>>
    /\ \E answer \in {"CONNACK", "REFUSED", "SUBACK"} :
          /\ answer = "SUBACK" <=> Head(net.out) = "SUBSCRIBE"
          /\ answer = "REFUSED" => ~ stable /\ faults < MaxFaults
          /\ faults' = IF answer = "REFUSED" THEN faults + 1 ELSE faults
          /\ net' = [net EXCEPT !.out = Tail(@), !.in = Append(@, answer)]
          /\ granted' \in IF answer # "SUBACK" THEN {granted}
                          ELSE IF Refusals THEN BOOLEAN ELSE {TRUE}
    /\ UNCHANGED <<status, c, connect, retry, commands, rcv, send, job, stable>>

\* The connection breaks, or dies without a trace.
LinkFails ==
    /\ ~ stable /\ faults < MaxFaults /\ faults' = faults + 1
    /\ net.link = "open"
    /\ \E link \in {"broken", "dead"} : net' = [net EXCEPT !.link = link, !.out = <<>>, !.in = <<>>]
    /\ UNCHANGED <<status, c, connect, retry, commands, rcv, send, job, granted, stable>>

\* The broker restarts without its sessions: the connection breaks with it.
BrokerForgets ==
    /\ ~ stable /\ faults < MaxFaults /\ faults' = faults + 1
    /\ granted' = FALSE
    /\ net' = IF net.link = "open" THEN [net EXCEPT !.link = "broken", !.out = <<>>, !.in = <<>>] ELSE net
    /\ UNCHANGED <<status, c, connect, retry, commands, rcv, send, job, stable>>

Stabilises ==
    /\ ~ stable /\ stable' = TRUE
    /\ UNCHANGED <<status, c, connect, retry, commands, rcv, send, job, net, granted, faults>>

(***************************************************************************)
(* The specification.                                                      *)
(***************************************************************************)

\* After run_app has called MQTTClientWrapper_init and MQTTClientWrapper_connect.
Init ==
    /\ status = [connected |-> FALSE, hasEverConnected |-> FALSE, subscribed |-> FALSE]
    /\ c = Disconnected
    /\ connect = [version |-> 0, age |-> Expired]
    /\ retry = [shouldBeConnected |-> TRUE, retrying |-> FALSE, interval |-> 0, since |-> Longest]
    /\ commands = <<CONNECT(0, 0)>>
    /\ rcv = "idle" /\ send = "process"
    /\ job = [at |-> "idle", since |-> 0]
    /\ net = Closed
    /\ granted \in BOOLEAN
    /\ faults = 0 /\ stable = FALSE

SendThread == ProcessCommand \/ Waits \/ CheckTimeouts

Network == BrokerAnswers \/ LinkFails \/ BrokerForgets \/ Stabilises

Next == SendThread \/ ReceiveThread \/ Job \/ Network

Spec == Init /\ [][Next]_vars

\* Each thread is scheduled; the broker answers; the network becomes stable; and the
\* timer thread does not come in between in the handshake of every single attempt.
FairSpec ==
    /\ Spec
    /\ WF_vars(SendThread) /\ WF_vars(ReceiveThread) /\ WF_vars(Job)
    /\ WF_vars(BrokerAnswers) /\ WF_vars(Stabilises)
    /\ SF_vars(TcpCompletes /\ connect.version # 0)

-------------------------------------------------------------------------------

Versions == {0, 3, 4}

\* The variables have the types of the fields they stand for.
TypeOK ==
    /\ status \in [connected : BOOLEAN, hasEverConnected : BOOLEAN, subscribed : BOOLEAN]
    /\ c \in [connected : BOOLEAN, connect_state : {0, 1, 3}]
    /\ connect \in [version : Versions, age : 0 .. Expired]
    /\ retry \in [shouldBeConnected : BOOLEAN, retrying : BOOLEAN,
                  interval : 0 .. MaxRetryInterval, since : 0 .. Longest]
    /\ \A i \in 1 .. Len(commands) :
          commands[i] \in {DISCONNECT, SUBSCRIBE} \cup {CONNECT(v, a) : v \in Versions, a \in 0 .. Expired}
    /\ rcv \in {"idle", "lost", "adding"} /\ send \in {"process", "timeouts"}
    /\ job \in [at : {"idle", "connected", "subscribe", "connect"}, since : 0 .. JobInterval]
    /\ net.link \in {"none", "syn", "open", "broken", "dead"} /\ net.age \in 0 .. ConnectTimeout
    /\ granted \in BOOLEAN /\ faults \in 0 .. MaxFaults /\ stable \in BOOLEAN

\* The flag that decides between sending and caching (MQTTClientWrapper_isConnected)
\* is the client's own connected flag, whatever sequence of failures, version
\* fallbacks and late disconnections came before: no path of the Paho client closes a
\* connection without the callback that clears it, and none opens one without
\* on_connect getting past its check.
FlagFollowsClient == status.connected = c.connected

\* While the connection is up, a hub that believes to be subscribed is: a reconnection
\* clears the flag before the broker, which may have lost the session, is asked again.
SubscribedIsGranted == status.subscribed => c.connected /\ (net.link = "open" => granted)

\* The hub's own flags tell the truth through failures and fallbacks: the one that
\* decides between sending and caching, and the one that decides about subscribing.
FlagsAreTrue == FlagFollowsClient /\ SubscribedIsGranted

\* The client never gives up: when it is neither connected nor connecting, a CONNECT
\* is queued or the automatic reconnect is armed.
RetryArmed ==
    ~ c.connected /\ c.connect_state = 0
        => retry.retrying \/ \E i \in 1 .. Len(commands) : commands[i].type = "CONNECT"

\* connectTimeout is "the time interval in seconds to allow a connect to complete": a
\* handshake the network has not failed is given that time. It does not hold: a
\* CONNECT queued meanwhile takes the version of the attempt away, and ends it.
AttemptKeepsItsTime ==
    [][net.link = "syn" /\ net'.link = "none" /\ faults' = faults => net.age >= ConnectTimeout]_vars

\* automaticReconnect: "Reconnect automatically in the case of a connection being lost".
ReconnectsWhenLost == status.hasEverConnected /\ ~ status.connected ~> status.connected

Usable == c.connected /\ status.connected /\ status.subscribed /\ net.link = "open"

\* Once the network behaves, the hub ends up connected and subscribed, and stays so.
StaysConnected == <>[]Usable
===============================================================================
