---------------------------- MODULE MqttKeepalive ----------------------------
(***************************************************************************)
(* How the Paho client keeps a connection alive and notices a dead one:    *)
(* MQTTProtocol_keepalive, called from MQTTAsync_cycle, with the times it  *)
(* looks at.  Time is in seconds; a time is kept as its age.               *)
(***************************************************************************)
EXTENDS Integers

CONSTANTS
    KeepAliveInterval,  \* keepAliveInterval, 10 for the hub
    RetryLoopInterval,  \* retryLoopInterval, a tenth of it
    MaxDelay,           \* a live broker answers a ping within so many seconds
    MayBlock            \* TRUE iff the socket may leave a write pending

ASSUME KeepaliveAssumption ==
    /\ {KeepAliveInterval, RetryLoopInterval} \subseteq Nat \ {0}
    /\ MaxDelay \in Nat /\ MayBlock \in BOOLEAN

VARIABLES
    open,       \* connected, and no disconnection asked for
    lastSent, lastReceived,     \* net.lastSent, net.lastReceived
    last,       \* the static of MQTTAsync_retry
    ping_outstanding,
    pingAge,    \* the age of the last PINGREQ
    pending,    \* a write is pending on the socket
    alive,      \* the broker is reachable
    deadFor,    \* for how long it has not been
    due         \* the seconds since the last MQTTAsync_cycle

ages == <<lastSent, lastReceived, last, pingAge, deadFor>>
aliveVars == <<open, ages, ping_outstanding, pending, alive, due>>

\* Ages beyond this are not told apart.
LongestAge == KeepAliveInterval + 2 * RetryLoopInterval + 6
Older(age) == IF age < LongestAge THEN age + 1 ELSE age

\* The receive thread waits for a second, and then sleeps for a tenth of one: at most
\* two seconds begin between two cycles.
Tick ==
    /\ open /\ due < 2 /\ due' = due + 1
    /\ alive /\ ping_outstanding => pingAge < MaxDelay
    /\ lastSent' = Older(lastSent) /\ lastReceived' = Older(lastReceived) /\ last' = Older(last)
    /\ pingAge' = Older(pingAge)
    /\ deadFor' = IF alive THEN 0 ELSE Older(deadFor)
    /\ UNCHANGED <<open, ping_outstanding, pending, alive>>

SilenceFrom(received) == received >= KeepAliveInterval

\* Nothing sent, or nothing received, for the keep alive interval.
Silence(received) == lastSent >= KeepAliveInterval \/ received >= KeepAliveInterval

\* Mutant: a ping without an answer is left at that.
keepaliveOnce(received, outstanding) ==
    IF ~ Silence(received) \/ outstanding \/ pending
    THEN ping_outstanding' = outstanding /\ UNCHANGED <<open, lastSent, pingAge>>
    ELSE ping_outstanding' = TRUE /\ lastSent' = 0 /\ pingAge' = 0 /\ UNCHANGED open

\* MQTTProtocol_keepalive: a ping, unless a write is pending; a disconnection if the ping
\* cannot be written whole, or if one is still without an answer.
keepalive(received, outstanding) ==
    \/ /\ ~ Silence(received) \/ (~ outstanding /\ pending)
       /\ ping_outstanding' = outstanding
       /\ UNCHANGED <<open, lastSent, pingAge>>
    \/ /\ Silence(received) /\ ~ outstanding /\ ~ pending
       /\ ping_outstanding' = TRUE /\ lastSent' = 0 /\ pingAge' = 0
       /\ UNCHANGED open
    \/ /\ Silence(received)
       /\ outstanding \/ (~ pending /\ (~ alive \/ MayBlock))
       /\ open' = FALSE
       /\ ping_outstanding' = outstanding
       /\ UNCHANGED <<lastSent, pingAge>>

\* Mutant: the interval is cut short by one.
retryEarly(received, outstanding) ==
    IF last >= RetryLoopInterval
    THEN last' = 0 /\ keepalive(received, outstanding)
    ELSE ping_outstanding' = outstanding /\ UNCHANGED <<open, last, lastSent, pingAge>>

\* What is due once in retryLoopInterval seconds.
MQTTAsync_retry(received, outstanding) ==
    IF last > RetryLoopInterval
    THEN last' = 0 /\ keepalive(received, outstanding)
    ELSE ping_outstanding' = outstanding /\ UNCHANGED <<open, last, lastSent, pingAge>>

\* MQTTAsync_cycle: at most one packet, then MQTTAsync_retry.
Cycle ==
    /\ open /\ due' = 0
    /\ \E packet \in {"none", "PINGRESP", "other"} :
          /\ packet = "none" \/ alive
          /\ packet = "PINGRESP" => ping_outstanding
          /\ lastReceived' = IF packet = "none" THEN lastReceived ELSE 0
          /\ MQTTAsync_retry(lastReceived', ping_outstanding /\ packet # "PINGRESP")
    /\ UNCHANGED <<pending, alive, deadFor>>

\* MQTTPacket_send: a packet of the hub, taken whole or in part.
Sends ==
    /\ open /\ ~ pending
    /\ \/ lastSent' = 0 /\ UNCHANGED pending
       \/ MayBlock /\ pending' = TRUE /\ UNCHANGED lastSent
    /\ UNCHANGED <<open, lastReceived, last, pingAge, deadFor, ping_outstanding, alive, due>>

\* MQTTAsync_writeComplete.
WriteCompletes ==
    /\ open /\ pending /\ alive
    /\ pending' = FALSE /\ lastSent' = 0
    /\ UNCHANGED <<open, lastReceived, last, pingAge, deadFor, ping_outstanding, alive, due>>

\* The broker, or the way to it, is gone without a trace.
PeerDies ==
    /\ open /\ alive /\ alive' = FALSE
    /\ UNCHANGED <<open, ages, ping_outstanding, pending, due>>

\* MQTTAsync_closeOnly, and a new connection: CONNECT was sent and CONNACK received.
Reconnects ==
    /\ ~ open /\ open' = TRUE
    /\ lastSent' = 0 /\ lastReceived' = 0 /\ ping_outstanding' = FALSE /\ pending' = FALSE
    /\ alive' = TRUE /\ deadFor' = 0
    /\ UNCHANGED <<last, pingAge, due>>

AliveInit ==
    /\ open = TRUE /\ lastSent = 0 /\ lastReceived = 0 /\ last \in 0 .. RetryLoopInterval
    /\ ping_outstanding = FALSE /\ pingAge = 0 /\ pending = FALSE
    /\ alive = TRUE /\ deadFor = 0 /\ due = 0

AliveNext == Tick \/ Cycle \/ Sends \/ WriteCompletes \/ PeerDies \/ Reconnects

AliveSpec == AliveInit /\ [][AliveNext]_aliveVars

\* The clock goes on and the receive thread runs; a live broker takes what is written.
AliveFairSpec ==
    /\ AliveSpec
    /\ WF_aliveVars(Tick) /\ WF_aliveVars(due > 0 /\ Cycle) /\ WF_aliveVars(WriteCompletes)

-------------------------------------------------------------------------------

\* The variables have their types, and the keep alive work is never put off for more than
\* two seconds beyond the interval of MQTTAsync_retry.
AliveTypeOK ==
    /\ {open, ping_outstanding, pending, alive} \subseteq BOOLEAN /\ due \in 0 .. 2
    /\ {lastSent, lastReceived, pingAge, deadFor} \subseteq 0 .. LongestAge
    /\ last \in 0 .. RetryLoopInterval + 2

\* A broker cuts a client off that was silent for one and a half times its keep alive
\* interval: with the rounding of MQTTAsync_retry the hub never is.
SpeaksInTime == open => 2 * lastSent <= 3 * KeepAliveInterval

\* A dead connection is noticed: the interval, then the rounding of MQTTAsync_retry
\* before the ping and again before the verdict.
DeadIsNoticed == open => deadFor <= KeepAliveInterval + 2 * (RetryLoopInterval + 2)

\* The two times that MQTTProtocol_keepalive and the rounding of MQTTAsync_retry bound.
KeepaliveInTime == SpeaksInTime /\ DeadIsNoticed

\* A live broker that answers in time is not given up, whoever sends what when, and
\* also right after a reconnection.
AliveIsKept == [][open /\ ~ open' => ~ alive]_aliveVars

\* "PINGRESP not received in keepalive interval": the connection is given up for a
\* missing PINGRESP only when the interval has passed. It does not hold: lastReceived
\* being old when the ping is sent is enough.
GivenUpAfterInterval == [][open /\ ~ open' /\ ping_outstanding => pingAge >= KeepAliveInterval]_aliveVars

\* Unless a write is pending, also one begun after the connection died, a dead
\* connection is given up.
DeadIsDetectedUnlessPending == []<>(alive \/ ~ open \/ pending)

\* "The keep alive interval enables the client to detect when the server is no longer
\* available without having to wait for the long TCP/IP timeout." It does not hold: no
\* ping is sent while a write is pending.
DeadIsDetected == ~ alive ~> ~ open
===============================================================================
