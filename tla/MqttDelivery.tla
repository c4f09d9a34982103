----------------------------- MODULE MqttDelivery -----------------------------
(***************************************************************************)
(* The delivery of messages between the hub and its broker by the Paho     *)
(* client: the publications of the hub with QoS 0, 1 and 2 and the         *)
(* callbacks that tell of their fate (MQTTAsync.c), the handshakes of both *)
(* directions (MQTTProtocolClient.c) and writes that the socket takes only *)
(* in part (Socket.c).  The session is kept over a reconnection            *)
(* (CLEANSESSION is 0).                                                    *)
(*                                                                         *)
(* A message is its number: the next message id, which is not given out    *)
(* again within the 65535 that follow.                                     *)
(***************************************************************************)
EXTENDS Integers, Sequences

CONSTANTS
    Scenarios,      \* what hub and broker have to send, over which broker and socket
    Window,         \* how many unfinished QoS 1 and 2 messages the broker sends at a time
    MaxBreaks,      \* bound on connections lost or given up
    MaxRetries      \* bound on retries while packets are on their way

\* outQos: the QoS of each message the hub sends, in order; inQos: of each message the
\* broker has for the hub; dupPubrel: the broker marks a repeated PUBREL, as MQTT 3.1 does
\* and 3.1.1 forbids; mayInterrupt: the socket may take a part of a publication or repetition.
ASSUME DeliveryAssumption ==
    /\ Scenarios \subseteq [outQos : Seq(0 .. 2), inQos : Seq(0 .. 2),
                            dupPubrel : BOOLEAN, mayInterrupt : BOOLEAN]
    /\ Window \in Nat \ {0} /\ MaxBreaks \in Nat /\ MaxRetries \in Nat

VARIABLES
    scenario,   \* the one of Scenarios, which stays
    link,       \* the connection: "up", "broken" and not noticed yet, or "down"
    next,       \* the number of the next message to send
    publications,   \* the queue of PUBLISH commands
    publisher,  \* where the send thread is in a publication the socket took a part of, or
                \* "disconnect": the command to disconnect is at the head of its queue
    outbound,   \* outboundMsgs: [id, next], next being nextMessageType
    responses,  \* the commands waiting for their response
    pendingWrite,    \* pending_write: the command whose write is under way, 0 for none
    partial,    \* the packet the socket has taken a part of, at most one
    succeeded, failed,      \* how often each callback has been called for a message
    inbound,    \* inboundMsgs
    arrived,    \* how often each message has been given to the application
    toBroker, toHub,        \* the packets on their way
    published, held,        \* the broker: how often it got a message, and the QoS 2 ids it remembers
    nextIn, sending,        \* the broker: the next message for the hub, and the unfinished ones
    breaks, retries,
    skipped     \* history: the messages some repetition on a reconnection did not come to

callbacks == <<succeeded, failed>>
session == <<outbound, inbound>>
channels == <<toBroker, toHub>>
broker == <<published, held, nextIn, sending>>
setting == <<scenario, breaks, retries, skipped>>
deliveryVars == <<link, next, publications, publisher, session, responses, pendingWrite, partial,
          callbacks, arrived, channels, broker, setting>>

OutQos == scenario.outQos
InQos == scenario.inQos
DupPubrel == scenario.dupPubrel
MayInterrupt == scenario.mayInterrupt
Out == 1 .. Len(OutQos)
In == 1 .. Len(InQos)
Idle == [at |-> "idle", id |-> 0]
Disconnecting == [at |-> "disconnect", id |-> 0]
Packet(type, id) == [type |-> type, id |-> id, dup |-> FALSE]
Ids(s) == {s[i].id : i \in 1 .. Len(s)}
Bump(f, id) == [f EXCEPT ![id] = @ + 1]
Awaiting(id, type) == [id |-> id, next |-> type]
Awaits(s, id, type) == \E i \in 1 .. Len(s) : s[i] = Awaiting(id, type)
\* The list without the first element that is e.
ListRemove(s, e) ==
    LET found == {i \in 1 .. Len(s) : s[i] = e}
        first == CHOOSE i \in found : \A j \in found : i <= j
    IN  IF found = {} THEN s ELSE SubSeq(s, 1, first - 1) \o SubSeq(s, first + 1, Len(s))

\* What is awaited of a message that is released is the PUBCOMP.
Released(msgs, id) ==
    [i \in 1 .. Len(msgs) |-> IF msgs[i].id = id THEN Awaiting(id, "PUBCOMP") ELSE msgs[i]]

FirstAck(qos) == IF qos = 1 THEN "PUBACK" ELSE "PUBREC"

(***************************************************************************)
(* Sending.                                                                *)
(***************************************************************************)

\* MQTTAsync_send, refused while disconnected.
Send ==
    /\ link # "down" /\ next \in Out
    /\ publications' = Append(publications, next)
    /\ next' = next + 1
    /\ UNCHANGED <<link, publisher, session, responses, pendingWrite, partial, callbacks, arrived, channels, broker, setting>>

\* MQTTProtocol_startPublish: what has to be acknowledged is stored before it is sent.
Stored(id) ==
    outbound' = IF OutQos[id] = 0 THEN outbound
                ELSE Append(outbound, Awaiting(id, FirstAck(OutQos[id])))

\* The socket takes the whole publication (on a broken link nobody gets it): with QoS 0
\* that is a success, else the command waits for its response.
PublishWritten(id) ==
    /\ toBroker' = IF link = "up" THEN Append(toBroker, Packet("PUBLISH", id)) ELSE toBroker
    /\ IF OutQos[id] = 0
       THEN succeeded' = Bump(succeeded, id) /\ UNCHANGED responses
       ELSE responses' = Append(responses, id) /\ UNCHANGED succeeded
    /\ UNCHANGED <<failed, pendingWrite, partial, publisher>>

\* The write fails: the failure callback, and the command is freed; with QoS 0 it stays
\* flagged as a pending write.  A stored publication stays stored.
PublishFails(id) ==
    /\ link = "broken"
    /\ failed' = Bump(failed, id)
    /\ pendingWrite' = IF OutQos[id] = 0 THEN id ELSE pendingWrite
    /\ UNCHANGED <<succeeded, responses, partial, publisher, toBroker>>

\* The socket takes a part of the publication; from here on the receive thread, which
\* holds another mutex, may complete the write.
PublishInterrupted(id) ==
    /\ MayInterrupt
    /\ partial' = <<Packet("PUBLISH", id)>>
    /\ publisher' = [at |-> "written", id |-> id]
    /\ UNCHANGED <<callbacks, responses, pendingWrite, toBroker>>

\* MQTTAsync_processCommand on a PUBLISH.
ProcessPublish ==
    /\ publisher = Idle /\ link # "down" /\ partial = <<>> /\ publications # <<>>
    /\ publications' = Tail(publications)
    /\ LET id == Head(publications) IN
       /\ Stored(id)
       /\ PublishWritten(id) \/ PublishFails(id) \/ PublishInterrupted(id)
    /\ UNCHANGED <<link, next, inbound, arrived, toHub, broker, setting>>

\* ... which then flags the pending write of a QoS 0 publication ...
PublishFlags ==
    /\ publisher.at = "written"
    /\ pendingWrite' = IF OutQos[publisher.id] = 0 THEN publisher.id ELSE pendingWrite
    /\ publisher' = [publisher EXCEPT !.at = "flagged"]
    /\ UNCHANGED <<link, next, publications, session, responses, partial, callbacks, arrived, channels, broker, setting>>

\* ... and appends the command to those that wait for their response.
PublishResponds ==
    /\ publisher.at = "flagged"
    /\ responses' = Append(responses, publisher.id)
    /\ publisher' = Idle
    /\ UNCHANGED <<link, next, publications, session, pendingWrite, partial, callbacks, arrived, channels, broker, setting>>

\* MQTTAsync_writeComplete, called with the socket's mutex only: the flagged command is
\* told, and the first of the waiting commands, whichever it is, is freed.  A command
\* already freed is read all the same: it may be told again, or not.
writeComplete(rc) ==
    /\ pendingWrite' = 0
    /\ IF pendingWrite = 0 \/ responses = <<>>
       THEN UNCHANGED <<responses, callbacks>>
       ELSE /\ responses' = Tail(responses)
            /\ \/ /\ succeeded' = IF rc = 1 THEN Bump(succeeded, pendingWrite) ELSE succeeded
                  /\ failed' = IF rc = 1 THEN failed ELSE Bump(failed, pendingWrite)
               \/ failed[pendingWrite] > 0 /\ UNCHANGED callbacks

\* Socket_continueWrites: the rest is written, or the write fails.
ContinueWrite ==
    /\ partial # <<>>
    /\ partial' = <<>>
    /\ \/ /\ link = "up"
          /\ toBroker' = Append(toBroker, partial[1])
          /\ writeComplete(1)
       \/ /\ link = "broken"
          /\ writeComplete(-1)
          /\ UNCHANGED toBroker
    /\ UNCHANGED <<link, next, publications, publisher, session, arrived, toHub, broker, setting>>

(***************************************************************************)
(* Receiving: MQTTAsync_cycle, which needs the mutex of the send thread.   *)
(***************************************************************************)

\* The answer, and what handling the packet did.  While a write is under way the answer
\* is an error of the socket: what follows is lost with the connection.
Answer(type, id) ==
    IF partial = <<>>
    THEN toBroker' = Append(toBroker, Packet(type, id)) /\ toHub' = Tail(toHub) /\ UNCHANGED link
    ELSE toBroker' = <<>> /\ toHub' = <<>> /\ link' = "broken"

NoAnswer == toHub' = Tail(toHub) /\ UNCHANGED <<toBroker, link>>

\* Mutant: the command is told and not freed.
AcknowledgedKept(id) ==
    /\ succeeded' = IF \E i \in 1 .. Len(responses) : responses[i] = id THEN Bump(succeeded, id) ELSE succeeded
    /\ UNCHANGED responses

\* The first waiting command with the id of the acknowledgement is told and freed.
Acknowledged(id) ==
    IF \E i \in 1 .. Len(responses) : responses[i] = id
    THEN /\ responses' = ListRemove(responses, id)
         /\ succeeded' = Bump(succeeded, id)
    ELSE UNCHANGED <<responses, succeeded>>

handlePubacks(id) ==
    /\ outbound' = ListRemove(outbound, Awaiting(id, "PUBACK"))
    /\ Acknowledged(id)
    /\ NoAnswer
    /\ UNCHANGED <<inbound, arrived>>

\* The next acknowledgement awaited changes even if the PUBREL cannot be written.
handlePubrecs(id) ==
    /\ IF Awaits(outbound, id, "PUBREC")
       THEN /\ outbound' = Released(outbound, id)
            /\ Answer("PUBREL", id)
       ELSE UNCHANGED outbound /\ NoAnswer
    /\ UNCHANGED <<inbound, arrived, responses, succeeded>>

handlePubcomps(id) ==
    /\ outbound' = ListRemove(outbound, Awaiting(id, "PUBCOMP"))
    /\ Acknowledged(id)
    /\ NoAnswer
    /\ UNCHANGED <<inbound, arrived>>

\* Mutant: a QoS 2 publication is processed when it comes, like any other.
handlePublishesAtOnce(id) ==
    /\ IF InQos[id] = 0 THEN NoAnswer
       ELSE Answer(FirstAck(InQos[id]), id)
    /\ arrived' = IF InQos[id] > 0 /\ partial # <<>> THEN arrived ELSE Bump(arrived, id)
    /\ UNCHANGED <<outbound, inbound, responses, succeeded>>

\* QoS 0 is processed, QoS 1 acknowledged and processed, QoS 2 stored (in the place of an
\* earlier one with this id) and acknowledged.
handlePublishes(id) ==
    /\ IF InQos[id] = 0 THEN NoAnswer
       ELSE Answer(FirstAck(InQos[id]), id)
    /\ arrived' = IF InQos[id] = 2 \/ (InQos[id] = 1 /\ partial # <<>>) THEN arrived ELSE Bump(arrived, id)
    /\ inbound' = IF InQos[id] = 2 /\ partial = <<>> THEN inbound \cup {id} ELSE inbound
    /\ UNCHANGED <<outbound, responses, succeeded>>

\* Mutant: an unknown publication is never answered.
handlePubrelsKnown(id, dup) ==
    /\ IF id \in inbound THEN Answer("PUBCOMP", id) ELSE NoAnswer
    /\ arrived' = IF id \in inbound /\ partial = <<>> THEN Bump(arrived, id) ELSE arrived
    /\ inbound' = IF partial = <<>> THEN inbound \ {id} ELSE inbound
    /\ UNCHANGED <<outbound, responses, succeeded>>

\* A stored publication is acknowledged, processed and removed.  For an unknown one only
\* a PUBREL marked as a repetition is answered.
handlePubrels(id, dup) ==
    /\ IF id \in inbound \/ dup THEN Answer("PUBCOMP", id) ELSE NoAnswer
    /\ arrived' = IF id \in inbound /\ partial = <<>> THEN Bump(arrived, id) ELSE arrived
    /\ inbound' = IF partial = <<>> THEN inbound \ {id} ELSE inbound
    /\ UNCHANGED <<outbound, responses, succeeded>>

Receive ==
    /\ publisher \in {Idle, Disconnecting} /\ link = "up" /\ toHub # <<>>
    /\ LET p == Head(toHub) IN
       \/ p.type = "PUBACK" /\ handlePubacks(p.id)
       \/ p.type = "PUBREC" /\ handlePubrecs(p.id)
       \/ p.type = "PUBCOMP" /\ handlePubcomps(p.id)
       \/ p.type = "PUBLISH" /\ handlePublishes(p.id)
       \/ p.type = "PUBREL" /\ handlePubrels(p.id, p.dup)
    /\ UNCHANGED <<next, publications, publisher, pendingWrite, partial, failed, broker, setting>>

(***************************************************************************)
(* Retries and reconnection.                                               *)
(***************************************************************************)

\* Mutants: a publication is repeated until it is complete; the newest is repeated first.
RepeatedPublish(msgs) == [i \in 1 .. Len(msgs) |-> Packet("PUBLISH", msgs[i].id)]
RepeatedBackwards(msgs) ==
    [i \in 1 .. Len(msgs) |->
        LET m == msgs[Len(msgs) + 1 - i] IN
        Packet(IF m.next = "PUBCOMP" THEN "PUBREL" ELSE "PUBLISH", m.id)]

\* MQTTProtocol_retries: a publication is repeated until its receipt is known, then its release.
Repeated(msgs) ==
    [i \in 1 .. Len(msgs) |->
        Packet(IF msgs[i].next = "PUBCOMP" THEN "PUBREL" ELSE "PUBLISH", msgs[i].id)]

\* ... one after the other, the last of them the n-th: the end of the list, or one that
\* the socket takes a part of.  The rest of a publication is left to ContinueWrite; a
\* release in part gives the connection up, and MQTTProtocol_closeSession puts a command
\* to disconnect at the head of the queue.
MQTTProtocol_retries(written, msgs, n) ==
    \/ /\ n = Len(msgs)
       /\ toBroker' = written \o Repeated(msgs)
       /\ UNCHANGED <<partial, publisher, breaks>>
    \/ /\ MayInterrupt /\ n > 0
       /\ toBroker' = written \o Repeated(SubSeq(msgs, 1, n - 1))
       /\ partial' = <<Repeated(msgs)[n]>>
       /\ IF msgs[n].next = "PUBCOMP"
          THEN breaks < MaxBreaks /\ breaks' = breaks + 1 /\ publisher' = Disconnecting
          ELSE UNCHANGED <<breaks, publisher>>

\* n places of a list of this length, in its order.
Rising(n, length) ==
    {f \in [1 .. n -> 1 .. length] : \A i, j \in 1 .. n : i < j => f[i] < f[j]}

\* Mutant: a message the last reconnection did not come to, whose lastTouch is 0, is left.
RetryTouched ==
    /\ publisher = Idle /\ link = "up" /\ partial = <<>>
    /\ \/ retries < MaxRetries /\ retries' = retries + 1
       \/ toBroker = <<>> /\ toHub = <<>> /\ UNCHANGED retries
    /\ \E n \in 1 .. Len(outbound) : \E old \in Rising(n, Len(outbound)), last \in 1 .. n :
          /\ \A i \in 1 .. n : outbound[old[i]].id \notin skipped
          /\ MQTTProtocol_retries(toBroker, [i \in 1 .. n |-> outbound[old[i]]], last)
    /\ UNCHANGED <<link, next, publications, session, responses, pendingWrite,
                   callbacks, arrived, toHub, broker, scenario, skipped>>

\* MQTTAsync_retry: those not touched for the retry interval, while packets are on their
\* way or when nothing comes any more.
Retry ==
    /\ publisher = Idle /\ link = "up" /\ partial = <<>>
    /\ \/ retries < MaxRetries /\ retries' = retries + 1
       \/ toBroker = <<>> /\ toHub = <<>> /\ UNCHANGED retries
    /\ \E n \in 1 .. Len(outbound) : \E old \in Rising(n, Len(outbound)), last \in 1 .. n :
          MQTTProtocol_retries(toBroker, [i \in 1 .. n |-> outbound[old[i]]], last)
    /\ UNCHANGED <<link, next, publications, session, responses, pendingWrite,
                   callbacks, arrived, toHub, broker, scenario, skipped>>

\* MQTTAsync_closeSession with cleansession 0, on an error of the socket or by the command
\* to disconnect: the socket is closed with what it had not written; messages, commands
\* and responses stay.
Close ==
    /\ \/ publisher = Idle /\ link = "broken"
       \/ publisher = Disconnecting
    /\ link' = "down" /\ partial' = <<>> /\ publisher' = Idle
    /\ toBroker' = <<>> /\ toHub' = <<>>
    /\ UNCHANGED <<next, publications, session, responses, pendingWrite, callbacks, arrived, broker, setting>>

\* The broker repeats what is unfinished on its side.
BrokerRepeats ==
    [i \in 1 .. Len(sending) |->
        [type |-> IF sending[i].next = "PUBCOMP" THEN "PUBREL" ELSE "PUBLISH",
         id |-> sending[i].id,
         dup |-> DupPubrel /\ sending[i].next = "PUBCOMP"]]

\* MQTTAsync_completeConnection: the outbound messages are repeated before any command.
Reconnect ==
    /\ publisher = Idle /\ link = "down" /\ link' = "up"
    /\ \E n \in 0 .. Len(outbound) :
          /\ MQTTProtocol_retries(<<>>, outbound, n)
          /\ skipped' = skipped \cup {outbound[i].id : i \in n + 1 .. Len(outbound)}
    /\ toHub' = BrokerRepeats
    /\ UNCHANGED <<next, publications, session, responses, pendingWrite,
                   callbacks, arrived, broker, scenario, retries>>

(***************************************************************************)
(* The broker and the network.                                             *)
(***************************************************************************)

LinkBreaks ==
    /\ link = "up" /\ breaks < MaxBreaks
    /\ link' = "broken" /\ breaks' = breaks + 1
    /\ toBroker' = <<>> /\ toHub' = <<>>
    /\ UNCHANGED <<next, publications, publisher, session, responses, pendingWrite, partial, callbacks,
                   arrived, broker, scenario, retries, skipped>>

BrokerSends ==
    /\ link = "up" /\ nextIn \in In
    /\ InQos[nextIn] > 0 => Len(sending) < Window
    /\ toHub' = Append(toHub, Packet("PUBLISH", nextIn))
    /\ sending' = IF InQos[nextIn] = 0 THEN sending
                  ELSE Append(sending, Awaiting(nextIn, FirstAck(InQos[nextIn])))
    /\ nextIn' = nextIn + 1
    /\ UNCHANGED <<link, next, publications, publisher, session, responses, pendingWrite, partial, callbacks,
                   arrived, toBroker, published, held, setting>>

\* A publication is passed on unless it is a QoS 2 publication not released yet.
BrokerPublishes(id) ==
    /\ published' = IF id \in held THEN published ELSE Bump(published, id)
    /\ held' = IF OutQos[id] = 2 THEN held \cup {id} ELSE held
    /\ toHub' = IF OutQos[id] = 0 THEN toHub ELSE Append(toHub, Packet(FirstAck(OutQos[id]), id))
    /\ UNCHANGED sending

BrokerReleases(id) ==
    /\ held' = held \ {id}
    /\ toHub' = Append(toHub, Packet("PUBCOMP", id))
    /\ UNCHANGED <<published, sending>>

BrokerAcknowledged(p) ==
    /\ sending' = IF p.type = "PUBREC" THEN Released(sending, p.id)
                  ELSE ListRemove(sending, Awaiting(p.id, p.type))
    /\ toHub' = IF p.type = "PUBREC" THEN Append(toHub, Packet("PUBREL", p.id)) ELSE toHub
    /\ UNCHANGED <<published, held>>

BrokerReceives ==
    /\ link = "up" /\ toBroker # <<>>
    /\ toBroker' = Tail(toBroker)
    /\ LET p == Head(toBroker) IN
       \/ p.type = "PUBLISH" /\ BrokerPublishes(p.id)
       \/ p.type = "PUBREL" /\ BrokerReleases(p.id)
       \/ p.type \in {"PUBACK", "PUBREC", "PUBCOMP"} /\ BrokerAcknowledged(p)
    /\ UNCHANGED <<link, next, publications, publisher, session, responses, pendingWrite, partial, callbacks,
                   arrived, nextIn, setting>>

DeliveryInit ==
    /\ scenario \in Scenarios
    /\ link = "up" /\ next = 1 /\ publications = <<>> /\ publisher = Idle
    /\ outbound = <<>> /\ inbound = {} /\ responses = <<>> /\ pendingWrite = 0 /\ partial = <<>>
    /\ succeeded = [m \in Out |-> 0] /\ failed = [m \in Out |-> 0] /\ arrived = [m \in In |-> 0]
    /\ toBroker = <<>> /\ toHub = <<>>
    /\ published = [m \in Out |-> 0] /\ held = {} /\ nextIn = 1 /\ sending = <<>>
    /\ breaks = 0 /\ retries = 0 /\ skipped = {}

PublishThread == ProcessPublish \/ PublishFlags \/ PublishResponds
DeliveryThread == ContinueWrite \/ Receive \/ Retry \/ Close \/ Reconnect

DeliveryNext == Send \/ PublishThread \/ DeliveryThread \/ LinkBreaks \/ BrokerSends \/ BrokerReceives

DeliverySpec == DeliveryInit /\ [][DeliveryNext]_deliveryVars

\* The threads of the client run, a message that stays unacknowledged comes due for a
\* retry, a lost connection is noticed and made anew (the subject of MqttConnection), and
\* the broker answers.  Of the writes that the socket interrupts, not every one is cut off
\* by a packet that comes before the socket takes the rest.
DeliveryFairSpec ==
    /\ DeliverySpec
    /\ WF_deliveryVars(PublishThread) /\ WF_deliveryVars(ContinueWrite) /\ WF_deliveryVars(Receive)
    /\ SF_deliveryVars(link = "up" /\ ContinueWrite)
    /\ WF_deliveryVars(Retry) /\ WF_deliveryVars(Close) /\ WF_deliveryVars(Reconnect)
    /\ WF_deliveryVars(BrokerSends) /\ WF_deliveryVars(BrokerReceives)

-------------------------------------------------------------------------------

Steps == {"PUBACK", "PUBREC", "PUBCOMP"}

\* The variables have the types of what they stand for.
DeliveryTypeOK ==
    /\ link \in {"up", "broken", "down"}
    /\ next \in 1 .. Len(OutQos) + 1 /\ nextIn \in 1 .. Len(InQos) + 1
    /\ publications \in Seq(Out) /\ responses \in Seq(Out) /\ pendingWrite \in Out \cup {0}
    /\ publisher \in [at : {"idle", "written", "flagged", "disconnect"}, id : Out \cup {0}]
    /\ outbound \in Seq([id : Out, next : Steps]) /\ sending \in Seq([id : In, next : Steps])
    /\ inbound \subseteq In /\ held \subseteq Out
    /\ partial = <<>> \/ link # "down"
    /\ breaks \in 0 .. MaxBreaks /\ retries \in 0 .. MaxRetries /\ skipped \subseteq Out

Underway(id) == publisher.id = id \/ \E i \in 1 .. Len(publications) : publications[i] = id
Unfinished(id) == Underway(id) \/ id \in Ids(outbound)

\* QoS 2 "Exactly once", the hub as the sender: whatever is repeated after a lost
\* connection or a timeout, the broker passes the message on at most once; and QoS 0 is
\* never repeated.
PublishedAtMostOnce == \A m \in Out : OutQos[m] # 1 => published[m] <= 1

\* A message accepted with QoS 1 or 2 is on its way or has reached the broker, also one
\* whose failure callback was called.
PublishedAtLeastOnce == \A m \in Out : OutQos[m] > 0 /\ m < next /\ ~ Unfinished(m) => published[m] >= 1

\* What MQTTProtocol_startPublish, MQTTProtocol_retries and the handlers of the
\* acknowledgements promise of a publication, by its QoS.
PublishedAsPromised == PublishedAtMostOnce /\ PublishedAtLeastOnce

\* Messages of QoS 1 and 2 first reach the broker in the order they were sent in: what
\* MQTTAsync_completeConnection repeats after a reconnection goes before what is new.  Only
\* a message that such a repetition did not come to, the socket having taken a part of an
\* earlier one, is ever overtaken.
OrderKept ==
    \A i, j \in Out :
        i < j /\ OutQos[i] > 0 /\ OutQos[j] > 0 /\ published[j] >= 1 => published[i] >= 1 \/ i \in skipped

\* The success callback of a QoS 1 or 2 message tells the truth.
SuccessIsPublished == \A m \in Out : OutQos[m] > 0 /\ succeeded[m] > 0 => published[m] >= 1

\* A message has one fate: at most one of the two callbacks is called, and once.
ToldAtMostOnce == \A m \in Out : succeeded[m] + failed[m] <= 1

\* "A pointer to a callback function to be called if the API call successfully
\* completes": a message the broker has acknowledged to the end has been told of.
CompletedIsTold ==
    \A m \in Out : OutQos[m] > 0 /\ m < next /\ ~ Unfinished(m) => succeeded[m] + failed[m] >= 1

\* The callbacks of MQTTAsync_send: success is told only of what the broker has; where the
\* socket takes whole packets, at most one of the two is called, and once, and a message
\* acknowledged to the end has had its.
CallbacksAreTrue == SuccessIsPublished /\ (MayInterrupt \/ (ToldAtMostOnce /\ CompletedIsTold))

\* QoS 2, the hub as the receiver: message_arrived is called at most once.
ArrivesAtMostOnce == \A m \in In : InQos[m] # 1 => arrived[m] <= 1

\* A message the broker regards as delivered has been given to the application.
DeliveredHasArrived == \A m \in In : InQos[m] > 0 /\ m < nextIn /\ m \notin Ids(sending) => arrived[m] >= 1

\* What MQTTProtocol_handlePublishes and MQTTProtocol_handlePubrels promise of a message
\* of the broker, by its QoS.
ArrivesAsPromised == ArrivesAtMostOnce /\ DeliveredHasArrived

\* Every message accepted with QoS 1 or 2 reaches the broker.
Published(m) == m \in Out /\ OutQos[m] > 0 /\ m < next => published[m] >= 1

\* "The message is always delivered exactly once": every message the broker holds for
\* the hub with QoS 1 or 2 arrives.
Arrived(m) == m \in In /\ InQos[m] > 0 => arrived[m] >= 1
===============================================================================
