------------------------------- MODULE MCPaho -------------------------------
(* Parts of the Paho client that share no state, in one run: a behaviour   *)
(* is one of one of them, while the others stay in their initial states.   *)
(* All but SocketRead have the instance of the configuration.              *)
EXTENDS MqttConnection, MqttDelivery, MqttKeepalive, SocketWrite

CONSTANTS
    Parts,              \* the parts that run
    Uninit              \* of SocketRead

VARIABLES
    part,               \* the part that runs
    wire, avail, eof, rsent, got, rconn, def_queue, queue, rpc, header, value, multiplier,
    len                 \* SocketRead

Scenario(outQos, inQos, mayInterrupt) ==
    [outQos |-> outQos, inQos |-> inQos, dupPubrel |-> TRUE, mayInterrupt |-> mayInterrupt]

(* Two messages each way, and a socket that may take a part of one.        *)
BothWays == Scenario(<<2, 1>>, <<2, 2>>, TRUE)

(* Four messages of all three QoS, to a socket that takes all of them;     *)
(* both ways; messages whose partial writes MQTTAsync_writeComplete        *)
(* completes, those of QoS 0, with one that waits for acknowledgements     *)
(* between them; and three that are repeated, of which the third may come  *)
(* before the second when the repetition of the first is interrupted.      *)
AllScenarios ==
    {Scenario(<<2, 1, 0, 2>>, <<>>, FALSE), BothWays,
     Scenario(<<0, 2, 0>>, <<>>, TRUE), Scenario(<<1, 2, 1>>, <<>>, TRUE)}

OneScenario == {BothWays}

Read == INSTANCE SocketRead WITH
    Base <- 2, Lengths <- {0, 1, 2, 8}, MaxPackets <- 2, MaxConnections <- 2,
    sent <- rsent, conn <- rconn, pc <- rpc

Buffer(n, kind) == [n |-> n, kind |-> kind]

(* An acknowledgement, a publication of QoS 0 and one of QoS 1 with an     *)
(* empty payload.                                                          *)
WrittenPackets ==
    {<<Buffer(2, "own"), Buffer(1, "own")>>,
     <<Buffer(1, "own"), Buffer(1, "own"), Buffer(2, "caller"), Buffer(2, "caller")>>,
     <<Buffer(1, "own"), Buffer(1, "own"), Buffer(2, "kept"), Buffer(1, "own"), Buffer(0, "kept")>>}

ASSUME Read!ReadAssumption

readVars == <<wire, avail, eof, rsent, got, rconn, def_queue, queue, rpc, header, value,
              multiplier, len>>

PahoInit ==
    /\ part \in Parts
    /\ Init /\ (part # "connection" => ~ granted)
    /\ DeliveryInit /\ (part # "delivery" => scenario = BothWays)
    /\ AliveInit /\ (part # "keepalive" => last = 0)
    /\ Read!Init /\ WriteInit

ConnectionStep ==
    /\ part = "connection" /\ Next
    /\ UNCHANGED <<deliveryVars, aliveVars, readVars, writeVars>>

DeliveryStep ==
    /\ part = "delivery" /\ DeliveryNext
    /\ UNCHANGED <<vars, aliveVars, readVars, writeVars>>

KeepaliveStep ==
    /\ part = "keepalive" /\ AliveNext
    /\ UNCHANGED <<vars, deliveryVars, readVars, writeVars>>

SocketStep ==
    /\ \/ part = "read" /\ Read!Next /\ UNCHANGED writeVars
       \/ part = "write" /\ WriteNext /\ UNCHANGED readVars
    /\ UNCHANGED <<vars, deliveryVars, aliveVars>>

PahoNext ==
    /\ ConnectionStep \/ DeliveryStep \/ KeepaliveStep \/ SocketStep
    /\ UNCHANGED part

PahoSpec == PahoInit /\ [][PahoNext]_<<part, vars, deliveryVars, aliveVars, readVars, writeVars>>

(* FairSpec of each module, for the part that runs.                        *)
ConnectionFair(A) == part = "connection" /\ A

DeliveryFair(A) == part = "delivery" /\ A

KeepaliveFair(A) == part = "keepalive" /\ A

WriteFair(A) == part = "write" /\ A

PahoFairSpec ==
    /\ PahoSpec
    /\ WF_vars(ConnectionFair(SendThread)) /\ WF_vars(ConnectionFair(ReceiveThread))
    /\ WF_vars(ConnectionFair(Job)) /\ WF_vars(ConnectionFair(BrokerAnswers))
    /\ WF_vars(ConnectionFair(Stabilises))
    /\ SF_vars(ConnectionFair(TcpCompletes /\ connect.version # 0))
    /\ WF_deliveryVars(DeliveryFair(PublishThread))
    /\ WF_deliveryVars(DeliveryFair(ContinueWrite))
    /\ SF_deliveryVars(DeliveryFair(link = "up" /\ ContinueWrite))
    /\ WF_deliveryVars(DeliveryFair(Receive))
    /\ WF_deliveryVars(DeliveryFair(Retry)) /\ WF_deliveryVars(DeliveryFair(Close))
    /\ WF_deliveryVars(DeliveryFair(Reconnect))
    /\ WF_deliveryVars(DeliveryFair(BrokerSends))
    /\ WF_deliveryVars(DeliveryFair(BrokerReceives))
    /\ WF_aliveVars(KeepaliveFair(Tick))
    /\ WF_aliveVars(KeepaliveFair(due > 0 /\ Cycle))
    /\ WF_aliveVars(KeepaliveFair(WriteCompletes))
    /\ WF_writeVars(WriteFair(MQTTProtocol_storeQoS0))
    /\ WF_writeVars(WriteFair(Socket_continueWrite))
    /\ WF_writeVars(WriteFair(PeerReads))

-----------------------------------------------------------------------------
(* Properties of the instances.                                            *)

(* Every message accepted with QoS 1 or 2 reaches the broker in the end.   *)
AllPublished == \A m \in 1 .. Len(BothWays.outQos) : []<>(part = "delivery" => Published(m))

(* Every QoS 1 or 2 message the broker has for the hub arrives, with a     *)
(* broker that marks a repeated PUBREL.                                    *)
AllArrive == \A m \in 1 .. Len(BothWays.inQos) : []<>(part = "delivery" => Arrived(m))

(* Once the network behaves, the hub ends up connected and subscribed.     *)
ConnectsForGood == <>[](part = "connection" => Usable)

(* The packets MQTTPacket_Factory returns are those sent, however they     *)
(* arrive and however often a read starts over: no read waits for a byte   *)
(* that belongs to no packet, and none takes a legal one for a bad one.    *)
ReadsWhatWasSent ==
    part = "read" => Read!ReadsWhatWasSent /\ Read!NothingKeptBack /\ Read!NoFalseError

=============================================================================
