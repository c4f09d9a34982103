------------------------------ MODULE SocketRead ------------------------------
(***************************************************************************)
(* How the Paho client reads packets from a non-blocking socket            *)
(* (MQTTPacket_Factory, Socket_getch, Socket_getdata, SocketBuffer.c).  A  *)
(* packet may arrive in any pieces: a read that runs out of bytes leaves   *)
(* what it has in a socket_queue, and the next read starts over from it.   *)
(* There is one socket, and each connection uses it anew.                  *)
(***************************************************************************)
EXTENDS Integers, Sequences, FiniteSetsExt

CONSTANTS
    Base,           \* how many values a length byte has, 128 in MQTT
    Lengths,        \* the lengths of packets after the fixed header
    MaxPackets,     \* packets the broker sends on a connection
    MaxConnections,
    None, Uninit

ReadAssumption == Base \in Nat \ {0, 1} /\ Lengths \subseteq 0 .. Base ^ 4 - 1

VARIABLES
    wire, avail,    \* bytes sent and not yet read, and how many have arrived
    eof,            \* the broker has closed the connection: nothing more will arrive
    sent, got,      \* the packets the broker sent and the client read, on this connection
    conn,
    def_queue, queue,       \* the default socket_queue and that of the socket, or None
    pc, header, value, multiplier, len      \* MQTTPacket_Factory and MQTTPacket_decode

net == <<wire, avail, eof, sent, conn>>
locals == <<header, value, multiplier, len>>
vars == <<net, got, def_queue, queue, pc, locals>>

\* Bytes: a header names its packet, a length byte has a digit and the top bit.
LengthByte(digit, more) == <<"length", digit, more>>

\* The remaining length, least digit first, each digit telling if another one follows.
MQTTPacket_encode(length) ==
    LET enc[n \in 0 .. length] ==
            IF n < Base THEN <<LengthByte(n, FALSE)>>
            ELSE <<LengthByte(n % Base, TRUE)>> \o enc[n \div Base]
    IN  enc[length]

Packet(id, n) == [header |-> <<"header", id>>, data |-> [i \in 1 .. n |-> <<"data", id, i>>]]
Bytes(p) == <<p.header>> \o MQTTPacket_encode(Len(p.data)) \o p.data

(***************************************************************************)
(* The buffers.                                                            *)
(***************************************************************************)

\* SocketBuffer_newDefQ leaves headerlen and the header as malloc returns them.
SocketBuffer_newDefQ ==
    [bound |-> FALSE, index |-> 0, headerlen |-> Uninit, fixed_header |-> [i \in 0 .. 4 |-> Uninit], buf |-> <<>>]

Reset(q) == [q EXCEPT !.bound = FALSE, !.index = 0, !.headerlen = 0, !.buf = <<>>]

\* Keeps the data read; the header is to be read again from its first byte.
SocketBuffer_interrupted(data) ==
    /\ queue' = [(IF queue = None THEN def_queue ELSE queue) EXCEPT !.bound = TRUE, !.index = 0, !.buf = data]
    /\ def_queue' = IF queue = None THEN SocketBuffer_newDefQ ELSE def_queue

\* The queue of the socket, if any, becomes the default one.
SocketBuffer_complete ==
    /\ def_queue' = Reset(IF queue = None THEN def_queue ELSE queue)
    /\ queue' = None

Put(q, c) == IF q.index > 4 THEN q
             ELSE [q EXCEPT !.fixed_header[q.index] = c, !.index = q.index + 1, !.headerlen = q.index + 1]

SocketBuffer_queueChar(c) ==
    IF queue # None THEN queue' = Put(queue, c) /\ UNCHANGED def_queue
    ELSE /\ def_queue' = Put(IF def_queue.bound THEN def_queue ELSE [def_queue EXCEPT !.bound = TRUE, !.index = 0], c)
         /\ UNCHANGED queue

\* Mutant: the queue of a connection that is closed stays.
SocketBuffer_cleanupNot == UNCHANGED <<queue, def_queue>>

SocketBuffer_cleanup ==
    /\ queue' = None
    /\ def_queue' = IF def_queue.bound THEN Reset(def_queue) ELSE def_queue

\* What a field holds that may not be initialised.
HeaderLens(q) == IF q.headerlen = Uninit THEN 0 .. 5 ELSE {q.headerlen}

(***************************************************************************)
(* Reading.                                                                *)
(***************************************************************************)

Stop(at) == pc' = at /\ UNCHANGED <<got, locals>>

UseHeader(c) ==
    /\ header' = c /\ value' = 0 /\ multiplier' = 1 /\ len' = 0
    /\ pc' = "length"
    /\ UNCHANGED got

\* A byte that is not a length byte stands for any, as it may be uninitialised.
UseLength(c) ==
    \E b \in IF c # Uninit /\ c[1] = "length" THEN {c} ELSE {LengthByte(0, FALSE), LengthByte(1, TRUE)} :
        /\ value' = value + b[2] * multiplier
        /\ multiplier' = multiplier * Base
        /\ pc' = IF b[3] THEN "length" ELSE "data"
        /\ len' = len + 1
        /\ UNCHANGED <<got, header>>

\* What the caller of Socket_getch does with the byte.
UseByte(c) ==
    \/ pc = "header" /\ UseHeader(c)
    \/ pc = "length" /\ UseLength(c)

\* Socket_getch for one of the bytes of the fixed header.
Socket_getch ==
    \E headerlen \in IF queue = None THEN {0} ELSE HeaderLens(queue) :
        IF queue # None /\ queue.index < headerlen
        THEN /\ UseByte(queue.fixed_header[queue.index])
             /\ queue' = [queue EXCEPT !.index = @ + 1]
             /\ UNCHANGED <<net, def_queue>>
        ELSE IF queue # None /\ queue.index > 4
        THEN Stop("error") /\ UNCHANGED <<net, queue, def_queue>>
        ELSE IF wire = <<>> /\ eof
        THEN Stop("closed") /\ UNCHANGED <<net, queue, def_queue>>
        ELSE IF avail = 0
        THEN Stop("idle") /\ SocketBuffer_interrupted(<<>>) /\ UNCHANGED net
        ELSE /\ UseByte(Head(wire))
             /\ wire' = Tail(wire) /\ avail' = avail - 1
             /\ SocketBuffer_queueChar(Head(wire))
             /\ UNCHANGED <<eof, sent, conn>>

ReadHeader == pc = "header" /\ Socket_getch

\* A turn of the loop of MQTTPacket_decode, which reads 4 bytes at most.
MQTTPacket_decode ==
    /\ pc = "length"
    /\ IF len + 1 > 4 THEN Stop("error") /\ UNCHANGED <<net, queue, def_queue>>
       ELSE Socket_getch

DataComplete(data) == Len(data) = value

\* Socket_getdata, and the packet made of it when it is complete.
Socket_getdata ==
    LET had == IF queue = None THEN <<>> ELSE queue.buf
        n == Min({avail, value - Len(had)})
        data == had \o SubSeq(wire, 1, n)
    IN  /\ pc = "data"
        /\ IF value > 0 /\ wire = <<>> /\ eof
           THEN Stop("closed") /\ UNCHANGED <<net, queue, def_queue>>
           ELSE /\ pc' = "idle"
                /\ wire' = SubSeq(wire, n + 1, Len(wire)) /\ avail' = avail - n
                /\ IF DataComplete(data)
                   THEN SocketBuffer_complete /\ got' = Append(got, [header |-> header, data |-> data])
                   ELSE SocketBuffer_interrupted(data) /\ UNCHANGED got
                /\ UNCHANGED <<eof, sent, conn, locals>>

\* Socket_getReadySocket returns the socket: there are bytes to read, or it was closed.
Ready ==
    /\ pc = "idle" /\ (avail > 0 \/ eof)
    /\ pc' = "header"
    /\ UNCHANGED <<net, got, def_queue, queue, locals>>

\* The connection is lost or closed between two reads, or because of an error in one,
\* and a new one is made.
Socket_close ==
    /\ pc \in {"idle", "closed", "error"} /\ conn < MaxConnections
    /\ SocketBuffer_cleanup
    /\ conn' = conn + 1
    /\ wire' = <<>> /\ avail' = 0 /\ eof' = FALSE /\ sent' = <<>> /\ got' = <<>>
    /\ pc' = "idle"
    /\ UNCHANGED locals

(***************************************************************************)
(* The network.                                                            *)
(***************************************************************************)

BrokerSends(n) ==
    LET p == Packet(<<conn, Len(sent) + 1>>, n) IN
    /\ Len(sent) < MaxPackets /\ ~eof
    /\ sent' = Append(sent, p) /\ wire' = wire \o Bytes(p)
    /\ UNCHANGED <<avail, eof, got, conn, def_queue, queue, pc, locals>>

Arrive ==
    /\ avail < Len(wire) /\ avail' = avail + 1
    /\ UNCHANGED <<wire, eof, sent, got, conn, def_queue, queue, pc, locals>>

\* The broker closes or dies: what has not arrived is lost.
BrokerCloses ==
    /\ ~eof /\ eof' = TRUE
    /\ wire' = SubSeq(wire, 1, avail)
    /\ UNCHANGED <<avail, sent, got, conn, def_queue, queue, pc, locals>>

\* SocketBuffer_initialize.
Init ==
    /\ wire = <<>> /\ avail = 0 /\ eof = FALSE /\ sent = <<>> /\ got = <<>> /\ conn = 1
    /\ def_queue = SocketBuffer_newDefQ /\ queue = None
    /\ pc = "idle" /\ header = None /\ value = 0 /\ multiplier = 1 /\ len = 0

Next ==
    \/ Ready \/ ReadHeader \/ MQTTPacket_decode \/ Socket_getdata \/ Socket_close
    \/ Arrive \/ BrokerCloses \/ \E n \in Lengths : BrokerSends(n)

Spec == Init /\ [][Next]_vars

-------------------------------------------------------------------------------

\* In whatever pieces they arrive and however often a read is interrupted and starts
\* over, the packets returned are those sent, whole and in order, without a byte kept
\* from a closed connection and without reading memory that was never written.
ReadsWhatWasSent == Len(got) <= Len(sent) /\ got = SubSeq(sent, 1, Len(got))

\* Once every byte has been read every packet has been returned: no read waits for a
\* byte that belongs to no packet, which select would never announce.
NothingKeptBack == pc = "idle" /\ wire = <<>> /\ ~eof => got = sent

\* A legal packet of any length is never taken for a bad one, also when its header of
\* up to 5 bytes fills the buffer and is read again.
NoFalseError == pc # "error"
===============================================================================
