----------------------------- MODULE SocketWrite ------------------------------
(***************************************************************************)
(* How the Paho client writes packets to a non-blocking socket             *)
(* (Socket_putdatas, Socket_continueWrite, SocketBuffer_pendingWrite): a   *)
(* packet is several buffers; what the socket does not take is remembered  *)
(* as a pending write, which the receive thread continues.  The send       *)
(* thread then replaces the caller's buffers of a QoS 0 publication by     *)
(* copies, which are freed when a later write ends or the socket is        *)
(* closed, if no write is pending then.                                    *)
(***************************************************************************)
EXTENDS Integers, Sequences, FiniteSets, Functions

CONSTANTS
    Packets,        \* packets as sequences of buffers [n |-> length, kind |-> Kind]
    Room,           \* the bytes the socket can hold
    MaxPackets, MaxConnections,
    None, Garbage

\* "own" buffers are freed with the write, "caller" ones are the caller's and "kept"
\* ones belong to a stored message of QoS 1 or 2.
Kind == {"own", "caller", "kept"}

ASSUME WriteAssumption ==
    /\ Packets \subseteq Seq([n : Nat, kind : Kind]) /\ Room \in Nat
    /\ MaxPackets \in Nat /\ MaxConnections \in Nat

\* None stands for no packet and no pending write: no record of one is equal to it.
NoneAssumption ==
    /\ \A no, bufs : None # [no |-> no, bufs |-> bufs]
    /\ \A p, mem, bytes : None # [packet |-> p, mem |-> mem, bytes |-> bytes]

VARIABLES
    out, room,      \* the bytes the socket took, and how many more it can take
    dead,           \* writing fails
    accepted,       \* the packets whose writing did not fail at once
    pw,             \* the pending write: packet, memory of its buffers, bytes written
    stored,         \* packets with a stored copy of the caller's buffers
    pc, sent,       \* the send thread, and how many packets it has sent
    heap, bad,      \* allocated own, caller's and copied memory; whether some was freed that was not allocated
    conn

socket == <<out, room, dead, accepted, conn>>
memory == <<heap, bad>>
writeVars == <<socket, pw, stored, pc, sent, memory>>

(***************************************************************************)
(* Buffers.  A packet in flight is [no, bufs]; the memory of its buffer i  *)
(* is <<"buf", no, i>>, that of the copy <<"copy", no, i>>.                *)
(***************************************************************************)

Of(p, kind) == {i \in 1 .. Len(p.bufs) : p.bufs[i].kind = kind}
Mem(tag, p, S) == {<<tag, p.no, i>> : i \in S}
Free(S) == heap' = heap \ S /\ bad' = (bad \/ ~(S \subseteq heap))

\* The bytes of buffer i of p from the offset on, as they are found at mem.
BufBytes(p, i, mem, offset) ==
    [j \in 1 .. p.bufs[i].n - offset |-> IF mem \in heap \/ p.bufs[i].kind = "kept" THEN <<p.no, i, offset + j>> ELSE Garbage]

BufLens(p) == [i \in 1 .. Len(p.bufs) |-> p.bufs[i].n]
Total(p) == SumFunction(BufLens(p))
Before(p, i) == SumFunctionOnSet(BufLens(p), 1 .. i - 1)

\* The sequences of s in a row.
Joined(s) ==
    LET upTo[i \in 0 .. Len(s)] == IF i = 0 THEN <<>> ELSE upTo[i - 1] \o s[i]
    IN  upTo[Len(s)]

PacketBytes(p) == Joined([i \in 1 .. Len(p.bufs) |-> [j \in 1 .. p.bufs[i].n |-> <<p.no, i, j>>]])

\* Socket_writev takes as much as there is room for.
Taken(bytes) == SubSeq(bytes, 1, IF Len(bytes) < room THEN Len(bytes) ELSE room)

(***************************************************************************)
(* The send thread.                                                        *)
(***************************************************************************)

\* MQTTPacket_send and MQTTPacket_sends free the buffers unless the write is pending.
Socket_putdatas(bufs) ==
    LET p == [no |-> sent + 1, bufs |-> bufs]
        bytes == Taken(PacketBytes(p))
        error == pw # None \/ dead
    IN  /\ pc = None /\ sent < MaxPackets
        /\ sent' = sent + 1
        /\ IF error \/ Len(bytes) = Total(p)
           THEN UNCHANGED <<pw, pc, memory>>
           ELSE /\ pw' = [packet |-> p, mem |-> [i \in 1 .. Len(bufs) |-> <<"buf", p.no, i>>], bytes |-> Len(bytes)]
                /\ pc' = p
                /\ heap' = heap \cup Mem("buf", p, Of(p, "own") \cup Of(p, "caller")) /\ UNCHANGED bad
        /\ IF error THEN UNCHANGED socket
           ELSE /\ out' = out \o bytes /\ room' = room - Len(bytes)
                /\ accepted' = Append(accepted, p)
                /\ UNCHANGED <<dead, conn>>
        /\ UNCHANGED stored

\* The pending write, if it is still there, uses the copies.
SocketBuffer_updateWrite(p) ==
    pw' = IF pw = None THEN pw
          ELSE [pw EXCEPT !.mem = [i \in DOMAIN @ |-> IF i \in Of(p, "caller") THEN <<"copy", p.no, i>> ELSE @[i]]]

\* MQTTProtocol_storeQoS0, for a packet with buffers of the caller, which may then go.
MQTTProtocol_storeQoS0 ==
    LET caller == Of(pc, "caller") IN
    /\ pc # None /\ pc' = None
    /\ stored' = IF caller = {} THEN stored ELSE stored \cup {pc}
    /\ heap' = (heap \ Mem("buf", pc, caller)) \cup Mem("copy", pc, caller)
    /\ IF caller = {} THEN UNCHANGED pw ELSE SocketBuffer_updateWrite(pc)
    /\ UNCHANGED <<socket, sent, bad>>

(***************************************************************************)
(* The receive thread.                                                     *)
(***************************************************************************)

Copies(S) == UNION {Mem("copy", p, Of(p, "caller")) : p \in S}

\* MQTTProtocol_checkPendingWrites: the packets whose copies it frees and forgets.  Those of
\* an earlier connection count with the present one, which has the same descriptor.
MQTTProtocol_checkPendingWrites(pending) == IF pending THEN {} ELSE stored

\* Mutant: a buffer that begins where the last write ended is left out.
RemainingLate ==
    LET p == pw.packet
        cut == {i \in 1 .. Len(p.bufs) : Before(p, i) < pw.bytes /\ pw.bytes < Before(p, i) + p.bufs[i].n}
        whole(i) == IF pw.bytes < Before(p, i) THEN BufBytes(p, i, pw.mem[i], 0) ELSE <<>>
    IN  IF cut = {} THEN Joined([i \in 1 .. Len(p.bufs) |-> whole(i)])
        ELSE LET i == CHOOSE i \in cut : TRUE IN BufBytes(p, i, pw.mem[i], pw.bytes - Before(p, i))

\* Mutant: the rest of a buffer is followed by the buffers after it, from their start,
\* but the part already written is not left out.
RemainingWhole ==
    LET p == pw.packet
        part(i) == IF pw.bytes >= Before(p, i) + p.bufs[i].n THEN <<>> ELSE BufBytes(p, i, pw.mem[i], 0)
    IN  Joined([i \in 1 .. Len(p.bufs) |-> part(i)])

\* The iovecs of Socket_continueWrite: whole buffers if all bytes before them are written,
\* or else only the rest of the one that was cut.
Remaining ==
    LET p == pw.packet
        cut == {i \in 1 .. Len(p.bufs) : Before(p, i) < pw.bytes /\ pw.bytes < Before(p, i) + p.bufs[i].n}
        whole(i) == IF pw.bytes <= Before(p, i) THEN BufBytes(p, i, pw.mem[i], 0) ELSE <<>>
    IN  IF cut = {} THEN Joined([i \in 1 .. Len(p.bufs) |-> whole(i)])
        ELSE LET i == CHOOSE i \in cut : TRUE IN BufBytes(p, i, pw.mem[i], pw.bytes - Before(p, i))

\* Mutant: the buffers are freed by every turn.
FreesEver(done) == TRUE

\* The buffers with frees set go when the write is complete or has failed.
Frees(done) == done

\* Socket_continueWrites for the socket, when select finds it writable, with the callback
\* MQTTAsync_writeComplete and its check of the stored copies.
Socket_continueWrite ==
    LET bytes == Taken(Remaining)
        done == dead \/ pw.bytes + Len(bytes) = Total(pw.packet)
        own == Mem("buf", pw.packet, Of(pw.packet, "own"))
        checked == MQTTProtocol_checkPendingWrites(~done)
    IN  /\ pw # None /\ (room > 0 \/ dead)
        /\ IF dead THEN UNCHANGED <<out, room>>
           ELSE out' = out \o bytes /\ room' = room - Len(bytes)
        /\ pw' = IF done THEN None ELSE [pw EXCEPT !.bytes = @ + Len(bytes)]
        /\ stored' = stored \ checked
        /\ Free((IF Frees(done) THEN own ELSE {}) \cup Copies(checked))
        /\ UNCHANGED <<dead, accepted, conn, pc, sent>>

Socket_abortWrite == IF pw = None THEN {} ELSE Mem("buf", pw.packet, Of(pw.packet, "own"))

\* MQTTAsync_closeOnly, between two commands of the send thread, and a new connection: the
\* check comes before Socket_close, so the copies of the write that is aborted stay.
Socket_close ==
    LET checked == MQTTProtocol_checkPendingWrites(pw # None) IN
    /\ pc = None /\ conn < MaxConnections
    /\ Free(Socket_abortWrite \cup Copies(checked)) /\ stored' = stored \ checked
    /\ pw' = None
    /\ out' = <<>> /\ room' = Room /\ dead' = FALSE /\ accepted' = <<>> /\ conn' = conn + 1
    /\ UNCHANGED <<pc, sent>>

(***************************************************************************)
(* The network.                                                            *)
(***************************************************************************)

PeerReads == room < Room /\ ~dead /\ room' = room + 1 /\ UNCHANGED <<out, dead, accepted, conn, pw, stored, pc, sent, memory>>

SocketBreaks == ~dead /\ dead' = TRUE /\ UNCHANGED <<out, room, accepted, conn, pw, stored, pc, sent, memory>>

WriteInit ==
    /\ out = <<>> /\ room = Room /\ dead = FALSE /\ accepted = <<>> /\ conn = 1
    /\ pw = None /\ stored = {} /\ pc = None /\ sent = 0
    /\ heap = {} /\ bad = FALSE

WriteNext ==
    \/ \E p \in Packets : Socket_putdatas(p)
    \/ MQTTProtocol_storeQoS0 \/ Socket_continueWrite \/ Socket_close
    \/ PeerReads \/ SocketBreaks

WriteSpec == WriteInit /\ [][WriteNext]_writeVars

\* Both threads go on; the peer reads as long as the connection lives.
WriteFairSpec ==
    /\ WriteSpec
    /\ WF_writeVars(MQTTProtocol_storeQoS0) /\ WF_writeVars(Socket_continueWrite)
    /\ WF_writeVars(PeerReads)

-------------------------------------------------------------------------------

\* Whatever the socket takes at a time, across buffers and empty buffers and with the
\* caller's memory exchanged for copies on the way, it gets the packets byte by byte,
\* and all of them when no write is pending.
StreamIsPackets ==
    LET all == Joined([i \in 1 .. Len(accepted) |-> PacketBytes(accepted[i])])
    IN  /\ Len(out) <= Len(all) /\ out = SubSeq(all, 1, Len(out))
        /\ pw = None /\ ~dead => out = all

\* No pending write refers to memory that was freed, and none is freed twice: by the
\* sender, the completed, failed or aborted write and the check of the copies together.
PendingMemoryLives == ~bad /\ (pw # None => \A i \in DOMAIN pw.mem \ Of(pw.packet, "kept") : pw.mem[i] \in heap)

\* When nothing is pending, only stored copies are left allocated.
NothingLeaks == pc = None /\ pw = None => heap = Copies(stored)

\* The memory of Socket_putdatas, MQTTProtocol_storeQoS0 and Socket_continueWrite: what a
\* pending write refers to is allocated, nothing is freed twice, and what is left behind is
\* what the next MQTTProtocol_checkPendingWrites frees.
WriteMemorySound == PendingMemoryLives /\ NothingLeaks

\* A pending write ends, whatever part of which buffer Socket_continueWrite finds left, and
\* all its memory goes but the copies, which may have to wait for the next check.
PendingEnds == []<>(pw = None /\ heap = Copies(stored))
===============================================================================
