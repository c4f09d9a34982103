----------------------- MODULE MqttDeliveryInvariant -----------------------
(***************************************************************************)
(* The inductive invariant of MqttDelivery, and that the steps of the send *)
(* thread, of the network and of a broker that sends keep it, as do        *)
(* retries and reconnections.                                              *)
(***************************************************************************)
EXTENDS MqttDelivery, SequenceTheorems, TLAPS

-----------------------------------------------------------------------------
(* What the channels and the lists hold of a message.                      *)

Packets == [type : {"PUBLISH", "PUBREL"} \cup Steps, id : Nat, dup : BOOLEAN]

Has(s, type, m) == \E i \in 1 .. Len(s) : s[i].type = type /\ s[i].id = m

(* A release of m never comes before a publication of m.                   *)
PublishFirst(s, m) ==
    \A i, j \in 1 .. Len(s) :
        s[i].type = "PUBREL" /\ s[i].id = m /\ s[j].type = "PUBLISH" /\ s[j].id = m => j < i

(* At most one publication of m.                                           *)
PublishOnce(s, m) ==
    \A i, j \in 1 .. Len(s) :
        s[i].type = "PUBLISH" /\ s[i].id = m /\ s[j].type = "PUBLISH" /\ s[j].id = m => i = j

(* A list of unfinished messages, oldest first.                            *)
Entries == [id : Nat, next : Steps]
InOrder(s) == \A i, j \in 1 .. Len(s) : i < j => s[i].id < s[j].id

(* The next message the send thread takes; those from it on are unsent.    *)
Turn == next - Len(publications)

(* The socket has taken a part of a publication of m, or of a release.     *)
CutOf(type, m) == partial # <<>> /\ partial[1].type = type /\ partial[1].id = m
Cut(m) == CutOf("PUBLISH", m)
CutRelease(m) == CutOf("PUBREL", m)

-----------------------------------------------------------------------------
(* The inductive invariant.                                                *)

DeliveryTypes ==
    /\ scenario \in Scenarios
    /\ link \in {"up", "broken", "down"}
    /\ next \in 1 .. Len(OutQos) + 1 /\ nextIn \in 1 .. Len(InQos) + 1
    /\ publications \in Seq(Nat)
    /\ outbound \in Seq(Entries) /\ sending \in Seq(Entries)
    /\ toBroker \in Seq(Packets) /\ toHub \in Seq(Packets)
    /\ published \in [Out -> Nat] /\ succeeded \in [Out -> Nat] /\ failed \in [Out -> Nat]
    /\ arrived \in [In -> Nat]
    /\ \/ partial = <<>>
       \/ \E m \in Out : partial = <<Packet("PUBLISH", m)>>
       \/ \E m \in Out : partial = <<Packet("PUBREL", m)>> /\ OutQos[m] = 2
    /\ pendingWrite # 0 => pendingWrite \in Out /\ OutQos[pendingWrite] = 0
    /\ publisher \in {Idle, Disconnecting} \/ publisher \in [at : {"written", "flagged"}, id : Out]
    /\ Turn >= 1 /\ \A k \in 1 .. Len(publications) : publications[k] = Turn - 1 + k
    /\ link # "up" => toBroker = <<>> /\ toHub = <<>>
    /\ link = "down" => partial = <<>>
    /\ ~MayInterrupt => partial = <<>> /\ publisher = Idle

(* Packets and entries are of the messages and of the QoS they belong to.  *)
RightQos ==
    /\ \A m : Has(toBroker, "PUBLISH", m) => m \in Out
    /\ \A m : Has(toBroker, "PUBREL", m) => m \in Out /\ OutQos[m] = 2
    /\ \A m : Has(toHub, "PUBACK", m) => m \in Out /\ OutQos[m] = 1
    /\ \A m : Has(toHub, "PUBREC", m) \/ Has(toHub, "PUBCOMP", m) => m \in Out /\ OutQos[m] = 2
    /\ \A m \in Ids(outbound) : m \in Out /\ m < Turn /\ OutQos[m] > 0
    /\ \A m : Awaits(outbound, m, "PUBACK") => OutQos[m] = 1
    /\ \A m : Awaits(outbound, m, "PUBREC") \/ Awaits(outbound, m, "PUBCOMP") => OutQos[m] = 2
    /\ \A m \in held : m \in Out /\ OutQos[m] = 2
    /\ InOrder(outbound)

(* The hub's publication m has not been begun.                             *)
UnsentInv(m) ==
    m >= Turn =>
        /\ published[m] = 0 /\ m \notin held /\ m \notin Ids(outbound)
        /\ ~Cut(m) /\ ~CutRelease(m)
        /\ ~Has(toBroker, "PUBLISH", m) /\ ~Has(toBroker, "PUBREL", m)
        /\ \A type \in Steps : ~Has(toHub, type, m)

(* QoS 0: m is written once.                                               *)
OnceInv(m) ==
    OutQos[m] = 0 =>
        /\ published[m] <= 1 /\ PublishOnce(toBroker, m)
        /\ Has(toBroker, "PUBLISH", m) => published[m] = 0 /\ ~Cut(m)
        /\ Cut(m) => published[m] = 0

(* QoS 1: what is acknowledged has been published.                         *)
AckInv(m) ==
    OutQos[m] = 1 =>
        /\ Has(toHub, "PUBACK", m) => published[m] >= 1
        /\ m < Turn /\ m \notin Ids(outbound) => published[m] >= 1

(* QoS 2: the broker has published m if and only if it holds m, until m is *)
(* released; and m is released when no publication of m can come any more. *)
ExactInv(m) ==
    OutQos[m] = 2 =>
        /\ published[m] <= 1 /\ (m \in held => published[m] = 1)
        /\ m \notin held /\ Has(toBroker, "PUBLISH", m) => published[m] = 0
        /\ PublishFirst(toBroker, m)
        /\ Awaits(outbound, m, "PUBREC") =>
              /\ published[m] = 1 => m \in held
              /\ ~Has(toBroker, "PUBREL", m) /\ ~Has(toHub, "PUBCOMP", m)
        /\ Awaits(outbound, m, "PUBCOMP") => published[m] = 1
        /\ Has(toHub, "PUBREC", m) => published[m] = 1
        /\ Has(toBroker, "PUBREL", m) => published[m] = 1
        /\ Has(toHub, "PUBCOMP", m) => published[m] = 1 /\ m \notin held /\ ~Has(toBroker, "PUBLISH", m)
        /\ m < Turn /\ m \notin Ids(outbound) =>
              published[m] = 1 /\ m \notin held /\ ~Has(toBroker, "PUBLISH", m)
        /\ Cut(m) /\ link = "up" => Awaits(outbound, m, "PUBREC")
        /\ CutRelease(m) => published[m] = 1 /\ ~Awaits(outbound, m, "PUBREC")

SenderInv == \A m \in Out : UnsentInv(m) /\ OnceInv(m) /\ AckInv(m) /\ ExactInv(m)

(* Messages that none overtakes.                                           *)
Ordered(i) == OutQos[i] > 0 /\ i \notin skipped

(* A message begun and not published is on its way; one that goes before   *)
(* another has been published or is ahead of it.                           *)
Fifo(s) ==
    \A k \in 1 .. Len(s) : \A i \in Out :
        /\ s[k].type = "PUBLISH" /\ i < s[k].id
        /\ Ordered(i) /\ OutQos[s[k].id] > 0
        => published[i] >= 1 \/ \E l \in 1 .. k - 1 : s[l].type = "PUBLISH" /\ s[l].id = i

OrderInv ==
    /\ OrderKept
    /\ \A i \in Out : Ordered(i) /\ i < Turn /\ published[i] = 0 /\ link = "up" =>
          Has(toBroker, "PUBLISH", i) \/ Cut(i)
    /\ Fifo(toBroker)

(* Where the socket takes whole packets, a message begun has been told of  *)
(* or waits for its response.                                              *)
Waits(m) == \E i \in 1 .. Len(responses) : responses[i] = m

TellInv ==
    /\ SuccessIsPublished
    /\ ~MayInterrupt => responses \in Seq(Nat)
    /\ ~MayInterrupt => \A i, j \in 1 .. Len(responses) : responses[i] = responses[j] => i = j
    /\ ~MayInterrupt => \A m \in Out :
          /\ m >= Turn => succeeded[m] = 0 /\ failed[m] = 0 /\ ~Waits(m)
          /\ m < Turn => IF Waits(m) THEN succeeded[m] + failed[m] = 0 ELSE succeeded[m] + failed[m] = 1
          /\ Waits(m) => m \in Ids(outbound)

(* The broker's message m for the hub.                                     *)
BrokerQos ==
    /\ \A m : Has(toHub, "PUBLISH", m) => m \in In
    /\ \A m : Has(toHub, "PUBREL", m) => m \in In /\ InQos[m] = 2
    /\ \A m : Has(toBroker, "PUBACK", m) => m \in In /\ InQos[m] = 1
    /\ \A m : Has(toBroker, "PUBREC", m) \/ Has(toBroker, "PUBCOMP", m) => m \in In /\ InQos[m] = 2
    /\ \A m \in Ids(sending) : m \in In /\ m < nextIn /\ InQos[m] > 0
    /\ \A m : Awaits(sending, m, "PUBACK") => InQos[m] = 1
    /\ \A m : Awaits(sending, m, "PUBREC") \/ Awaits(sending, m, "PUBCOMP") => InQos[m] = 2
    /\ \A m \in inbound : m \in In /\ InQos[m] = 2
    /\ InOrder(sending)

ReceiverFor(m) ==
    /\ m >= nextIn =>
          arrived[m] = 0 /\ m \notin inbound /\ ~Has(toHub, "PUBLISH", m) /\ ~Has(toHub, "PUBREL", m)
    /\ InQos[m] = 0 =>
          arrived[m] <= 1 /\ PublishOnce(toHub, m) /\ (Has(toHub, "PUBLISH", m) => arrived[m] = 0)
    /\ InQos[m] = 1 => (Has(toBroker, "PUBACK", m) => arrived[m] >= 1)
    /\ InQos[m] = 2 =>
          /\ arrived[m] <= 1 /\ PublishFirst(toHub, m)
          /\ arrived[m] = 1 =>
                m \notin inbound /\ ~Has(toHub, "PUBLISH", m) /\ ~Awaits(sending, m, "PUBREC")
          /\ \/ Has(toHub, "PUBREL", m) \/ Has(toBroker, "PUBREC", m) \/ Awaits(sending, m, "PUBCOMP")
             => m \in inbound \/ arrived[m] = 1
          /\ Has(toHub, "PUBREL", m) => ~Awaits(sending, m, "PUBREC")
          /\ Has(toBroker, "PUBCOMP", m) => arrived[m] = 1
    /\ InQos[m] > 0 /\ m < nextIn /\ m \notin Ids(sending) => arrived[m] >= 1

ReceiverInv == \A m \in In : ReceiverFor(m)

DeliveryInv ==
    DeliveryTypes /\ RightQos /\ SenderInv /\ OrderInv /\ TellInv /\ BrokerQos /\ ReceiverInv

-----------------------------------------------------------------------------
(* Channels.                                                               *)

(* An empty channel holds nothing.                                         *)
LEMMA HasNone ==
    ASSUME NEW type, NEW m
    PROVE  ~Has(<<>>, type, m) /\ PublishFirst(<<>>, m) /\ PublishOnce(<<>>, m)
BY DEF Has, PublishFirst, PublishOnce

(* A packet appended to a channel.                                         *)
LEMMA HasAppend ==
    ASSUME NEW T, NEW s \in Seq(T), NEW p \in T, NEW m
    PROVE  /\ Append(s, p) \in Seq(T)
           /\ \A type : Has(Append(s, p), type, m) <=> Has(s, type, m) \/ (p.type = type /\ p.id = m)
           /\ PublishFirst(s, m) /\ (p.type = "PUBLISH" /\ p.id = m => ~Has(s, "PUBREL", m))
              => PublishFirst(Append(s, p), m)
           /\ PublishOnce(s, m) /\ (p.type = "PUBLISH" /\ p.id = m => ~Has(s, "PUBLISH", m))
              => PublishOnce(Append(s, p), m)
<1> DEFINE r == Append(s, p)
<1>1. /\ r \in Seq(T) /\ Len(r) = Len(s) + 1 /\ r[Len(s) + 1] = p /\ Len(s) \in Nat
      /\ \A i \in 1 .. Len(s) : r[i] = s[i]
  BY AppendProperties
<1> HIDE DEF r
<1>2. /\ \A i \in 1 .. Len(r) : i \in 1 .. Len(s) \/ i = Len(s) + 1
      /\ Len(s) + 1 \in 1 .. Len(r)
      /\ \A i \in 1 .. Len(s) : i \in 1 .. Len(r) /\ i < Len(s) + 1 /\ i # Len(s) + 1
  BY <1>1
<1>3. \A type : Has(r, type, m) <=> Has(s, type, m) \/ (p.type = type /\ p.id = m)
  BY Zenon, <1>1, <1>2 DEF Has
<1>4. PublishFirst(s, m) /\ (p.type = "PUBLISH" /\ p.id = m => ~Has(s, "PUBREL", m)) => PublishFirst(r, m)
  <2>1. "PUBLISH" # "PUBREL"
    OBVIOUS
  <2> QED
    BY Zenon, <1>1, <1>2, <2>1 DEF PublishFirst, Has
<1>5. PublishOnce(s, m) /\ (p.type = "PUBLISH" /\ p.id = m => ~Has(s, "PUBLISH", m)) => PublishOnce(r, m)
  BY Zenon, <1>1, <1>2 DEF PublishOnce, Has
<1> QED
  BY Zenon, <1>1, <1>3, <1>4, <1>5 DEF r

(* A packet taken from a channel.                                          *)
LEMMA HasTail ==
    ASSUME NEW T, NEW s \in Seq(T), s # <<>>, NEW m
    PROVE  /\ Tail(s) \in Seq(T) /\ Head(s) \in T /\ Has(s, Head(s).type, Head(s).id)
           /\ \A type : /\ Has(Tail(s), type, m) => Has(s, type, m)
                        /\ Has(s, type, m) => Has(Tail(s), type, m) \/ (Head(s).type = type /\ Head(s).id = m)
           /\ PublishFirst(s, m) => PublishFirst(Tail(s), m)
           /\ PublishOnce(s, m) => PublishOnce(Tail(s), m)
           /\ PublishFirst(s, m) /\ Head(s).type = "PUBREL" /\ Head(s).id = m => ~Has(Tail(s), "PUBLISH", m)
           /\ PublishOnce(s, m) /\ Head(s).type = "PUBLISH" /\ Head(s).id = m => ~Has(Tail(s), "PUBLISH", m)
<1> DEFINE r == Tail(s)
           h == Head(s)
<1>1. /\ r \in Seq(T) /\ Len(r) = Len(s) - 1 /\ h = s[1] /\ Len(s) \in Nat \ {0} /\ h \in T
      /\ \A i \in 1 .. Len(r) : r[i] = s[i + 1]
  BY HeadTailProperties
<1> HIDE DEF r, h
<1>2. /\ 1 \in 1 .. Len(s)
      /\ \A i \in 1 .. Len(r) : i + 1 \in 1 .. Len(s) /\ ~(i + 1 < 1) /\ i + 1 # 1
      /\ \A i \in 1 .. Len(s) : i = 1 \/ (i - 1 \in 1 .. Len(r) /\ r[i - 1] = s[i])
      /\ \A i, j \in 1 .. Len(r) : (i + 1 < j + 1 => i < j) /\ (i + 1 = j + 1 => i = j)
  BY <1>1
<1>3. \A type : /\ Has(r, type, m) => Has(s, type, m)
                /\ Has(s, type, m) => Has(r, type, m) \/ (h.type = type /\ h.id = m)
  <2>1. ASSUME NEW type, Has(r, type, m) PROVE Has(s, type, m)
    <3>1. PICK i \in 1 .. Len(r) : r[i].type = type /\ r[i].id = m
      BY Zenon, <2>1 DEF Has
    <3>2. i + 1 \in 1 .. Len(s) /\ r[i] = s[i + 1]
      BY Zenon, <1>1, <1>2
    <3> QED
      BY Zenon, <3>1, <3>2 DEF Has
  <2>2. ASSUME NEW type, Has(s, type, m) PROVE Has(r, type, m) \/ (h.type = type /\ h.id = m)
    <3>1. PICK i \in 1 .. Len(s) : s[i].type = type /\ s[i].id = m
      BY Zenon, <2>2 DEF Has
    <3>2. i = 1 \/ (i - 1 \in 1 .. Len(r) /\ r[i - 1] = s[i])
      BY Zenon, <1>2
    <3> QED
      BY Zenon, <1>1, <3>1, <3>2 DEF Has
  <2> QED
    BY Zenon, <2>1, <2>2
<1>4. Has(s, h.type, h.id)
  BY Zenon, <1>1, <1>2 DEF Has
<1>5. ASSUME PublishFirst(s, m) PROVE PublishFirst(r, m)
  <2> SUFFICES ASSUME NEW i \in 1 .. Len(r), NEW j \in 1 .. Len(r),
                      r[i].type = "PUBREL", r[i].id = m, r[j].type = "PUBLISH", r[j].id = m
               PROVE  j < i
    BY Zenon DEF PublishFirst
  <2>1. i + 1 \in 1 .. Len(s) /\ r[i] = s[i + 1] /\ j + 1 \in 1 .. Len(s) /\ r[j] = s[j + 1]
    BY Zenon, <1>1, <1>2
  <2>2. j + 1 < i + 1
    BY Zenon, <1>5, <2>1 DEF PublishFirst
  <2> QED
    BY Zenon, <1>2, <2>2
<1>6. ASSUME PublishOnce(s, m) PROVE PublishOnce(r, m)
  <2> SUFFICES ASSUME NEW i \in 1 .. Len(r), NEW j \in 1 .. Len(r),
                      r[i].type = "PUBLISH", r[i].id = m, r[j].type = "PUBLISH", r[j].id = m
               PROVE  i = j
    BY Zenon DEF PublishOnce
  <2>1. i + 1 \in 1 .. Len(s) /\ r[i] = s[i + 1] /\ j + 1 \in 1 .. Len(s) /\ r[j] = s[j + 1]
    BY Zenon, <1>1, <1>2
  <2>2. i + 1 = j + 1
    BY Zenon, <1>6, <2>1 DEF PublishOnce
  <2> QED
    BY Zenon, <1>2, <2>2
<1>7. PublishFirst(s, m) /\ h.type = "PUBREL" /\ h.id = m => ~Has(r, "PUBLISH", m)
  BY Zenon, <1>1, <1>2 DEF PublishFirst, Has
<1>8. ASSUME PublishOnce(s, m), h.type = "PUBLISH", h.id = m, Has(r, "PUBLISH", m) PROVE FALSE
  <2>1. PICK i \in 1 .. Len(r) : r[i].type = "PUBLISH" /\ r[i].id = m
    BY Zenon, <1>8 DEF Has
  <2>2. i + 1 \in 1 .. Len(s) /\ r[i] = s[i + 1] /\ i + 1 # 1
    BY Zenon, <1>1, <1>2
  <2>3. s[i + 1].type = "PUBLISH" /\ s[i + 1].id = m /\ s[1].type = "PUBLISH" /\ s[1].id = m
    BY Zenon, <1>1, <1>8, <2>1, <2>2
  <2>4. i + 1 = 1
    BY Zenon, <1>2, <1>8, <2>2, <2>3 DEF PublishOnce
  <2> QED
    BY Zenon, <2>2, <2>4
<1> QED
  BY Zenon, <1>1, <1>3, <1>4, <1>5, <1>6, <1>7, <1>8 DEF r, h

(* Two channels one after the other.                                       *)
LEMMA HasConcat ==
    ASSUME NEW T, NEW s \in Seq(T), NEW t \in Seq(T), NEW m
    PROVE  /\ s \o t \in Seq(T)
           /\ \A type : Has(s \o t, type, m) <=> Has(s, type, m) \/ Has(t, type, m)
           /\ PublishFirst(s, m) /\ PublishFirst(t, m) /\ ~(Has(s, "PUBREL", m) /\ Has(t, "PUBLISH", m))
              => PublishFirst(s \o t, m)
           /\ PublishOnce(s, m) /\ ~Has(t, "PUBLISH", m) => PublishOnce(s \o t, m)
<1> DEFINE r == s \o t
<1>1. /\ r \in Seq(T) /\ Len(r) = Len(s) + Len(t) /\ Len(s) \in Nat /\ Len(t) \in Nat
      /\ \A i \in 1 .. Len(s) + Len(t) : r[i] = IF i <= Len(s) THEN s[i] ELSE t[i - Len(s)]
  BY ConcatProperties
<1> HIDE DEF r
<1>2. /\ \A i \in 1 .. Len(r) :
            \/ i \in 1 .. Len(s) /\ r[i] = s[i]
            \/ i - Len(s) \in 1 .. Len(t) /\ r[i] = t[i - Len(s)]
      /\ \A i \in 1 .. Len(s) : i \in 1 .. Len(r) /\ r[i] = s[i]
      /\ \A i \in 1 .. Len(t) : i + Len(s) \in 1 .. Len(r) /\ r[i + Len(s)] = t[i]
  BY <1>1
<1>3. \A i, j \in 1 .. Len(r) :
         /\ i \in 1 .. Len(s) /\ j - Len(s) \in 1 .. Len(t) => i < j
         /\ i - Len(s) < j - Len(s) => i < j
  BY <1>1
<1>4. \A type : Has(r, type, m) <=> Has(s, type, m) \/ Has(t, type, m)
  <2>1. ASSUME NEW type, Has(r, type, m) PROVE Has(s, type, m) \/ Has(t, type, m)
    <3>1. PICK i \in 1 .. Len(r) : r[i].type = type /\ r[i].id = m
      BY Zenon, <2>1 DEF Has
    <3>2. \/ i \in 1 .. Len(s) /\ r[i] = s[i]
          \/ i - Len(s) \in 1 .. Len(t) /\ r[i] = t[i - Len(s)]
      BY Zenon, <1>2
    <3> QED
      BY Zenon, <3>1, <3>2 DEF Has
  <2>2. ASSUME NEW type, Has(s, type, m) PROVE Has(r, type, m)
    BY Zenon, <1>2, <2>2 DEF Has
  <2>3. ASSUME NEW type, Has(t, type, m) PROVE Has(r, type, m)
    <3>1. PICK i \in 1 .. Len(t) : t[i].type = type /\ t[i].id = m
      BY Zenon, <2>3 DEF Has
    <3>2. i + Len(s) \in 1 .. Len(r) /\ r[i + Len(s)] = t[i]
      BY Zenon, <1>2
    <3> QED
      BY Zenon, <3>1, <3>2 DEF Has
  <2> QED
    BY Zenon, <2>1, <2>2, <2>3
<1>5. ASSUME PublishFirst(s, m), PublishFirst(t, m), ~(Has(s, "PUBREL", m) /\ Has(t, "PUBLISH", m))
      PROVE  PublishFirst(r, m)
  <2> SUFFICES ASSUME NEW i \in 1 .. Len(r), NEW j \in 1 .. Len(r),
                      r[i].type = "PUBREL", r[i].id = m, r[j].type = "PUBLISH", r[j].id = m
               PROVE  j < i
    BY Zenon DEF PublishFirst
  <2>1. CASE i \in 1 .. Len(s) /\ r[i] = s[i]
    <3>1. Has(s, "PUBREL", m)
      BY Zenon, <2>1 DEF Has
    <3>2. ~(j - Len(s) \in 1 .. Len(t) /\ r[j] = t[j - Len(s)])
      BY Zenon, <1>5, <3>1 DEF Has
    <3>3. j \in 1 .. Len(s) /\ r[j] = s[j]
      BY Zenon, <1>2, <3>2
    <3> QED
      BY Zenon, <1>5, <2>1, <3>3 DEF PublishFirst
  <2>2. CASE i - Len(s) \in 1 .. Len(t) /\ r[i] = t[i - Len(s)]
    BY Zenon, <1>2, <1>3, <1>5, <2>2 DEF PublishFirst
  <2> QED
    BY Zenon, <1>2, <2>1, <2>2
<1>6. ASSUME PublishOnce(s, m), ~Has(t, "PUBLISH", m) PROVE PublishOnce(r, m)
  <2>1. ASSUME NEW i \in 1 .. Len(r), r[i].type = "PUBLISH", r[i].id = m
        PROVE  i \in 1 .. Len(s) /\ r[i] = s[i]
    BY Zenon, <1>2, <1>6, <2>1 DEF Has
  <2> QED
    BY Zenon, <1>6, <2>1 DEF PublishOnce
<1> QED
  BY Zenon, <1>1, <1>4, <1>5, <1>6 DEF r

-----------------------------------------------------------------------------
(* Lists of unfinished messages.                                           *)

(* A message is in a list if and only if the list awaits a packet of it.   *)
LEMMA IdsAwait ==
    ASSUME NEW s \in Seq(Entries), NEW m
    PROVE  /\ m \in Ids(s) <=> \E type \in Steps : Awaits(s, m, type)
           /\ \A type : Awaits(s, m, type) => type \in Steps /\ m \in Nat
<1>1. ASSUME NEW i \in 1 .. Len(s)
      PROVE  /\ s[i].id \in Nat /\ s[i].next \in Steps
             /\ s[i] = Awaiting(s[i].id, s[i].next)
  <2>1. s[i] \in Entries
    BY <1>1
  <2> QED
    BY <2>1 DEF Entries, Awaiting
<1>2. m \in Ids(s) => \E type \in Steps : Awaits(s, m, type)
  BY Zenon, <1>1 DEF Ids, Awaits
<1>3. ASSUME NEW type, Awaits(s, m, type) PROVE m \in Ids(s) /\ type \in Steps /\ m \in Nat
  <2>1. PICK i \in 1 .. Len(s) : s[i] = Awaiting(m, type)
    BY Zenon, <1>3 DEF Awaits
  <2>2. s[i].id = m /\ s[i].next = type
    BY <2>1 DEF Awaiting
  <2> QED
    BY Zenon, <1>1, <2>2 DEF Ids
<1> QED
  BY Zenon, <1>2, <1>3

(* A list awaits one packet of a message.                                  *)
LEMMA AwaitsOne ==
    ASSUME NEW s \in Seq(Entries), InOrder(s), NEW m, NEW t, NEW u, Awaits(s, m, t), Awaits(s, m, u)
    PROVE  t = u
<1>1. PICK i \in 1 .. Len(s) : s[i] = Awaiting(m, t)
  BY Zenon DEF Awaits
<1>2. PICK j \in 1 .. Len(s) : s[j] = Awaiting(m, u)
  BY Zenon DEF Awaits
<1>3. s[i] \in Entries /\ s[j] \in Entries
  BY <1>1, <1>2
<1>4. /\ s[i].id = m /\ s[i].next = t /\ s[j].id = m /\ s[j].next = u
      /\ s[i].id \in Nat
  BY <1>1, <1>2, <1>3 DEF Awaiting, Entries
<1>5. ~(i < j) /\ ~(j < i)
  <2>1. ~(m < m)
    BY <1>4
  <2> QED
    BY Zenon, <1>4, <2>1 DEF InOrder
<1>6. i = j
  BY <1>5
<1> QED
  BY Zenon, <1>4, <1>6

(* A message appended to a list.                                           *)
LEMMA AppendEntry ==
    ASSUME NEW s \in Seq(Entries), NEW id \in Nat, NEW t \in Steps
    PROVE  LET r == Append(s, Awaiting(id, t)) IN
           /\ r \in Seq(Entries)
           /\ \A m, type : Awaits(r, m, type) <=> Awaits(s, m, type) \/ (m = id /\ type = t)
           /\ \A m : m \in Ids(r) <=> m \in Ids(s) \/ m = id
           /\ InOrder(s) /\ (\A m \in Ids(s) : m < id) => InOrder(r)
<1> DEFINE e == Awaiting(id, t)
           r == Append(s, e)
<1>1. e \in Entries /\ e.id = id /\ \A m, type : Awaiting(m, type) = e <=> m = id /\ type = t
  BY DEF Entries, Awaiting
<1> HIDE DEF e
<1>2. /\ r \in Seq(Entries) /\ Len(r) = Len(s) + 1 /\ r[Len(s) + 1] = e /\ Len(s) \in Nat
      /\ \A i \in 1 .. Len(s) : r[i] = s[i]
  BY <1>1, AppendProperties
<1> HIDE DEF r
<1>3. /\ \A i \in 1 .. Len(r) : i \in 1 .. Len(s) \/ i = Len(s) + 1
      /\ Len(s) + 1 \in 1 .. Len(r)
      /\ \A i \in 1 .. Len(s) : i \in 1 .. Len(r)
      /\ \A i \in 1 .. Len(s) : ~(Len(s) + 1 < i)
      /\ ~(Len(s) + 1 < Len(s) + 1)
  BY <1>2
<1>4. \A m, type : Awaits(r, m, type) <=> Awaits(s, m, type) \/ (m = id /\ type = t)
  BY Zenon, <1>1, <1>2, <1>3 DEF Awaits
<1>5. \A m : m \in Ids(r) <=> m \in Ids(s) \/ m = id
  BY Zenon, <1>1, <1>2, <1>3 DEF Ids
<1>6. InOrder(s) /\ (\A m \in Ids(s) : m < id) => InOrder(r)
  BY Zenon, <1>1, <1>2, <1>3 DEF InOrder, Ids
<1> QED
  BY Zenon, <1>2, <1>4, <1>5, <1>6 DEF r, e

(* MQTTProtocol_handlePubrecs: a message of a list is released.            *)
LEMMA ReleaseEntry ==
    ASSUME NEW s \in Seq(Entries), NEW id \in Nat
    PROVE  LET r == Released(s, id) IN
           /\ r \in Seq(Entries)
           /\ \A type : Awaits(r, id, type) <=> id \in Ids(s) /\ type = "PUBCOMP"
           /\ \A m, type : m # id => (Awaits(r, m, type) <=> Awaits(s, m, type))
           /\ \A m : m \in Ids(r) <=> m \in Ids(s)
           /\ InOrder(s) => InOrder(r)
<1> DEFINE e == Awaiting(id, "PUBCOMP")
           r == Released(s, id)
<1>1. e \in Entries /\ e.id = id /\ \A m, type : Awaiting(m, type) = e <=> m = id /\ type = "PUBCOMP"
  BY DEF Entries, Awaiting, Steps
<1>2. \A m, type : Awaiting(m, type).id = m
  BY DEF Awaiting
<1>3. r = [i \in 1 .. Len(s) |-> IF s[i].id = id THEN e ELSE s[i]]
  BY Zenon DEF Released
<1> HIDE DEF e, r
<1>4. Len(s) \in Nat /\ \A i \in 1 .. Len(s) : s[i] \in Entries
  OBVIOUS
<1>5. r \in Seq(Entries) /\ Len(r) = Len(s) /\ \A i \in 1 .. Len(s) : r[i] = IF s[i].id = id THEN e ELSE s[i]
  BY <1>1, <1>4, <1>3
<1>6. \A i \in 1 .. Len(s) : r[i].id = s[i].id
  BY Zenon, <1>1, <1>5
<1>7. \A m : m \in Ids(r) <=> m \in Ids(s)
  BY Zenon, <1>5, <1>6 DEF Ids
<1>8. InOrder(s) => InOrder(r)
  BY Zenon, <1>5, <1>6 DEF InOrder
<1>9. ASSUME NEW type PROVE Awaits(r, id, type) <=> id \in Ids(s) /\ type = "PUBCOMP"
  <2>1. ASSUME NEW i \in 1 .. Len(r), r[i] = Awaiting(id, type) PROVE id \in Ids(s) /\ type = "PUBCOMP"
    <3>1. s[i].id = id
      BY Zenon, <1>2, <1>5, <1>6, <2>1
    <3>2. i \in 1 .. Len(s) /\ r[i] = e
      BY Zenon, <1>5, <3>1
    <3>3. Awaiting(id, type) = e
      BY Zenon, <2>1, <3>2
    <3>4. type = "PUBCOMP"
      BY <1>1, <3>3
    <3>5. id \in Ids(s)
      BY Zenon, <3>1, <3>2 DEF Ids
    <3> QED
      BY Zenon, <3>4, <3>5
  <2>2. ASSUME id \in Ids(s), type = "PUBCOMP" PROVE Awaits(r, id, type)
    BY Zenon, <1>5, <2>2 DEF Ids, Awaits, e
  <2> QED
    BY Zenon, <2>1, <2>2 DEF Awaits
<1>10. ASSUME NEW m, NEW type, m # id PROVE Awaits(r, m, type) <=> Awaits(s, m, type)
  <2>1. \A i \in 1 .. Len(s) : r[i] = Awaiting(m, type) <=> s[i] = Awaiting(m, type)
    <3> SUFFICES ASSUME NEW i \in 1 .. Len(s)
                 PROVE  r[i] = Awaiting(m, type) <=> s[i] = Awaiting(m, type)
      BY Zenon
    <3>1. CASE s[i].id = id
      <4>1. r[i].id = id /\ s[i].id = id
        BY Zenon, <1>6, <3>1
      <4>2. Awaiting(m, type).id # id
        BY Zenon, <1>2, <1>10
      <4> QED
        BY Zenon, <4>1, <4>2
    <3>2. CASE s[i].id # id
      BY Zenon, <1>5, <3>2
    <3> QED
      BY Zenon, <3>1, <3>2
  <2> QED
    BY Zenon, <1>5, <2>1 DEF Awaits
<1> QED
  BY Zenon, <1>5, <1>7, <1>8, <1>9, <1>10 DEF r

(* ListRemove of the one element that is e.                                *)
LEMMA RemoveOne ==
    ASSUME NEW T, NEW s \in Seq(T), NEW e, NEW k \in 1 .. Len(s), s[k] = e,
           \A i \in 1 .. Len(s) : s[i] = e => i = k
    PROVE  LET r == ListRemove(s, e) IN
           /\ r \in Seq(T) /\ Len(r) = Len(s) - 1
           /\ \A i \in 1 .. Len(r) : r[i] = IF i < k THEN s[i] ELSE s[i + 1]
<1> DEFINE found == {i \in 1 .. Len(s) : s[i] = e}
           first == CHOOSE i \in found : \A j \in found : i <= j
<1>1. found = {k}
  BY Zenon
<1>2. k \in {k} /\ (\A y \in {k} : k <= y) /\ (\A x \in {k} : x = k) /\ {k} # {}
  OBVIOUS
<1>3. first = k
  BY Zenon, <1>1, <1>2
<1>4. ListRemove(s, e) = SubSeq(s, 1, k - 1) \o SubSeq(s, k + 1, Len(s))
  BY Zenon, <1>1, <1>2, <1>3 DEF ListRemove
<1> HIDE DEF found, first
<1> DEFINE a == SubSeq(s, 1, k - 1)
           b == SubSeq(s, k + 1, Len(s))
<1>5. Len(s) \in Nat /\ k \in Nat /\ 1 <= k /\ k <= Len(s)
  OBVIOUS
<1>6. a \in Seq(T) /\ Len(a) = k - 1 /\ \A i \in 1 .. k - 1 : a[i] = s[i]
  BY <1>5
<1>7. b \in Seq(T) /\ Len(b) = Len(s) - k /\ \A i \in 1 .. Len(s) - k : b[i] = s[i + k]
  BY <1>5
<1> HIDE DEF a, b
<1> DEFINE c == a \o b
<1>8. /\ c \in Seq(T) /\ Len(c) = Len(a) + Len(b)
      /\ \A i \in 1 .. Len(a) + Len(b) : c[i] = IF i <= Len(a) THEN a[i] ELSE b[i - Len(a)]
  BY Zenon, <1>6, <1>7, ConcatProperties
<1> HIDE DEF c
<1>9. Len(c) = Len(s) - 1
  BY <1>5, <1>6, <1>7, <1>8
<1>10. \A i \in 1 .. Len(c) : c[i] = IF i < k THEN s[i] ELSE s[i + 1]
  <2> SUFFICES ASSUME NEW i \in 1 .. Len(c) PROVE c[i] = IF i < k THEN s[i] ELSE s[i + 1]
    BY Zenon
  <2>1. CASE i < k
    BY <1>5, <1>6, <1>7, <1>8, <2>1
  <2>2. CASE ~(i < k)
    <3>1. c[i] = b[i - (k - 1)] /\ i - (k - 1) \in 1 .. Len(s) - k
      BY <1>5, <1>6, <1>7, <1>8, <2>2
    <3>2. b[i - (k - 1)] = s[i - (k - 1) + k]
      BY Zenon, <1>7, <3>1
    <3>3. i - (k - 1) + k = i + 1
      BY <1>5, <1>9
    <3> QED
      BY Zenon, <2>2, <3>1, <3>2, <3>3
  <2> QED
    BY Zenon, <2>1, <2>2
<1>11. ListRemove(s, e) = c
  BY Zenon, <1>4 DEF a, b, c
<1> QED
  BY Zenon, <1>8, <1>9, <1>10, <1>11

(* ListRemove of what is not there.                                        *)
LEMMA RemoveNone ==
    ASSUME NEW s, NEW e, ~\E i \in 1 .. Len(s) : s[i] = e
    PROVE  ListRemove(s, e) = s
BY Zenon DEF ListRemove

(* ListRemove of a message that awaits t.                                  *)
LEMMA RemoveEntry ==
    ASSUME NEW s \in Seq(Entries), InOrder(s), NEW id, NEW t
    PROVE  LET r == ListRemove(s, Awaiting(id, t)) IN
           /\ r \in Seq(Entries) /\ InOrder(r)
           /\ \A m, type : Awaits(r, m, type) <=> Awaits(s, m, type) /\ ~(m = id /\ type = t)
<1> DEFINE e == Awaiting(id, t)
           r == ListRemove(s, e)
<1>1. \A m, type : Awaiting(m, type) = e <=> m = id /\ type = t
  BY DEF Awaiting
<1>2. CASE ~Awaits(s, id, t)
  <2>1. r = s
    BY Zenon, <1>2, RemoveNone DEF Awaits
  <2>2. \A m, type : Awaits(s, m, type) => ~(m = id /\ type = t)
    BY Zenon, <1>2
  <2> QED
    BY Zenon, <2>1, <2>2
<1>3. CASE Awaits(s, id, t)
  <2>1. PICK k \in 1 .. Len(s) : s[k] = e
    BY Zenon, <1>3 DEF Awaits
  <2>2. Len(s) \in Nat /\ \A i \in 1 .. Len(s) : s[i] \in Entries /\ s[i].id \in Nat
    <3>1. Len(s) \in Nat /\ \A i \in 1 .. Len(s) : s[i] \in Entries
      OBVIOUS
    <3> QED
      BY <3>1 DEF Entries
  <2> HIDE DEF e
  <2>3. ASSUME NEW i \in 1 .. Len(s), s[i] = e PROVE i = k
    <3>1. s[i].id = s[k].id /\ s[i].id \in Nat
      BY Zenon, <2>1, <2>2, <2>3
    <3>2. ~(s[i].id < s[k].id) /\ ~(s[k].id < s[i].id)
      BY <3>1
    <3>3. ~(i < k) /\ ~(k < i)
      BY Zenon, <3>2 DEF InOrder
    <3> QED
      BY <3>3
  <2>4. /\ r \in Seq(Entries) /\ Len(r) = Len(s) - 1
        /\ \A i \in 1 .. Len(r) : r[i] = IF i < k THEN s[i] ELSE s[i + 1]
    <3>1. \A i \in 1 .. Len(s) : s[i] = e => i = k
      BY Zenon, <2>3
    <3> QED
      BY ZenonT(30), <2>1, <3>1, RemoveOne
  <2> HIDE DEF r
  <2> DEFINE at(i) == IF i < k THEN i ELSE i + 1
  <2>5. /\ \A i \in 1 .. Len(r) : at(i) \in 1 .. Len(s) /\ r[i] = s[at(i)] /\ at(i) # k
        /\ \A i, j \in 1 .. Len(r) : i < j => at(i) < at(j)
    BY <2>2, <2>4
  <2>6. \A j \in 1 .. Len(s) : j # k => \E i \in 1 .. Len(r) : at(i) = j
    <3> SUFFICES ASSUME NEW j \in 1 .. Len(s), j # k PROVE \E i \in 1 .. Len(r) : at(i) = j
      BY Zenon
    <3>1. CASE j < k
      <4>1. j \in 1 .. Len(r) /\ at(j) = j
        BY <2>2, <2>4, <3>1
      <4> QED
        BY Zenon, <4>1
    <3>2. CASE ~(j < k)
      <4>1. j - 1 \in 1 .. Len(r) /\ at(j - 1) = j
        BY <2>2, <2>4, <3>2
      <4> QED
        BY Zenon, <4>1
    <3> QED
      BY Zenon, <3>1, <3>2
  <2> HIDE DEF at
  <2>7. InOrder(r)
    BY Zenon, <2>5 DEF InOrder
  <2>8. ASSUME NEW m, NEW type, Awaits(r, m, type) PROVE Awaits(s, m, type) /\ ~(m = id /\ type = t)
    <3>1. PICK i \in 1 .. Len(r) : r[i] = Awaiting(m, type)
      BY Zenon, <2>8 DEF Awaits
    <3>2. at(i) \in 1 .. Len(s) /\ s[at(i)] = Awaiting(m, type) /\ at(i) # k
      BY Zenon, <2>5, <3>1
    <3>3. s[at(i)] # e
      BY Zenon, <2>3, <3>2
    <3> QED
      BY Zenon, <1>1, <3>2, <3>3 DEF Awaits
  <2>9. ASSUME NEW m, NEW type, Awaits(s, m, type), ~(m = id /\ type = t) PROVE Awaits(r, m, type)
    <3>1. PICK j \in 1 .. Len(s) : s[j] = Awaiting(m, type)
      BY Zenon, <2>9 DEF Awaits
    <3>2. j # k
      BY Zenon, <1>1, <2>1, <2>9, <3>1
    <3>3. PICK i \in 1 .. Len(r) : at(i) = j
      BY Zenon, <2>6, <3>2
    <3>4. r[i] = Awaiting(m, type)
      BY Zenon, <2>5, <3>1, <3>3
    <3> QED
      BY Zenon, <3>4 DEF Awaits
  <2> QED
    BY Zenon, <2>4, <2>7, <2>8, <2>9 DEF r, e
<1> QED
  BY Zenon, <1>2, <1>3

-----------------------------------------------------------------------------
(* What is repeated.                                                       *)

(* A sequence of one packet for each message of a list.                    *)
LEMMA RepeatsOf ==
    ASSUME NEW s \in Seq(Entries), InOrder(s), NEW r \in Seq(Packets), Len(r) = Len(s),
           \A i \in 1 .. Len(s) :
               r[i].id = s[i].id /\ r[i].type = IF s[i].next = "PUBCOMP" THEN "PUBREL" ELSE "PUBLISH"
    PROVE  \A m : /\ Has(r, "PUBLISH", m) <=> Awaits(s, m, "PUBACK") \/ Awaits(s, m, "PUBREC")
                  /\ Has(r, "PUBREL", m) <=> Awaits(s, m, "PUBCOMP")
                  /\ \A type \in Steps : ~Has(r, type, m)
                  /\ PublishFirst(r, m)
<1> SUFFICES ASSUME NEW m
             PROVE  /\ Has(r, "PUBLISH", m) <=> Awaits(s, m, "PUBACK") \/ Awaits(s, m, "PUBREC")
                    /\ Has(r, "PUBREL", m) <=> Awaits(s, m, "PUBCOMP")
                    /\ \A type \in Steps : ~Has(r, type, m)
                    /\ PublishFirst(r, m)
  BY Zenon
<1>1. Len(s) \in Nat /\ \A i \in 1 .. Len(s) : s[i] \in Entries
  OBVIOUS
<1>2. ASSUME NEW i \in 1 .. Len(s)
      PROVE  /\ s[i].id = m => s[i] = Awaiting(m, s[i].next)
             /\ s[i].next \in {"PUBACK", "PUBREC", "PUBCOMP"}
  BY <1>1 DEF Entries, Awaiting, Steps
<1>3. \A type : Awaiting(m, type).id = m /\ Awaiting(m, type).next = type
  BY DEF Awaiting
<1>4. "PUBLISH" # "PUBREL" /\ "PUBACK" # "PUBCOMP" /\ "PUBREC" # "PUBCOMP"
  OBVIOUS
<1>5. ASSUME Has(r, "PUBLISH", m) PROVE Awaits(s, m, "PUBACK") \/ Awaits(s, m, "PUBREC")
  <2>1. PICK i \in 1 .. Len(s) : r[i].type = "PUBLISH" /\ r[i].id = m
    BY Zenon, <1>5 DEF Has
  <2>2. s[i].id = m /\ s[i].next # "PUBCOMP"
    BY Zenon, <1>4, <2>1
  <2>3. s[i] = Awaiting(m, s[i].next) /\ (s[i].next = "PUBACK" \/ s[i].next = "PUBREC")
    BY Zenon, <1>2, <2>2
  <2> QED
    BY Zenon, <2>3 DEF Awaits
<1>6. ASSUME Awaits(s, m, "PUBACK") \/ Awaits(s, m, "PUBREC") PROVE Has(r, "PUBLISH", m)
  <2>1. PICK i \in 1 .. Len(s) : s[i] = Awaiting(m, "PUBACK") \/ s[i] = Awaiting(m, "PUBREC")
    BY Zenon, <1>6 DEF Awaits
  <2>2. s[i].id = m /\ s[i].next # "PUBCOMP"
    BY Zenon, <1>3, <1>4, <2>1
  <2> QED
    BY Zenon, <2>2 DEF Has
<1>7. ASSUME Has(r, "PUBREL", m) PROVE Awaits(s, m, "PUBCOMP")
  <2>1. PICK i \in 1 .. Len(s) : r[i].type = "PUBREL" /\ r[i].id = m
    BY Zenon, <1>7 DEF Has
  <2>2. s[i].id = m /\ s[i].next = "PUBCOMP"
    BY Zenon, <1>4, <2>1
  <2>3. s[i] = Awaiting(m, "PUBCOMP")
    BY Zenon, <1>2, <2>2
  <2> QED
    BY Zenon, <2>3 DEF Awaits
<1>8. ASSUME Awaits(s, m, "PUBCOMP") PROVE Has(r, "PUBREL", m)
  <2>1. PICK i \in 1 .. Len(s) : s[i] = Awaiting(m, "PUBCOMP")
    BY Zenon, <1>8 DEF Awaits
  <2>2. s[i].id = m /\ s[i].next = "PUBCOMP"
    BY Zenon, <1>3, <2>1
  <2> QED
    BY Zenon, <2>2 DEF Has
<1>9. \A type \in Steps : ~Has(r, type, m)
  <2>1. \A type \in Steps : type # "PUBLISH" /\ type # "PUBREL"
    BY DEF Steps
  <2> QED
    BY Zenon, <2>1 DEF Has
<1>10. PublishFirst(r, m)
  <2>1. ~(Has(r, "PUBLISH", m) /\ Has(r, "PUBREL", m))
    BY Zenon, <1>4, <1>5, <1>7, AwaitsOne
  <2> QED
    BY Zenon, <2>1 DEF PublishFirst, Has
<1> QED
  BY Zenon, <1>5, <1>6, <1>7, <1>8, <1>9, <1>10

(* What MQTTProtocol_retries writes for a list of messages.                *)
LEMMA RepeatedIs ==
    ASSUME NEW s \in Seq(Entries)
    PROVE  /\ Repeated(s) \in Seq(Packets) /\ Len(Repeated(s)) = Len(s)
           /\ \A i \in 1 .. Len(s) :
                 /\ Repeated(s)[i].id = s[i].id
                 /\ Repeated(s)[i].type = IF s[i].next = "PUBCOMP" THEN "PUBREL" ELSE "PUBLISH"
<1> DEFINE p(i) == Packet(IF s[i].next = "PUBCOMP" THEN "PUBREL" ELSE "PUBLISH", s[i].id)
<1>1. Len(s) \in Nat /\ \A i \in 1 .. Len(s) : s[i] \in Entries
  OBVIOUS
<1>2. ASSUME NEW i \in 1 .. Len(s)
      PROVE  /\ p(i) \in Packets /\ p(i).id = s[i].id
             /\ p(i).type = IF s[i].next = "PUBCOMP" THEN "PUBREL" ELSE "PUBLISH"
  BY <1>1 DEF Packets, Packet, Entries
<1> HIDE DEF p
<1>3. [i \in 1 .. Len(s) |-> p(i)] \in Seq(Packets) /\ Len([i \in 1 .. Len(s) |-> p(i)]) = Len(s)
  BY <1>1, <1>2
<1>4. Repeated(s) = [i \in 1 .. Len(s) |-> p(i)]
  BY Zenon DEF Repeated, p
<1> QED
  BY Zenon, <1>2, <1>3, <1>4

(* What the broker repeats.                                                *)
LEMMA BrokerRepeatsIs ==
    ASSUME sending \in Seq(Entries), DupPubrel \in BOOLEAN
    PROVE  /\ BrokerRepeats \in Seq(Packets) /\ Len(BrokerRepeats) = Len(sending)
           /\ \A i \in 1 .. Len(sending) :
                 /\ BrokerRepeats[i].id = sending[i].id
                 /\ BrokerRepeats[i].type = IF sending[i].next = "PUBCOMP" THEN "PUBREL" ELSE "PUBLISH"
<1> DEFINE type(i) == IF sending[i].next = "PUBCOMP" THEN "PUBREL" ELSE "PUBLISH"
           dup(i) == DupPubrel /\ sending[i].next = "PUBCOMP"
           p(i) == [type |-> type(i), id |-> sending[i].id, dup |-> dup(i)]
<1>1. Len(sending) \in Nat /\ \A i \in 1 .. Len(sending) : sending[i] \in Entries
  OBVIOUS
<1>2. ASSUME NEW i \in 1 .. Len(sending)
      PROVE  p(i) \in Packets /\ p(i).id = sending[i].id /\ p(i).type = type(i)
  <2>1. dup(i) \in BOOLEAN
    BY Zenon
  <2>2. type(i) \in {"PUBLISH", "PUBREL"} \cup Steps /\ sending[i].id \in Nat
    BY <1>1 DEF Entries
  <2> HIDE DEF dup, type
  <2> QED
    BY <2>1, <2>2 DEF Packets
<1> HIDE DEF p
<1>3. /\ [i \in 1 .. Len(sending) |-> p(i)] \in Seq(Packets)
      /\ Len([i \in 1 .. Len(sending) |-> p(i)]) = Len(sending)
  BY <1>1, <1>2
<1>4. BrokerRepeats = [i \in 1 .. Len(sending) |-> p(i)]
  BY Zenon DEF BrokerRepeats, p
<1> QED
  BY Zenon, <1>2, <1>3, <1>4

(* Some messages of a list, in its order.                                  *)
LEMMA SomeOf ==
    ASSUME NEW s \in Seq(Entries), InOrder(s), NEW n \in 1 .. Len(s), NEW f \in Rising(n, Len(s)),
           NEW r, r = [i \in 1 .. n |-> s[f[i]]]
    PROVE  /\ r \in Seq(Entries) /\ InOrder(r)
           /\ \A m, type : Awaits(r, m, type) => Awaits(s, m, type)
<1>1. /\ \A i \in 1 .. n : f[i] \in 1 .. Len(s)
      /\ \A i, j \in 1 .. n : i < j => f[i] < f[j]
  BY Zenon DEF Rising
<1>2. n \in Nat /\ \A i \in 1 .. n : s[f[i]] \in Entries
  BY <1>1
<1>3. r \in Seq(Entries) /\ Len(r) = n /\ \A i \in 1 .. n : r[i] = s[f[i]]
  BY <1>2
<1>4. InOrder(r)
  BY Zenon, <1>1, <1>3 DEF InOrder
<1>5. \A m, type : Awaits(r, m, type) => Awaits(s, m, type)
  BY Zenon, <1>1, <1>3 DEF Awaits
<1> QED
  BY Zenon, <1>3, <1>4, <1>5

(* The first messages of a list.                                           *)
LEMMA PrefixOf ==
    ASSUME NEW s \in Seq(Entries), InOrder(s), NEW k \in 0 .. Len(s), NEW r, r = SubSeq(s, 1, k)
    PROVE  /\ r \in Seq(Entries) /\ InOrder(r) /\ Len(r) = k
           /\ \A i \in 1 .. k : i \in 1 .. Len(s) /\ r[i] = s[i]
           /\ \A m, type : Awaits(r, m, type) => Awaits(s, m, type)
<1>1. r \in Seq(Entries) /\ Len(r) = k /\ \A i \in 1 .. k : i \in 1 .. Len(s) /\ r[i] = s[i]
  OBVIOUS
<1>2. InOrder(r)
  BY Zenon, <1>1 DEF InOrder
<1>3. \A m, type : Awaits(r, m, type) => Awaits(s, m, type)
  BY Zenon, <1>1 DEF Awaits
<1> QED
  BY Zenon, <1>1, <1>2, <1>3

-----------------------------------------------------------------------------
(* Types.                                                                  *)

(* What the assumption on the scenarios gives.                             *)
LEMMA ScenarioTypes ==
    ASSUME scenario \in Scenarios
    PROVE  /\ Len(OutQos) \in Nat /\ \A m \in Out : m \in Nat /\ m >= 1 /\ OutQos[m] \in 0 .. 2
           /\ Len(InQos) \in Nat /\ \A m \in In : m \in Nat /\ m >= 1 /\ InQos[m] \in 0 .. 2
           /\ DupPubrel \in BOOLEAN /\ MayInterrupt \in BOOLEAN
<1>1. OutQos \in Seq(0 .. 2) /\ InQos \in Seq(0 .. 2)
  BY DeliveryAssumption DEF OutQos, InQos
<1>2. DupPubrel \in BOOLEAN /\ MayInterrupt \in BOOLEAN
  BY DeliveryAssumption DEF DupPubrel, MayInterrupt
<1> QED
  BY <1>1, <1>2 DEF Out, In

(* No step changes the scenario.                                           *)
LEMMA Steady ==
    ASSUME scenario' = scenario
    PROVE  /\ OutQos' = OutQos /\ InQos' = InQos /\ Out' = Out /\ In' = In
           /\ DupPubrel' = DupPubrel /\ MayInterrupt' = MayInterrupt
BY Zenon DEF OutQos, InQos, Out, In, DupPubrel, MayInterrupt

(* The fields of a packet.                                                 *)
LEMMA PacketIs ==
    ASSUME NEW type, NEW id
    PROVE  /\ Packet(type, id).type = type /\ Packet(type, id).id = id
           /\ type \in {"PUBLISH", "PUBREL"} \cup Steps /\ id \in Nat => Packet(type, id) \in Packets
BY DEF Packet, Packets

(* A counter is raised and the others stay.                                *)
LEMMA BumpIs ==
    ASSUME NEW S, NEW f \in [S -> Nat], NEW id
    PROVE  /\ Bump(f, id) \in [S -> Nat]
           /\ \A m \in S : Bump(f, id)[m] = IF m = id THEN f[m] + 1 ELSE f[m]
<1>1. Bump(f, id) = [m \in S |-> IF m = id THEN f[id] + 1 ELSE f[m]]
  BY Zenon DEF Bump
<1>2. \A m \in S : (IF m = id THEN f[id] + 1 ELSE f[m]) \in Nat
  OBVIOUS
<1> QED
  BY <1>1, <1>2

(* The empty sequence.                                                     *)
LEMMA NoneIsSeq == \A T : <<>> \in Seq(T)
OBVIOUS

(* A packet appended to a sequence of packets.                             *)
LEMMA AppendPacket == ASSUME NEW s \in Seq(Packets), NEW p \in Packets PROVE Append(s, p) \in Seq(Packets)
OBVIOUS

(* The first packet of a channel.                                          *)
LEMMA HeadIs ==
    ASSUME NEW s \in Seq(Packets), s # <<>>
    PROVE  /\ Head(s).id \in Nat /\ Head(s).type \in {"PUBLISH", "PUBREL"} \cup Steps
           /\ Head(s).dup \in BOOLEAN /\ Has(s, Head(s).type, Head(s).id) /\ Tail(s) \in Seq(Packets)
<1>1. Head(s) \in Packets /\ Tail(s) \in Seq(Packets) /\ Has(s, Head(s).type, Head(s).id)
  BY Zenon, HasTail
<1> QED
  BY <1>1 DEF Packets

(* The queue of publications when one is appended and when one is taken.   *)
LEMMA QueueAppend ==
    ASSUME DeliveryTypes, next' = next + 1, publications' = Append(publications, next)
    PROVE  /\ publications' \in Seq(Nat) /\ Turn' = Turn
           /\ \A k \in 1 .. Len(publications') : publications'[k] = Turn - 1 + k
<1>1. next \in Nat /\ publications \in Seq(Nat) /\ Turn \in Int
      /\ \A k \in 1 .. Len(publications) : publications[k] = Turn - 1 + k
  BY ScenarioTypes DEF DeliveryTypes, Turn
<1>2. publications' \in Seq(Nat) /\ Len(publications') = Len(publications) + 1
      /\ publications'[Len(publications) + 1] = next
      /\ \A k \in 1 .. Len(publications) : publications'[k] = publications[k]
  BY <1>1
<1>3. Turn' = Turn /\ next = Turn + Len(publications)
  BY <1>1, <1>2 DEF Turn
<1> QED
  BY <1>1, <1>2, <1>3

(* The send thread takes the first publication of the queue, which is      *)
(* Turn.                                                                   *)
LEMMA QueueTail ==
    ASSUME DeliveryTypes, next' = next, publications # <<>>, publications' = Tail(publications)
    PROVE  /\ publications' \in Seq(Nat) /\ Turn' = Turn + 1 /\ Turn' >= 1
           /\ Head(publications) = Turn /\ Turn \in Out /\ Turn \in Nat
           /\ \A k \in 1 .. Len(publications') : publications'[k] = Turn' - 1 + k
<1>1. next \in 1 .. Len(OutQos) + 1 /\ Len(OutQos) \in Nat /\ publications \in Seq(Nat) /\ Turn >= 1
      /\ \A k \in 1 .. Len(publications) : publications[k] = Turn - 1 + k
  BY ScenarioTypes DEF DeliveryTypes
<1>2. publications' \in Seq(Nat) /\ Len(publications') = Len(publications) - 1 /\ Len(publications) >= 1
      /\ Head(publications) = publications[1] /\ Len(publications) \in Nat
      /\ \A k \in 1 .. Len(publications') : publications'[k] = publications[k + 1]
  BY <1>1
<1>3. Turn' = Turn + 1 /\ Turn = next - Len(publications)
  BY <1>1, <1>2 DEF Turn
<1>4. Turn \in Nat /\ Turn \in Out
  BY <1>1, <1>2, <1>3 DEF Out
<1>5. Head(publications) = Turn
  BY <1>1, <1>2, <1>4
<1>6. ASSUME NEW k \in 1 .. Len(publications') PROVE publications'[k] = Turn' - 1 + k
  BY <1>1, <1>2, <1>3, <1>4
<1> QED
  BY <1>1, <1>2, <1>3, <1>4, <1>5, <1>6

(* Turn depends on the queue only.                                         *)
LEMMA TurnKept ==
    ASSUME next' = next, publications' = publications
    PROVE  Turn' = Turn
BY Zenon DEF Turn

(* A packet the socket has taken a part of stays or is gone.               *)
LEMMA CutKept ==
    ASSUME partial' = partial \/ partial' = <<>>
    PROVE  \A m : (Cut(m)' => Cut(m)) /\ (CutRelease(m)' => CutRelease(m))
BY Zenon DEF Cut, CutRelease, CutOf

(* Turn is a number from 1 on.                                             *)
LEMMA TurnIsInt == DeliveryTypes => Turn \in Nat /\ Turn >= 1
BY ScenarioTypes DEF DeliveryTypes, Turn

-----------------------------------------------------------------------------
(* Steps that leave a part of the invariant alone.                         *)

SenderFor(m) == UnsentInv(m) /\ OnceInv(m) /\ AckInv(m) /\ ExactInv(m)

(* A step that does not touch message m, but may lose packets of it.       *)
LEMMA QuietFor ==
    ASSUME NEW m, SenderFor(m), OutQos'[m] = OutQos[m],
           m >= Turn' => m >= Turn, m < Turn' => m < Turn,
           \A type : Awaits(outbound', m, type) <=> Awaits(outbound, m, type),
           m \in Ids(outbound') <=> m \in Ids(outbound),
           published'[m] = published[m], m \in held' <=> m \in held,
           Cut(m)' => Cut(m), CutRelease(m)' => CutRelease(m), link' = "up" => link = "up",
           Has(toBroker', "PUBLISH", m) => Has(toBroker, "PUBLISH", m),
           Has(toBroker', "PUBREL", m) => Has(toBroker, "PUBREL", m),
           \A type \in Steps : Has(toHub', type, m) => Has(toHub, type, m),
           PublishFirst(toBroker, m) => PublishFirst(toBroker', m),
           PublishOnce(toBroker, m) => PublishOnce(toBroker', m)
    PROVE  SenderFor(m)'
<1>1. "PUBACK" \in Steps /\ "PUBREC" \in Steps /\ "PUBCOMP" \in Steps
  BY DEF Steps
<1>2. UnsentInv(m)'
  BY Zenon DEF SenderFor, UnsentInv
<1>3. OnceInv(m)'
  BY Zenon DEF SenderFor, OnceInv
<1>4. AckInv(m)'
  BY Zenon, <1>1 DEF SenderFor, AckInv
<1>5. ExactInv(m)'
  BY ZenonT(30), <1>1 DEF SenderFor, ExactInv
<1> QED
  BY Zenon, <1>2, <1>3, <1>4, <1>5 DEF SenderFor

(* A step that does not touch the hub's messages.                          *)
LEMMA QuietSender ==
    ASSUME RightQos, SenderInv, scenario' = scenario, Turn' = Turn, outbound' = outbound,
           published' = published, held' = held, partial' = partial \/ partial' = <<>>,
           link' = "up" => link = "up",
           \A m : /\ Has(toBroker', "PUBLISH", m) => Has(toBroker, "PUBLISH", m)
                  /\ Has(toBroker', "PUBREL", m) => Has(toBroker, "PUBREL", m)
                  /\ \A type \in Steps : Has(toHub', type, m) => Has(toHub, type, m)
                  /\ PublishFirst(toBroker, m) => PublishFirst(toBroker', m)
                  /\ PublishOnce(toBroker, m) => PublishOnce(toBroker', m)
    PROVE  RightQos' /\ SenderInv'
<1>1. OutQos' = OutQos /\ Out' = Out
  BY Zenon, Steady
<1>2. "PUBACK" \in Steps /\ "PUBREC" \in Steps /\ "PUBCOMP" \in Steps
  BY DEF Steps
<1>3. RightQos'
  BY ZenonT(30), <1>1, <1>2 DEF RightQos
<1>4. ASSUME NEW m \in Out PROVE SenderFor(m)'
  BY ZenonT(30), <1>1, CutKept, QuietFor DEF SenderInv, SenderFor
<1> QED
  BY Zenon, <1>1, <1>3, <1>4 DEF SenderInv, SenderFor

(* A step that loses all packets.                                          *)
LEMMA QuietOrderDown ==
    ASSUME OrderInv, scenario' = scenario, skipped' = skipped, published' = published, link' # "up",
           toBroker' = <<>>
    PROVE  OrderInv'
<1>1. OutQos' = OutQos /\ Out' = Out
  BY Zenon, Steady
<1>2. OrderKept'
  BY Zenon, <1>1 DEF OrderInv, OrderKept
<1>3. \A k : k \notin 1 .. Len(toBroker')
  OBVIOUS
<1>4. Fifo(toBroker)'
  BY Zenon, <1>3 DEF Fifo
<1> QED
  BY Zenon, <1>2, <1>4 DEF OrderInv

(* The order of a channel depends on what is published only.               *)
LEMMA FifoKept ==
    ASSUME Fifo(toBroker'), scenario' = scenario, skipped' = skipped, published' = published
    PROVE  Fifo(toBroker)'
<1>1. OutQos' = OutQos /\ Out' = Out
  BY Zenon, Steady
<1> QED
  BY Zenon, <1>1 DEF Fifo, Ordered

(* A step that publishes nothing and neither adds nor takes publications.  *)
LEMMA QuietOrder ==
    ASSUME OrderInv, scenario' = scenario, skipped' = skipped, Turn' = Turn, published' = published,
           link' = link, partial' = partial \/ \A m : ~Cut(m),
           \A m : Has(toBroker, "PUBLISH", m) => Has(toBroker', "PUBLISH", m),
           Fifo(toBroker) => Fifo(toBroker')
    PROVE  OrderInv'
<1>1. OutQos' = OutQos /\ Out' = Out
  BY Zenon, Steady
<1>2. OrderKept'
  BY Zenon, <1>1 DEF OrderInv, OrderKept
<1>3. Fifo(toBroker) => Fifo(toBroker)'
  BY Zenon, FifoKept
<1>4. \A m : Cut(m) => Cut(m)'
  BY Zenon DEF Cut, CutOf
<1> QED
  BY Zenon, <1>1, <1>2, <1>3, <1>4 DEF OrderInv, Ordered

(* A publication is appended after those that go before it.                *)
LEMMA FifoAppend ==
    ASSUME NEW s \in Seq(Packets), NEW p \in Packets, Fifo(s),
           p.type = "PUBLISH" /\ OutQos[p.id] > 0 =>
               \A i \in Out : i < p.id /\ Ordered(i) => published[i] >= 1 \/ Has(s, "PUBLISH", i)
    PROVE  Fifo(Append(s, p))
<1> DEFINE r == Append(s, p)
<1>1. Len(s) \in Nat /\ Len(r) = Len(s) + 1 /\ r[Len(s) + 1] = p
      /\ \A k \in 1 .. Len(s) : r[k] = s[k] /\ \A l \in 1 .. k - 1 : l \in 1 .. Len(s)
  OBVIOUS
<1>2. \A k \in 1 .. Len(r) : k \in 1 .. Len(s) \/ k = Len(s) + 1
  BY <1>1
<1>3. \A l \in 1 .. Len(s) : l \in 1 .. (Len(s) + 1) - 1
  BY <1>1
<1> HIDE DEF r
<1>4. SUFFICES ASSUME NEW k \in 1 .. Len(r), NEW i \in Out, r[k].type = "PUBLISH", i < r[k].id,
                      Ordered(i), OutQos[r[k].id] > 0
               PROVE  published[i] >= 1 \/ \E l \in 1 .. k - 1 : r[l].type = "PUBLISH" /\ r[l].id = i
  BY Zenon DEF Fifo, r
<1>5. CASE k \in 1 .. Len(s)
  <2>1. r[k] = s[k] /\ \A l \in 1 .. k - 1 : r[l] = s[l]
    BY Zenon, <1>1, <1>5
  <2>2. published[i] >= 1 \/ \E l \in 1 .. k - 1 : s[l].type = "PUBLISH" /\ s[l].id = i
    BY Zenon, <1>4, <1>5, <2>1 DEF Fifo
  <2> QED
    BY Zenon, <2>1, <2>2
<1>6. CASE k = Len(s) + 1
  BY Zenon, <1>1, <1>3, <1>4, <1>6 DEF Has
<1> QED
  BY Zenon, <1>2, <1>5, <1>6

(* The publication taken from the channel is published.                    *)
LEMMA FifoTail ==
    ASSUME NEW s \in Seq(Packets), s # <<>>, Fifo(s),
           Head(s).type = "PUBLISH" /\ Head(s).id \in Out => published[Head(s).id] >= 1
    PROVE  Fifo(Tail(s))
<1> DEFINE r == Tail(s)
           h == Head(s)
<1>1. /\ Len(s) \in Nat /\ h = s[1]
      /\ \A k \in 1 .. Len(r) : k + 1 \in 1 .. Len(s) /\ r[k] = s[k + 1]
      /\ \A k \in 1 .. Len(r) : \A l \in 1 .. (k + 1) - 1 : l = 1 \/ (l - 1 \in 1 .. k - 1 /\ s[l] = r[l - 1])
  <2>1. Len(s) \in Nat /\ h = s[1] /\ Len(r) = Len(s) - 1 /\ \A k \in 1 .. Len(r) : r[k] = s[k + 1]
    OBVIOUS
  <2> HIDE DEF h, r
  <2> QED
    BY <2>1
<1> HIDE DEF r, h
<1>2. SUFFICES ASSUME NEW k \in 1 .. Len(r), NEW i \in Out, r[k].type = "PUBLISH", i < r[k].id,
                      Ordered(i), OutQos[r[k].id] > 0
               PROVE  published[i] >= 1 \/ \E l \in 1 .. k - 1 : r[l].type = "PUBLISH" /\ r[l].id = i
  BY Zenon DEF Fifo, r
<1>3. published[i] >= 1 \/ \E l \in 1 .. (k + 1) - 1 : s[l].type = "PUBLISH" /\ s[l].id = i
  <2>1. k + 1 \in 1 .. Len(s) /\ r[k] = s[k + 1]
    BY Zenon, <1>1
  <2>2. s[k + 1].type = "PUBLISH" /\ i < s[k + 1].id /\ OutQos[s[k + 1].id] > 0
    BY Zenon, <1>2, <2>1
  <2> QED
    BY Zenon, <1>2, <2>1, <2>2 DEF Fifo
<1>4. ASSUME NEW l \in 1 .. (k + 1) - 1, s[l].type = "PUBLISH", s[l].id = i
      PROVE  published[i] >= 1 \/ \E j \in 1 .. k - 1 : r[j].type = "PUBLISH" /\ r[j].id = i
  <2>1. CASE l = 1
    BY Zenon, <1>1, <1>4, <2>1 DEF h
  <2>2. CASE l # 1
    BY Zenon, <1>1, <1>4, <2>2
  <2> QED
    BY Zenon, <2>1, <2>2
<1> QED
  BY Zenon, <1>3, <1>4

(* A step that tells nothing and acknowledges nothing to the end.          *)
LEMMA QuietTell ==
    ASSUME TellInv, scenario' = scenario, Turn' = Turn, responses' = responses,
           succeeded' = succeeded, failed' = failed,
           \A m \in Out : published[m] >= 1 => published'[m] >= 1,
           \A m : m \in Ids(outbound) => m \in Ids(outbound')
    PROVE  TellInv'
<1>1. OutQos' = OutQos /\ Out' = Out /\ MayInterrupt' = MayInterrupt
  BY Zenon, Steady
<1>2. SuccessIsPublished'
  BY Zenon, <1>1 DEF TellInv, SuccessIsPublished
<1>3. \A m : Waits(m)' <=> Waits(m)
  BY Zenon DEF Waits
<1> QED
  BY ZenonT(30), <1>1, <1>2, <1>3 DEF TellInv

(* A step that does not touch the broker's message m, but may lose packets *)
(* of it.                                                                  *)
LEMMA QuietFrom ==
    ASSUME NEW m, ReceiverFor(m), InQos'[m] = InQos[m],
           m >= nextIn' => m >= nextIn, m < nextIn' => m < nextIn,
           \A type : Awaits(sending', m, type) <=> Awaits(sending, m, type),
           m \in Ids(sending') <=> m \in Ids(sending),
           arrived'[m] = arrived[m], m \in inbound' <=> m \in inbound,
           Has(toHub', "PUBLISH", m) => Has(toHub, "PUBLISH", m),
           Has(toHub', "PUBREL", m) => Has(toHub, "PUBREL", m),
           \A type \in Steps : Has(toBroker', type, m) => Has(toBroker, type, m),
           PublishFirst(toHub, m) => PublishFirst(toHub', m),
           PublishOnce(toHub, m) => PublishOnce(toHub', m)
    PROVE  ReceiverFor(m)'
<1>1. "PUBACK" \in Steps /\ "PUBREC" \in Steps /\ "PUBCOMP" \in Steps
  BY DEF Steps
<1> QED
  BY ZenonT(60), <1>1 DEF ReceiverFor

(* A step that does not touch the broker's messages.                       *)
LEMMA QuietReceiver ==
    ASSUME BrokerQos, ReceiverInv, scenario' = scenario, nextIn' = nextIn, sending' = sending,
           arrived' = arrived, inbound' = inbound,
           \A m : /\ Has(toHub', "PUBLISH", m) => Has(toHub, "PUBLISH", m)
                  /\ Has(toHub', "PUBREL", m) => Has(toHub, "PUBREL", m)
                  /\ \A type \in Steps : Has(toBroker', type, m) => Has(toBroker, type, m)
                  /\ PublishFirst(toHub, m) => PublishFirst(toHub', m)
                  /\ PublishOnce(toHub, m) => PublishOnce(toHub', m)
    PROVE  BrokerQos' /\ ReceiverInv'
<1>1. InQos' = InQos /\ In' = In
  BY Zenon, Steady
<1>2. "PUBACK" \in Steps /\ "PUBREC" \in Steps /\ "PUBCOMP" \in Steps
  BY DEF Steps
<1>3. BrokerQos'
  BY ZenonT(30), <1>1, <1>2 DEF BrokerQos
<1>4. ASSUME NEW m \in In PROVE ReceiverFor(m)'
  BY ZenonT(30), <1>1, QuietFrom DEF ReceiverInv
<1> QED
  BY Zenon, <1>1, <1>3, <1>4 DEF ReceiverInv

-----------------------------------------------------------------------------
(* One lemma for each action: it keeps the invariant.                      *)

(* MQTTAsync_send queues a publication.                                    *)
LEMMA SendKeeps == ASSUME DeliveryInv, Send PROVE DeliveryInv'
<1>1. /\ scenario' = scenario /\ skipped' = skipped /\ link' = link /\ publisher' = publisher /\ outbound' = outbound
      /\ inbound' = inbound /\ responses' = responses /\ pendingWrite' = pendingWrite
      /\ partial' = partial /\ succeeded' = succeeded /\ failed' = failed /\ arrived' = arrived
      /\ toBroker' = toBroker /\ toHub' = toHub /\ published' = published /\ held' = held
      /\ nextIn' = nextIn /\ sending' = sending
      /\ next \in Out /\ next' = next + 1 /\ publications' = Append(publications, next)
  BY DEF Send, session, callbacks, channels, broker, setting
<1>2. DeliveryTypes
  BY Zenon DEF DeliveryInv
<1>3. publications' \in Seq(Nat) /\ Turn' = Turn
      /\ \A k \in 1 .. Len(publications') : publications'[k] = Turn - 1 + k
  BY Zenon, <1>1, <1>2, QueueAppend
<1>4. OutQos' = OutQos /\ InQos' = InQos /\ Out' = Out /\ In' = In /\ MayInterrupt' = MayInterrupt
  BY Zenon, <1>1, Steady
<1>5. next' \in 1 .. Len(OutQos) + 1
  BY <1>1, <1>2, ScenarioTypes DEF Out, DeliveryTypes
<1>6. DeliveryTypes'
  BY ZenonT(30), <1>1, <1>2, <1>3, <1>4, <1>5 DEF DeliveryTypes
<1>7. RightQos' /\ SenderInv'
  BY Zenon, <1>1, <1>3, QuietSender DEF DeliveryInv
<1>8. OrderInv'
  BY Zenon, <1>1, <1>3, QuietOrder DEF DeliveryInv
<1>9. TellInv'
  BY Zenon, <1>1, <1>3, QuietTell DEF DeliveryInv
<1>10. BrokerQos' /\ ReceiverInv'
  BY Zenon, <1>1, QuietReceiver DEF DeliveryInv
<1> QED
  BY Zenon, <1>6, <1>7, <1>8, <1>9, <1>10 DEF DeliveryInv

(* The send thread notes the write that is under way.                      *)
LEMMA PublishFlagsKeeps == ASSUME DeliveryInv, PublishFlags PROVE DeliveryInv'
<1>1. /\ scenario' = scenario /\ skipped' = skipped /\ link' = link /\ next' = next /\ publications' = publications
      /\ outbound' = outbound /\ inbound' = inbound /\ responses' = responses
      /\ partial' = partial /\ succeeded' = succeeded /\ failed' = failed /\ arrived' = arrived
      /\ toBroker' = toBroker /\ toHub' = toHub /\ published' = published /\ held' = held
      /\ nextIn' = nextIn /\ sending' = sending
      /\ publisher.at = "written" /\ publisher' = [publisher EXCEPT !.at = "flagged"]
      /\ pendingWrite' = IF OutQos[publisher.id] = 0 THEN publisher.id ELSE pendingWrite
  BY DEF PublishFlags, session, callbacks, channels, broker, setting
<1>2. DeliveryTypes
  BY Zenon DEF DeliveryInv
<1>3. Turn' = Turn
  BY Zenon, <1>1, TurnKept
<1>4. OutQos' = OutQos /\ InQos' = InQos /\ Out' = Out /\ In' = In /\ MayInterrupt' = MayInterrupt
  BY Zenon, <1>1, Steady
<1>5. publisher \in [at : {"written", "flagged"}, id : Out] /\ publisher # Idle
  BY <1>1, <1>2 DEF DeliveryTypes, Idle, Disconnecting
<1>6. publisher.id \in Out /\ publisher' \in [at : {"written", "flagged"}, id : Out]
  BY <1>1, <1>5
<1>7. MayInterrupt /\ (pendingWrite # 0 => pendingWrite \in Out /\ OutQos[pendingWrite] = 0)
  BY Zenon, <1>2, <1>5 DEF DeliveryTypes
<1>8. pendingWrite' # 0 => pendingWrite' \in Out /\ OutQos[pendingWrite'] = 0
  BY Zenon, <1>1, <1>6, <1>7
<1>9. DeliveryTypes'
  BY ZenonT(30), <1>1, <1>2, <1>3, <1>4, <1>6, <1>7, <1>8 DEF DeliveryTypes
<1>10. RightQos' /\ SenderInv'
  BY Zenon, <1>1, <1>3, QuietSender DEF DeliveryInv
<1>11. OrderInv'
  BY Zenon, <1>1, <1>3, QuietOrder DEF DeliveryInv
<1>12. TellInv'
  BY Zenon, <1>1, <1>3, QuietTell DEF DeliveryInv
<1>13. BrokerQos' /\ ReceiverInv'
  BY Zenon, <1>1, QuietReceiver DEF DeliveryInv
<1> QED
  BY Zenon, <1>9, <1>10, <1>11, <1>12, <1>13 DEF DeliveryInv

(* The send thread appends the command to the responses.                   *)
LEMMA PublishRespondsKeeps == ASSUME DeliveryInv, PublishResponds PROVE DeliveryInv'
<1>1. /\ scenario' = scenario /\ skipped' = skipped /\ link' = link /\ next' = next /\ publications' = publications
      /\ outbound' = outbound /\ inbound' = inbound /\ pendingWrite' = pendingWrite
      /\ partial' = partial /\ succeeded' = succeeded /\ failed' = failed /\ arrived' = arrived
      /\ toBroker' = toBroker /\ toHub' = toHub /\ published' = published /\ held' = held
      /\ nextIn' = nextIn /\ sending' = sending
      /\ publisher.at = "flagged" /\ publisher' = Idle
  BY DEF PublishResponds, session, callbacks, channels, broker, setting
<1>2. DeliveryTypes
  BY Zenon DEF DeliveryInv
<1>3. Turn' = Turn
  BY Zenon, <1>1, TurnKept
<1>4. OutQos' = OutQos /\ InQos' = InQos /\ Out' = Out /\ In' = In /\ MayInterrupt' = MayInterrupt
  BY Zenon, <1>1, Steady
<1>5. publisher # Idle
  BY <1>1 DEF Idle
<1>6. MayInterrupt
  BY Zenon, <1>2, <1>5 DEF DeliveryTypes
<1>7. publisher' = Idle'
  BY Zenon, <1>1 DEF Idle
<1>8. DeliveryTypes'
  BY ZenonT(30), <1>1, <1>2, <1>3, <1>4, <1>6, <1>7 DEF DeliveryTypes
<1>9. RightQos' /\ SenderInv'
  BY Zenon, <1>1, <1>3, QuietSender DEF DeliveryInv
<1>10. OrderInv'
  BY Zenon, <1>1, <1>3, QuietOrder DEF DeliveryInv
<1>11. TellInv'
  <2>1. SuccessIsPublished'
    BY Zenon, <1>1, <1>4 DEF DeliveryInv, TellInv, SuccessIsPublished
  <2> QED
    BY Zenon, <1>4, <1>6, <2>1 DEF TellInv
<1>12. BrokerQos' /\ ReceiverInv'
  BY Zenon, <1>1, QuietReceiver DEF DeliveryInv
<1> QED
  BY Zenon, <1>8, <1>9, <1>10, <1>11, <1>12 DEF DeliveryInv

(* MQTTAsync_closeSession drops what the socket had not written.           *)
LEMMA CloseKeeps == ASSUME DeliveryInv, Close PROVE DeliveryInv'
<1>1. /\ scenario' = scenario /\ skipped' = skipped /\ next' = next /\ publications' = publications
      /\ outbound' = outbound /\ inbound' = inbound /\ responses' = responses
      /\ pendingWrite' = pendingWrite /\ succeeded' = succeeded /\ failed' = failed
      /\ arrived' = arrived /\ toBroker' = <<>> /\ toHub' = <<>> /\ publisher' = Idle
      /\ published' = published /\ held' = held /\ nextIn' = nextIn /\ sending' = sending
      /\ link' = "down" /\ partial' = <<>>
  BY DEF Close, session, callbacks, broker, setting
<1>2. DeliveryTypes
  BY Zenon DEF DeliveryInv
<1>3. Turn' = Turn
  BY Zenon, <1>1, TurnKept
<1>4. OutQos' = OutQos /\ InQos' = InQos /\ Out' = Out /\ In' = In /\ MayInterrupt' = MayInterrupt
  BY Zenon, <1>1, Steady
<1>5. link' # "up" /\ link' \in {"up", "broken", "down"}
  BY <1>1
<1>6. DeliveryTypes'
  BY ZenonT(30), <1>1, <1>2, <1>3, <1>4, <1>5, NoneIsSeq DEF DeliveryTypes
<1>7. RightQos' /\ SenderInv'
  BY ZenonT(30), <1>1, <1>3, <1>5, HasNone, QuietSender DEF DeliveryInv
<1>8. OrderInv'
  BY Zenon, <1>1, <1>5, QuietOrderDown DEF DeliveryInv
<1>9. TellInv'
  BY Zenon, <1>1, <1>3, QuietTell DEF DeliveryInv
<1>10. BrokerQos' /\ ReceiverInv'
  BY ZenonT(30), <1>1, HasNone, QuietReceiver DEF DeliveryInv
<1> QED
  BY Zenon, <1>6, <1>7, <1>8, <1>9, <1>10 DEF DeliveryInv

(* A lost connection loses the packets of both directions.                 *)
LEMMA LinkBreaksKeeps == ASSUME DeliveryInv, LinkBreaks PROVE DeliveryInv'
<1>1. /\ scenario' = scenario /\ skipped' = skipped /\ next' = next /\ publications' = publications
      /\ publisher' = publisher /\ outbound' = outbound /\ inbound' = inbound /\ responses' = responses
      /\ pendingWrite' = pendingWrite /\ partial' = partial /\ succeeded' = succeeded
      /\ failed' = failed /\ arrived' = arrived
      /\ published' = published /\ held' = held /\ nextIn' = nextIn /\ sending' = sending
      /\ link' = "broken" /\ toBroker' = <<>> /\ toHub' = <<>>
  BY DEF LinkBreaks, session, callbacks, broker
<1>2. DeliveryTypes
  BY Zenon DEF DeliveryInv
<1>3. Turn' = Turn
  BY Zenon, <1>1, TurnKept
<1>4. OutQos' = OutQos /\ InQos' = InQos /\ Out' = Out /\ In' = In /\ MayInterrupt' = MayInterrupt
  BY Zenon, <1>1, Steady
<1>5. link' # "up" /\ link' \in {"up", "broken", "down"}
  BY <1>1
<1>6. DeliveryTypes'
  BY ZenonT(30), <1>1, <1>2, <1>3, <1>4, <1>5, NoneIsSeq DEF DeliveryTypes
<1>7. RightQos' /\ SenderInv'
  BY ZenonT(30), <1>1, <1>3, <1>5, HasNone, QuietSender DEF DeliveryInv
<1>8. OrderInv'
  BY Zenon, <1>1, <1>5, QuietOrderDown DEF DeliveryInv
<1>9. TellInv'
  BY Zenon, <1>1, <1>3, QuietTell DEF DeliveryInv
<1>10. BrokerQos' /\ ReceiverInv'
  BY ZenonT(30), <1>1, HasNone, QuietReceiver DEF DeliveryInv
<1> QED
  BY Zenon, <1>6, <1>7, <1>8, <1>9, <1>10 DEF DeliveryInv

(* Beginning a publication.                                                *)
LEMMA StoredIs ==
    ASSUME DeliveryTypes, RightQos, Turn \in Out, Stored(Turn)
    PROVE  /\ outbound' \in Seq(Entries) /\ InOrder(outbound')
           /\ \A m, type : Awaits(outbound', m, type) <=>
                 \/ Awaits(outbound, m, type)
                 \/ m = Turn /\ OutQos[Turn] > 0 /\ type = FirstAck(OutQos[Turn])
           /\ \A m : m \in Ids(outbound') <=> m \in Ids(outbound) \/ (m = Turn /\ OutQos[Turn] > 0)
<1>1. outbound \in Seq(Entries) /\ InOrder(outbound) /\ Turn \in Nat /\ OutQos[Turn] \in 0 .. 2
      /\ \A m \in Ids(outbound) : m < Turn
  BY Zenon, ScenarioTypes DEF DeliveryTypes, RightQos
<1>2. CASE OutQos[Turn] = 0
  <2>1. outbound' = outbound /\ ~(OutQos[Turn] > 0)
    BY <1>2 DEF Stored
  <2> QED
    BY Zenon, <1>1, <2>1
<1>3. CASE OutQos[Turn] # 0
  <2>1. outbound' = Append(outbound, Awaiting(Turn, FirstAck(OutQos[Turn])))
    BY Zenon, <1>3 DEF Stored
  <2>2. FirstAck(OutQos[Turn]) \in Steps /\ OutQos[Turn] > 0
    BY <1>1, <1>3 DEF FirstAck, Steps
  <2> QED
    BY Zenon, <1>1, <2>1, <2>2, AppendEntry
<1> QED
  BY Zenon, <1>2, <1>3

(* The publication Turn is begun: its packet is on its way, cut or not     *)
(* written.                                                                *)
LEMMA BeginSender ==
    ASSUME DeliveryTypes, RightQos, SenderInv, scenario' = scenario, NEW id \in Out, id = Turn,
           Turn' = id + 1, Stored(id), published' = published, held' = held, toHub' = toHub, partial = <<>>,
           link' = link,
           \/ partial' = <<>> /\ toBroker' \in {toBroker, Append(toBroker, Packet("PUBLISH", id))}
           \/ partial' = <<Packet("PUBLISH", id)>> /\ toBroker' = toBroker
    PROVE  RightQos' /\ SenderInv'
<1>1. OutQos' = OutQos /\ Out' = Out /\ id \in Nat /\ toBroker \in Seq(Packets)
      /\ \A m \in Out : m \in Nat /\ OutQos[m] \in 0 .. 2
  BY Zenon, Steady, ScenarioTypes DEF DeliveryTypes
<1>2. /\ outbound' \in Seq(Entries) /\ InOrder(outbound')
      /\ \A m, type : Awaits(outbound', m, type) <=>
            \/ Awaits(outbound, m, type)
            \/ m = id /\ OutQos[id] > 0 /\ type = FirstAck(OutQos[id])
      /\ \A m : m \in Ids(outbound') <=> m \in Ids(outbound) \/ (m = id /\ OutQos[id] > 0)
  BY Zenon, StoredIs
<1>3. Packet("PUBLISH", id) \in Packets /\ Packet("PUBLISH", id).type = "PUBLISH"
      /\ Packet("PUBLISH", id).id = id /\ "PUBLISH" # "PUBREL"
  BY <1>1, PacketIs
<1>4. /\ published[id] = 0 /\ id \notin held /\ id \notin Ids(outbound)
      /\ ~Has(toBroker, "PUBLISH", id) /\ ~Has(toBroker, "PUBREL", id)
      /\ \A type \in Steps : ~Has(toHub, type, id)
  <2>1. id >= Turn
    BY <1>1
  <2> QED
    BY Zenon, <2>1 DEF SenderInv, UnsentInv
<1>5. ASSUME NEW m
      PROVE  /\ Has(toBroker', "PUBLISH", m) => Has(toBroker, "PUBLISH", m) \/ m = id
             /\ Has(toBroker', "PUBREL", m) => Has(toBroker, "PUBREL", m)
             /\ PublishFirst(toBroker, m) => PublishFirst(toBroker', m)
             /\ PublishOnce(toBroker, m) => PublishOnce(toBroker', m)
  <2>1. CASE toBroker' = toBroker
    BY Zenon, <2>1
  <2>2. CASE toBroker' = Append(toBroker, Packet("PUBLISH", id))
    <3> DEFINE p == Packet("PUBLISH", id)
    <3>1. p \in Packets /\ p.type = "PUBLISH" /\ p.id = id
      BY Zenon, <1>3
    <3> HIDE DEF p
    <3>2. /\ \A type : Has(Append(toBroker, p), type, m) <=> Has(toBroker, type, m) \/ (p.type = type /\ p.id = m)
          /\ PublishFirst(toBroker, m) /\ (p.type = "PUBLISH" /\ p.id = m => ~Has(toBroker, "PUBREL", m))
             => PublishFirst(Append(toBroker, p), m)
          /\ PublishOnce(toBroker, m) /\ (p.type = "PUBLISH" /\ p.id = m => ~Has(toBroker, "PUBLISH", m))
             => PublishOnce(Append(toBroker, p), m)
      BY Zenon, <1>1, <3>1, HasAppend
    <3>3. toBroker' = Append(toBroker, p)
      BY Zenon, <2>2 DEF p
    <3> QED
      BY Zenon, <1>3, <1>4, <3>1, <3>2, <3>3
  <2> QED
    BY Zenon, <2>1, <2>2
<1>6. \A m : (Cut(m)' => m = id /\ toBroker' = toBroker) /\ ~CutRelease(m)'
  <2>1. CASE partial' = <<>>
    BY Zenon, <2>1 DEF Cut, CutRelease, CutOf
  <2>2. CASE partial' = <<Packet("PUBLISH", id)>> /\ toBroker' = toBroker
    <3>1. partial'[1] = Packet("PUBLISH", id)
      BY <2>2
    <3> QED
      BY Zenon, <1>3, <2>2, <3>1 DEF Cut, CutRelease, CutOf
  <2> QED
    BY Zenon, <2>1, <2>2
<1>7. ASSUME NEW m \in Out, m # id PROVE SenderFor(m)'
  <2>1. m >= Turn' => m >= Turn
    BY <1>1
  <2>2. m < Turn' => m < Turn
    BY <1>1, <1>7
  <2>3. SenderFor(m) /\ OutQos'[m] = OutQos[m] /\ ~Cut(m)' /\ ~CutRelease(m)'
    <3>1. SenderFor(m)
      BY Zenon DEF SenderInv, SenderFor
    <3> QED
      BY Zenon, <1>1, <1>6, <1>7, <3>1
  <2>4. /\ \A type : Awaits(outbound', m, type) <=> Awaits(outbound, m, type)
        /\ m \in Ids(outbound') <=> m \in Ids(outbound)
    <3>1. ASSUME NEW type PROVE Awaits(outbound', m, type) <=> Awaits(outbound, m, type)
      BY Zenon, <1>2, <1>7
    <3>2. m \in Ids(outbound') <=> m \in Ids(outbound)
      BY Zenon, <1>2, <1>7
    <3> QED
      BY Zenon, <3>1, <3>2
  <2>5. /\ Has(toBroker', "PUBLISH", m) => Has(toBroker, "PUBLISH", m)
        /\ Has(toBroker', "PUBREL", m) => Has(toBroker, "PUBREL", m)
        /\ PublishFirst(toBroker, m) => PublishFirst(toBroker', m)
        /\ PublishOnce(toBroker, m) => PublishOnce(toBroker', m)
    BY Zenon, <1>5, <1>7
  <2> QED
    BY Zenon, <2>1, <2>2, <2>3, <2>4, <2>5, QuietFor
<1>8. SenderFor(id)'
  <2>1. ~(id >= Turn')
    BY <1>1
  <2>2. "PUBACK" \in Steps /\ "PUBREC" \in Steps /\ "PUBCOMP" \in Steps /\ "PUBREC" # "PUBCOMP"
    BY DEF Steps
  <2>3. /\ ~Has(toBroker', "PUBREL", id) /\ \A type \in Steps : ~Has(toHub', type, id)
        /\ published'[id] = 0 /\ id \notin held'
        /\ Cut(id)' => ~Has(toBroker', "PUBLISH", id)
        /\ ~CutRelease(id)' /\ OutQos'[id] = OutQos[id]
    BY Zenon, <1>1, <1>4, <1>5, <1>6
  <2>4. UnsentInv(id)'
    BY Zenon, <2>1 DEF UnsentInv
  <2>5. published'[id] <= 1 /\ ~(published'[id] = 1)
    BY <2>3
  <2>6. OnceInv(id)'
    <3>1. OutQos[id] = 0 => PublishOnce(toBroker', id)
      BY Zenon, <1>5 DEF SenderInv, OnceInv
    <3> QED
      BY Zenon, <2>3, <2>5, <3>1 DEF OnceInv
  <2>7. AckInv(id)'
    <3>1. OutQos[id] = 1 => id \in Ids(outbound')
      <4>1. OutQos[id] = 1 => OutQos[id] > 0
        OBVIOUS
      <4> QED
        BY Zenon, <1>2, <4>1
    <3> QED
      BY Zenon, <2>2, <2>3, <3>1 DEF AckInv
  <2>8. ExactInv(id)'
    <3>1. SUFFICES ASSUME OutQos[id] = 2 PROVE ExactInv(id)'
      BY Zenon, <2>3 DEF ExactInv
    <3>2. OutQos[id] > 0 /\ FirstAck(OutQos[id]) = "PUBREC"
      BY <3>1 DEF FirstAck
    <3>3. id \in Ids(outbound') /\ Awaits(outbound', id, "PUBREC")
      BY Zenon, <1>2, <3>2
    <3>4. ~Awaits(outbound', id, "PUBCOMP")
      BY Zenon, <1>2, <2>2, <3>3, AwaitsOne
    <3>5. PublishFirst(toBroker', id)
      BY Zenon, <1>5, <3>1 DEF SenderInv, ExactInv
    <3> QED
      BY ZenonT(30), <2>2, <2>3, <2>5, <3>3, <3>4, <3>5 DEF ExactInv
  <2> QED
    BY Zenon, <2>4, <2>6, <2>7, <2>8 DEF SenderFor
<1>9. SenderInv'
  BY Zenon, <1>1, <1>7, <1>8 DEF SenderInv, SenderFor
<1>10. RightQos'
  <2>1. \A m \in Ids(outbound') : m \in Out /\ m < Turn' /\ OutQos[m] > 0
    <3>1. ASSUME NEW m \in Ids(outbound) PROVE m \in Out /\ m < Turn' /\ OutQos[m] > 0
      <4>1. m \in Out /\ m < Turn /\ OutQos[m] > 0
        BY Zenon DEF RightQos
      <4> QED
        BY <1>1, <4>1
    <3>2. id < Turn'
      BY <1>1
    <3> QED
      BY Zenon, <1>2, <3>1, <3>2
  <2>2. /\ OutQos[id] > 0 /\ "PUBACK" = FirstAck(OutQos[id]) => OutQos[id] = 1
        /\ OutQos[id] > 0 /\ FirstAck(OutQos[id]) = "PUBREC" => OutQos[id] = 2
        /\ FirstAck(OutQos[id]) # "PUBCOMP"
    BY <1>1 DEF FirstAck
  <2>3. \A m : Awaits(outbound', m, "PUBACK") => OutQos[m] = 1
    <3>1. \A m : Awaits(outbound, m, "PUBACK") => OutQos[m] = 1
      BY Zenon DEF RightQos
    <3>2. ASSUME NEW m, Awaits(outbound', m, "PUBACK")
          PROVE  Awaits(outbound, m, "PUBACK") \/ (m = id /\ OutQos[id] = 1)
      BY Zenon, <1>2, <2>2, <3>2
    <3> QED
      BY Zenon, <3>1, <3>2
  <2>4. \A m : Awaits(outbound', m, "PUBREC") \/ Awaits(outbound', m, "PUBCOMP") => OutQos[m] = 2
    BY Zenon, <1>2, <2>2 DEF RightQos
  <2>5. /\ \A m : Has(toBroker', "PUBLISH", m) => m \in Out
        /\ \A m : Has(toBroker', "PUBREL", m) => m \in Out /\ OutQos[m] = 2
    BY Zenon, <1>5 DEF RightQos
  <2> QED
    BY ZenonT(30), <1>1, <1>2, <2>1, <2>3, <2>4, <2>5 DEF RightQos
<1> QED
  BY Zenon, <1>9, <1>10

(* MQTTAsync_processCommand takes a publication from the queue.            *)
LEMMA ProcessPublishKeeps == ASSUME DeliveryInv, ProcessPublish PROVE DeliveryInv'
<1>1. PICK id : id = Head(publications)
  BY Zenon
<1>2. /\ scenario' = scenario /\ skipped' = skipped /\ link' = link /\ next' = next /\ inbound' = inbound
      /\ arrived' = arrived /\ toHub' = toHub /\ published' = published /\ held' = held
      /\ nextIn' = nextIn /\ sending' = sending
      /\ publisher = Idle /\ link # "down" /\ partial = <<>> /\ publications # <<>>
      /\ publications' = Tail(publications) /\ Stored(id)
      /\ PublishWritten(id) \/ PublishFails(id) \/ PublishInterrupted(id)
  BY <1>1 DEF ProcessPublish, broker, setting
<1>3. DeliveryTypes /\ RightQos /\ SenderInv /\ OrderInv /\ TellInv /\ BrokerQos /\ ReceiverInv
  BY Zenon DEF DeliveryInv
<1>4. /\ publications' \in Seq(Nat) /\ Turn' = id + 1 /\ Turn' >= 1 /\ id = Turn /\ id \in Out /\ id \in Nat
      /\ \A k \in 1 .. Len(publications') : publications'[k] = Turn' - 1 + k
  BY Zenon, <1>1, <1>2, <1>3, QueueTail
<1>5. OutQos' = OutQos /\ InQos' = InQos /\ Out' = Out /\ In' = In /\ MayInterrupt' = MayInterrupt
  BY Zenon, <1>2, Steady
<1>6. /\ outbound' \in Seq(Entries) /\ InOrder(outbound')
      /\ \A m : m \in Ids(outbound') <=> m \in Ids(outbound) \/ (m = id /\ OutQos[id] > 0)
  BY Zenon, <1>2, <1>3, <1>4, StoredIs
<1>7. Packet("PUBLISH", id) \in Packets /\ Packet("PUBLISH", id).type = "PUBLISH"
      /\ Packet("PUBLISH", id).id = id
  BY <1>4, PacketIs
<1>8. /\ published \in [Out -> Nat] /\ succeeded \in [Out -> Nat] /\ failed \in [Out -> Nat]
      /\ toBroker \in Seq(Packets) /\ Len(OutQos) \in Nat
      /\ \A m \in Out : m \in Nat /\ OutQos[m] \in 0 .. 2
  BY Zenon, <1>3, ScenarioTypes DEF DeliveryTypes
<1>9. /\ Bump(succeeded, id) \in [Out -> Nat]
       /\ \A m \in Out : Bump(succeeded, id)[m] = IF m = id THEN succeeded[m] + 1 ELSE succeeded[m]
  <2>1. succeeded \in [Out -> Nat]
    BY Zenon, <1>8
  <2> QED
    BY <2>1, BumpIs
<1>10. /\ Bump(failed, id) \in [Out -> Nat]
       /\ \A m \in Out : Bump(failed, id)[m] = IF m = id THEN failed[m] + 1 ELSE failed[m]
  <2>1. failed \in [Out -> Nat]
    BY Zenon, <1>8
  <2> QED
    BY <2>1, BumpIs
<1>11. /\ published[id] = 0 /\ ~Has(toBroker, "PUBLISH", id) /\ id \notin Ids(outbound)
  <2>1. id >= Turn
    BY <1>4
  <2> QED
    BY Zenon, <1>3, <1>4, <2>1 DEF SenderInv, UnsentInv
<1>12. CASE PublishWritten(id)
  <2> DEFINE p == Packet("PUBLISH", id)
  <2>1. /\ toBroker' = IF link = "up" THEN Append(toBroker, p) ELSE toBroker
        /\ failed' = failed /\ pendingWrite' = pendingWrite /\ partial' = partial /\ publisher' = publisher
        /\ \/ OutQos[id] = 0 /\ succeeded' = Bump(succeeded, id) /\ responses' = responses
           \/ OutQos[id] # 0 /\ responses' = Append(responses, id) /\ succeeded' = succeeded
    BY Zenon, <1>12 DEF PublishWritten
  <2> HIDE DEF p
  <2>2. p \in Packets /\ p.type = "PUBLISH" /\ p.id = id
    BY Zenon, <1>7 DEF p
  <2>3. DeliveryTypes'
    <3>1. toBroker' \in Seq(Packets) /\ (link' # "up" => toBroker' = <<>>)
      BY Zenon, <1>2, <1>3, <1>8, <2>1, <2>2, HasAppend DEF DeliveryTypes
    <3>2. succeeded' \in [Out -> Nat]
      BY Zenon, <1>8, <1>9, <2>1
    <3> QED
      BY ZenonT(30), <1>2, <1>3, <1>4, <1>5, <1>6, <2>1, <3>1, <3>2 DEF DeliveryTypes
  <2>4. RightQos' /\ SenderInv'
    BY Zenon, <1>2, <1>3, <1>4, <2>1, BeginSender DEF p
  <2>5. OrderInv'
    <3>1. CASE link = "up"
      <4>1. toBroker' = Append(toBroker, p)
        BY Zenon, <2>1, <3>1
      <4>2. \A m : Has(toBroker', "PUBLISH", m) <=> Has(toBroker, "PUBLISH", m) \/ m = id
        BY Zenon, <1>8, <2>2, <4>1, HasAppend
      <4>3. \A i \in Out : Ordered(i) /\ i < Turn /\ published[i] = 0 => Has(toBroker, "PUBLISH", i)
        BY Zenon, <1>2, <1>3, <3>1 DEF OrderInv, Cut, CutOf
      <4>4. \A i \in Out : published[i] >= 1 \/ published[i] = 0
        BY <1>8
      <4>5. Fifo(toBroker')
        BY Zenon, <1>3, <1>4, <1>8, <2>2, <4>1, <4>3, <4>4, FifoAppend DEF OrderInv
      <4>6. Fifo(toBroker)'
        BY Zenon, <1>2, <4>5, FifoKept
      <4>7. OrderKept'
        BY Zenon, <1>2, <1>3, <1>5 DEF OrderInv, OrderKept
      <4>8. \A i \in Out : i < Turn' => i < Turn \/ i = id
        BY <1>4, <1>8
      <4> QED
        BY Zenon, <1>2, <1>5, <4>2, <4>3, <4>6, <4>7, <4>8 DEF OrderInv, Ordered
    <3>2. CASE link # "up"
      <4>1. toBroker' = <<>>
        BY Zenon, <1>3, <2>1, <3>2 DEF DeliveryTypes
      <4> QED
        BY Zenon, <1>2, <1>3, <3>2, <4>1, QuietOrderDown
    <3> QED
      BY Zenon, <3>1, <3>2
  <2>6. TellInv'
    <3>1. SuccessIsPublished'
      <4>1. \A m \in Out : OutQos[m] > 0 => succeeded'[m] = succeeded[m]
        <5>1. OutQos[id] = 0 => ~(OutQos[id] > 0)
          BY <1>4, <1>8
        <5> QED
          BY Zenon, <1>9, <2>1, <5>1
      <4> QED
        BY Zenon, <1>2, <1>3, <1>5, <4>1 DEF TellInv, SuccessIsPublished
    <3>2. SUFFICES ASSUME ~MayInterrupt PROVE TellInv'
      BY Zenon, <1>5, <3>1 DEF TellInv
    <3>3. /\ responses \in Seq(Nat)
          /\ \A i, j \in 1 .. Len(responses) : responses[i] = responses[j] => i = j
          /\ \A m \in Out :
                /\ m >= Turn => succeeded[m] = 0 /\ failed[m] = 0 /\ ~Waits(m)
                /\ m < Turn => IF Waits(m) THEN succeeded[m] + failed[m] = 0 ELSE succeeded[m] + failed[m] = 1
                /\ Waits(m) => m \in Ids(outbound)
      BY Zenon, <1>3, <3>2 DEF TellInv
    <3>4. succeeded[id] = 0 /\ failed[id] = 0 /\ ~Waits(id)
      BY <1>4, <3>3
    <3>5. CASE OutQos[id] = 0
      <4>1. responses' = responses /\ \A m : Waits(m)' <=> Waits(m)
        BY Zenon, <2>1, <3>5 DEF Waits
      <4>2. \A m \in Out : succeeded'[m] = IF m = id THEN succeeded[m] + 1 ELSE succeeded[m]
        BY Zenon, <1>9, <2>1, <3>5
      <4>3. ASSUME NEW m \in Out
            PROVE  /\ m >= Turn' => succeeded'[m] = 0 /\ failed'[m] = 0 /\ ~Waits(m)'
                   /\ m < Turn' => IF Waits(m)' THEN succeeded'[m] + failed'[m] = 0
                                   ELSE succeeded'[m] + failed'[m] = 1
                   /\ Waits(m)' => m \in Ids(outbound')
        <5>1. CASE m = id
          <6>1. ~(m >= Turn') /\ succeeded'[m] + failed'[m] = 1 /\ ~Waits(m)'
            BY <1>4, <2>1, <3>4, <4>1, <4>2, <5>1
          <6> QED
            BY Zenon, <6>1
        <5>2. CASE m # id
          <6>1. (m >= Turn' => m >= Turn) /\ (m < Turn' => m < Turn)
            BY <1>4, <1>8, <5>2
          <6>2. succeeded'[m] = succeeded[m] /\ failed'[m] = failed[m]
            BY Zenon, <2>1, <4>2, <5>2
          <6> QED
            BY Zenon, <1>6, <3>3, <4>1, <6>1, <6>2
        <5> QED
          BY Zenon, <5>1, <5>2
      <4> QED
        BY Zenon, <1>5, <3>1, <3>3, <4>1, <4>3 DEF TellInv
    <3>6. CASE OutQos[id] # 0
      <4>1. succeeded' = succeeded /\ responses' = Append(responses, id) /\ OutQos[id] > 0
        <5>1. OutQos[id] > 0
          <6>1. OutQos[id] \in 0 .. 2
            BY Zenon, <1>4, <1>8
          <6> QED
            BY <3>6, <6>1
        <5> QED
          BY Zenon, <2>1, <3>6, <5>1
      <4>2. /\ responses' \in Seq(Nat) /\ Len(responses') = Len(responses) + 1 /\ Len(responses) \in Nat
            /\ responses'[Len(responses) + 1] = id
            /\ \A i \in 1 .. Len(responses) : responses'[i] = responses[i]
        BY <1>4, <3>3, <4>1
      <4>3. \A i \in 1 .. Len(responses') : i \in 1 .. Len(responses) \/ i = Len(responses) + 1
        BY <4>2
      <4>4. /\ Len(responses) + 1 \in 1 .. Len(responses')
            /\ \A i \in 1 .. Len(responses) : i \in 1 .. Len(responses')
        BY <4>2
      <4>5. \A m : Waits(m)' <=> Waits(m) \/ m = id
        BY Zenon, <4>2, <4>3, <4>4 DEF Waits
      <4>6. \A i, j \in 1 .. Len(responses') : responses'[i] = responses'[j] => i = j
        <5>1. \A i \in 1 .. Len(responses) : responses[i] # id
          BY Zenon, <3>4 DEF Waits
        <5>2. SUFFICES ASSUME NEW i \in 1 .. Len(responses'), NEW j \in 1 .. Len(responses'),
                              responses'[i] = responses'[j]
                       PROVE  i = j
          BY Zenon
        <5>3. CASE i = Len(responses) + 1
          BY Zenon, <4>2, <4>3, <5>1, <5>2, <5>3
        <5>4. CASE j = Len(responses) + 1
          BY Zenon, <4>2, <4>3, <5>1, <5>2, <5>4
        <5>5. CASE i \in 1 .. Len(responses) /\ j \in 1 .. Len(responses)
          BY Zenon, <3>3, <4>2, <5>2, <5>5
        <5> QED
          BY Zenon, <4>3, <5>3, <5>4, <5>5
      <4>7. ASSUME NEW m \in Out
            PROVE  /\ m >= Turn' => succeeded'[m] = 0 /\ failed'[m] = 0 /\ ~Waits(m)'
                   /\ m < Turn' => IF Waits(m)' THEN succeeded'[m] + failed'[m] = 0
                                   ELSE succeeded'[m] + failed'[m] = 1
                   /\ Waits(m)' => m \in Ids(outbound')
        <5>1. CASE m = id
          <6>1. ~(m >= Turn') /\ succeeded'[m] + failed'[m] = 0 /\ Waits(m)'
            BY <1>4, <2>1, <3>4, <4>1, <4>5, <5>1
          <6> QED
            BY Zenon, <1>6, <4>1, <5>1, <6>1
        <5>2. CASE m # id
          <6>1. (m >= Turn' => m >= Turn) /\ (m < Turn' => m < Turn)
            BY <1>4, <1>8, <5>2
          <6> QED
            BY Zenon, <1>6, <2>1, <3>3, <4>1, <4>5, <5>2, <6>1
        <5> QED
          BY Zenon, <5>1, <5>2
      <4> QED
        BY Zenon, <1>5, <3>1, <4>2, <4>6, <4>7 DEF TellInv
    <3> QED
      BY Zenon, <3>5, <3>6
  <2>7. BrokerQos' /\ ReceiverInv'
    <3>1. "PUBLISH" \notin Steps
      BY DEF Steps
    <3>2. \A m : \A type \in Steps : Has(toBroker', type, m) => Has(toBroker, type, m)
      <4>1. \A m, type : Has(Append(toBroker, p), type, m) <=> Has(toBroker, type, m) \/ (p.type = type /\ p.id = m)
        BY Zenon, <1>8, <2>2, HasAppend
      <4> QED
        BY Zenon, <2>1, <2>2, <3>1, <4>1
    <3> QED
      BY Zenon, <1>2, <1>3, <3>2, QuietReceiver
  <2> QED
    BY Zenon, <2>3, <2>4, <2>5, <2>6, <2>7 DEF DeliveryInv
<1>13. CASE PublishFails(id)
  <2>1. /\ link = "broken" /\ failed' = Bump(failed, id)
        /\ pendingWrite' = IF OutQos[id] = 0 THEN id ELSE pendingWrite
        /\ succeeded' = succeeded /\ responses' = responses /\ partial' = partial
        /\ publisher' = publisher /\ toBroker' = toBroker
    BY Zenon, <1>13 DEF PublishFails
  <2>2. toBroker = <<>> /\ toHub = <<>> /\ link # "up"
    <3>1. link # "up"
      BY <2>1
    <3> QED
      BY Zenon, <1>3, <3>1 DEF DeliveryTypes
  <2>3. DeliveryTypes'
    <3>1. failed' \in [Out -> Nat]
      BY Zenon, <1>10, <2>1
    <3>2. pendingWrite' # 0 => pendingWrite' \in Out /\ OutQos[pendingWrite'] = 0
      BY Zenon, <1>3, <1>4, <2>1 DEF DeliveryTypes
    <3> QED
      BY ZenonT(30), <1>2, <1>3, <1>4, <1>5, <1>6, <2>1, <3>1, <3>2 DEF DeliveryTypes
  <2>4. RightQos' /\ SenderInv'
    BY Zenon, <1>2, <1>3, <1>4, <2>1, BeginSender
  <2>5. OrderInv'
    BY Zenon, <1>2, <1>3, <2>1, <2>2, QuietOrderDown
  <2>6. TellInv'
    <3>1. SuccessIsPublished'
      BY Zenon, <1>2, <1>3, <1>5, <2>1 DEF TellInv, SuccessIsPublished
    <3>2. SUFFICES ASSUME ~MayInterrupt PROVE TellInv'
      BY Zenon, <1>5, <3>1 DEF TellInv
    <3>3. /\ responses \in Seq(Nat)
          /\ \A i, j \in 1 .. Len(responses) : responses[i] = responses[j] => i = j
          /\ \A m \in Out :
                /\ m >= Turn => succeeded[m] = 0 /\ failed[m] = 0 /\ ~Waits(m)
                /\ m < Turn => IF Waits(m) THEN succeeded[m] + failed[m] = 0 ELSE succeeded[m] + failed[m] = 1
                /\ Waits(m) => m \in Ids(outbound)
      BY Zenon, <1>3, <3>2 DEF TellInv
    <3>4. succeeded[id] = 0 /\ failed[id] = 0 /\ ~Waits(id)
      BY <1>4, <3>3
    <3>5. \A m : Waits(m)' <=> Waits(m)
      BY Zenon, <2>1 DEF Waits
    <3>6. \A m \in Out : failed'[m] = IF m = id THEN failed[m] + 1 ELSE failed[m]
      BY Zenon, <1>10, <2>1
    <3>7. ASSUME NEW m \in Out
          PROVE  /\ m >= Turn' => succeeded'[m] = 0 /\ failed'[m] = 0 /\ ~Waits(m)'
                 /\ m < Turn' => IF Waits(m)' THEN succeeded'[m] + failed'[m] = 0
                                 ELSE succeeded'[m] + failed'[m] = 1
                 /\ Waits(m)' => m \in Ids(outbound')
      <4>1. CASE m = id
        <5>1. ~(m >= Turn') /\ succeeded'[m] + failed'[m] = 1 /\ ~Waits(m)'
          BY <1>4, <2>1, <3>4, <3>5, <3>6, <4>1
        <5> QED
          BY Zenon, <5>1
      <4>2. CASE m # id
        <5>1. (m >= Turn' => m >= Turn) /\ (m < Turn' => m < Turn)
          BY <1>4, <1>8, <4>2
        <5>2. succeeded'[m] = succeeded[m] /\ failed'[m] = failed[m]
          BY Zenon, <2>1, <3>6, <4>2
        <5> QED
          BY Zenon, <1>6, <3>3, <3>5, <5>1, <5>2
      <4> QED
        BY Zenon, <4>1, <4>2
    <3> QED
      BY Zenon, <1>5, <2>1, <3>1, <3>3, <3>7 DEF TellInv
  <2>7. BrokerQos' /\ ReceiverInv'
    BY Zenon, <1>2, <1>3, <2>1, QuietReceiver
  <2> QED
    BY Zenon, <2>3, <2>4, <2>5, <2>6, <2>7 DEF DeliveryInv
<1>14. CASE PublishInterrupted(id)
  <2>1. /\ MayInterrupt /\ partial' = <<Packet("PUBLISH", id)>>
        /\ publisher' = [at |-> "written", id |-> id]
        /\ succeeded' = succeeded /\ failed' = failed /\ responses' = responses
        /\ pendingWrite' = pendingWrite /\ toBroker' = toBroker
    BY <1>14 DEF PublishInterrupted, callbacks
  <2>2. publisher' \in [at : {"written", "flagged"}, id : Out] /\ partial' # <<>>
        /\ partial'[1] = Packet("PUBLISH", id)
    BY <1>4, <2>1
  <2>3. DeliveryTypes'
    BY ZenonT(30), <1>2, <1>3, <1>4, <1>5, <1>6, <2>1, <2>2 DEF DeliveryTypes, Packet
  <2>4. RightQos' /\ SenderInv'
    BY Zenon, <1>2, <1>3, <1>4, <2>1, BeginSender
  <2>5. OrderInv'
    <3>1. \A i \in Out : Ordered(i) /\ i < Turn /\ published[i] = 0 /\ link = "up" => Has(toBroker, "PUBLISH", i)
      BY Zenon, <1>2, <1>3 DEF OrderInv, Cut, CutOf
    <3>2. Cut(id)'
      BY Zenon, <1>7, <2>2 DEF Cut, CutOf
    <3>3. Fifo(toBroker)'
      <4>1. Fifo(toBroker')
        BY Zenon, <1>3, <2>1 DEF OrderInv
      <4> QED
        BY Zenon, <1>2, <4>1, FifoKept
    <3>4. OrderKept'
      BY Zenon, <1>2, <1>3, <1>5 DEF OrderInv, OrderKept
    <3>5. \A i \in Out : i < Turn' => i < Turn \/ i = id
      BY <1>4, <1>8
    <3> QED
      BY Zenon, <1>2, <1>5, <2>1, <3>1, <3>2, <3>3, <3>4, <3>5 DEF OrderInv, Ordered
  <2>6. TellInv'
    <3>1. SuccessIsPublished'
      BY Zenon, <1>2, <1>3, <1>5, <2>1 DEF TellInv, SuccessIsPublished
    <3> QED
      BY Zenon, <1>5, <2>1, <3>1 DEF TellInv
  <2>7. BrokerQos' /\ ReceiverInv'
    BY Zenon, <1>2, <1>3, <2>1, QuietReceiver
  <2> QED
    BY Zenon, <2>3, <2>4, <2>5, <2>6, <2>7 DEF DeliveryInv
<1> QED
  BY Zenon, <1>2, <1>12, <1>13, <1>14

(* The rest of an interrupted write of a publication or of a release.      *)
LEMMA ContinueSender ==
    ASSUME DeliveryTypes, RightQos, SenderInv, scenario' = scenario, Turn' = Turn, outbound' = outbound,
           published' = published, held' = held, toHub' = toHub, link = "up", link' = link, partial' = <<>>,
           NEW id \in Out, NEW kind, toBroker' = Append(toBroker, Packet(kind, id)),
           (kind = "PUBLISH" /\ Cut(id)) \/ (kind = "PUBREL" /\ CutRelease(id) /\ OutQos[id] = 2)
    PROVE  RightQos' /\ SenderInv'
<1> DEFINE p == Packet(kind, id)
<1>1. OutQos' = OutQos /\ Out' = Out /\ Turn \in Nat /\ toBroker \in Seq(Packets) /\ id \in Nat
      /\ published \in [Out -> Nat]
  BY Zenon, Steady, TurnIsInt, ScenarioTypes DEF DeliveryTypes
<1>2. p \in Packets /\ p.type = kind /\ p.id = id
  BY <1>1, PacketIs
<1> HIDE DEF p
<1>3. toBroker' = Append(toBroker, p)
  BY Zenon DEF p
<1>4. ASSUME NEW m
      PROVE  /\ \A type : Has(toBroker', type, m) <=> Has(toBroker, type, m) \/ (kind = type /\ id = m)
             /\ PublishFirst(toBroker, m) /\ (kind = "PUBLISH" /\ id = m => ~Has(toBroker, "PUBREL", m))
                => PublishFirst(toBroker', m)
             /\ PublishOnce(toBroker, m) /\ (kind = "PUBLISH" /\ id = m => ~Has(toBroker, "PUBLISH", m))
                => PublishOnce(toBroker', m)
  <2>1. /\ \A type : Has(Append(toBroker, p), type, m) <=> Has(toBroker, type, m) \/ (p.type = type /\ p.id = m)
        /\ PublishFirst(toBroker, m) /\ (p.type = "PUBLISH" /\ p.id = m => ~Has(toBroker, "PUBREL", m))
           => PublishFirst(Append(toBroker, p), m)
        /\ PublishOnce(toBroker, m) /\ (p.type = "PUBLISH" /\ p.id = m => ~Has(toBroker, "PUBLISH", m))
           => PublishOnce(Append(toBroker, p), m)
    BY Zenon, <1>1, <1>2, HasAppend
  <2> QED
    BY Zenon, <1>2, <1>3, <2>1
<1>5. "PUBLISH" # "PUBREL" /\ \A m : ~Cut(m)' /\ ~CutRelease(m)'
  BY Zenon DEF Cut, CutRelease, CutOf
<1>6. ASSUME NEW m \in Out, m # id PROVE SenderFor(m)'
  <2>1. SenderFor(m) /\ OutQos'[m] = OutQos[m] /\ ~Cut(m)' /\ ~CutRelease(m)'
    BY Zenon, <1>1, <1>5 DEF SenderInv, SenderFor
  <2>2. /\ Has(toBroker', "PUBLISH", m) => Has(toBroker, "PUBLISH", m)
        /\ Has(toBroker', "PUBREL", m) => Has(toBroker, "PUBREL", m)
        /\ PublishFirst(toBroker, m) => PublishFirst(toBroker', m)
        /\ PublishOnce(toBroker, m) => PublishOnce(toBroker', m)
    BY Zenon, <1>4, <1>6
  <2> QED
    BY Zenon, <2>1, <2>2, QuietFor
<1>7. /\ UnsentInv(id) /\ OnceInv(id) /\ AckInv(id) /\ ExactInv(id)
      /\ OutQos'[id] = OutQos[id] /\ ~Cut(id)' /\ ~CutRelease(id)'
  BY Zenon, <1>1, <1>5 DEF SenderInv
<1>8. UnsentInv(id)' /\ AckInv(id)'
  <2>1. ~(id >= Turn)
    BY Zenon, <1>7 DEF UnsentInv
  <2> QED
    BY Zenon, <1>7, <2>1 DEF UnsentInv, AckInv
<1>9. ASSUME kind = "PUBLISH", Cut(id) PROVE SenderFor(id)'
  <2>1. Has(toBroker', "PUBREL", id) <=> Has(toBroker, "PUBREL", id)
    BY Zenon, <1>4, <1>5, <1>9
  <2>2. OnceInv(id)'
    BY Zenon, <1>4, <1>7, <1>9 DEF OnceInv
  <2>3. ExactInv(id)'
    <3>1. SUFFICES ASSUME OutQos[id] = 2 PROVE ExactInv(id)'
      BY Zenon, <1>7 DEF ExactInv
    <3>2. /\ Awaits(outbound, id, "PUBREC") /\ published[id] <= 1
          /\ published[id] = 1 => id \in held
          /\ ~Has(toBroker, "PUBREL", id) /\ ~Has(toHub, "PUBCOMP", id) /\ PublishFirst(toBroker, id)
      BY Zenon, <1>7, <1>9, <3>1 DEF ExactInv
    <3>3. id \notin held => published[id] = 0
      <4>1. published[id] = 0 \/ published[id] = 1
        BY <1>1, <3>2
      <4> QED
        BY Zenon, <3>2, <4>1
    <3>4. id \in Ids(outbound)
      <4>1. outbound \in Seq(Entries) /\ "PUBREC" \in Steps
        BY Zenon DEF DeliveryTypes, Steps
      <4> QED
        BY Zenon, <3>2, <4>1, IdsAwait
    <3>5. PublishFirst(toBroker', id)
      BY Zenon, <1>4, <3>2
    <3> QED
      BY ZenonT(30), <1>7, <2>1, <3>2, <3>3, <3>4, <3>5 DEF ExactInv
  <2> QED
    BY Zenon, <1>8, <2>2, <2>3 DEF SenderFor
<1>10. ASSUME kind = "PUBREL", CutRelease(id), OutQos[id] = 2 PROVE SenderFor(id)'
  <2>1. OutQos[id] # 0
    BY <1>10
  <2>2. /\ Has(toBroker', "PUBLISH", id) <=> Has(toBroker, "PUBLISH", id)
        /\ PublishFirst(toBroker, id) => PublishFirst(toBroker', id)
    BY Zenon, <1>4, <1>5, <1>10
  <2>3. OnceInv(id)'
    BY Zenon, <1>7, <2>1 DEF OnceInv
  <2>4. published[id] = 1 /\ ~Awaits(outbound, id, "PUBREC")
    BY Zenon, <1>7, <1>10 DEF ExactInv
  <2>5. ExactInv(id)'
    BY ZenonT(30), <1>7, <1>10, <2>2, <2>4 DEF ExactInv
  <2> QED
    BY Zenon, <1>8, <2>3, <2>5 DEF SenderFor
<1>11. SenderInv'
  BY Zenon, <1>1, <1>6, <1>9, <1>10 DEF SenderInv, SenderFor
<1>12. RightQos'
  <2>1. \A m : Has(toBroker', "PUBLISH", m) => m \in Out
    BY Zenon, <1>4 DEF RightQos
  <2>2. \A m : Has(toBroker', "PUBREL", m) => m \in Out /\ OutQos[m] = 2
    <3>1. kind = "PUBREL" => OutQos[id] = 2
      BY Zenon, <1>5
    <3>2. \A m : Has(toBroker, "PUBREL", m) => m \in Out /\ OutQos[m] = 2
      BY Zenon DEF RightQos
    <3> QED
      BY Zenon, <1>4, <3>1, <3>2
  <2> QED
    BY Zenon, <1>1, <2>1, <2>2 DEF RightQos
<1> QED
  BY Zenon, <1>11, <1>12

(* Socket_continueWrite writes the rest of a publication.                  *)
LEMMA ContinueWriteKeeps == ASSUME DeliveryInv, ContinueWrite PROVE DeliveryInv'
<1>1. /\ scenario' = scenario /\ skipped' = skipped /\ link' = link /\ next' = next /\ publications' = publications
      /\ publisher' = publisher /\ outbound' = outbound /\ inbound' = inbound /\ arrived' = arrived
      /\ toHub' = toHub /\ published' = published /\ held' = held /\ nextIn' = nextIn /\ sending' = sending
      /\ partial # <<>> /\ partial' = <<>>
      /\ \/ link = "up" /\ toBroker' = Append(toBroker, partial[1]) /\ writeComplete(1)
         \/ link = "broken" /\ toBroker' = toBroker /\ writeComplete(-1)
  BY DEF ContinueWrite, session, broker, setting
<1>2. DeliveryTypes /\ RightQos /\ SenderInv /\ OrderInv /\ TellInv /\ BrokerQos /\ ReceiverInv
  BY Zenon DEF DeliveryInv
<1>3. Turn' = Turn
  BY Zenon, <1>1, TurnKept
<1>4. OutQos' = OutQos /\ InQos' = InQos /\ Out' = Out /\ In' = In /\ MayInterrupt' = MayInterrupt
  BY Zenon, <1>1, Steady
<1>5. /\ MayInterrupt
      /\ \E m \in Out, type \in {"PUBLISH", "PUBREL"} :
            partial = <<Packet(type, m)>> /\ (type = "PUBREL" => OutQos[m] = 2)
  BY ZenonT(30), <1>1, <1>2 DEF DeliveryTypes
<1>6. PICK id \in Out, kind \in {"PUBLISH", "PUBREL"} :
          partial = <<Packet(kind, id)>> /\ (kind = "PUBREL" => OutQos[id] = 2)
  BY Zenon, <1>5
<1>7. /\ published \in [Out -> Nat] /\ succeeded \in [Out -> Nat] /\ failed \in [Out -> Nat]
      /\ toBroker \in Seq(Packets) /\ Turn \in Nat /\ id \in Nat
      /\ \A m \in Out : m \in Nat /\ OutQos[m] \in 0 .. 2
  BY Zenon, <1>2, ScenarioTypes, TurnIsInt DEF DeliveryTypes
<1> DEFINE p == Packet(kind, id)
<1>8. partial[1] = p /\ p \in Packets /\ p.type = kind /\ p.id = id
  BY <1>6, <1>7, PacketIs
<1>9. p = Packet(kind, id)
  OBVIOUS
<1> HIDE DEF p
<1>10. /\ (kind = "PUBLISH" /\ Cut(id)) \/ (kind = "PUBREL" /\ CutRelease(id) /\ OutQos[id] = 2)
       /\ \A m : Cut(m) => m = id /\ kind = "PUBLISH"
  BY Zenon, <1>1, <1>6, <1>8 DEF Cut, CutRelease, CutOf
<1>11. ASSUME NEW rc, writeComplete(rc)
       PROVE  /\ pendingWrite' = 0 /\ succeeded' \in [Out -> Nat] /\ failed' \in [Out -> Nat]
              /\ \A m \in Out : OutQos[m] > 0 => succeeded'[m] = succeeded[m]
  <2>1. /\ pendingWrite' = 0
        /\ \/ succeeded' = succeeded /\ failed' = failed
           \/ pendingWrite # 0 /\ succeeded' = Bump(succeeded, pendingWrite) /\ failed' = failed
           \/ pendingWrite # 0 /\ failed' = Bump(failed, pendingWrite) /\ succeeded' = succeeded
    BY <1>11 DEF writeComplete, callbacks
  <2>2. /\ Bump(succeeded, pendingWrite) \in [Out -> Nat]
        /\ \A m \in Out : m # pendingWrite => Bump(succeeded, pendingWrite)[m] = succeeded[m]
    <3>1. succeeded \in [Out -> Nat]
      BY Zenon, <1>7
    <3> QED
      BY <3>1, BumpIs
  <2>3. Bump(failed, pendingWrite) \in [Out -> Nat]
    <3>1. failed \in [Out -> Nat]
      BY Zenon, <1>7
    <3> QED
      BY <3>1, BumpIs
  <2>4. pendingWrite # 0 => OutQos[pendingWrite] = 0
    BY Zenon, <1>2 DEF DeliveryTypes
  <2>5. \A m : OutQos[m] > 0 => OutQos[m] # 0
    OBVIOUS
  <2> QED
    BY Zenon, <1>7, <2>1, <2>2, <2>3, <2>4, <2>5
<1>12. /\ pendingWrite' = 0 /\ succeeded' \in [Out -> Nat] /\ failed' \in [Out -> Nat]
       /\ \A m \in Out : OutQos[m] > 0 => succeeded'[m] = succeeded[m]
  BY Zenon, <1>1, <1>11
<1>13. TellInv'
  <2>1. SuccessIsPublished'
    BY Zenon, <1>1, <1>2, <1>4, <1>12 DEF TellInv, SuccessIsPublished
  <2> QED
    BY Zenon, <1>4, <1>5, <2>1 DEF TellInv
<1>14. CASE link = "up" /\ toBroker' = Append(toBroker, partial[1])
  <2>1. toBroker' = Append(toBroker, p) /\ link = "up"
    BY Zenon, <1>8, <1>14
  <2>2. \A m, type : Has(Append(toBroker, p), type, m) <=> Has(toBroker, type, m) \/ (p.type = type /\ p.id = m)
    <3>1. ASSUME NEW m
          PROVE  \A type : Has(Append(toBroker, p), type, m) <=> Has(toBroker, type, m) \/ (p.type = type /\ p.id = m)
      <4>1. toBroker \in Seq(Packets) /\ p \in Packets
        BY Zenon, <1>7, <1>8
      <4> QED
        BY Zenon, <4>1, HasAppend
    <3> QED
      BY Zenon, <3>1
  <2>3. toBroker' \in Seq(Packets)
    BY Zenon, <1>7, <1>8, <2>1, AppendPacket
  <2>4. DeliveryTypes'
    BY ZenonT(30), <1>1, <1>2, <1>3, <1>4, <1>5, <1>12, <2>1, <2>3 DEF DeliveryTypes
  <2>5. RightQos' /\ SenderInv'
    BY Zenon, <1>1, <1>2, <1>3, <1>9, <1>10, <2>1, ContinueSender
  <2>6. OrderInv'
    <3>1. CASE kind = "PUBLISH"
      <4>1. id < Turn
        <5>1. ~(id >= Turn)
          BY Zenon, <1>2, <1>10, <3>1 DEF SenderInv, UnsentInv
        <5> QED
          BY <1>7, <5>1
      <4>2. \A i \in Out : (i < Turn /\ Ordered(i) /\ published[i] = 0 => Has(toBroker, "PUBLISH", i) \/ i = id)
        BY Zenon, <1>2, <1>10, <2>1 DEF OrderInv
      <4>3. ASSUME NEW i \in Out, i < id, Ordered(i) PROVE published[i] >= 1 \/ Has(toBroker, "PUBLISH", i)
        <5>1. i < Turn /\ i # id /\ (published[i] >= 1 \/ published[i] = 0)
          BY <1>7, <4>1, <4>3
        <5> QED
          BY Zenon, <4>2, <4>3, <5>1
      <4>4. Fifo(toBroker')
        BY Zenon, <1>2, <1>7, <1>8, <2>1, <4>3, FifoAppend DEF OrderInv
      <4>5. Fifo(toBroker)'
        BY Zenon, <1>1, <4>4, FifoKept
      <4>6. OrderKept'
        BY Zenon, <1>1, <1>2, <1>4 DEF OrderInv, OrderKept
      <4>7. \A m : Has(toBroker, "PUBLISH", m) \/ m = id => Has(toBroker', "PUBLISH", m)
        BY Zenon, <1>8, <2>1, <2>2, <3>1
      <4> QED
        BY Zenon, <1>1, <1>3, <1>4, <4>2, <4>5, <4>6, <4>7 DEF OrderInv, Ordered
    <3>2. CASE kind # "PUBLISH"
      <4>1. Fifo(toBroker) => Fifo(toBroker')
        BY Zenon, <1>7, <1>8, <2>1, <3>2, FifoAppend
      <4> QED
        BY Zenon, <1>1, <1>2, <1>3, <1>10, <2>1, <2>2, <3>2, <4>1, QuietOrder
    <3> QED
      BY Zenon, <3>1, <3>2
  <2>7. BrokerQos' /\ ReceiverInv'
    <3>1. kind \notin Steps
      BY <1>6 DEF Steps
    <3>2. \A m : \A type \in Steps : Has(toBroker', type, m) => Has(toBroker, type, m)
      BY Zenon, <1>8, <2>1, <2>2, <3>1
    <3> QED
      BY Zenon, <1>1, <1>2, <3>2, QuietReceiver
  <2> QED
    BY Zenon, <1>13, <2>4, <2>5, <2>6, <2>7 DEF DeliveryInv
<1>15. CASE link = "broken" /\ toBroker' = toBroker
  <2>1. link # "up" /\ toBroker' = toBroker
    BY <1>15
  <2>2. toBroker = <<>>
    BY Zenon, <1>2, <2>1 DEF DeliveryTypes
  <2>3. DeliveryTypes'
    BY ZenonT(30), <1>1, <1>2, <1>3, <1>4, <1>5, <1>12, <2>1 DEF DeliveryTypes
  <2>4. RightQos' /\ SenderInv'
    BY Zenon, <1>1, <1>2, <1>3, <2>1, QuietSender
  <2>5. OrderInv'
    BY Zenon, <1>1, <1>2, <2>1, <2>2, QuietOrderDown
  <2>6. BrokerQos' /\ ReceiverInv'
    BY Zenon, <1>1, <1>2, <2>1, QuietReceiver
  <2> QED
    BY Zenon, <1>13, <2>3, <2>4, <2>5, <2>6 DEF DeliveryInv
<1> QED
  BY Zenon, <1>1, <1>14, <1>15

(* Repeating what is unfinished.                                           *)
LEMMA RepeatSender ==
    ASSUME DeliveryTypes, RightQos, SenderInv, scenario' = scenario, Turn' = Turn, outbound' = outbound,
           published' = published, held' = held,
           NEW r \in Seq(Packets), toBroker' = toBroker \o r,
           \A m : /\ Has(r, "PUBLISH", m) => Awaits(outbound, m, "PUBACK") \/ Awaits(outbound, m, "PUBREC")
                  /\ Has(r, "PUBREL", m) => Awaits(outbound, m, "PUBCOMP")
                  /\ Cut(m)' => Awaits(outbound, m, "PUBACK") \/ Awaits(outbound, m, "PUBREC")
                  /\ CutRelease(m)' => Awaits(outbound, m, "PUBCOMP")
                  /\ PublishFirst(r, m)
                  /\ \A type \in Steps : Has(toHub', type, m) => Has(toHub, type, m)
    PROVE  RightQos' /\ SenderInv'
<1>1. OutQos' = OutQos /\ Out' = Out /\ toBroker \in Seq(Packets) /\ outbound \in Seq(Entries)
      /\ InOrder(outbound) /\ published \in [Out -> Nat]
  BY Zenon, Steady DEF DeliveryTypes, RightQos
<1>2. "PUBACK" \in Steps /\ "PUBREC" \in Steps /\ "PUBCOMP" \in Steps
      /\ "PUBREC" # "PUBCOMP" /\ "PUBACK" # "PUBCOMP"
  BY DEF Steps
<1>3. ASSUME NEW m
      PROVE  /\ Has(toBroker', "PUBLISH", m) => Has(toBroker, "PUBLISH", m) \/ Has(r, "PUBLISH", m)
             /\ Has(toBroker', "PUBREL", m) => Has(toBroker, "PUBREL", m) \/ Has(r, "PUBREL", m)
             /\ PublishFirst(toBroker, m) /\ ~(Has(toBroker, "PUBREL", m) /\ Has(r, "PUBLISH", m))
                => PublishFirst(toBroker', m)
             /\ PublishOnce(toBroker, m) /\ ~Has(r, "PUBLISH", m) => PublishOnce(toBroker', m)
  <2>1. /\ \A type : Has(toBroker \o r, type, m) <=> Has(toBroker, type, m) \/ Has(r, type, m)
        /\ PublishFirst(toBroker, m) /\ PublishFirst(r, m) /\ ~(Has(toBroker, "PUBREL", m) /\ Has(r, "PUBLISH", m))
           => PublishFirst(toBroker \o r, m)
        /\ PublishOnce(toBroker, m) /\ ~Has(r, "PUBLISH", m) => PublishOnce(toBroker \o r, m)
    BY Zenon, <1>1, HasConcat
  <2> QED
    BY Zenon, <2>1
<1>4. \A m : /\ Has(r, "PUBLISH", m) => m \in Ids(outbound)
             /\ Has(r, "PUBREL", m) => m \in Ids(outbound) /\ ~Awaits(outbound, m, "PUBREC")
             /\ Cut(m)' => m \in Ids(outbound)
             /\ CutRelease(m)' => m \in Ids(outbound) /\ ~Awaits(outbound, m, "PUBREC")
  <2>1. ASSUME NEW m, NEW type, Awaits(outbound, m, type) PROVE m \in Ids(outbound)
    BY Zenon, <1>1, <2>1, IdsAwait
  <2>2. ASSUME NEW m, Awaits(outbound, m, "PUBCOMP"), Awaits(outbound, m, "PUBREC") PROVE FALSE
    BY Zenon, <1>1, <1>2, <2>2, AwaitsOne
  <2> QED
    BY Zenon, <2>1, <2>2
<1>5. \A m \in Ids(outbound) : m \in Out /\ ~(m >= Turn) /\ OutQos[m] # 0
  <2>1. \A m \in Ids(outbound) : m \in Out /\ m < Turn /\ OutQos[m] > 0
    BY Zenon DEF RightQos
  <2>2. Turn \in Nat /\ \A m \in Out : m \in Nat
    BY Zenon, TurnIsInt, ScenarioTypes DEF DeliveryTypes
  <2> QED
    BY <2>1, <2>2
<1>7. ASSUME NEW m \in Out PROVE SenderFor(m)'
  <2>1. UnsentInv(m) /\ OnceInv(m) /\ AckInv(m) /\ ExactInv(m) /\ OutQos'[m] = OutQos[m]
    BY Zenon, <1>1 DEF SenderInv
  <2>2. UnsentInv(m)'
    BY Zenon, <1>3, <1>4, <1>5, <2>1 DEF UnsentInv
  <2>3. OnceInv(m)'
    BY Zenon, <1>3, <1>4, <1>5, <2>1 DEF OnceInv
  <2>4. AckInv(m)'
    BY Zenon, <1>2, <2>1 DEF AckInv
  <2>5. ExactInv(m)'
    <3>1. SUFFICES ASSUME OutQos[m] = 2 PROVE ExactInv(m)'
      BY Zenon, <2>1 DEF ExactInv
    <3>2. ~Awaits(outbound, m, "PUBACK")
      <4>1. ~(OutQos[m] = 1)
        BY <3>1
      <4> QED
        BY Zenon, <4>1 DEF RightQos
    <3>3. Has(r, "PUBLISH", m) => Awaits(outbound, m, "PUBREC")
      BY Zenon, <3>2
    <3>4. published[m] <= 1 /\ published[m] # 1 => published[m] = 0
      BY <1>1
    <3>5. Has(r, "PUBLISH", m) =>
              /\ m \notin held => published[m] = 0
              /\ ~Has(toBroker, "PUBREL", m) /\ ~Has(toHub, "PUBCOMP", m)
      BY Zenon, <2>1, <3>1, <3>3, <3>4 DEF ExactInv
    <3>6. Has(r, "PUBREL", m) => published[m] = 1 /\ ~Awaits(outbound, m, "PUBREC")
      BY Zenon, <1>4, <2>1, <3>1 DEF ExactInv
    <3>9. /\ Cut(m)' => Awaits(outbound, m, "PUBREC")
          /\ CutRelease(m)' => published[m] = 1 /\ ~Awaits(outbound, m, "PUBREC")
      BY Zenon, <1>4, <2>1, <3>1, <3>2 DEF ExactInv
    <3>7. PublishFirst(toBroker', m)
      BY Zenon, <1>3, <2>1, <3>1, <3>5 DEF ExactInv
    <3>8. /\ m \notin held' /\ Has(toBroker', "PUBLISH", m) => published'[m] = 0
          /\ Has(toBroker', "PUBREL", m) => published'[m] = 1
          /\ Awaits(outbound', m, "PUBREC") => ~Has(toBroker', "PUBREL", m)
          /\ Has(toHub', "PUBCOMP", m) => ~Has(toBroker', "PUBLISH", m)
          /\ m < Turn' /\ m \notin Ids(outbound') => ~Has(toBroker', "PUBLISH", m)
      BY Zenon, <1>2, <1>3, <1>4, <2>1, <3>1, <3>5, <3>6 DEF ExactInv
    <3> QED
      BY ZenonT(30), <1>2, <2>1, <3>1, <3>7, <3>8, <3>9 DEF ExactInv
  <2> QED
    BY Zenon, <2>2, <2>3, <2>4, <2>5 DEF SenderFor
<1>8. SenderInv'
  BY Zenon, <1>1, <1>7 DEF SenderInv, SenderFor
<1>9. RightQos'
  <2>1. \A m : Has(toBroker', "PUBLISH", m) => m \in Out
    BY Zenon, <1>3, <1>4, <1>5 DEF RightQos
  <2>2. \A m : Has(toBroker', "PUBREL", m) => m \in Out /\ OutQos[m] = 2
    BY Zenon, <1>3, <1>4, <1>5 DEF RightQos
  <2> QED
    BY ZenonT(30), <1>1, <1>2, <2>1, <2>2 DEF RightQos
<1> QED
  BY Zenon, <1>8, <1>9

(* The publications repeated come after those on their way.                *)
LEMMA FifoConcat ==
    ASSUME NEW s \in Seq(Packets), NEW t \in Seq(Packets), Fifo(s),
           \A m : Has(t, "PUBLISH", m) =>
               \A i \in Out : i < m /\ Ordered(i) => published[i] >= 1 \/ Has(s, "PUBLISH", i)
    PROVE  Fifo(s \o t)
<1> DEFINE r == s \o t
<1>1. /\ Len(s) \in Nat /\ Len(t) \in Nat /\ Len(r) = Len(s) + Len(t)
      /\ \A k \in 1 .. Len(s) + Len(t) : r[k] = IF k <= Len(s) THEN s[k] ELSE t[k - Len(s)]
  OBVIOUS
<1> HIDE DEF r
<1>2. \A k \in 1 .. Len(r) :
          \/ k \in 1 .. Len(s) /\ r[k] = s[k] /\ \A l \in 1 .. k - 1 : l \in 1 .. Len(s)
          \/ /\ k - Len(s) \in 1 .. Len(t) /\ r[k] = t[k - Len(s)]
             /\ \A l \in 1 .. Len(s) : l \in 1 .. k - 1
  BY <1>1
<1>3. \A l \in 1 .. Len(s) : r[l] = s[l]
  BY <1>1
<1>4. SUFFICES ASSUME NEW k \in 1 .. Len(r), NEW i \in Out, r[k].type = "PUBLISH", i < r[k].id,
                      Ordered(i), OutQos[r[k].id] > 0
               PROVE  published[i] >= 1 \/ \E l \in 1 .. k - 1 : r[l].type = "PUBLISH" /\ r[l].id = i
  BY Zenon DEF Fifo, r
<1>5. CASE k \in 1 .. Len(s) /\ r[k] = s[k] /\ \A l \in 1 .. k - 1 : l \in 1 .. Len(s)
  <2>1. published[i] >= 1 \/ \E l \in 1 .. k - 1 : s[l].type = "PUBLISH" /\ s[l].id = i
    BY Zenon, <1>4, <1>5 DEF Fifo
  <2> QED
    BY Zenon, <1>3, <1>5, <2>1
<1>6. CASE /\ k - Len(s) \in 1 .. Len(t) /\ r[k] = t[k - Len(s)]
           /\ \A l \in 1 .. Len(s) : l \in 1 .. k - 1
  <2>1. Has(t, "PUBLISH", r[k].id)
    BY Zenon, <1>4, <1>6 DEF Has
  <2>2. published[i] >= 1 \/ Has(s, "PUBLISH", i)
    BY Zenon, <1>4, <2>1
  <2> QED
    BY Zenon, <1>3, <1>6, <2>2 DEF Has
<1> QED
  BY Zenon, <1>2, <1>5, <1>6

(* MQTTProtocol_retries writes r, for the first k of the messages, and may *)
(* leave a packet of the next one in part.                                 *)
RetriesLeave(written, msgs, n) ==
    /\ \E k \in 0 .. Len(msgs) : \E r \in Seq(Packets) :
          /\ toBroker' = written \o r /\ Len(r) = k
          /\ \A i \in 1 .. k :
                /\ r[i].id = msgs[i].id
                /\ r[i].type = IF msgs[i].next = "PUBCOMP" THEN "PUBREL" ELSE "PUBLISH"
          /\ \A m : \A i \in 1 .. n :
                msgs[i].id = m /\ msgs[i].next # "PUBCOMP" => Has(r, "PUBLISH", m) \/ Cut(m)'
          /\ \A m : /\ Has(r, "PUBLISH", m) => Awaits(msgs, m, "PUBACK") \/ Awaits(msgs, m, "PUBREC")
                    /\ Has(r, "PUBREL", m) => Awaits(msgs, m, "PUBCOMP")
                    /\ \A type \in Steps : ~Has(r, type, m)
                    /\ PublishFirst(r, m)
    /\ \A m : /\ Cut(m)' => Awaits(msgs, m, "PUBACK") \/ Awaits(msgs, m, "PUBREC")
              /\ CutRelease(m)' => Awaits(msgs, m, "PUBCOMP")
    /\ \/ partial' = <<>>
       \/ \E m \in Out : partial' = <<Packet("PUBLISH", m)>>
       \/ \E m \in Out : partial' = <<Packet("PUBREL", m)>> /\ OutQos[m] = 2
    /\ publisher' \in {Idle, Disconnecting}
    /\ ~MayInterrupt => partial' = <<>> /\ publisher' = Idle

(* What a repetition leaves: one packet for each message it came to, the   *)
(* packet its entry waits for an answer to.                                *)
LEMMA RetriesAre ==
    ASSUME DeliveryTypes, RightQos, partial = <<>>, publisher = Idle,
           NEW msgs \in Seq(Entries), InOrder(msgs),
           \A m, type : Awaits(msgs, m, type) => Awaits(outbound, m, type),
           NEW n \in 0 .. Len(msgs), NEW written, MQTTProtocol_retries(written, msgs, n)
    PROVE  RetriesLeave(written, msgs, n)
<1> USE DEF RetriesLeave
<1>1. PICK k \in 0 .. Len(msgs) :
        /\ toBroker' = written \o Repeated(SubSeq(msgs, 1, k))
        /\ publisher' \in {Idle, Disconnecting}
        /\ \/ k = n /\ partial' = <<>> /\ publisher' = Idle
           \/ MayInterrupt /\ n > 0 /\ k = n - 1 /\ partial' = <<Repeated(msgs)[n]>>
  <2>1. CASE n = Len(msgs) /\ toBroker' = written \o Repeated(msgs) /\ partial' = partial /\ publisher' = publisher
    <3>1. SubSeq(msgs, 1, n) = msgs
      BY <2>1
    <3> QED
      BY Zenon, <2>1, <3>1
  <2>2. CASE /\ MayInterrupt /\ n > 0 /\ toBroker' = written \o Repeated(SubSeq(msgs, 1, n - 1))
             /\ partial' = <<Repeated(msgs)[n]>> /\ publisher' \in {Idle, Disconnecting}
    <3>1. n - 1 \in 0 .. Len(msgs)
      BY <2>2
    <3> QED
      BY Zenon, <2>2, <3>1
  <2> QED
    BY Zenon, <2>1, <2>2 DEF MQTTProtocol_retries
<1> DEFINE first == SubSeq(msgs, 1, k)
           r == Repeated(first)
<1>2. /\ first \in Seq(Entries) /\ InOrder(first) /\ Len(first) = k
      /\ \A i \in 1 .. k : i \in 1 .. Len(msgs) /\ first[i] = msgs[i]
      /\ \A m, type : Awaits(first, m, type) => Awaits(msgs, m, type)
  BY Zenon, PrefixOf
<1> HIDE DEF first
<1>3. r \in Seq(Packets) /\ Len(r) = Len(first)
      /\ \A i \in 1 .. Len(first) :
            r[i].id = first[i].id /\ r[i].type = IF first[i].next = "PUBCOMP" THEN "PUBREL" ELSE "PUBLISH"
  BY Zenon, <1>2, RepeatedIs
<1>4. toBroker' = written \o r
  BY Zenon, <1>1 DEF first
<1> HIDE DEF r
<1>5. \A m : /\ Has(r, "PUBLISH", m) <=> Awaits(first, m, "PUBACK") \/ Awaits(first, m, "PUBREC")
             /\ Has(r, "PUBREL", m) <=> Awaits(first, m, "PUBCOMP")
             /\ \A type \in Steps : ~Has(r, type, m)
             /\ PublishFirst(r, m)
  BY Zenon, <1>2, <1>3, RepeatsOf
<1>6. ASSUME NEW i \in 1 .. Len(msgs)
      PROVE  /\ msgs[i].id \in Nat /\ msgs[i].next \in Steps /\ Awaits(msgs, msgs[i].id, msgs[i].next)
             /\ Repeated(msgs)[i] = Packet(IF msgs[i].next = "PUBCOMP" THEN "PUBREL" ELSE "PUBLISH", msgs[i].id)
             /\ msgs[i].next = "PUBCOMP" \/ msgs[i].next = "PUBACK" \/ msgs[i].next = "PUBREC"
  <2>1. msgs[i].id \in Nat /\ msgs[i].next \in Steps /\ msgs[i] = Awaiting(msgs[i].id, msgs[i].next)
    <3>1. msgs[i] \in Entries
      OBVIOUS
    <3> QED
      BY <3>1 DEF Entries, Awaiting
  <2>2. msgs[i].next = "PUBCOMP" \/ msgs[i].next = "PUBACK" \/ msgs[i].next = "PUBREC"
    BY <2>1 DEF Steps
  <2> QED
    BY Zenon, <2>1, <2>2 DEF Repeated, Awaits
<1>7. \A i \in 1 .. k : msgs[i].next # "PUBCOMP" => Has(r, "PUBLISH", msgs[i].id)
  BY Zenon, <1>2, <1>3 DEF Has
<1>8. \A i \in 1 .. k : /\ r[i].id = msgs[i].id
                        /\ r[i].type = IF msgs[i].next = "PUBCOMP" THEN "PUBREL" ELSE "PUBLISH"
  BY Zenon, <1>2, <1>3
<1>9. \A m : /\ Has(r, "PUBLISH", m) => Awaits(msgs, m, "PUBACK") \/ Awaits(msgs, m, "PUBREC")
             /\ Has(r, "PUBREL", m) => Awaits(msgs, m, "PUBCOMP")
             /\ \A type \in Steps : ~Has(r, type, m)
             /\ PublishFirst(r, m)
  BY Zenon, <1>2, <1>5
<1>10. CASE k = n /\ partial' = <<>> /\ publisher' = Idle
  <2>1. \A m : ~Cut(m)' /\ ~CutRelease(m)'
    BY Zenon, <1>10 DEF Cut, CutRelease, CutOf
  <2>2. \A m : \A i \in 1 .. n :
            msgs[i].id = m /\ msgs[i].next # "PUBCOMP" => Has(r, "PUBLISH", m) \/ Cut(m)'
    BY Zenon, <1>7, <1>10
  <2>3. Len(r) = k
    BY Zenon, <1>2, <1>3
  <2> QED
    BY ZenonT(30), <1>1, <1>3, <1>4, <1>8, <1>9, <1>10, <2>1, <2>2, <2>3
<1>11. CASE MayInterrupt /\ n > 0 /\ k = n - 1 /\ partial' = <<Repeated(msgs)[n]>>
  <2> DEFINE id == msgs[n].id
             kind == IF msgs[n].next = "PUBCOMP" THEN "PUBREL" ELSE "PUBLISH"
  <2>1. n \in 1 .. Len(msgs) /\ \A i \in 1 .. n : i \in 1 .. k \/ i = n
    BY <1>11
  <2>2. /\ Awaits(msgs, id, msgs[n].next) /\ id \in Nat /\ partial' = <<Packet(kind, id)>>
        /\ msgs[n].next = "PUBCOMP" \/ msgs[n].next = "PUBACK" \/ msgs[n].next = "PUBREC"
    BY Zenon, <1>6, <1>11, <2>1
  <2>3. "PUBLISH" # "PUBREL" /\ "PUBACK" # "PUBCOMP" /\ "PUBREC" # "PUBCOMP"
    OBVIOUS
  <2>4. kind = "PUBREL" <=> msgs[n].next = "PUBCOMP"
    BY Zenon, <2>3
  <2>5. kind = "PUBLISH" \/ kind = "PUBREL"
    BY Zenon
  <2> HIDE DEF kind
  <2>6. partial' # <<>> /\ partial'[1].type = kind /\ partial'[1].id = id
    BY <2>2, PacketIs
  <2>7. \A m : /\ Cut(m)' <=> kind = "PUBLISH" /\ m = id
               /\ CutRelease(m)' <=> kind = "PUBREL" /\ m = id
    BY Zenon, <2>6 DEF Cut, CutRelease, CutOf
  <2>8. \A m : /\ Cut(m)' => Awaits(msgs, m, "PUBACK") \/ Awaits(msgs, m, "PUBREC")
               /\ CutRelease(m)' => Awaits(msgs, m, "PUBCOMP")
    BY Zenon, <2>2, <2>3, <2>4, <2>7
  <2>9. id \in Out /\ (kind = "PUBREL" => OutQos[id] = 2)
    <3>1. Awaits(outbound, id, msgs[n].next) /\ outbound \in Seq(Entries)
      BY Zenon, <2>2 DEF DeliveryTypes
    <3>2. id \in Ids(outbound)
      BY Zenon, <3>1, IdsAwait
    <3> QED
      BY Zenon, <2>4, <3>1, <3>2 DEF RightQos
  <2>10. \A m : \A i \in 1 .. n :
            msgs[i].id = m /\ msgs[i].next # "PUBCOMP" => Has(r, "PUBLISH", m) \/ Cut(m)'
    BY Zenon, <1>7, <2>1, <2>4, <2>5, <2>7
  <2>11. \/ \E m \in Out : partial' = <<Packet("PUBLISH", m)>>
         \/ \E m \in Out : partial' = <<Packet("PUBREL", m)>> /\ OutQos[m] = 2
    BY Zenon, <2>2, <2>5, <2>9
  <2>12. Len(r) = k
    BY Zenon, <1>2, <1>3
  <2> QED
    BY ZenonT(30), <1>1, <1>3, <1>4, <1>8, <1>9, <1>11, <2>8, <2>10, <2>11, <2>12
<1> QED
  BY Zenon, <1>1, <1>10, <1>11

(* MQTTAsync_retry repeats some of the unfinished messages.                *)
LEMMA RetryKeeps == ASSUME DeliveryInv, Retry PROVE DeliveryInv'
<1>1. /\ scenario' = scenario /\ skipped' = skipped /\ link' = link /\ next' = next
      /\ publications' = publications /\ outbound' = outbound /\ inbound' = inbound
      /\ responses' = responses /\ pendingWrite' = pendingWrite
      /\ succeeded' = succeeded /\ failed' = failed /\ arrived' = arrived /\ toHub' = toHub
      /\ published' = published /\ held' = held /\ nextIn' = nextIn /\ sending' = sending
      /\ publisher = Idle /\ link = "up" /\ partial = <<>>
      /\ \E n \in 1 .. Len(outbound) : \E old \in Rising(n, Len(outbound)), last \in 1 .. n :
            MQTTProtocol_retries(toBroker, [i \in 1 .. n |-> outbound[old[i]]], last)
  BY Zenon DEF Retry, session, callbacks, broker
<1>2. DeliveryTypes /\ RightQos /\ SenderInv /\ OrderInv /\ TellInv /\ BrokerQos /\ ReceiverInv
  BY Zenon DEF DeliveryInv
<1>3. Turn' = Turn
  BY Zenon, <1>1, TurnKept
<1>4. OutQos' = OutQos /\ InQos' = InQos /\ Out' = Out /\ In' = In /\ MayInterrupt' = MayInterrupt
  BY Zenon, <1>1, Steady
<1>5. PICK n \in 1 .. Len(outbound) : \E old \in Rising(n, Len(outbound)), last \in 1 .. n :
          MQTTProtocol_retries(toBroker, [i \in 1 .. n |-> outbound[old[i]]], last)
  BY Zenon, <1>1
<1>6. PICK old \in Rising(n, Len(outbound)), last \in 1 .. n :
          MQTTProtocol_retries(toBroker, [i \in 1 .. n |-> outbound[old[i]]], last)
  BY Zenon, <1>5
<1>7. outbound \in Seq(Entries) /\ InOrder(outbound) /\ toBroker \in Seq(Packets) /\ published \in [Out -> Nat]
  BY Zenon, <1>2 DEF DeliveryTypes, RightQos
<1>8. PICK some : some = [i \in 1 .. n |-> outbound[old[i]]]
  BY Zenon
<1>9. MQTTProtocol_retries(toBroker, some, last) /\ last \in 0 .. Len(some)
  <2>1. last \in 0 .. Len(some)
    BY <1>8
  <2> QED
    BY Zenon, <1>6, <1>8, <2>1
<1>10. some \in Seq(Entries) /\ InOrder(some) /\ \A m, type : Awaits(some, m, type) => Awaits(outbound, m, type)
  BY Zenon, <1>7, <1>8, SomeOf
<1>11. /\ \E r \in Seq(Packets) :
             /\ toBroker' = toBroker \o r
             /\ \A m : /\ Has(r, "PUBLISH", m) => Awaits(some, m, "PUBACK") \/ Awaits(some, m, "PUBREC")
                       /\ Has(r, "PUBREL", m) => Awaits(some, m, "PUBCOMP")
                       /\ \A type \in Steps : ~Has(r, type, m)
                       /\ PublishFirst(r, m)
       /\ \A m : /\ Cut(m)' => Awaits(some, m, "PUBACK") \/ Awaits(some, m, "PUBREC")
                 /\ CutRelease(m)' => Awaits(some, m, "PUBCOMP")
       /\ \/ partial' = <<>>
          \/ \E m \in Out : partial' = <<Packet("PUBLISH", m)>>
          \/ \E m \in Out : partial' = <<Packet("PUBREL", m)>> /\ OutQos[m] = 2
       /\ publisher' \in {Idle, Disconnecting}
       /\ ~MayInterrupt => partial' = <<>> /\ publisher' = Idle
  <2>1. DeliveryTypes /\ RightQos /\ partial = <<>> /\ publisher = Idle
    BY Zenon, <1>1, <1>2
  <2>2. RetriesLeave(toBroker, some, last)
    BY Zenon, <1>9, <1>10, <2>1, RetriesAre
  <2> QED
    BY ZenonT(30), <2>2 DEF RetriesLeave
<1>12. PICK r \in Seq(Packets) :
          /\ toBroker' = toBroker \o r
          /\ \A m : /\ Has(r, "PUBLISH", m) => Awaits(some, m, "PUBACK") \/ Awaits(some, m, "PUBREC")
                    /\ Has(r, "PUBREL", m) => Awaits(some, m, "PUBCOMP")
                    /\ \A type \in Steps : ~Has(r, type, m)
                    /\ PublishFirst(r, m)
  BY Zenon, <1>11
<1>13. \A m : /\ Has(r, "PUBLISH", m) => Awaits(outbound, m, "PUBACK") \/ Awaits(outbound, m, "PUBREC")
              /\ Has(r, "PUBREL", m) => Awaits(outbound, m, "PUBCOMP")
              /\ Cut(m)' => Awaits(outbound, m, "PUBACK") \/ Awaits(outbound, m, "PUBREC")
              /\ CutRelease(m)' => Awaits(outbound, m, "PUBCOMP")
  BY Zenon, <1>10, <1>11, <1>12
<1>14. \A m, type : Has(toBroker', type, m) <=> Has(toBroker, type, m) \/ Has(r, type, m)
  BY Zenon, <1>7, <1>12, HasConcat
<1>15. DeliveryTypes'
  <2>1. toBroker' \in Seq(Packets)
    BY <1>7, <1>12
  <2>2. link' # "down"
    BY <1>1
  <2> QED
    BY ZenonT(30), <1>1, <1>2, <1>3, <1>4, <1>11, <2>1, <2>2 DEF DeliveryTypes
<1>16. RightQos' /\ SenderInv'
  BY Zenon, <1>1, <1>2, <1>3, <1>12, <1>13, RepeatSender
<1>17. OrderInv'
  <2>1. \A m : ~Cut(m)
    BY Zenon, <1>1 DEF Cut, CutOf
  <2>2. ASSUME NEW m, Has(r, "PUBLISH", m), NEW i \in Out, i < m, Ordered(i)
        PROVE  published[i] >= 1 \/ Has(toBroker, "PUBLISH", i)
    <3>1. m \in Ids(outbound)
      BY Zenon, <1>7, <1>13, <2>2, IdsAwait
    <3>2. m \in Out /\ m < Turn
      BY Zenon, <1>2, <3>1 DEF RightQos
    <3>3. Turn \in Nat /\ m \in Nat /\ i \in Nat
      BY Zenon, <1>2, <3>2, TurnIsInt, ScenarioTypes DEF DeliveryTypes
    <3>4. i < Turn /\ (published[i] >= 1 \/ published[i] = 0)
      BY <1>7, <2>2, <3>2, <3>3
    <3> QED
      BY Zenon, <1>1, <1>2, <2>1, <2>2, <3>4 DEF OrderInv
  <2>3. Fifo(toBroker) => Fifo(toBroker')
    BY Zenon, <1>7, <1>12, <2>2, FifoConcat
  <2> QED
    BY Zenon, <1>1, <1>2, <1>3, <1>14, <2>1, <2>3, QuietOrder
<1>18. TellInv'
  BY Zenon, <1>1, <1>2, <1>3, QuietTell
<1>19. BrokerQos' /\ ReceiverInv'
  BY Zenon, <1>1, <1>2, <1>12, <1>14, QuietReceiver
<1> QED
  BY Zenon, <1>15, <1>16, <1>17, <1>18, <1>19 DEF DeliveryInv

(* A reconnection.                                                         *)
LEMMA ReconnectReceiver ==
    ASSUME DeliveryTypes, BrokerQos, ReceiverInv, scenario' = scenario, nextIn' = nextIn,
           sending' = sending, arrived' = arrived, inbound' = inbound,
           \A m : /\ Has(toHub', "PUBLISH", m) => Awaits(sending, m, "PUBACK") \/ Awaits(sending, m, "PUBREC")
                  /\ Has(toHub', "PUBREL", m) => Awaits(sending, m, "PUBCOMP")
                  /\ PublishFirst(toHub', m)
                  /\ \A type \in Steps : ~Has(toBroker', type, m)
    PROVE  BrokerQos' /\ ReceiverInv'
<1>1. InQos' = InQos /\ In' = In /\ sending \in Seq(Entries) /\ InOrder(sending)
  BY Zenon, Steady DEF DeliveryTypes, BrokerQos
<1>2. "PUBACK" \in Steps /\ "PUBREC" \in Steps /\ "PUBCOMP" \in Steps
      /\ "PUBREC" # "PUBCOMP" /\ "PUBACK" # "PUBCOMP"
  BY DEF Steps
<1>3. \A m : /\ Has(toHub', "PUBLISH", m) => m \in Ids(sending)
             /\ Has(toHub', "PUBREL", m) => m \in Ids(sending)
             /\ ~(Has(toHub', "PUBREL", m) /\ Awaits(sending, m, "PUBREC"))
  <2>1. ASSUME NEW m, NEW type, Awaits(sending, m, type) PROVE m \in Ids(sending)
    BY Zenon, <1>1, <2>1, IdsAwait
  <2>2. ASSUME NEW m, Awaits(sending, m, "PUBCOMP"), Awaits(sending, m, "PUBREC") PROVE FALSE
    BY Zenon, <1>1, <1>2, <2>2, AwaitsOne
  <2> QED
    BY Zenon, <2>1, <2>2
<1>4. \A m \in Ids(sending) : m \in In /\ ~(m >= nextIn) /\ InQos[m] # 0
  <2>1. \A m \in Ids(sending) : m \in In /\ m < nextIn /\ InQos[m] > 0
    BY Zenon DEF BrokerQos
  <2>2. nextIn \in Nat /\ \A m \in In : m \in Nat
    BY ScenarioTypes DEF DeliveryTypes
  <2> QED
    BY <2>1, <2>2
<1>5. BrokerQos'
  <2>1. \A m : Has(toHub', "PUBLISH", m) => m \in In
    BY Zenon, <1>3, <1>4
  <2>2. \A m : Has(toHub', "PUBREL", m) => m \in In /\ InQos[m] = 2
    BY Zenon, <1>3, <1>4 DEF BrokerQos
  <2> QED
    BY ZenonT(30), <1>1, <1>2, <2>1, <2>2 DEF BrokerQos
<1>6. ASSUME NEW m \in In PROVE ReceiverFor(m)'
  <2>1. ReceiverFor(m) /\ InQos'[m] = InQos[m]
    BY Zenon, <1>1 DEF ReceiverInv
  <2>2. InQos[m] = 0 => PublishOnce(toHub', m)
    BY Zenon, <1>3, <1>4 DEF PublishOnce, Has
  <2>3. InQos[m] = 2 => ~Awaits(sending, m, "PUBACK")
    <3>1. InQos[m] = 2 => ~(InQos[m] = 1)
      OBVIOUS
    <3> QED
      BY Zenon, <3>1 DEF BrokerQos
  <2> QED
    BY ZenonT(60), <1>2, <1>3, <1>4, <2>1, <2>2, <2>3 DEF ReceiverFor
<1> QED
  BY Zenon, <1>1, <1>5, <1>6 DEF ReceiverInv

(* MQTTAsync_completeConnection repeats the unfinished messages, up to one *)
(* that is interrupted.                                                    *)
LEMMA ReconnectKeeps == ASSUME DeliveryInv, Reconnect PROVE DeliveryInv'
<1>1. /\ scenario' = scenario /\ next' = next /\ publications' = publications
      /\ outbound' = outbound /\ inbound' = inbound /\ responses' = responses /\ pendingWrite' = pendingWrite
      /\ succeeded' = succeeded /\ failed' = failed /\ arrived' = arrived
      /\ published' = published /\ held' = held /\ nextIn' = nextIn /\ sending' = sending
      /\ publisher = Idle /\ link = "down" /\ link' = "up" /\ toHub' = BrokerRepeats
      /\ \E n \in 0 .. Len(outbound) :
            /\ MQTTProtocol_retries(<<>>, outbound, n)
            /\ skipped' = skipped \cup {outbound[i].id : i \in n + 1 .. Len(outbound)}
  BY Zenon DEF Reconnect, session, callbacks, broker
<1>2. DeliveryTypes /\ RightQos /\ SenderInv /\ OrderInv /\ TellInv /\ BrokerQos /\ ReceiverInv
  BY Zenon DEF DeliveryInv
<1>3. Turn' = Turn
  BY Zenon, <1>1, TurnKept
<1>4. OutQos' = OutQos /\ InQos' = InQos /\ Out' = Out /\ In' = In /\ MayInterrupt' = MayInterrupt
  BY Zenon, <1>1, Steady
<1>5. /\ outbound \in Seq(Entries) /\ InOrder(outbound) /\ sending \in Seq(Entries) /\ InOrder(sending)
      /\ published \in [Out -> Nat] /\ DupPubrel \in BOOLEAN
  BY Zenon, <1>2, ScenarioTypes DEF DeliveryTypes, RightQos, BrokerQos
<1>6. toBroker = <<>> /\ toHub = <<>> /\ partial = <<>>
  <2>1. link # "up"
    BY <1>1
  <2> QED
    BY Zenon, <1>1, <1>2, <2>1 DEF DeliveryTypes
<1>7. PICK n \in 0 .. Len(outbound) :
          /\ MQTTProtocol_retries(<<>>, outbound, n)
          /\ skipped' = skipped \cup {outbound[i].id : i \in n + 1 .. Len(outbound)}
  BY Zenon, <1>1
<1>8. /\ \E k \in 0 .. Len(outbound) : \E r \in Seq(Packets) :
            /\ toBroker' = <<>> \o r /\ Len(r) = k
            /\ \A i \in 1 .. k :
                  /\ r[i].id = outbound[i].id
                  /\ r[i].type = IF outbound[i].next = "PUBCOMP" THEN "PUBREL" ELSE "PUBLISH"
            /\ \A m : \A i \in 1 .. n :
                  outbound[i].id = m /\ outbound[i].next # "PUBCOMP" => Has(r, "PUBLISH", m) \/ Cut(m)'
            /\ \A m : /\ Has(r, "PUBLISH", m) => Awaits(outbound, m, "PUBACK") \/ Awaits(outbound, m, "PUBREC")
                      /\ Has(r, "PUBREL", m) => Awaits(outbound, m, "PUBCOMP")
                      /\ \A type \in Steps : ~Has(r, type, m)
                      /\ PublishFirst(r, m)
      /\ \A m : /\ Cut(m)' => Awaits(outbound, m, "PUBACK") \/ Awaits(outbound, m, "PUBREC")
                /\ CutRelease(m)' => Awaits(outbound, m, "PUBCOMP")
      /\ \/ partial' = <<>>
         \/ \E m \in Out : partial' = <<Packet("PUBLISH", m)>>
         \/ \E m \in Out : partial' = <<Packet("PUBREL", m)>> /\ OutQos[m] = 2
      /\ publisher' \in {Idle, Disconnecting}
      /\ ~MayInterrupt => partial' = <<>> /\ publisher' = Idle
  <2>1. publisher = Idle
    BY Zenon, <1>1
  <2>2. \A m, type : Awaits(outbound, m, type) => Awaits(outbound, m, type)
    BY Zenon
  <2>3. RetriesLeave(<<>>, outbound, n)
    BY Zenon, <1>2, <1>5, <1>6, <1>7, <2>1, <2>2, RetriesAre
  <2> QED
    BY ZenonT(30), <2>3 DEF RetriesLeave
<1>9. PICK k \in 0 .. Len(outbound), r \in Seq(Packets) :
         /\ toBroker' = <<>> \o r /\ Len(r) = k
         /\ \A i \in 1 .. k :
               /\ r[i].id = outbound[i].id
               /\ r[i].type = IF outbound[i].next = "PUBCOMP" THEN "PUBREL" ELSE "PUBLISH"
         /\ \A m : \A i \in 1 .. n :
               outbound[i].id = m /\ outbound[i].next # "PUBCOMP" => Has(r, "PUBLISH", m) \/ Cut(m)'
         /\ \A m : /\ Has(r, "PUBLISH", m) => Awaits(outbound, m, "PUBACK") \/ Awaits(outbound, m, "PUBREC")
                   /\ Has(r, "PUBREL", m) => Awaits(outbound, m, "PUBCOMP")
                   /\ \A type \in Steps : ~Has(r, type, m)
                   /\ PublishFirst(r, m)
  BY Zenon, <1>8
<1>10. toBroker' = r /\ toBroker' = toBroker \o r
  <2>1. <<>> \o r = r
    OBVIOUS
  <2> QED
    BY Zenon, <1>6, <1>9, <2>1
<1>11. toHub' \in Seq(Packets) /\ Len(toHub') = Len(sending)
      /\ \A i \in 1 .. Len(sending) :
            /\ toHub'[i].id = sending[i].id
            /\ toHub'[i].type = IF sending[i].next = "PUBCOMP" THEN "PUBREL" ELSE "PUBLISH"
  BY Zenon, <1>1, <1>5, BrokerRepeatsIs
<1>12. \A m : /\ Has(toHub', "PUBLISH", m) <=> Awaits(sending, m, "PUBACK") \/ Awaits(sending, m, "PUBREC")
              /\ Has(toHub', "PUBREL", m) <=> Awaits(sending, m, "PUBCOMP")
              /\ \A type \in Steps : ~Has(toHub', type, m)
              /\ PublishFirst(toHub', m)
  BY Zenon, <1>5, <1>11, RepeatsOf
<1>13. DeliveryTypes'
  <2>1. link' \in {"up", "broken", "down"} /\ link' # "down" /\ toBroker' \in Seq(Packets)
    BY Zenon, <1>1, <1>9, <1>10
  <2>2. /\ \/ partial' = <<>>
           \/ \E m \in Out : partial' = <<Packet("PUBLISH", m)>>
           \/ \E m \in Out : partial' = <<Packet("PUBREL", m)>> /\ OutQos[m] = 2
        /\ publisher' \in {Idle, Disconnecting}
        /\ ~MayInterrupt => partial' = <<>> /\ publisher' = Idle
    BY Zenon, <1>8
  <2> QED
    BY ZenonT(30), <1>1, <1>2, <1>3, <1>4, <1>11, <2>1, <2>2 DEF DeliveryTypes
<1>14. RightQos' /\ SenderInv'
  <2>1. \A m : /\ Cut(m)' => Awaits(outbound, m, "PUBACK") \/ Awaits(outbound, m, "PUBREC")
               /\ CutRelease(m)' => Awaits(outbound, m, "PUBCOMP")
    BY Zenon, <1>8
  <2> QED
    BY Zenon, <1>1, <1>2, <1>3, <1>9, <1>12, <1>10, <2>1, RepeatSender
<1>15. OrderInv'
  <2>1. ASSUME NEW i \in Out, OutQos[i] > 0, i < Turn, published[i] = 0
        PROVE  \E j \in 1 .. Len(outbound) : outbound[j].id = i /\ outbound[j].next # "PUBCOMP"
    <3>1. ~(published[i] >= 1) /\ ~(published[i] = 1)
      BY <2>1
    <3>2. OutQos[i] = 1 \/ OutQos[i] = 2
      <4>1. OutQos[i] \in 0 .. 2
        BY Zenon, <1>2, ScenarioTypes DEF DeliveryTypes
      <4> QED
        BY <2>1, <4>1
    <3>3. i \in Ids(outbound) /\ ~(OutQos[i] = 2 /\ Awaits(outbound, i, "PUBCOMP"))
      BY Zenon, <1>2, <2>1, <3>1, <3>2 DEF SenderInv, AckInv, ExactInv
    <3>4. ~Awaits(outbound, i, "PUBCOMP")
      BY Zenon, <1>2, <3>3 DEF RightQos
    <3>5. PICK j \in 1 .. Len(outbound) : outbound[j].id = i
      BY Zenon, <3>3 DEF Ids
    <3>6. outbound[j].next = "PUBCOMP" => outbound[j] = Awaiting(i, "PUBCOMP")
      <4>1. outbound[j] \in Entries
        BY <1>5
      <4> QED
        BY <3>5, <4>1 DEF Entries, Awaiting
    <3> QED
      BY Zenon, <3>4, <3>5, <3>6 DEF Awaits
  <2>2. ASSUME NEW i \in Out, Ordered(i)', i < Turn, published[i] = 0
        PROVE  Has(toBroker', "PUBLISH", i) \/ Cut(i)'
    <3>1. OutQos[i] > 0 /\ i \notin skipped'
      BY Zenon, <1>4, <2>2 DEF Ordered
    <3>2. PICK j \in 1 .. Len(outbound) : outbound[j].id = i /\ outbound[j].next # "PUBCOMP"
      BY Zenon, <2>1, <2>2, <3>1
    <3>3. j \notin n + 1 .. Len(outbound)
      BY Zenon, <1>7, <3>1, <3>2
    <3>4. j \in 1 .. n
      <4>1. Len(outbound) \in Nat
        BY <1>5
      <4> QED
        BY <3>3, <4>1
    <3> QED
      BY Zenon, <1>9, <1>10, <3>2, <3>4
  <2>3. Fifo(toBroker)'
    <3>1. SUFFICES ASSUME NEW h \in 1 .. Len(toBroker'), NEW i \in Out, toBroker'[h].type = "PUBLISH",
                          i < toBroker'[h].id, OutQos[i] > 0, OutQos[toBroker'[h].id] > 0
                   PROVE  \/ published[i] >= 1
                          \/ \E l \in 1 .. h - 1 : toBroker'[l].type = "PUBLISH" /\ toBroker'[l].id = i
      BY Zenon, <1>1, <1>4 DEF Fifo, Ordered
    <3>2. CASE published[i] # 0
      BY <1>5, <3>2
    <3>3. CASE published[i] = 0
      <4>1. h \in Nat /\ h \in 1 .. k /\ h \in 1 .. Len(outbound) /\ Len(outbound) \in Nat
        <5>1. Len(outbound) \in Nat
          BY <1>5
        <5>2. Len(toBroker') = k
          BY Zenon, <1>9, <1>10
        <5> QED
          BY <5>1, <5>2
      <4>2. /\ toBroker'[h].id = outbound[h].id /\ outbound[h].id \in Nat
            /\ outbound[h].id \in Ids(outbound)
        <5>1. outbound[h].id \in Nat
          <6>1. outbound[h] \in Entries
            BY <1>5, <4>1
          <6> QED
            BY <6>1 DEF Entries
        <5> QED
          BY Zenon, <1>9, <1>10, <4>1, <5>1 DEF Ids
      <4>3. outbound[h].id \in Out /\ outbound[h].id < Turn
        BY Zenon, <1>2, <4>2 DEF RightQos
      <4>4. i < Turn /\ i \in Nat
        <5>1. Turn \in Nat /\ i \in Nat
          BY Zenon, <1>2, TurnIsInt, ScenarioTypes DEF DeliveryTypes
        <5> QED
          BY <3>1, <4>2, <4>3, <5>1
      <4>5. PICK j \in 1 .. Len(outbound) : outbound[j].id = i /\ outbound[j].next # "PUBCOMP"
        BY Zenon, <2>1, <3>1, <3>3, <4>4
      <4>6. h < j => outbound[h].id < outbound[j].id
        BY Zenon, <1>5, <4>1, <4>5 DEF InOrder
      <4>7. ~(h < j) /\ h # j
        BY <3>1, <4>2, <4>4, <4>5, <4>6
      <4>8. j \in 1 .. h - 1 /\ j \in 1 .. k
        BY <4>1, <4>5, <4>7
      <4> QED
        BY ZenonT(30), <1>9, <1>10, <4>5, <4>8
    <3> QED
      BY Zenon, <3>2, <3>3
  <2>4. OrderKept'
    BY Zenon, <1>1, <1>2, <1>4, <1>7 DEF OrderInv, OrderKept
  <2> QED
    BY Zenon, <1>1, <1>3, <1>4, <2>2, <2>3, <2>4 DEF OrderInv
<1>16. TellInv'
  BY Zenon, <1>1, <1>2, <1>3, QuietTell
<1>17. BrokerQos' /\ ReceiverInv'
  BY Zenon, <1>1, <1>2, <1>9, <1>12, <1>10, ReconnectReceiver
<1> QED
  BY Zenon, <1>13, <1>14, <1>15, <1>16, <1>17 DEF DeliveryInv

(* The broker sends its next message.                                      *)
LEMMA BrokerSendsReceiver ==
    ASSUME DeliveryTypes, BrokerQos, ReceiverInv, scenario' = scenario, NEW id \in In, id = nextIn,
           nextIn' = id + 1, arrived' = arrived, inbound' = inbound, toBroker' = toBroker,
           toHub' = Append(toHub, Packet("PUBLISH", id)), InOrder(sending'),
           \A m, type : Awaits(sending', m, type) <=>
               \/ Awaits(sending, m, type)
               \/ m = id /\ InQos[id] > 0 /\ type = FirstAck(InQos[id]),
           \A m : m \in Ids(sending') <=> m \in Ids(sending) \/ (m = id /\ InQos[id] > 0)
    PROVE  BrokerQos' /\ ReceiverInv'
<1> DEFINE p == Packet("PUBLISH", id)
<1>1. InQos' = InQos /\ In' = In /\ toHub \in Seq(Packets) /\ id \in Nat /\ nextIn \in Nat
      /\ InQos[id] \in 0 .. 2 /\ \A m \in In : m \in Nat
  BY Zenon, Steady, ScenarioTypes DEF DeliveryTypes
<1>2. p \in Packets /\ p.type = "PUBLISH" /\ p.id = id
  BY <1>1, PacketIs
<1> HIDE DEF p
<1>3. toHub' = Append(toHub, p) /\ "PUBLISH" # "PUBREL"
  BY Zenon DEF p
<1>4. ASSUME NEW m
      PROVE  /\ Has(toHub', "PUBLISH", m) <=> Has(toHub, "PUBLISH", m) \/ id = m
             /\ Has(toHub', "PUBREL", m) <=> Has(toHub, "PUBREL", m)
             /\ PublishFirst(toHub, m) /\ (id = m => ~Has(toHub, "PUBREL", m)) => PublishFirst(toHub', m)
             /\ PublishOnce(toHub, m) /\ (id = m => ~Has(toHub, "PUBLISH", m)) => PublishOnce(toHub', m)
  <2>1. /\ \A type : Has(Append(toHub, p), type, m) <=> Has(toHub, type, m) \/ (p.type = type /\ p.id = m)
        /\ PublishFirst(toHub, m) /\ (p.type = "PUBLISH" /\ p.id = m => ~Has(toHub, "PUBREL", m))
           => PublishFirst(Append(toHub, p), m)
        /\ PublishOnce(toHub, m) /\ (p.type = "PUBLISH" /\ p.id = m => ~Has(toHub, "PUBLISH", m))
           => PublishOnce(Append(toHub, p), m)
    BY Zenon, <1>1, <1>2, HasAppend
  <2> QED
    BY Zenon, <1>2, <1>3, <2>1
<1>5. ASSUME NEW m \in In, m # id PROVE ReceiverFor(m)'
  <2>1. (m >= nextIn' => m >= nextIn) /\ (m < nextIn' => m < nextIn)
    BY <1>1, <1>5
  <2>2. /\ \A type : Awaits(sending', m, type) <=> Awaits(sending, m, type)
        /\ m \in Ids(sending') <=> m \in Ids(sending)
    <3>1. ASSUME NEW type PROVE Awaits(sending', m, type) <=> Awaits(sending, m, type)
      BY Zenon, <1>5
    <3>2. m \in Ids(sending') <=> m \in Ids(sending)
      BY Zenon, <1>5
    <3> QED
      BY Zenon, <3>1, <3>2
  <2>3. /\ Has(toHub', "PUBLISH", m) => Has(toHub, "PUBLISH", m)
        /\ Has(toHub', "PUBREL", m) => Has(toHub, "PUBREL", m)
        /\ PublishFirst(toHub, m) => PublishFirst(toHub', m)
        /\ PublishOnce(toHub, m) => PublishOnce(toHub', m)
    BY Zenon, <1>4, <1>5
  <2>4. ReceiverFor(m) /\ InQos'[m] = InQos[m]
    BY Zenon, <1>1 DEF ReceiverInv
  <2> QED
    BY Zenon, <2>1, <2>2, <2>3, <2>4, QuietFrom
<1>6. ReceiverFor(id)'
  <2>1. ReceiverFor(id) /\ InQos'[id] = InQos[id]
    BY Zenon, <1>1 DEF ReceiverInv
  <2>2. id >= nextIn /\ ~(id >= nextIn')
    BY <1>1
  <2>3. arrived[id] = 0 /\ id \notin inbound /\ ~Has(toHub, "PUBLISH", id) /\ ~Has(toHub, "PUBREL", id)
    BY Zenon, <2>1, <2>2 DEF ReceiverFor
  <2>4. ~(arrived[id] = 1)
    BY <2>3
  <2>5. InQos[id] > 0 => id \in Ids(sending')
    BY Zenon
  <2>6. InQos[id] = 2 => FirstAck(InQos[id]) # "PUBCOMP"
    BY DEF FirstAck
  <2>7. InQos[id] = 2 => (Awaits(sending', id, "PUBCOMP") => Awaits(sending, id, "PUBCOMP"))
    BY Zenon, <2>6
  <2>8. InQos[id] = 0 => arrived[id] <= 1 /\ PublishOnce(toHub', id)
    BY Zenon, <1>4, <2>1, <2>3 DEF ReceiverFor
  <2>9. InQos[id] = 2 => arrived[id] <= 1 /\ PublishFirst(toHub', id)
    BY Zenon, <1>4, <2>1, <2>3 DEF ReceiverFor
  <2> QED
    BY ZenonT(60), <1>4, <2>1, <2>2, <2>3, <2>4, <2>5, <2>7, <2>8, <2>9 DEF ReceiverFor
<1>7. ReceiverInv'
  BY Zenon, <1>1, <1>5, <1>6 DEF ReceiverInv
<1>8. BrokerQos'
  <2>1. \A m \in Ids(sending') : m \in In /\ m < nextIn' /\ InQos[m] > 0
    <3>1. ASSUME NEW m \in Ids(sending) PROVE m \in In /\ m < nextIn' /\ InQos[m] > 0
      <4>1. m \in In /\ m < nextIn /\ InQos[m] > 0
        BY Zenon DEF BrokerQos
      <4> QED
        BY <1>1, <4>1
    <3>2. id < nextIn'
      BY <1>1
    <3> QED
      BY Zenon, <3>1, <3>2
  <2>2. /\ InQos[id] > 0 /\ "PUBACK" = FirstAck(InQos[id]) => InQos[id] = 1
        /\ InQos[id] > 0 /\ "PUBREC" = FirstAck(InQos[id]) => InQos[id] = 2
        /\ "PUBCOMP" # FirstAck(InQos[id])
    BY <1>1 DEF FirstAck
  <2>3. \A m : Awaits(sending', m, "PUBACK") => InQos[m] = 1
    <3>1. \A m : Awaits(sending, m, "PUBACK") => InQos[m] = 1
      BY Zenon DEF BrokerQos
    <3>2. ASSUME NEW m, Awaits(sending', m, "PUBACK")
          PROVE  Awaits(sending, m, "PUBACK") \/ (m = id /\ InQos[id] = 1)
      BY Zenon, <2>2, <3>2
    <3> QED
      BY Zenon, <3>1, <3>2
  <2>4. \A m : Awaits(sending', m, "PUBREC") \/ Awaits(sending', m, "PUBCOMP") => InQos[m] = 2
    <3>1. \A m : Awaits(sending, m, "PUBREC") \/ Awaits(sending, m, "PUBCOMP") => InQos[m] = 2
      BY Zenon DEF BrokerQos
    <3>2. ASSUME NEW m, Awaits(sending', m, "PUBREC") \/ Awaits(sending', m, "PUBCOMP")
          PROVE  Awaits(sending, m, "PUBREC") \/ Awaits(sending, m, "PUBCOMP") \/ (m = id /\ InQos[id] = 2)
      BY Zenon, <2>2, <3>2
    <3> QED
      BY Zenon, <3>1, <3>2
  <2>5. /\ \A m : Has(toHub', "PUBLISH", m) => m \in In
        /\ \A m : Has(toHub', "PUBREL", m) => m \in In /\ InQos[m] = 2
    BY Zenon, <1>4 DEF BrokerQos
  <2> QED
    BY ZenonT(30), <1>1, <2>1, <2>3, <2>4, <2>5 DEF BrokerQos
<1> QED
  BY Zenon, <1>7, <1>8

(* The broker sends its next message.                                      *)
LEMMA BrokerSendsKeeps == ASSUME DeliveryInv, BrokerSends PROVE DeliveryInv'
<1>1. /\ scenario' = scenario /\ skipped' = skipped /\ link' = link /\ next' = next /\ publications' = publications
      /\ publisher' = publisher /\ outbound' = outbound /\ inbound' = inbound
      /\ responses' = responses /\ pendingWrite' = pendingWrite /\ partial' = partial
      /\ succeeded' = succeeded /\ failed' = failed /\ arrived' = arrived /\ toBroker' = toBroker
      /\ published' = published /\ held' = held /\ link = "up" /\ nextIn \in In
      /\ toHub' = Append(toHub, Packet("PUBLISH", nextIn)) /\ nextIn' = nextIn + 1
      /\ sending' = IF InQos[nextIn] = 0 THEN sending
                    ELSE Append(sending, Awaiting(nextIn, FirstAck(InQos[nextIn])))
  BY DEF BrokerSends, session, callbacks, setting
<1>2. DeliveryTypes /\ RightQos /\ SenderInv /\ OrderInv /\ TellInv /\ BrokerQos /\ ReceiverInv
  BY Zenon DEF DeliveryInv
<1>3. Turn' = Turn
  BY Zenon, <1>1, TurnKept
<1>4. OutQos' = OutQos /\ InQos' = InQos /\ Out' = Out /\ In' = In /\ MayInterrupt' = MayInterrupt
  BY Zenon, <1>1, Steady
<1>5. PICK n \in In : n = nextIn
  BY Zenon, <1>1
<1>6. /\ sending \in Seq(Entries) /\ InOrder(sending) /\ toHub \in Seq(Packets) /\ n \in Nat
      /\ InQos[n] \in 0 .. 2 /\ Len(InQos) \in Nat /\ \A m \in Ids(sending) : m < n
  BY Zenon, <1>2, <1>5, ScenarioTypes DEF DeliveryTypes, BrokerQos
<1>7. /\ sending' \in Seq(Entries) /\ InOrder(sending')
      /\ \A m, type : Awaits(sending', m, type) <=>
            \/ Awaits(sending, m, type)
            \/ m = n /\ InQos[n] > 0 /\ type = FirstAck(InQos[n])
      /\ \A m : m \in Ids(sending') <=> m \in Ids(sending) \/ (m = n /\ InQos[n] > 0)
  <2>1. CASE InQos[n] = 0
    <3>1. sending' = sending
      BY Zenon, <1>1, <1>5, <2>1
    <3>2. ~(InQos[n] > 0)
      BY <2>1
    <3> QED
      BY Zenon, <1>6, <3>1, <3>2
  <2>2. CASE InQos[n] # 0
    <3>1. sending' = Append(sending, Awaiting(n, FirstAck(InQos[n])))
      BY Zenon, <1>1, <1>5, <2>2
    <3>2. FirstAck(InQos[n]) \in Steps /\ InQos[n] > 0
      BY <1>6, <2>2 DEF FirstAck, Steps
    <3>3. PICK t \in Steps : t = FirstAck(InQos[n])
      BY Zenon, <3>2
    <3>4. sending' = Append(sending, Awaiting(n, t))
      BY Zenon, <3>1, <3>3
    <3>5. /\ sending' \in Seq(Entries) /\ InOrder(sending')
          /\ \A m, type : Awaits(sending', m, type) <=> Awaits(sending, m, type) \/ (m = n /\ type = t)
          /\ \A m : m \in Ids(sending') <=> m \in Ids(sending) \/ m = n
      <4> DEFINE r == Append(sending, Awaiting(n, t))
      <4>1. /\ r \in Seq(Entries)
            /\ \A m, type : Awaits(r, m, type) <=> Awaits(sending, m, type) \/ (m = n /\ type = t)
            /\ \A m : m \in Ids(r) <=> m \in Ids(sending) \/ m = n
            /\ InOrder(sending) /\ (\A m \in Ids(sending) : m < n) => InOrder(r)
        BY Zenon, <1>6, AppendEntry
      <4>2. sending' = r
        BY Zenon, <3>4
      <4> HIDE DEF r
      <4> QED
        BY Zenon, <1>6, <4>1, <4>2
    <3> QED
      BY Zenon, <3>2, <3>3, <3>5
  <2> QED
    BY Zenon, <2>1, <2>2
<1>8. Packet("PUBLISH", n) \in Packets /\ Packet("PUBLISH", n).type = "PUBLISH"
      /\ Packet("PUBLISH", n).id = n /\ "PUBLISH" \notin Steps
  BY <1>6, PacketIs DEF Steps
<1>9. DeliveryTypes'
  <2>1. toHub' \in Seq(Packets)
    BY Zenon, <1>1, <1>5, <1>6, <1>8, AppendPacket
  <2>2. nextIn' \in 1 .. Len(InQos) + 1
    BY <1>1, <1>5, <1>6 DEF In
  <2> QED
    BY ZenonT(30), <1>1, <1>2, <1>3, <1>4, <1>7, <2>1, <2>2 DEF DeliveryTypes
<1>10. RightQos' /\ SenderInv'
  <2>1. ASSUME NEW m, NEW type \in Steps, Has(toHub', type, m) PROVE Has(toHub, type, m)
    <3> DEFINE q == Packet("PUBLISH", n)
    <3>1. q \in Packets /\ q.type = "PUBLISH" /\ toHub' = Append(toHub, q)
      BY Zenon, <1>1, <1>5, <1>8
    <3> HIDE DEF q
    <3>2. \A t : Has(Append(toHub, q), t, m) <=> Has(toHub, t, m) \/ (q.type = t /\ q.id = m)
      BY Zenon, <1>6, <3>1, HasAppend
    <3> QED
      BY Zenon, <1>8, <2>1, <3>1, <3>2
  <2> QED
    BY Zenon, <1>1, <1>2, <1>3, <2>1, QuietSender
<1>11. OrderInv'
  BY Zenon, <1>1, <1>2, <1>3, QuietOrder
<1>12. TellInv'
  BY Zenon, <1>1, <1>2, <1>3, QuietTell
<1>13. BrokerQos' /\ ReceiverInv'
  BY Zenon, <1>1, <1>2, <1>5, <1>7, BrokerSendsReceiver
<1> QED
  BY Zenon, <1>9, <1>10, <1>11, <1>12, <1>13 DEF DeliveryInv
=============================================================================
