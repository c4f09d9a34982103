------------------------- MODULE MqttDeliveryProofs -------------------------
(***************************************************************************)
(* The delivery of messages keeps its promises for any number of messages  *)
(* of every QoS in both directions, any number of lost connections and     *)
(* retries, and a socket that takes any part of a publication.  Here are   *)
(* the steps that take a packet, at the broker and at the hub.             *)
(***************************************************************************)
EXTENDS MqttDeliveryInvariant

(* The broker gets an acknowledgement.                                     *)
LEMMA BrokerAcknowledgedReceiver ==
    ASSUME DeliveryTypes, BrokerQos, ReceiverInv, scenario' = scenario, nextIn' = nextIn,
           arrived' = arrived, inbound' = inbound, toBroker # <<>>, toBroker' = Tail(toBroker),
           NEW p, p = Head(toBroker), p.type \in Steps, BrokerAcknowledged(p)
    PROVE  BrokerQos' /\ ReceiverInv' /\ sending' \in Seq(Entries) /\ toHub' \in Seq(Packets)
<1>1. /\ InQos' = InQos /\ In' = In /\ toHub \in Seq(Packets) /\ toBroker \in Seq(Packets)
      /\ sending \in Seq(Entries) /\ InOrder(sending)
  BY Zenon, Steady DEF DeliveryTypes, BrokerQos
<1>2. p.id \in Nat /\ Has(toBroker, p.type, p.id)
  BY Zenon, <1>1, HeadIs
<1>3. PICK id \in Nat : id = p.id
  BY Zenon, <1>2
<1>4. \A m, type : Has(toBroker', type, m) => Has(toBroker, type, m)
  BY Zenon, <1>1, HasTail
<1>5. /\ "PUBACK" \in Steps /\ "PUBREC" \in Steps /\ "PUBCOMP" \in Steps
      /\ \A t \in Steps : t \in {"PUBACK", "PUBREC", "PUBCOMP"}
  BY DEF Steps
<1>6. CASE p.type = "PUBREC"
  <2> DEFINE q == Packet("PUBREL", id)
  <2>1. toHub' = Append(toHub, q)
        /\ sending' = Released(sending, id)
    BY Zenon, <1>3, <1>6 DEF BrokerAcknowledged
  <2>2. q \in Packets /\ q.type = "PUBREL" /\ q.id = id
    BY <1>3, PacketIs
  <2> HIDE DEF q
  <2>3. /\ sending' \in Seq(Entries) /\ InOrder(sending')
        /\ \A type : Awaits(sending', id, type) <=> id \in Ids(sending) /\ type = "PUBCOMP"
        /\ \A m, type : m # id => (Awaits(sending', m, type) <=> Awaits(sending, m, type))
        /\ \A m : m \in Ids(sending') <=> m \in Ids(sending)
    BY Zenon, <1>1, <1>3, <2>1, ReleaseEntry
  <2>4. ASSUME NEW m
        PROVE  /\ Has(toHub', "PUBLISH", m) <=> Has(toHub, "PUBLISH", m)
               /\ Has(toHub', "PUBREL", m) <=> Has(toHub, "PUBREL", m) \/ m = id
               /\ PublishFirst(toHub, m) => PublishFirst(toHub', m)
               /\ PublishOnce(toHub, m) => PublishOnce(toHub', m)
    <3>1. /\ \A type : Has(Append(toHub, q), type, m) <=> Has(toHub, type, m) \/ (q.type = type /\ q.id = m)
          /\ PublishFirst(toHub, m) /\ (q.type = "PUBLISH" /\ q.id = m => ~Has(toHub, "PUBREL", m))
             => PublishFirst(Append(toHub, q), m)
          /\ PublishOnce(toHub, m) /\ (q.type = "PUBLISH" /\ q.id = m => ~Has(toHub, "PUBLISH", m))
             => PublishOnce(Append(toHub, q), m)
      BY Zenon, <1>1, <2>2, HasAppend
    <3>2. "PUBREL" # "PUBLISH"
      OBVIOUS
    <3> QED
      BY Zenon, <2>1, <2>2, <3>1, <3>2
  <2>5. id \in In /\ InQos[id] = 2
    BY Zenon, <1>2, <1>3, <1>6 DEF BrokerQos
  <2>6. ReceiverFor(id)'
    <3>1. ReceiverFor(id) /\ InQos'[id] = InQos[id]
      BY Zenon, <1>1, <2>5 DEF ReceiverInv
    <3>2. ~(InQos[id] = 0) /\ ~(InQos[id] = 1) /\ "PUBREC" # "PUBCOMP"
      BY <2>5
    <3>3. id \in inbound \/ arrived[id] = 1
      BY Zenon, <1>2, <1>3, <1>6, <2>5, <3>1 DEF ReceiverFor
    <3>4. ~(arrived[id] = 1 /\ arrived[id] = 0)
      OBVIOUS
    <3>5. ~(id >= nextIn)
      BY Zenon, <3>1, <3>3, <3>4 DEF ReceiverFor
    <3>6. ~Awaits(sending', id, "PUBREC")
      BY Zenon, <2>3, <3>2
    <3> QED
      BY ZenonT(60), <1>4, <2>3, <2>4, <2>5, <3>1, <3>2, <3>3, <3>5, <3>6 DEF ReceiverFor
  <2>7. ASSUME NEW m \in In, m # id PROVE ReceiverFor(m)'
    <3>1. ReceiverFor(m) /\ InQos'[m] = InQos[m]
      BY Zenon, <1>1 DEF ReceiverInv
    <3>2. /\ \A type : Awaits(sending', m, type) <=> Awaits(sending, m, type)
          /\ m \in Ids(sending') <=> m \in Ids(sending)
      BY Zenon, <2>3, <2>7
    <3>3. /\ Has(toHub', "PUBLISH", m) => Has(toHub, "PUBLISH", m)
          /\ Has(toHub', "PUBREL", m) => Has(toHub, "PUBREL", m)
          /\ PublishFirst(toHub, m) => PublishFirst(toHub', m)
          /\ PublishOnce(toHub, m) => PublishOnce(toHub', m)
      BY Zenon, <2>4, <2>7
    <3> QED
      BY Zenon, <1>4, <3>1, <3>2, <3>3, QuietFrom
  <2>8. ReceiverInv'
    BY Zenon, <1>1, <2>6, <2>7 DEF ReceiverInv
  <2>9. BrokerQos'
    <3>1. "PUBACK" # "PUBCOMP" /\ "PUBREC" # "PUBCOMP"
      OBVIOUS
    <3>2. ASSUME NEW m, Awaits(sending', m, "PUBACK") PROVE InQos[m] = 1
      BY Zenon, <2>3, <3>1, <3>2 DEF BrokerQos
    <3>3. ASSUME NEW m, Awaits(sending', m, "PUBREC") \/ Awaits(sending', m, "PUBCOMP") PROVE InQos[m] = 2
      BY Zenon, <2>3, <2>5, <3>3 DEF BrokerQos
    <3>4. \A m \in Ids(sending') : m \in In /\ m < nextIn /\ InQos[m] > 0
      BY Zenon, <2>3 DEF BrokerQos
    <3>5. /\ \A m : Has(toHub', "PUBLISH", m) => m \in In
          /\ \A m : Has(toHub', "PUBREL", m) => m \in In /\ InQos[m] = 2
      BY Zenon, <2>4, <2>5 DEF BrokerQos
    <3> QED
      BY ZenonT(30), <1>1, <1>4, <2>3, <3>2, <3>3, <3>4, <3>5 DEF BrokerQos
  <2>10. toHub' \in Seq(Packets)
    BY Zenon, <1>1, <2>1, <2>2, AppendPacket
  <2> QED
    BY Zenon, <2>3, <2>8, <2>9, <2>10
<1>7. CASE p.type # "PUBREC"
  <2>1. PICK t : t = p.type
    BY Zenon
  <2>2. toHub' = toHub /\ sending' = ListRemove(sending, Awaiting(id, t)) /\ (t = "PUBACK" \/ t = "PUBCOMP")
    BY Zenon, <1>3, <1>5, <1>7, <2>1 DEF BrokerAcknowledged
  <2>3. /\ sending' \in Seq(Entries) /\ InOrder(sending')
        /\ \A m, type : Awaits(sending', m, type) <=> Awaits(sending, m, type) /\ ~(m = id /\ type = t)
    BY Zenon, <1>1, <2>2, RemoveEntry
  <2>4. id \in In /\ arrived[id] >= 1
    <3>1. CASE t = "PUBACK"
      <4>1. id \in In /\ InQos[id] = 1
        BY Zenon, <1>2, <1>3, <2>1, <3>1 DEF BrokerQos
      <4> QED
        BY Zenon, <1>2, <1>3, <2>1, <3>1, <4>1 DEF ReceiverInv, ReceiverFor
    <3>2. CASE t = "PUBCOMP"
      <4>1. id \in In /\ InQos[id] = 2
        BY Zenon, <1>2, <1>3, <2>1, <3>2 DEF BrokerQos
      <4>2. arrived[id] = 1
        BY Zenon, <1>2, <1>3, <2>1, <3>2, <4>1 DEF ReceiverInv, ReceiverFor
      <4> QED
        BY <4>1, <4>2
    <3> QED
      BY Zenon, <2>2, <3>1, <3>2
  <2>5. ASSUME NEW m, m \in Ids(sending'), m \notin Ids(sending) PROVE FALSE
    <3>1. \E type \in Steps : Awaits(sending', m, type)
      BY Zenon, <2>3, <2>5, IdsAwait
    <3> QED
      BY Zenon, <1>1, <2>3, <2>5, <3>1, IdsAwait
  <2>6. ASSUME NEW m, m \in Ids(sending), m \notin Ids(sending') PROVE m = id
    <3>1. PICK type \in Steps : Awaits(sending, m, type)
      BY Zenon, <1>1, <2>6, IdsAwait
    <3>2. ~Awaits(sending', m, type)
      BY Zenon, <2>3, <2>6, <3>1, IdsAwait
    <3> QED
      BY Zenon, <2>3, <3>1, <3>2
  <2>7. ASSUME NEW m \in In PROVE ReceiverFor(m)'
    <3>1. ReceiverFor(m) /\ InQos'[m] = InQos[m]
      BY Zenon, <1>1 DEF ReceiverInv
    <3>2. InQos[m] > 0 /\ m < nextIn' /\ m \notin Ids(sending') => arrived'[m] >= 1
      BY Zenon, <2>4, <2>6, <3>1 DEF ReceiverFor
    <3>3. /\ Awaits(sending', m, "PUBREC") => Awaits(sending, m, "PUBREC")
          /\ Awaits(sending', m, "PUBCOMP") => Awaits(sending, m, "PUBCOMP")
      BY Zenon, <2>3
    <3> QED
      BY ZenonT(60), <1>4, <1>5, <2>2, <3>1, <3>2, <3>3 DEF ReceiverFor
  <2>8. ReceiverInv'
    BY Zenon, <1>1, <2>7 DEF ReceiverInv
  <2>9. BrokerQos'
    <3>1. \A m, type : Awaits(sending', m, type) => Awaits(sending, m, type)
      BY Zenon, <2>3
    <3> QED
      BY ZenonT(30), <1>1, <1>4, <2>2, <2>3, <2>5, <3>1 DEF BrokerQos
  <2> QED
    BY Zenon, <1>1, <2>2, <2>3, <2>8, <2>9
<1> QED
  BY Zenon, <1>6, <1>7

(* The broker gets a publication.                                          *)
LEMMA BrokerPublishesSender ==
    ASSUME DeliveryTypes, RightQos, SenderInv, scenario' = scenario, Turn' = Turn, outbound' = outbound,
           link' = link, partial' = partial, toBroker # <<>>, toBroker' = Tail(toBroker),
           NEW id, Head(toBroker).type = "PUBLISH", Head(toBroker).id = id, BrokerPublishes(id)
    PROVE  /\ RightQos' /\ SenderInv' /\ toHub' \in Seq(Packets) /\ id \in Out
           /\ published' \in [Out -> Nat] /\ published'[id] >= 1
           /\ \A m \in Out : m # id => published'[m] = published[m]
           /\ \A m : \A type : type \notin Steps => (Has(toHub', type, m) <=> Has(toHub, type, m))
           /\ \A m : /\ PublishFirst(toHub, m) => PublishFirst(toHub', m)
                     /\ PublishOnce(toHub, m) => PublishOnce(toHub', m)
<1>1. /\ OutQos' = OutQos /\ Out' = Out /\ toBroker \in Seq(Packets) /\ toHub \in Seq(Packets)
      /\ published \in [Out -> Nat]
  BY Zenon, Steady DEF DeliveryTypes
<1>2. Has(toBroker, "PUBLISH", id) /\ id \in Nat
  BY Zenon, <1>1, HeadIs
<1>3. id \in Out
  BY Zenon, <1>2 DEF RightQos
<1>4. OutQos[id] \in 0 .. 2
  BY Zenon, <1>3, ScenarioTypes DEF DeliveryTypes
<1>5. UnsentInv(id) /\ OnceInv(id) /\ AckInv(id) /\ ExactInv(id) /\ OutQos'[id] = OutQos[id]
  BY Zenon, <1>1, <1>3 DEF SenderInv
<1>6. /\ \A m, type : Has(toBroker', type, m) => Has(toBroker, type, m)
      /\ \A m : PublishFirst(toBroker, m) => PublishFirst(toBroker', m)
      /\ \A m : PublishOnce(toBroker, m) => PublishOnce(toBroker', m)
      /\ PublishOnce(toBroker, id) => ~Has(toBroker', "PUBLISH", id)
  BY Zenon, <1>1, HasTail
<1> DEFINE ack == FirstAck(OutQos[id])
           p == Packet(ack, id)
<1>7. ack \in Steps /\ (ack = "PUBACK" <=> OutQos[id] = 1) /\ (ack = "PUBACK" \/ ack = "PUBREC")
  BY DEF FirstAck, Steps
<1>8. p \in Packets /\ p.type = ack /\ p.id = id
  <2> HIDE DEF ack
  <2> QED
    BY <1>2, <1>7, PacketIs
<1>9. toHub' = toHub \/ (toHub' = Append(toHub, p) /\ OutQos[id] # 0)
  BY Zenon DEF BrokerPublishes
<1> HIDE DEF ack, p
<1>10. ASSUME NEW m
       PROVE  /\ \A type : Has(toHub, type, m) => Has(toHub', type, m)
              /\ \A type : Has(toHub', type, m) => Has(toHub, type, m) \/ (OutQos[id] # 0 /\ type = ack /\ m = id)
              /\ PublishFirst(toHub, m) => PublishFirst(toHub', m)
              /\ PublishOnce(toHub, m) => PublishOnce(toHub', m)
  <2>1. CASE toHub' = toHub
    BY Zenon, <2>1
  <2>2. CASE toHub' = Append(toHub, p) /\ OutQos[id] # 0
    <3>1. /\ \A type : Has(Append(toHub, p), type, m) <=> Has(toHub, type, m) \/ (p.type = type /\ p.id = m)
          /\ PublishFirst(toHub, m) /\ (p.type = "PUBLISH" /\ p.id = m => ~Has(toHub, "PUBREL", m))
             => PublishFirst(Append(toHub, p), m)
          /\ PublishOnce(toHub, m) /\ (p.type = "PUBLISH" /\ p.id = m => ~Has(toHub, "PUBLISH", m))
             => PublishOnce(Append(toHub, p), m)
      BY Zenon, <1>1, <1>8, HasAppend
    <3>2. p.type # "PUBLISH"
      BY <1>7, <1>8
    <3>3. \A type : Has(toHub', type, m) <=> Has(toHub, type, m) \/ (type = ack /\ m = id)
      BY Zenon, <1>8, <2>2, <3>1
    <3>4. /\ PublishFirst(toHub, m) => PublishFirst(toHub', m)
          /\ PublishOnce(toHub, m) => PublishOnce(toHub', m)
      BY Zenon, <2>2, <3>1, <3>2
    <3>5. \A type : Has(toHub, type, m) => Has(toHub', type, m)
      BY Zenon, <3>3
    <3>6. \A type : Has(toHub', type, m) => Has(toHub, type, m) \/ (OutQos[id] # 0 /\ type = ack /\ m = id)
      BY Zenon, <2>2, <3>3
    <3> QED
      BY Zenon, <3>4, <3>5, <3>6
  <2> QED
    BY Zenon, <1>9, <2>1, <2>2
<1>11. published[id] \in Nat /\ (OutQos[id] = 2 => published[id] <= 1 /\ (id \in held => published[id] = 1))
  BY <1>1, <1>3, <1>5 DEF ExactInv
<1>12. /\ published' \in [Out -> Nat] /\ \A m \in Out : m # id => published'[m] = published[m]
       /\ id \in held => published'[id] = published[id]
       /\ id \notin held => published'[id] = published[id] + 1
  <2>1. published' = IF id \in held THEN published ELSE Bump(published, id)
    BY Zenon DEF BrokerPublishes
  <2>2. /\ Bump(published, id) \in [Out -> Nat]
        /\ \A m \in Out : m # id => Bump(published, id)[m] = published[m]
        /\ Bump(published, id)[id] = published[id] + 1
    BY <1>1, <1>3, BumpIs
  <2> QED
    BY Zenon, <1>1, <2>1, <2>2
<1>13. id \in held => OutQos[id] = 2
  BY Zenon DEF RightQos
<1>14. held' = IF OutQos[id] = 2 THEN held \cup {id} ELSE held
  BY Zenon DEF BrokerPublishes
<1>15. /\ published'[id] >= 1
       /\ OutQos[id] = 2 => published'[id] = 1 /\ id \in held'
  <2>1. OutQos[id] = 2 /\ id \notin held => published[id] = 0
    BY Zenon, <1>2, <1>5 DEF ExactInv
  <2>2. OutQos[id] = 2 => id \in held'
    BY Zenon, <1>14
  <2> QED
    BY <1>11, <1>12, <1>13, <2>1, <2>2
<1>16. ASSUME NEW m \in Out, m # id PROVE SenderFor(m)'
  <2>1. /\ SenderFor(m) /\ OutQos'[m] = OutQos[m]
        /\ (Cut(m)' => Cut(m)) /\ (CutRelease(m)' => CutRelease(m))
    BY Zenon, <1>1, CutKept DEF SenderInv, SenderFor
  <2>2. m \in held' <=> m \in held
    BY Zenon, <1>14, <1>16
  <2>3. \A type \in Steps : Has(toHub', type, m) => Has(toHub, type, m)
    BY Zenon, <1>10, <1>16
  <2> QED
    BY Zenon, <1>6, <1>12, <1>16, <2>1, <2>2, <2>3, QuietFor
<1>17. SenderFor(id)'
  <2>1. ~(id >= Turn)
    BY Zenon, <1>2, <1>5 DEF UnsentInv
  <2>2. \A m : (Cut(m)' <=> Cut(m)) /\ (CutRelease(m)' <=> CutRelease(m))
    BY Zenon DEF Cut, CutRelease, CutOf
  <2>3. UnsentInv(id)'
    BY Zenon, <2>1 DEF UnsentInv
  <2>4. OnceInv(id)'
    <3>1. SUFFICES ASSUME OutQos[id] = 0 PROVE OnceInv(id)'
      BY Zenon, <1>5 DEF OnceInv
    <3>2. published[id] = 0 /\ ~Cut(id) /\ PublishOnce(toBroker, id)
      BY Zenon, <1>2, <1>5, <3>1 DEF OnceInv
    <3>3. published'[id] <= 1
      BY <1>12, <1>13, <3>1, <3>2
    <3> QED
      BY Zenon, <1>6, <2>2, <3>2, <3>3 DEF OnceInv
  <2>5. AckInv(id)'
    BY Zenon, <1>15 DEF AckInv
  <2>6. ExactInv(id)'
    <3>1. SUFFICES ASSUME OutQos[id] = 2 PROVE ExactInv(id)'
      BY Zenon, <1>5 DEF ExactInv
    <3>2. published'[id] = 1 /\ published'[id] <= 1 /\ id \in held'
      BY <1>15, <3>1
    <3>3. ack # "PUBCOMP"
      BY <1>7
    <3>4. /\ Cut(id)' /\ link = "up" => Awaits(outbound, id, "PUBREC")
          /\ CutRelease(id)' => ~Awaits(outbound, id, "PUBREC")
          /\ ~Has(toHub, "PUBCOMP", id)
      BY Zenon, <1>2, <1>5, <2>2, <3>1 DEF ExactInv
    <3>5. ~Has(toHub', "PUBCOMP", id)
      <4>1. ASSUME NEW m, NEW type, Has(toHub', type, m) PROVE Has(toHub, type, m) \/ type = ack
        BY Zenon, <1>10, <4>1
      <4> QED
        BY Zenon, <3>3, <3>4, <4>1
    <3>6. ~(id < Turn /\ id \notin Ids(outbound))
      BY Zenon, <1>2, <1>5, <3>1 DEF ExactInv
    <3> QED
      BY ZenonT(30), <1>5, <1>6, <3>1, <3>2, <3>4, <3>5, <3>6 DEF ExactInv
  <2> QED
    BY Zenon, <2>3, <2>4, <2>5, <2>6 DEF SenderFor
<1>18. SenderInv'
  BY Zenon, <1>1, <1>16, <1>17 DEF SenderInv, SenderFor
<1>19. RightQos'
  <2>1. ASSUME NEW m, Has(toHub', "PUBACK", m) PROVE m \in Out /\ OutQos[m] = 1
    BY Zenon, <1>3, <1>7, <1>10, <2>1 DEF RightQos
  <2>2. ASSUME NEW m, Has(toHub', "PUBREC", m) \/ Has(toHub', "PUBCOMP", m) PROVE m \in Out /\ OutQos[m] = 2
    <3>1. "PUBCOMP" # ack /\ ("PUBREC" = ack /\ OutQos[id] # 0 => OutQos[id] = 2)
      BY <1>4, <1>7
    <3> QED
      BY Zenon, <1>3, <1>10, <2>2, <3>1 DEF RightQos
  <2>3. \A m \in held' : m \in Out /\ OutQos[m] = 2
    BY Zenon, <1>3, <1>14 DEF RightQos
  <2> QED
    BY ZenonT(30), <1>1, <1>6, <2>1, <2>2, <2>3 DEF RightQos
<1>20. toHub' \in Seq(Packets)
  BY Zenon, <1>1, <1>8, <1>9, AppendPacket
<1>21. ASSUME NEW m, NEW type, type \notin Steps PROVE Has(toHub', type, m) <=> Has(toHub, type, m)
  BY Zenon, <1>7, <1>10, <1>21
<1> QED
  BY Zenon, <1>3, <1>10, <1>12, <1>15, <1>18, <1>19, <1>20, <1>21

(* ... which keeps the order of first publications.                        *)
LEMMA BrokerPublishesOrder ==
    ASSUME DeliveryTypes, RightQos, OrderInv, scenario' = scenario, skipped' = skipped, Turn' = Turn, link' = link,
           partial' = partial, toBroker # <<>>, toBroker' = Tail(toBroker),
           NEW id \in Out, Head(toBroker).type = "PUBLISH", Head(toBroker).id = id,
           published' \in [Out -> Nat], published'[id] >= 1,
           \A m \in Out : m # id => published'[m] = published[m]
    PROVE  OrderInv'
<1>1. OutQos' = OutQos /\ Out' = Out /\ toBroker \in Seq(Packets) /\ \A m : Cut(m)' <=> Cut(m)
  BY Zenon, Steady DEF DeliveryTypes, Cut, CutOf
<1>2. \A m \in Out : published[m] >= 1 => published'[m] >= 1
  BY Zenon
<1>3. 1 \in 1 .. Len(toBroker) /\ toBroker[1] = Head(toBroker) /\ \A l : l \notin 1 .. 1 - 1
  BY <1>1
<1>4. ASSUME NEW i \in Out, i < id, Ordered(i), OutQos[id] > 0 PROVE published[i] >= 1
  <2>1. Fifo(toBroker)
    BY Zenon DEF OrderInv
  <2>2. toBroker[1].type = "PUBLISH" /\ i < toBroker[1].id /\ OutQos[toBroker[1].id] > 0
    BY Zenon, <1>3, <1>4
  <2> QED
    BY Zenon, <1>3, <1>4, <2>1, <2>2 DEF Fifo
<1>5. OrderKept'
  <2>1. SUFFICES ASSUME NEW i \in Out, NEW j \in Out, i < j, Ordered(i), published'[j] >= 1, OutQos[j] > 0
                 PROVE  published'[i] >= 1
    BY Zenon, <1>1 DEF OrderKept, Ordered
  <2>2. CASE j = id
    BY Zenon, <1>2, <1>4, <2>1, <2>2
  <2>3. CASE j # id
    BY Zenon, <1>2, <2>1, <2>3 DEF OrderInv, OrderKept, Ordered
  <2> QED
    BY Zenon, <2>2, <2>3
<1>6. ASSUME NEW i \in Out, Ordered(i), i < Turn, published'[i] = 0, link = "up"
      PROVE  Has(toBroker', "PUBLISH", i) \/ Cut(i)
  <2>1. i # id
    BY <1>6
  <2>2. Has(toBroker, "PUBLISH", i) \/ Cut(i)
    BY Zenon, <1>6, <2>1 DEF OrderInv
  <2> QED
    BY Zenon, <1>1, <2>1, <2>2, HasTail
<1>7. Fifo(toBroker)'
  <2>1. Fifo(toBroker)
    BY Zenon DEF OrderInv
  <2> DEFINE r == toBroker'
  <2>2. \A k \in 1 .. Len(r) : k + 1 \in 1 .. Len(toBroker) /\ r[k] = toBroker[k + 1]
    BY <1>1
  <2>3. \A k \in 1 .. Len(r) : \A l \in 1 .. (k + 1) - 1 : l = 1 \/ (l - 1 \in 1 .. k - 1 /\ toBroker[l] = r[l - 1])
    BY <1>1
  <2>4. SUFFICES ASSUME NEW k \in 1 .. Len(r), NEW i \in Out, r[k].type = "PUBLISH", i < r[k].id,
                        Ordered(i), OutQos[r[k].id] > 0
                 PROVE  published'[i] >= 1 \/ \E l \in 1 .. k - 1 : r[l].type = "PUBLISH" /\ r[l].id = i
    BY ZenonT(40), <1>1 DEF Fifo, Ordered
  <2> HIDE DEF r
  <2>5. published[i] >= 1 \/ \E l \in 1 .. (k + 1) - 1 : toBroker[l].type = "PUBLISH" /\ toBroker[l].id = i
    <3>1. k + 1 \in 1 .. Len(toBroker) /\ toBroker[k + 1].type = "PUBLISH" /\ i < toBroker[k + 1].id
          /\ OutQos[toBroker[k + 1].id] > 0
      BY Zenon, <2>2, <2>4
    <3> QED
      BY Zenon, <2>1, <2>4, <3>1 DEF Fifo
  <2>6. ASSUME NEW l \in 1 .. (k + 1) - 1, toBroker[l].type = "PUBLISH", toBroker[l].id = i
        PROVE  published'[i] >= 1 \/ \E j \in 1 .. k - 1 : r[j].type = "PUBLISH" /\ r[j].id = i
    <3>1. CASE l = 1
      BY Zenon, <1>3, <2>6, <3>1
    <3>2. CASE l # 1
      BY Zenon, <2>3, <2>6, <3>2
    <3> QED
      BY Zenon, <3>1, <3>2
  <2> QED
    BY Zenon, <1>2, <2>5, <2>6
<1> QED
  BY Zenon, <1>1, <1>5, <1>6, <1>7 DEF OrderInv, Ordered

(* The broker gets a release.                                              *)
LEMMA BrokerReleasesSender ==
    ASSUME DeliveryTypes, RightQos, SenderInv, scenario' = scenario, Turn' = Turn, outbound' = outbound,
           link' = link, partial' = partial, toBroker # <<>>, toBroker' = Tail(toBroker),
           NEW id, Head(toBroker).type = "PUBREL", Head(toBroker).id = id, BrokerReleases(id)
    PROVE  /\ RightQos' /\ SenderInv' /\ toHub' \in Seq(Packets) /\ published' = published
           /\ \A m : \A type : type \notin Steps => (Has(toHub', type, m) <=> Has(toHub, type, m))
           /\ \A m : /\ PublishFirst(toHub, m) => PublishFirst(toHub', m)
                     /\ PublishOnce(toHub, m) => PublishOnce(toHub', m)
<1>1. /\ OutQos' = OutQos /\ Out' = Out /\ toBroker \in Seq(Packets) /\ toHub \in Seq(Packets)
  BY Zenon, Steady DEF DeliveryTypes
<1>2. Has(toBroker, "PUBREL", id) /\ id \in Nat
  BY Zenon, <1>1, HeadIs
<1>3. id \in Out /\ OutQos[id] = 2
  BY Zenon, <1>2 DEF RightQos
<1>4. UnsentInv(id) /\ ExactInv(id) /\ OutQos'[id] = OutQos[id] /\ ~(OutQos[id] = 0) /\ ~(OutQos[id] = 1)
  <2>1. ~(OutQos[id] = 0) /\ ~(OutQos[id] = 1)
    BY <1>3
  <2> QED
    BY Zenon, <1>1, <1>3, <2>1 DEF SenderInv
<1>5. /\ \A m, type : Has(toBroker', type, m) => Has(toBroker, type, m)
      /\ \A m : PublishFirst(toBroker, m) => PublishFirst(toBroker', m)
      /\ \A m : PublishOnce(toBroker, m) => PublishOnce(toBroker', m)
      /\ PublishFirst(toBroker, id) => ~Has(toBroker', "PUBLISH", id)
  BY Zenon, <1>1, HasTail
<1> DEFINE p == Packet("PUBCOMP", id)
<1>6. p \in Packets /\ p.type = "PUBCOMP" /\ p.id = id /\ "PUBCOMP" \in Steps
  BY <1>2, PacketIs DEF Steps
<1>7. /\ toHub' = Append(toHub, p) /\ published' = published /\ held' = held \ {id}
  BY Zenon DEF BrokerReleases
<1> HIDE DEF p
<1>8. ASSUME NEW m
      PROVE  /\ \A type : Has(toHub', type, m) <=> Has(toHub, type, m) \/ (type = "PUBCOMP" /\ m = id)
             /\ PublishFirst(toHub, m) => PublishFirst(toHub', m)
             /\ PublishOnce(toHub, m) => PublishOnce(toHub', m)
  <2>1. /\ \A type : Has(Append(toHub, p), type, m) <=> Has(toHub, type, m) \/ (p.type = type /\ p.id = m)
        /\ PublishFirst(toHub, m) /\ (p.type = "PUBLISH" /\ p.id = m => ~Has(toHub, "PUBREL", m))
           => PublishFirst(Append(toHub, p), m)
        /\ PublishOnce(toHub, m) /\ (p.type = "PUBLISH" /\ p.id = m => ~Has(toHub, "PUBLISH", m))
           => PublishOnce(Append(toHub, p), m)
    BY Zenon, <1>1, <1>6, HasAppend
  <2>2. p.type # "PUBLISH"
    BY <1>6
  <2>3. \A type : Has(toHub', type, m) <=> Has(toHub, type, m) \/ (type = "PUBCOMP" /\ m = id)
    BY Zenon, <1>6, <1>7, <2>1
  <2>4. /\ PublishFirst(toHub, m) => PublishFirst(toHub', m)
        /\ PublishOnce(toHub, m) => PublishOnce(toHub', m)
    BY Zenon, <1>7, <2>1, <2>2
  <2> QED
    BY Zenon, <2>3, <2>4
<1>9. ASSUME NEW m \in Out, m # id PROVE SenderFor(m)'
  <2>1. /\ SenderFor(m) /\ OutQos'[m] = OutQos[m]
        /\ (Cut(m)' => Cut(m)) /\ (CutRelease(m)' => CutRelease(m))
    BY Zenon, <1>1, CutKept DEF SenderInv, SenderFor
  <2>2. m \in held' <=> m \in held
    BY Zenon, <1>7, <1>9
  <2>3. \A type \in Steps : Has(toHub', type, m) => Has(toHub, type, m)
    BY Zenon, <1>8, <1>9
  <2> QED
    BY Zenon, <1>5, <1>7, <2>1, <2>2, <2>3, QuietFor
<1>10. SenderFor(id)'
  <2>1. ~(id >= Turn)
    BY Zenon, <1>2, <1>4 DEF UnsentInv
  <2>2. (Cut(id)' <=> Cut(id)) /\ (CutRelease(id)' <=> CutRelease(id))
    BY Zenon DEF Cut, CutRelease, CutOf
  <2>3. /\ published[id] = 1 /\ PublishFirst(toBroker, id) /\ ~Awaits(outbound, id, "PUBREC")
        /\ published[id] <= 1 /\ ~(Cut(id) /\ link = "up")
    BY Zenon, <1>2, <1>3, <1>4 DEF ExactInv
  <2>4. id \notin held' /\ ~Has(toBroker', "PUBLISH", id)
    BY Zenon, <1>5, <1>7, <2>3
  <2>5. ExactInv(id)'
    BY ZenonT(30), <1>5, <1>7, <2>2, <2>3, <2>4 DEF ExactInv
  <2> QED
    BY Zenon, <1>4, <2>1, <2>5 DEF SenderFor, UnsentInv, OnceInv, AckInv
<1>11. SenderInv'
  BY Zenon, <1>1, <1>9, <1>10 DEF SenderInv, SenderFor
<1>12. RightQos'
  <2>1. ASSUME NEW m, Has(toHub', "PUBACK", m) PROVE m \in Out /\ OutQos[m] = 1
    <3>1. "PUBACK" # "PUBCOMP"
      OBVIOUS
    <3> QED
      BY Zenon, <1>8, <2>1, <3>1 DEF RightQos
  <2>2. ASSUME NEW m, Has(toHub', "PUBREC", m) \/ Has(toHub', "PUBCOMP", m) PROVE m \in Out /\ OutQos[m] = 2
    BY Zenon, <1>3, <1>8, <2>2 DEF RightQos
  <2>3. \A m \in held' : m \in Out /\ OutQos[m] = 2
    BY Zenon, <1>7 DEF RightQos
  <2> QED
    BY ZenonT(30), <1>1, <1>5, <2>1, <2>2, <2>3 DEF RightQos
<1>13. toHub' \in Seq(Packets)
  BY Zenon, <1>1, <1>6, <1>7, AppendPacket
<1>14. ASSUME NEW m, NEW type, type \notin Steps PROVE Has(toHub', type, m) <=> Has(toHub, type, m)
  BY Zenon, <1>6, <1>8, <1>14
<1> QED
  BY Zenon, <1>7, <1>8, <1>11, <1>12, <1>13, <1>14

(* The broker takes a packet.                                              *)
LEMMA BrokerReceivesKeeps == ASSUME DeliveryInv, BrokerReceives PROVE DeliveryInv'
<1>1. PICK p : p = Head(toBroker)
  BY Zenon
<1>2. /\ scenario' = scenario /\ link' = link /\ next' = next /\ publications' = publications
      /\ publisher' = publisher /\ outbound' = outbound /\ inbound' = inbound
      /\ responses' = responses /\ pendingWrite' = pendingWrite /\ partial' = partial
      /\ succeeded' = succeeded /\ failed' = failed /\ arrived' = arrived /\ nextIn' = nextIn
      /\ skipped' = skipped /\ link = "up" /\ toBroker # <<>> /\ toBroker' = Tail(toBroker)
      /\ \/ p.type = "PUBLISH" /\ BrokerPublishes(p.id)
         \/ p.type = "PUBREL" /\ BrokerReleases(p.id)
         \/ p.type \in Steps /\ BrokerAcknowledged(p)
  BY <1>1 DEF BrokerReceives, session, callbacks, setting, Steps
<1>3. DeliveryTypes /\ RightQos /\ SenderInv /\ OrderInv /\ TellInv /\ BrokerQos /\ ReceiverInv
  BY Zenon DEF DeliveryInv
<1>4. Turn' = Turn
  BY Zenon, <1>2, TurnKept
<1>5. OutQos' = OutQos /\ InQos' = InQos /\ Out' = Out /\ In' = In /\ MayInterrupt' = MayInterrupt
  BY Zenon, <1>2, Steady
<1>6. /\ toBroker \in Seq(Packets) /\ toHub \in Seq(Packets) /\ sending \in Seq(Entries)
      /\ published \in [Out -> Nat] /\ toBroker' \in Seq(Packets)
  BY Zenon, <1>2, <1>3, HeadIs DEF DeliveryTypes
<1>7. /\ \A m, type : Has(toBroker', type, m) => Has(toBroker, type, m)
      /\ \A m : PublishFirst(toBroker, m) => PublishFirst(toBroker', m)
      /\ \A m : PublishOnce(toBroker, m) => PublishOnce(toBroker', m)
  BY Zenon, <1>2, <1>6, HasTail
<1>8. \A m : Has(toBroker, "PUBLISH", m) => Has(toBroker', "PUBLISH", m) \/ (p.type = "PUBLISH" /\ p.id = m)
  BY Zenon, <1>1, <1>2, <1>6, HasTail
<1>9. /\ toHub' \in Seq(Packets) /\ sending' \in Seq(Entries) /\ published' \in [Out -> Nat] => DeliveryTypes'
  BY ZenonT(30), <1>2, <1>3, <1>4, <1>5, <1>6 DEF DeliveryTypes
<1>10. "PUBLISH" \notin Steps /\ "PUBREL" \notin Steps /\ "PUBREL" # "PUBLISH"
  BY DEF Steps
<1>11. p.type # "PUBLISH" /\ published' = published => OrderInv'
  <2>1. p.type # "PUBLISH" /\ Fifo(toBroker) => Fifo(toBroker')
    BY Zenon, <1>1, <1>2, <1>6, FifoTail
  <2> QED
    BY Zenon, <1>2, <1>3, <1>4, <1>8, <2>1, QuietOrder
<1>12. CASE p.type = "PUBLISH" /\ BrokerPublishes(p.id)
  <2>1. PICK id : id = p.id
    BY Zenon
  <2>2. /\ RightQos' /\ SenderInv' /\ toHub' \in Seq(Packets) /\ id \in Out
        /\ published' \in [Out -> Nat] /\ published'[id] >= 1
        /\ \A m \in Out : m # id => published'[m] = published[m]
        /\ \A m : \A type : type \notin Steps => (Has(toHub', type, m) <=> Has(toHub, type, m))
        /\ \A m : /\ PublishFirst(toHub, m) => PublishFirst(toHub', m)
                  /\ PublishOnce(toHub, m) => PublishOnce(toHub', m)
    BY Zenon, <1>1, <1>2, <1>3, <1>4, <1>12, <2>1, BrokerPublishesSender
  <2>3. sending' = sending
    BY Zenon, <1>12 DEF BrokerPublishes
  <2>4. OrderInv'
    BY Zenon, <1>1, <1>2, <1>3, <1>4, <1>12, <2>1, <2>2, BrokerPublishesOrder
  <2>5. \A m \in Out : published[m] >= 1 => published'[m] >= 1
    BY Zenon, <2>2
  <2>6. TellInv'
    BY Zenon, <1>2, <1>3, <1>4, <2>5, QuietTell
  <2>7. BrokerQos' /\ ReceiverInv'
    BY Zenon, <1>2, <1>3, <1>7, <1>10, <2>2, <2>3, QuietReceiver
  <2> QED
    BY Zenon, <1>6, <1>9, <2>2, <2>3, <2>4, <2>6, <2>7 DEF DeliveryInv
<1>13. CASE p.type = "PUBREL" /\ BrokerReleases(p.id)
  <2>1. /\ RightQos' /\ SenderInv' /\ toHub' \in Seq(Packets) /\ published' = published
        /\ \A m : \A type : type \notin Steps => (Has(toHub', type, m) <=> Has(toHub, type, m))
        /\ \A m : /\ PublishFirst(toHub, m) => PublishFirst(toHub', m)
                  /\ PublishOnce(toHub, m) => PublishOnce(toHub', m)
    BY Zenon, <1>1, <1>2, <1>3, <1>4, <1>13, BrokerReleasesSender
  <2>2. sending' = sending
    BY Zenon, <1>13 DEF BrokerReleases
  <2>3. OrderInv'
    BY Zenon, <1>10, <1>11, <1>13, <2>1
  <2>4. TellInv'
    BY Zenon, <1>2, <1>3, <1>4, <2>1, QuietTell
  <2>5. BrokerQos' /\ ReceiverInv'
    BY Zenon, <1>2, <1>3, <1>7, <1>10, <2>1, <2>2, QuietReceiver
  <2> QED
    BY Zenon, <1>6, <1>9, <2>1, <2>2, <2>3, <2>4, <2>5 DEF DeliveryInv
<1>14. CASE p.type \in Steps /\ BrokerAcknowledged(p)
  <2>1. BrokerQos' /\ ReceiverInv' /\ sending' \in Seq(Entries) /\ toHub' \in Seq(Packets)
    BY Zenon, <1>1, <1>2, <1>3, <1>14, BrokerAcknowledgedReceiver
  <2>2. /\ published' = published /\ held' = held
        /\ toHub' = IF p.type = "PUBREC" THEN Append(toHub, Packet("PUBREL", p.id)) ELSE toHub
    BY Zenon, <1>14 DEF BrokerAcknowledged
  <2>3. OrderInv'
    BY Zenon, <1>10, <1>11, <1>14, <2>2
  <2>4. TellInv'
    BY Zenon, <1>2, <1>3, <1>4, <2>2, QuietTell
  <2>5. ASSUME NEW m, NEW type \in Steps, Has(toHub', type, m) PROVE Has(toHub, type, m)
    <3> DEFINE q == Packet("PUBREL", p.id)
    <3>1. q \in Packets /\ q.type = "PUBREL"
      <4>1. p.id \in Nat
        BY Zenon, <1>1, <1>2, <1>6, HeadIs
      <4> QED
        BY <4>1, PacketIs
    <3>2. toHub' = toHub \/ toHub' = Append(toHub, q)
      BY Zenon, <2>2
    <3> HIDE DEF q
    <3>3. \A t : Has(Append(toHub, q), t, m) <=> Has(toHub, t, m) \/ (q.type = t /\ q.id = m)
      BY Zenon, <1>6, <3>1, HasAppend
    <3>4. q.type # type
      BY Zenon, <1>10, <3>1
    <3> QED
      BY Zenon, <2>5, <3>2, <3>3, <3>4
  <2>6. RightQos' /\ SenderInv'
    BY Zenon, <1>2, <1>3, <1>4, <1>7, <2>2, <2>5, QuietSender
  <2> QED
    BY Zenon, <1>6, <1>9, <2>1, <2>2, <2>3, <2>4, <2>6 DEF DeliveryInv
<1> QED
  BY Zenon, <1>2, <1>12, <1>13, <1>14

(* Handling a packet, whether it is answered or not.                       *)
Handled == toHub # <<>> /\ (NoAnswer \/ \E type \in Steps \cup {"PUBREL"}, id \in Nat : Answer(type, id))

(* What an answer, or none, puts on the way to the broker.                 *)
LEMMA AnswerIs ==
    ASSUME DeliveryTypes, link = "up", toHub # <<>>, NEW type \in Steps \cup {"PUBREL"}, NEW id \in Nat,
           Answer(type, id) \/ NoAnswer
    PROVE  /\ toBroker' \in Seq(Packets)
           /\ \A m, t : Has(toBroker', t, m) =>
                 Has(toBroker, t, m) \/ (t = type /\ m = id /\ partial = <<>> /\ Answer(type, id))
           /\ \A m : PublishFirst(toBroker, m) => PublishFirst(toBroker', m)
           /\ \A m : PublishOnce(toBroker, m) => PublishOnce(toBroker', m)
           /\ link' \in {"up", "broken"} /\ (link' # "up" => toBroker' = <<>> /\ toHub' = <<>>)
           /\ link' = "up" => toBroker' \in {toBroker, Append(toBroker, Packet(type, id))}
<1>1. toBroker \in Seq(Packets)
  BY Zenon DEF DeliveryTypes
<1> DEFINE p == Packet(type, id)
<1>2. p \in Packets /\ p.type = type /\ p.id = id /\ type # "PUBLISH"
  BY PacketIs DEF Steps
<1> HIDE DEF p
<1>3. CASE NoAnswer
  <2>1. toBroker' = toBroker /\ link' = link
    BY Zenon, <1>3 DEF NoAnswer
  <2>2. link' \in {"up", "broken"} /\ link' = "up"
    BY <2>1
  <2>3. \A m, t : Has(toBroker', t, m) => Has(toBroker, t, m)
    BY Zenon, <2>1
  <2> QED
    BY Zenon, <1>1, <2>1, <2>2, <2>3
<1>4. CASE Answer(type, id) /\ partial = <<>>
  <2>1. toBroker' = Append(toBroker, p) /\ link' = link
    BY Zenon, <1>4 DEF Answer, p
  <2>2. link' \in {"up", "broken"} /\ link' = "up"
    BY <2>1
  <2>3. ASSUME NEW m
        PROVE  /\ \A t : Has(toBroker', t, m) => Has(toBroker, t, m) \/ (t = type /\ m = id)
               /\ PublishFirst(toBroker, m) => PublishFirst(toBroker', m)
               /\ PublishOnce(toBroker, m) => PublishOnce(toBroker', m)
    <3>1. /\ \A t : Has(Append(toBroker, p), t, m) <=> Has(toBroker, t, m) \/ (p.type = t /\ p.id = m)
          /\ PublishFirst(toBroker, m) /\ (p.type = "PUBLISH" /\ p.id = m => ~Has(toBroker, "PUBREL", m))
             => PublishFirst(Append(toBroker, p), m)
          /\ PublishOnce(toBroker, m) /\ (p.type = "PUBLISH" /\ p.id = m => ~Has(toBroker, "PUBLISH", m))
             => PublishOnce(Append(toBroker, p), m)
      BY Zenon, <1>1, <1>2, HasAppend
    <3>2. \A t : Has(toBroker', t, m) => Has(toBroker, t, m) \/ (t = type /\ m = id)
      BY Zenon, <1>2, <2>1, <3>1
    <3>3. /\ PublishFirst(toBroker, m) => PublishFirst(toBroker', m)
          /\ PublishOnce(toBroker, m) => PublishOnce(toBroker', m)
      BY Zenon, <1>2, <2>1, <3>1
    <3> QED
      BY Zenon, <3>2, <3>3
  <2>4. toBroker' \in Seq(Packets)
    BY Zenon, <1>1, <1>2, <2>1, AppendPacket
  <2>5. toBroker' = Append(toBroker, Packet(type, id))
    BY Zenon, <2>1 DEF p
  <2>6. \A m, t : Has(toBroker', t, m) =>
           Has(toBroker, t, m) \/ (t = type /\ m = id /\ partial = <<>> /\ Answer(type, id))
    BY Zenon, <1>4, <2>3
  <2> QED
    BY Zenon, <2>2, <2>3, <2>4, <2>5, <2>6
<1>5. CASE Answer(type, id) /\ partial # <<>>
  <2>1. toBroker' = <<>> /\ toHub' = <<>> /\ link' = "broken"
    BY Zenon, <1>5 DEF Answer
  <2>2. link' \in {"up", "broken"} /\ link' # "up"
    BY <2>1
  <2>3. \A m, t : ~Has(toBroker', t, m) /\ PublishFirst(toBroker', m) /\ PublishOnce(toBroker', m)
    BY Zenon, <2>1, HasNone
  <2> QED
    BY Zenon, <2>1, <2>2, <2>3, NoneIsSeq
<1> QED
  BY Zenon, <1>3, <1>4, <1>5

(* ... and what is left of the packets on their way to the hub.            *)
LEMMA HandledIs ==
    ASSUME DeliveryTypes, Handled
    PROVE  /\ toHub' \in Seq(Packets)
           /\ \A m, t : Has(toHub', t, m) => Has(toHub, t, m)
           /\ \A m : PublishFirst(toHub, m) => PublishFirst(toHub', m)
           /\ \A m : PublishOnce(toHub, m) => PublishOnce(toHub', m)
           /\ \A m : /\ PublishFirst(toHub, m) /\ Head(toHub).type = "PUBREL" /\ Head(toHub).id = m
                        => ~Has(toHub', "PUBLISH", m)
                     /\ PublishOnce(toHub, m) /\ Head(toHub).type = "PUBLISH" /\ Head(toHub).id = m
                        => ~Has(toHub', "PUBLISH", m)
<1>1. toHub \in Seq(Packets) /\ toHub # <<>>
  BY Zenon DEF DeliveryTypes, Handled
<1>2. CASE toHub' = Tail(toHub)
  <2>1. Tail(toHub) \in Seq(Packets)
    BY Zenon, <1>1, HeadIs
  <2>2. ASSUME NEW m
        PROVE  /\ \A t : Has(Tail(toHub), t, m) => Has(toHub, t, m)
               /\ PublishFirst(toHub, m) => PublishFirst(Tail(toHub), m)
               /\ PublishOnce(toHub, m) => PublishOnce(Tail(toHub), m)
               /\ PublishFirst(toHub, m) /\ Head(toHub).type = "PUBREL" /\ Head(toHub).id = m
                  => ~Has(Tail(toHub), "PUBLISH", m)
               /\ PublishOnce(toHub, m) /\ Head(toHub).type = "PUBLISH" /\ Head(toHub).id = m
                  => ~Has(Tail(toHub), "PUBLISH", m)
    BY Zenon, <1>1, HasTail
  <2> QED
    BY Zenon, <1>2, <2>1, <2>2
<1>3. CASE toHub' = <<>>
  <2>1. \A m, t : ~Has(toHub', t, m) /\ PublishFirst(toHub', m) /\ PublishOnce(toHub', m)
    BY Zenon, <1>3, HasNone
  <2> QED
    BY Zenon, <1>3, <2>1, NoneIsSeq
<1> QED
  BY Zenon, <1>2, <1>3 DEF Handled, NoAnswer, Answer

(* The order of publications is not touched by an answer.                  *)
LEMMA AnswerOrder ==
    ASSUME DeliveryTypes, OrderInv, scenario' = scenario, skipped' = skipped, Turn' = Turn, published' = published,
           partial' = partial, link = "up", toHub # <<>>,
           NEW type \in Steps \cup {"PUBREL"}, NEW id \in Nat, Answer(type, id) \/ NoAnswer
    PROVE  OrderInv'
<1>1. /\ link' \in {"up", "broken"} /\ (link' # "up" => toBroker' = <<>>)
      /\ link' = "up" => toBroker' \in {toBroker, Append(toBroker, Packet(type, id))}
  BY Zenon, AnswerIs
<1>2. CASE link' # "up"
  BY Zenon, <1>1, <1>2, QuietOrderDown
<1>3. CASE link' = "up"
  <2> DEFINE p == Packet(type, id)
  <2>1. toBroker \in Seq(Packets) /\ Fifo(toBroker)
    BY Zenon DEF DeliveryTypes, OrderInv
  <2>2. p \in Packets /\ p.type # "PUBLISH"
    BY PacketIs DEF Steps
  <2>3. toBroker' = toBroker \/ toBroker' = Append(toBroker, p)
    BY Zenon, <1>1, <1>3
  <2> HIDE DEF p
  <2>4. Fifo(Append(toBroker, p))
    BY Zenon, <2>1, <2>2, FifoAppend
  <2>5. ASSUME NEW m PROVE Has(toBroker, "PUBLISH", m) => Has(Append(toBroker, p), "PUBLISH", m)
    BY Zenon, <2>1, <2>2, HasAppend
  <2> QED
    BY Zenon, <1>3, <2>1, <2>3, <2>4, <2>5, QuietOrder
<1> QED
  BY Zenon, <1>2, <1>3

(* The types after a packet is handled.                                    *)
LEMMA HandledTypes ==
    ASSUME DeliveryTypes, scenario' = scenario, next' = next, publications' = publications,
           publisher' = publisher, pendingWrite' = pendingWrite, partial' = partial, failed' = failed,
           published' = published, nextIn' = nextIn, sending' = sending,
           outbound' \in Seq(Entries), succeeded' \in [Out -> Nat], arrived' \in [In -> Nat],
           toBroker' \in Seq(Packets), toHub' \in Seq(Packets), link' \in {"up", "broken"},
           link' # "up" => toBroker' = <<>> /\ toHub' = <<>>
    PROVE  DeliveryTypes'
<1>1. OutQos' = OutQos /\ InQos' = InQos /\ Out' = Out /\ In' = In /\ MayInterrupt' = MayInterrupt
  BY Zenon, Steady
<1>2. link' \in {"up", "broken", "down"} /\ link' # "down"
  OBVIOUS
<1>3. Turn' = Turn
  BY Zenon, TurnKept
<1> QED
  BY ZenonT(30), <1>1, <1>2, <1>3 DEF DeliveryTypes

(* The last acknowledgement of a publication ends it.                      *)
LEMMA CompletedSender ==
    ASSUME DeliveryInv, scenario' = scenario, Turn' = Turn, toBroker' = toBroker, partial' = partial,
           link = "up", published' = published, held' = held,
           \A m, type : Has(toHub', type, m) => Has(toHub, type, m),
           NEW id, NEW t \in {"PUBACK", "PUBCOMP"}, Has(toHub, t, id),
           outbound' = ListRemove(outbound, Awaiting(id, t))
    PROVE  /\ outbound' \in Seq(Entries) /\ RightQos' /\ SenderInv'
           /\ id \in Out /\ id < Turn /\ published[id] >= 1
           /\ \A m : m # id => (m \in Ids(outbound') <=> m \in Ids(outbound))
<1>1. OutQos' = OutQos /\ Out' = Out
  BY Zenon, Steady
<1>2. outbound \in Seq(Entries) /\ InOrder(outbound)
  BY Zenon DEF DeliveryInv, DeliveryTypes, RightQos
<1>3. /\ outbound' \in Seq(Entries) /\ InOrder(outbound')
      /\ \A m, type : Awaits(outbound', m, type) <=> Awaits(outbound, m, type) /\ ~(m = id /\ type = t)
  BY Zenon, <1>2, RemoveEntry
<1>4. ASSUME NEW m, m # id PROVE m \in Ids(outbound') <=> m \in Ids(outbound)
  <2>1. m \in Ids(outbound) <=> \E type \in Steps : Awaits(outbound, m, type)
    BY Zenon, <1>2, IdsAwait
  <2>2. m \in Ids(outbound') <=> \E type \in Steps : Awaits(outbound', m, type)
    BY Zenon, <1>3, IdsAwait
  <2> QED
    BY Zenon, <1>3, <1>4, <2>1, <2>2
<1>5. \A m : m \in Ids(outbound') => m \in Ids(outbound)
  <2>1. SUFFICES ASSUME NEW m, m \in Ids(outbound') PROVE m \in Ids(outbound)
    OBVIOUS
  <2>2. m \in Ids(outbound) <=> \E type \in Steps : Awaits(outbound, m, type)
    BY Zenon, <1>2, IdsAwait
  <2>3. m \in Ids(outbound') <=> \E type \in Steps : Awaits(outbound', m, type)
    BY Zenon, <1>3, IdsAwait
  <2> QED
    BY Zenon, <1>3, <2>1, <2>2, <2>3
<1>6. t \in Steps /\ "PUBACK" \in Steps /\ "PUBREC" \in Steps /\ "PUBCOMP" \in Steps
  BY DEF Steps
<1>7. id \in Out /\ (t = "PUBACK" => OutQos[id] = 1) /\ (t = "PUBCOMP" => OutQos[id] = 2)
  BY Zenon DEF DeliveryInv, RightQos
<1>8. SenderFor(id) /\ UnsentInv(id) /\ AckInv(id) /\ ExactInv(id)
  BY Zenon, <1>7 DEF DeliveryInv, SenderInv, SenderFor
<1>9. ~(id >= Turn)
  BY Zenon, <1>6, <1>8 DEF UnsentInv
<1>10. id < Turn
  <2>1. id \in Nat /\ Turn \in Nat
    BY Zenon, <1>7, ScenarioTypes, TurnIsInt DEF DeliveryInv, DeliveryTypes
  <2> QED
    BY <1>9, <2>1
<1>11. published[id] >= 1
  <2>1. t = "PUBACK" => published[id] >= 1
    BY Zenon, <1>7, <1>8 DEF AckInv
  <2>2. t = "PUBCOMP" => published[id] = 1
    BY Zenon, <1>7, <1>8 DEF ExactInv
  <2> QED
    BY <2>1, <2>2
<1>12. RightQos'
  <2>1. \A m, type : Awaits(outbound', m, type) => Awaits(outbound, m, type)
    BY Zenon, <1>3
  <2> QED
    BY ZenonT(30), <1>1, <1>3, <1>5, <2>1 DEF DeliveryInv, RightQos
<1>13. \A m : (Cut(m)' => Cut(m)) /\ (CutRelease(m)' => CutRelease(m))
  BY Zenon, CutKept
<1>14. ASSUME NEW m \in Out, m # id PROVE SenderFor(m)'
  <2>1. SenderFor(m)
    BY Zenon DEF DeliveryInv, SenderInv, SenderFor
  <2>2. \A type : Awaits(outbound', m, type) <=> Awaits(outbound, m, type)
    BY Zenon, <1>3, <1>14
  <2> QED
    BY ZenonT(30), <1>1, <1>4, <1>13, <1>14, <2>1, <2>2, QuietFor
<1>15. SenderFor(id)'
  <2>1. UnsentInv(id)'
    BY Zenon, <1>9 DEF UnsentInv
  <2>2. CASE t = "PUBACK"
    <3>1. OutQos'[id] = 1 /\ OutQos'[id] # 0 /\ OutQos'[id] # 2
      BY <1>1, <1>7, <2>2
    <3>2. OnceInv(id)' /\ ExactInv(id)'
      BY Zenon, <3>1 DEF OnceInv, ExactInv
    <3>3. AckInv(id)'
      BY Zenon, <1>11 DEF AckInv
    <3> QED
      BY Zenon, <2>1, <3>2, <3>3 DEF SenderFor
  <2>3. CASE t = "PUBCOMP"
    <3>1. OutQos'[id] = 2 /\ OutQos'[id] # 0 /\ OutQos'[id] # 1 /\ OutQos[id] = 2
      BY <1>1, <1>7, <2>3
    <3>2. OnceInv(id)' /\ AckInv(id)'
      BY Zenon, <3>1 DEF OnceInv, AckInv
    <3>3. published[id] = 1 /\ id \notin held /\ ~Has(toBroker, "PUBLISH", id) /\ ~Awaits(outbound, id, "PUBREC")
      BY Zenon, <1>8, <2>3, <3>1 DEF ExactInv
    <3>4. ~Cut(id)'
      BY Zenon, <1>8, <1>13, <3>1, <3>3 DEF ExactInv
    <3>5. ~Awaits(outbound', id, "PUBREC")
      BY Zenon, <1>3, <3>3
    <3>6. ExactInv(id)'
      BY ZenonT(30), <1>3, <1>8, <1>13, <3>1, <3>3, <3>4, <3>5 DEF ExactInv
    <3> QED
      BY Zenon, <2>1, <3>2, <3>6 DEF SenderFor
  <2> QED
    BY Zenon, <2>2, <2>3
<1>16. SenderInv'
  BY Zenon, <1>1, <1>14, <1>15 DEF SenderInv, SenderFor
<1> QED
  BY Zenon, <1>3, <1>4, <1>7, <1>10, <1>11, <1>12, <1>16

Holds(s, e) == \E i \in 1 .. Len(s) : s[i] = e
Distinct(s) == \A i, j \in 1 .. Len(s) : s[i] = s[j] => i = j

(* Removing an element from a list without repetitions.                    *)
LEMMA RemoveHeld ==
    ASSUME NEW T, NEW s \in Seq(T), Distinct(s), NEW e, Holds(s, e)
    PROVE  LET r == ListRemove(s, e) IN
           /\ r \in Seq(T) /\ Distinct(r)
           /\ \A m : Holds(r, m) <=> Holds(s, m) /\ m # e
<1> DEFINE r == ListRemove(s, e)
<1>1. PICK k \in 1 .. Len(s) : s[k] = e
  BY Zenon DEF Holds
<1>2. ASSUME NEW i \in 1 .. Len(s), s[i] = e PROVE i = k
  BY Zenon, <1>1, <1>2 DEF Distinct
<1>3. /\ r \in Seq(T) /\ Len(r) = Len(s) - 1
      /\ \A i \in 1 .. Len(r) : r[i] = IF i < k THEN s[i] ELSE s[i + 1]
  BY ZenonT(60), <1>1, <1>2, RemoveOne
<1>4. Len(s) \in Nat /\ k \in 1 .. Len(s)
  BY <1>1
<1> HIDE DEF r
<1> DEFINE at(i) == IF i < k THEN i ELSE i + 1
<1>5. /\ \A i \in 1 .. Len(r) : at(i) \in 1 .. Len(s) /\ r[i] = s[at(i)] /\ at(i) # k
      /\ \A i, j \in 1 .. Len(r) : at(i) = at(j) => i = j
  <2>1. \A i \in 1 .. Len(r) : at(i) \in 1 .. Len(s) /\ r[i] = s[at(i)] /\ at(i) # k
    BY <1>3, <1>4
  <2>2. \A i, j \in 1 .. Len(r) : at(i) = at(j) => i = j
    BY <1>4
  <2> QED
    BY Zenon, <2>1, <2>2
<1>6. \A i \in 1 .. Len(s) : i # k => \E j \in 1 .. Len(r) : at(j) = i
  <2>1. ASSUME NEW i \in 1 .. Len(s), i < k PROVE i \in 1 .. Len(r) /\ at(i) = i
    BY <1>3, <1>4, <2>1
  <2>2. ASSUME NEW i \in 1 .. Len(s), i > k PROVE i - 1 \in 1 .. Len(r) /\ at(i - 1) = i
    BY <1>3, <1>4, <2>2
  <2>3. \A i \in 1 .. Len(s) : i = k \/ i < k \/ i > k
    BY <1>4
  <2> HIDE DEF at
  <2> QED
    BY Zenon, <2>1, <2>2, <2>3
<1> HIDE DEF at
<1>7. Distinct(r)
  <2>1. ASSUME NEW i \in 1 .. Len(r), NEW j \in 1 .. Len(r), r[i] = r[j] PROVE i = j
    <3>1. at(i) = at(j)
      BY Zenon, <1>5, <2>1 DEF Distinct
    <3> QED
      BY Zenon, <1>5, <3>1
  <2> QED
    BY Zenon, <2>1 DEF Distinct
<1>8. ASSUME NEW m PROVE Holds(r, m) <=> Holds(s, m) /\ m # e
  <2>1. Holds(r, m) => Holds(s, m) /\ m # e
    BY Zenon, <1>2, <1>5 DEF Holds
  <2>2. ASSUME NEW i \in 1 .. Len(s), s[i] = m, m # e PROVE Holds(r, m)
    <3>1. i # k
      BY Zenon, <1>1, <2>2
    <3>2. PICK j \in 1 .. Len(r) : at(j) = i
      BY Zenon, <1>6, <3>1
    <3> QED
      BY Zenon, <1>5, <2>2, <3>2 DEF Holds
  <2> QED
    BY Zenon, <2>1, <2>2 DEF Holds
<1> QED
  BY Zenon, <1>3, <1>7, <1>8 DEF r

(* ... and is told to the command that waits for it, once.                 *)
LEMMA CompletedTell ==
    ASSUME DeliveryTypes, TellInv, scenario' = scenario, Turn' = Turn, failed' = failed, published' = published,
           NEW id \in Out, id < Turn, published[id] >= 1, Acknowledged(id),
           \A m : m # id => (m \in Ids(outbound') <=> m \in Ids(outbound))
    PROVE  succeeded' \in [Out -> Nat] /\ TellInv'
<1>1. OutQos' = OutQos /\ Out' = Out /\ MayInterrupt' = MayInterrupt
  BY Zenon, Steady
<1>2. succeeded \in [Out -> Nat] /\ failed \in [Out -> Nat]
  BY Zenon DEF DeliveryTypes
<1>3. CASE ~Waits(id)
  <2>1. responses' = responses /\ succeeded' = succeeded
    BY Zenon, <1>3 DEF Acknowledged, Waits
  <2>2. SuccessIsPublished'
    BY Zenon, <1>1, <2>1 DEF TellInv, SuccessIsPublished
  <2>3. \A m : Waits(m)' <=> Waits(m)
    BY Zenon, <2>1 DEF Waits
  <2>4. ASSUME NEW m, Waits(m), m \in Ids(outbound) PROVE m \in Ids(outbound')
    BY Zenon, <1>3, <2>4
  <2> QED
    BY ZenonT(30), <1>1, <1>2, <2>1, <2>2, <2>3, <2>4 DEF TellInv
<1>4. CASE Waits(id)
  <2>1. responses' = ListRemove(responses, id) /\ succeeded' = Bump(succeeded, id)
    BY Zenon, <1>4 DEF Acknowledged, Waits
  <2>2. /\ succeeded' \in [Out -> Nat] /\ succeeded'[id] = succeeded[id] + 1
        /\ \A m \in Out : m # id => succeeded'[m] = succeeded[m]
    BY <1>2, <2>1, BumpIs
  <2>3. SuccessIsPublished'
    <3>1. \A m \in Out : OutQos[m] > 0 /\ succeeded[m] > 0 => published[m] >= 1
      BY Zenon DEF TellInv, SuccessIsPublished
    <3>2. ASSUME NEW m \in Out, OutQos[m] > 0, succeeded'[m] > 0 PROVE published'[m] >= 1
      <4>1. CASE m = id
        BY Zenon, <4>1
      <4>2. CASE m # id
        BY Zenon, <2>2, <3>1, <3>2, <4>2
      <4> QED
        BY Zenon, <4>1, <4>2
    <3> QED
      BY Zenon, <1>1, <3>2 DEF SuccessIsPublished
  <2>4. CASE MayInterrupt
    BY Zenon, <1>1, <2>2, <2>3, <2>4 DEF TellInv
  <2>5. CASE ~MayInterrupt
    <3>1. responses \in Seq(Nat) /\ Distinct(responses) /\ Holds(responses, id)
      BY Zenon, <1>4, <2>5 DEF TellInv, Distinct, Holds, Waits
    <3>2. /\ responses' \in Seq(Nat) /\ Distinct(responses')
          /\ \A m : Holds(responses', m) <=> Holds(responses, m) /\ m # id
      BY Zenon, <2>1, <3>1, RemoveHeld
    <3>3. \A m : Waits(m)' <=> Waits(m) /\ m # id
      BY Zenon, <3>2 DEF Waits, Holds
    <3>4. succeeded'[id] + failed'[id] = 1 /\ ~(id >= Turn)
      <4>1. succeeded[id] + failed[id] = 0
        BY Zenon, <1>4, <2>5 DEF TellInv
      <4>2. succeeded[id] \in Nat /\ failed[id] \in Nat /\ id \in Nat /\ Turn \in Nat
        BY SMTT(30), <1>2, ScenarioTypes, TurnIsInt DEF DeliveryTypes
      <4> QED
        BY <2>2, <4>1, <4>2
    <3>5. ASSUME NEW m \in Out
           PROVE  /\ m >= Turn => succeeded'[m] = 0 /\ failed'[m] = 0 /\ ~Waits(m)'
                  /\ m < Turn => IF Waits(m)' THEN succeeded'[m] + failed'[m] = 0
                                 ELSE succeeded'[m] + failed'[m] = 1
                  /\ Waits(m)' => m \in Ids(outbound')
      <4>1. CASE m = id
        BY Zenon, <3>3, <3>4, <4>1
      <4>2. CASE m # id
        <5>1. /\ m >= Turn => succeeded[m] = 0 /\ failed[m] = 0 /\ ~Waits(m)
              /\ m < Turn => IF Waits(m) THEN succeeded[m] + failed[m] = 0 ELSE succeeded[m] + failed[m] = 1
              /\ Waits(m) => m \in Ids(outbound)
          BY Zenon, <2>5 DEF TellInv
        <5> QED
          BY Zenon, <2>2, <3>3, <4>2, <5>1
      <4> QED
        BY Zenon, <4>1, <4>2
    <3>6. TellInv'
      BY ZenonT(30), <1>1, <2>3, <3>2, <3>5 DEF TellInv, Distinct
    <3> QED
      BY Zenon, <2>2, <3>6
  <2> QED
    BY Zenon, <2>4, <2>5
<1> QED
  BY Zenon, <1>3, <1>4

(* A receipt awaited releases the publication, which the broker holds or   *)
(* has released already.                                                   *)
LEMMA ReleasedSender ==
    ASSUME DeliveryInv, scenario' = scenario, Turn' = Turn, partial' = partial,
           link = "up", link' = "up" => partial = <<>>, published' = published, held' = held, NEW id,
           \A m, type : Has(toHub', type, m) => Has(toHub, type, m),
           \A m, type : Has(toBroker', type, m) => Has(toBroker, type, m) \/ (type = "PUBREL" /\ m = id),
           \A m : PublishFirst(toBroker, m) => PublishFirst(toBroker', m),
           \A m : PublishOnce(toBroker, m) => PublishOnce(toBroker', m),
           Has(toHub, "PUBREC", id), Awaits(outbound, id, "PUBREC"), outbound' = Released(outbound, id)
    PROVE  /\ outbound' \in Seq(Entries) /\ RightQos' /\ SenderInv'
           /\ \A m : m \in Ids(outbound) => m \in Ids(outbound')
<1>1. OutQos' = OutQos /\ Out' = Out
  BY Zenon, Steady
<1>2. outbound \in Seq(Entries) /\ InOrder(outbound)
  BY Zenon DEF DeliveryInv, DeliveryTypes, RightQos
<1>3. id \in Out /\ OutQos[id] = 2
  BY Zenon DEF DeliveryInv, RightQos
<1>4. id \in Nat
  BY Zenon, <1>3, ScenarioTypes DEF DeliveryInv, DeliveryTypes
<1>5. /\ outbound' \in Seq(Entries) /\ InOrder(outbound')
      /\ \A type : Awaits(outbound', id, type) => type = "PUBCOMP"
      /\ \A m, type : m # id => (Awaits(outbound', m, type) <=> Awaits(outbound, m, type))
      /\ \A m : m \in Ids(outbound') <=> m \in Ids(outbound)
  <2> DEFINE r == Released(outbound, id)
  <2>1. /\ r \in Seq(Entries) /\ (InOrder(outbound) => InOrder(r))
        /\ \A type : Awaits(r, id, type) <=> id \in Ids(outbound) /\ type = "PUBCOMP"
        /\ \A m, type : m # id => (Awaits(r, m, type) <=> Awaits(outbound, m, type))
        /\ \A m : m \in Ids(r) <=> m \in Ids(outbound)
    BY Zenon, <1>2, <1>4, ReleaseEntry
  <2>2. r = outbound'
    OBVIOUS
  <2> HIDE DEF r
  <2> QED
    BY Zenon, <1>2, <2>1, <2>2
<1>6. "PUBACK" \in Steps /\ "PUBREC" \in Steps /\ "PUBCOMP" \in Steps
      /\ "PUBACK" # "PUBCOMP" /\ "PUBREC" # "PUBCOMP" /\ "PUBLISH" # "PUBREL"
  BY DEF Steps
<1>7. SenderFor(id) /\ UnsentInv(id) /\ ExactInv(id)
  BY Zenon, <1>3 DEF DeliveryInv, SenderInv, SenderFor
<1>8. ~(id >= Turn)
  BY Zenon, <1>6, <1>7 DEF UnsentInv
<1>9. /\ published[id] = 1 /\ ~CutRelease(id) /\ ~Has(toHub, "PUBCOMP", id)
      /\ id \in Ids(outbound)
  <2>1. id \in Ids(outbound)
    BY Zenon, <1>2, <1>6, IdsAwait
  <2> QED
    BY Zenon, <1>3, <1>7, <2>1 DEF ExactInv
<1>10. \A m : (Cut(m)' => Cut(m)) /\ (CutRelease(m)' => CutRelease(m))
  BY Zenon, CutKept
<1>11. ~Awaits(outbound', id, "PUBACK") /\ ~Awaits(outbound', id, "PUBREC")
  BY Zenon, <1>5, <1>6
<1>12. \A m : Has(toBroker', "PUBLISH", m) => Has(toBroker, "PUBLISH", m)
  BY Zenon, <1>6
<1>13. RightQos'
  <2>1. ASSUME NEW m, Has(toBroker', "PUBREL", m) PROVE m \in Out /\ OutQos[m] = 2
    BY Zenon, <1>3, <2>1 DEF DeliveryInv, RightQos
  <2>2. ASSUME NEW m, Awaits(outbound', m, "PUBACK") PROVE OutQos[m] = 1
    BY Zenon, <1>5, <1>11, <2>2 DEF DeliveryInv, RightQos
  <2>3. ASSUME NEW m, Awaits(outbound', m, "PUBREC") \/ Awaits(outbound', m, "PUBCOMP") PROVE OutQos[m] = 2
    BY Zenon, <1>3, <1>5, <1>11, <2>3 DEF DeliveryInv, RightQos
  <2> QED
    BY ZenonT(30), <1>1, <1>5, <1>12, <2>1, <2>2, <2>3 DEF DeliveryInv, RightQos
<1>14. ASSUME NEW m \in Out, m # id PROVE SenderFor(m)'
  <2>1. SenderFor(m)
    BY Zenon DEF DeliveryInv, SenderInv, SenderFor
  <2>2. /\ \A type : Awaits(outbound', m, type) <=> Awaits(outbound, m, type)
        /\ m \in Ids(outbound') <=> m \in Ids(outbound)
    BY Zenon, <1>5, <1>14
  <2>3. Has(toBroker', "PUBREL", m) => Has(toBroker, "PUBREL", m)
    BY Zenon, <1>14
  <2> QED
    BY ZenonT(30), <1>1, <1>10, <1>12, <2>1, <2>2, <2>3, QuietFor
<1>15. SenderFor(id)'
  <2>1. UnsentInv(id)'
    BY Zenon, <1>8 DEF UnsentInv
  <2>2. OutQos'[id] = 2 /\ OutQos'[id] # 0 /\ OutQos'[id] # 1
    BY <1>1, <1>3
  <2>3. OnceInv(id)' /\ AckInv(id)'
    BY Zenon, <2>2 DEF OnceInv, AckInv
  <2>4. id \in Ids(outbound')
    BY Zenon, <1>5, <1>9
  <2>5. ~CutRelease(id)' /\ (link' = "up" => ~Cut(id)')
    BY Zenon, <1>9, <1>10 DEF Cut, CutOf
  <2>6. ~Has(toHub', "PUBCOMP", id)
    BY Zenon, <1>9
  <2>7. ExactInv(id)'
    BY ZenonT(30), <1>3, <1>7, <1>9, <1>11, <1>12, <2>4, <2>5, <2>6 DEF ExactInv
  <2> QED
    BY Zenon, <2>1, <2>3, <2>7 DEF SenderFor
<1>16. SenderInv'
  BY Zenon, <1>1, <1>14, <1>15 DEF SenderInv, SenderFor
<1> QED
  BY Zenon, <1>5, <1>13, <1>16

(* A publication of the broker reaches the hub.                            *)
LEMMA PublishesReceiver ==
    ASSUME DeliveryInv, scenario' = scenario, nextIn' = nextIn, sending' = sending, NEW id,
           Head(toHub).type = "PUBLISH", Head(toHub).id = id, toHub # <<>>, Handled, handlePublishes(id),
           \A m : \A type \in Steps : Has(toBroker', type, m) =>
               Has(toBroker, type, m) \/ (InQos[id] > 0 /\ type = FirstAck(InQos[id]) /\ m = id /\ partial = <<>>)
    PROVE  arrived' \in [In -> Nat] /\ BrokerQos' /\ ReceiverInv'
<1>1. InQos' = InQos /\ In' = In
  BY Zenon, Steady
<1>2. Has(toHub, "PUBLISH", id)
  <2>1. toHub \in Seq(Packets)
    BY Zenon DEF DeliveryInv, DeliveryTypes
  <2> QED
    BY Zenon, <2>1, HeadIs
<1>3. id \in In /\ ReceiverFor(id)
  BY Zenon, <1>2 DEF DeliveryInv, BrokerQos, ReceiverInv
<1>4. InQos[id] \in 0 .. 2 /\ (InQos[id] = 0 \/ InQos[id] = 1 \/ InQos[id] = 2)
  BY <1>3, ScenarioTypes DEF DeliveryInv, DeliveryTypes
<1>5. arrived \in [In -> Nat]
  BY Zenon DEF DeliveryInv, DeliveryTypes
<1>6. /\ \A m, t : Has(toHub', t, m) => Has(toHub, t, m)
      /\ \A m : PublishFirst(toHub, m) => PublishFirst(toHub', m)
      /\ \A m : PublishOnce(toHub, m) => PublishOnce(toHub', m)
      /\ PublishOnce(toHub, id) => ~Has(toHub', "PUBLISH", id)
  BY Zenon, HandledIs DEF DeliveryInv
<1>7. /\ InQos[id] = 2 \/ (InQos[id] = 1 /\ partial # <<>>) => arrived' = arrived
      /\ ~(InQos[id] = 2 \/ (InQos[id] = 1 /\ partial # <<>>)) => arrived' = Bump(arrived, id)
      /\ InQos[id] = 2 /\ partial = <<>> => inbound' = inbound \cup {id}
      /\ ~(InQos[id] = 2 /\ partial = <<>>) => inbound' = inbound
  BY Zenon DEF handlePublishes
<1>8. /\ Bump(arrived, id) \in [In -> Nat] /\ Bump(arrived, id)[id] = arrived[id] + 1
      /\ \A m \in In : m # id => Bump(arrived, id)[m] = arrived[m]
  BY <1>3, <1>5, BumpIs
<1>9. arrived' \in [In -> Nat] /\ \A m \in In : m # id => arrived'[m] = arrived[m]
  BY Zenon, <1>5, <1>7, <1>8
<1>10. \A m : m # id => (m \in inbound' <=> m \in inbound)
  <2>1. inbound' = inbound \/ inbound' = inbound \cup {id}
    BY Zenon, <1>7
  <2> QED
    BY <2>1
<1>11. /\ "PUBACK" \in Steps /\ "PUBREC" \in Steps /\ "PUBCOMP" \in Steps
       /\ InQos[id] = 1 => FirstAck(InQos[id]) = "PUBACK" /\ "PUBREC" # FirstAck(InQos[id])
                           /\ "PUBCOMP" # FirstAck(InQos[id])
       /\ InQos[id] = 2 => FirstAck(InQos[id]) = "PUBREC" /\ "PUBACK" # FirstAck(InQos[id])
                           /\ "PUBCOMP" # FirstAck(InQos[id])
       /\ ~(0 > 0)
  BY DEF Steps, FirstAck
<1>12. ASSUME NEW m
       PROVE  /\ Has(toBroker', "PUBACK", m) => Has(toBroker, "PUBACK", m) \/ (InQos[id] = 1 /\ m = id /\ partial = <<>>)
              /\ Has(toBroker', "PUBREC", m) => Has(toBroker, "PUBREC", m) \/ (InQos[id] = 2 /\ m = id /\ partial = <<>>)
              /\ Has(toBroker', "PUBCOMP", m) => Has(toBroker, "PUBCOMP", m)
  <2>1. CASE InQos[id] = 0
    BY Zenon, <1>11, <2>1
  <2>2. CASE InQos[id] = 1
    BY Zenon, <1>11, <2>2
  <2>3. CASE InQos[id] = 2
    BY Zenon, <1>11, <2>3
  <2> QED
    BY Zenon, <1>4, <2>1, <2>2, <2>3
<1>13. BrokerQos'
  <2>1. ASSUME NEW m \in inbound' PROVE m \in In /\ InQos[m] = 2
    BY Zenon, <1>3, <1>7, <2>1 DEF DeliveryInv, BrokerQos
  <2>2. ASSUME NEW m, Has(toBroker', "PUBACK", m) PROVE m \in In /\ InQos[m] = 1
    BY Zenon, <1>3, <1>12, <2>2 DEF DeliveryInv, BrokerQos
  <2>3. ASSUME NEW m, Has(toBroker', "PUBREC", m) \/ Has(toBroker', "PUBCOMP", m) PROVE m \in In /\ InQos[m] = 2
    BY Zenon, <1>3, <1>12, <2>3 DEF DeliveryInv, BrokerQos
  <2> QED
    BY ZenonT(30), <1>1, <1>6, <2>1, <2>2, <2>3 DEF DeliveryInv, BrokerQos
<1>14. ASSUME NEW m \in In, m # id PROVE ReceiverFor(m)'
  <2>1. ReceiverFor(m)
    BY Zenon DEF DeliveryInv, ReceiverInv
  <2>2. \A type \in Steps : Has(toBroker', type, m) => Has(toBroker, type, m)
    BY Zenon, <1>14
  <2> QED
    BY ZenonT(30), <1>1, <1>6, <1>9, <1>10, <1>14, <2>1, <2>2, QuietFrom
<1>15. ReceiverFor(id)'
  <2>1. ~(id >= nextIn)
    BY Zenon, <1>2, <1>3 DEF ReceiverFor
  <2>2. CASE InQos[id] = 0
    <3>1. /\ InQos'[id] = 0 /\ InQos'[id] # 1 /\ InQos'[id] # 2 /\ ~(InQos'[id] > 0)
          /\ InQos[id] # 1 /\ InQos[id] # 2
      BY <1>1, <2>2
    <3>2. arrived[id] = 0 /\ PublishOnce(toHub, id)
      BY Zenon, <1>2, <1>3, <2>2 DEF ReceiverFor
    <3>3. arrived'[id] <= 1
      <4>1. arrived'[id] = arrived[id] + 1
        BY Zenon, <1>7, <1>8, <3>1
      <4> QED
        BY <3>2, <4>1
    <3> QED
      BY Zenon, <1>6, <2>1, <3>1, <3>2, <3>3 DEF ReceiverFor
  <2>3. CASE InQos[id] = 1
    <3>1. /\ InQos'[id] = 1 /\ InQos'[id] # 0 /\ InQos'[id] # 2 /\ InQos'[id] > 0
          /\ InQos[id] # 0 /\ InQos[id] # 2 /\ InQos[id] > 0
      BY <1>1, <2>3
    <3>2. CASE partial = <<>>
      <4>1. arrived'[id] = arrived[id] + 1
        BY Zenon, <1>7, <1>8, <3>1, <3>2
      <4>2. arrived[id] \in Nat
        BY <1>3, <1>5
      <4>3. arrived'[id] >= 1
        BY <4>1, <4>2
      <4> QED
        BY Zenon, <2>1, <3>1, <4>3 DEF ReceiverFor
    <3>3. CASE partial # <<>>
      <4>1. arrived' = arrived /\ (Has(toBroker', "PUBACK", id) => Has(toBroker, "PUBACK", id))
        BY Zenon, <1>7, <1>12, <2>3, <3>3
      <4> QED
        BY Zenon, <1>3, <2>1, <2>3, <3>1, <4>1 DEF ReceiverFor
    <3> QED
      BY Zenon, <3>2, <3>3
  <2>4. CASE InQos[id] = 2
    <3>1. /\ InQos'[id] = 2 /\ InQos'[id] # 0 /\ InQos'[id] # 1 /\ InQos'[id] > 0
          /\ InQos[id] # 0 /\ InQos[id] # 1 /\ InQos[id] > 0
      BY <1>1, <2>4
    <3>2. arrived' = arrived /\ arrived[id] # 1
      BY Zenon, <1>2, <1>3, <1>7, <2>4 DEF ReceiverFor
    <3>3. id \in inbound' \/ (inbound' = inbound /\ (Has(toBroker', "PUBREC", id) => Has(toBroker, "PUBREC", id)))
      <4>1. CASE partial = <<>>
        <5>1. inbound' = inbound \cup {id}
          BY Zenon, <1>7, <2>4, <4>1
        <5> QED
          BY <5>1
      <4>2. CASE partial # <<>>
        BY Zenon, <1>7, <1>12, <4>2
      <4> QED
        BY Zenon, <4>1, <4>2
    <3> QED
      BY ZenonT(30), <1>3, <1>6, <1>12, <2>1, <2>4, <3>1, <3>2, <3>3 DEF ReceiverFor
  <2> QED
    BY Zenon, <1>4, <2>2, <2>3, <2>4
<1>16. ReceiverInv'
  BY Zenon, <1>1, <1>14, <1>15 DEF ReceiverInv
<1> QED
  BY Zenon, <1>9, <1>13, <1>16

(* The broker releases a publication of QoS 2, which is processed now if   *)
(* the hub has stored it and has been processed if not.                    *)
LEMMA PubrelsReceiver ==
    ASSUME DeliveryInv, scenario' = scenario, nextIn' = nextIn, sending' = sending, NEW id, NEW dup,
           Head(toHub).type = "PUBREL", Head(toHub).id = id, toHub # <<>>, Handled, handlePubrels(id, dup),
           \A m : \A type \in Steps : Has(toBroker', type, m) =>
               Has(toBroker, type, m) \/ (type = "PUBCOMP" /\ m = id /\ partial = <<>>)
    PROVE  arrived' \in [In -> Nat] /\ BrokerQos' /\ ReceiverInv'
<1>1. InQos' = InQos /\ In' = In
  BY Zenon, Steady
<1>2. Has(toHub, "PUBREL", id)
  <2>1. toHub \in Seq(Packets)
    BY Zenon DEF DeliveryInv, DeliveryTypes
  <2> QED
    BY Zenon, <2>1, HeadIs
<1>3. id \in In /\ ReceiverFor(id) /\ InQos[id] = 2
  BY Zenon, <1>2 DEF DeliveryInv, BrokerQos, ReceiverInv
<1>4. InQos'[id] = 2 /\ InQos'[id] # 0 /\ InQos'[id] # 1 /\ InQos'[id] > 0 /\ InQos[id] > 0
  BY <1>1, <1>3
<1>5. arrived \in [In -> Nat]
  BY Zenon DEF DeliveryInv, DeliveryTypes
<1>6. /\ \A m, t : Has(toHub', t, m) => Has(toHub, t, m)
      /\ \A m : PublishFirst(toHub, m) => PublishFirst(toHub', m)
      /\ \A m : PublishOnce(toHub, m) => PublishOnce(toHub', m)
      /\ PublishFirst(toHub, id) => ~Has(toHub', "PUBLISH", id)
  BY Zenon, HandledIs DEF DeliveryInv
<1>7. /\ id \in inbound /\ partial = <<>> => arrived' = Bump(arrived, id)
      /\ ~(id \in inbound /\ partial = <<>>) => arrived' = arrived
      /\ partial = <<>> => inbound' = inbound \ {id}
      /\ partial # <<>> => inbound' = inbound
  BY Zenon DEF handlePubrels
<1>8. /\ Bump(arrived, id) \in [In -> Nat] /\ Bump(arrived, id)[id] = arrived[id] + 1
      /\ \A m \in In : m # id => Bump(arrived, id)[m] = arrived[m]
  BY <1>3, <1>5, BumpIs
<1>9. arrived' \in [In -> Nat] /\ \A m \in In : m # id => arrived'[m] = arrived[m]
  BY Zenon, <1>5, <1>7, <1>8
<1>10. /\ \A m : m # id => (m \in inbound' <=> m \in inbound)
       /\ \A m : m \in inbound' => m \in inbound
       /\ partial = <<>> => id \notin inbound'
  <2>1. inbound' = inbound \/ inbound' = inbound \ {id}
    BY Zenon, <1>7
  <2> QED
    BY <1>7, <2>1
<1>11. /\ "PUBACK" \in Steps /\ "PUBREC" \in Steps /\ "PUBCOMP" \in Steps
       /\ "PUBACK" # "PUBCOMP" /\ "PUBREC" # "PUBCOMP"
  BY DEF Steps
<1>12. /\ \A m : Has(toBroker', "PUBACK", m) => Has(toBroker, "PUBACK", m)
       /\ \A m : Has(toBroker', "PUBREC", m) => Has(toBroker, "PUBREC", m)
       /\ \A m : Has(toBroker', "PUBCOMP", m) => Has(toBroker, "PUBCOMP", m) \/ (m = id /\ partial = <<>>)
  BY Zenon, <1>11
<1>13. BrokerQos'
  <2>1. ASSUME NEW m, Has(toBroker', "PUBREC", m) \/ Has(toBroker', "PUBCOMP", m) PROVE m \in In /\ InQos[m] = 2
    BY Zenon, <1>3, <1>12, <2>1 DEF DeliveryInv, BrokerQos
  <2> QED
    BY ZenonT(30), <1>1, <1>6, <1>10, <1>12, <2>1 DEF DeliveryInv, BrokerQos
<1>14. ASSUME NEW m \in In, m # id PROVE ReceiverFor(m)'
  <2>1. ReceiverFor(m)
    BY Zenon DEF DeliveryInv, ReceiverInv
  <2>2. \A type \in Steps : Has(toBroker', type, m) => Has(toBroker, type, m)
    BY Zenon, <1>14
  <2> QED
    BY ZenonT(30), <1>1, <1>6, <1>9, <1>10, <1>14, <2>1, <2>2, QuietFrom
<1>15. ReceiverFor(id)'
  <2>1. /\ ~(id >= nextIn) /\ PublishFirst(toHub, id) /\ ~Awaits(sending, id, "PUBREC")
        /\ id \in inbound \/ arrived[id] = 1
        /\ arrived[id] = 1 => id \notin inbound
        /\ arrived[id] <= 1
    BY Zenon, <1>2, <1>3 DEF ReceiverFor
  <2>2. ~Has(toHub', "PUBLISH", id) /\ PublishFirst(toHub', id)
    BY Zenon, <1>6, <2>1
  <2>3. CASE partial = <<>>
    <3>1. arrived'[id] = 1
      <4>1. CASE id \in inbound
        <5>1. arrived[id] \in Nat
          BY <1>3, <1>5
        <5>2. arrived[id] = 0
          BY <2>1, <4>1, <5>1
        <5>3. arrived'[id] = arrived[id] + 1
          BY Zenon, <1>7, <1>8, <2>3, <4>1
        <5> QED
          BY <5>2, <5>3
      <4>2. CASE id \notin inbound
        BY Zenon, <1>7, <2>1, <4>2
      <4> QED
        BY Zenon, <4>1, <4>2
    <3>2. arrived'[id] <= 1 /\ arrived'[id] >= 1 /\ id \notin inbound'
      BY <1>10, <2>3, <3>1
    <3> QED
      BY ZenonT(30), <1>4, <2>1, <2>2, <3>1, <3>2 DEF ReceiverFor
  <2>4. CASE partial # <<>>
    <3>1. arrived' = arrived /\ inbound' = inbound /\ (Has(toBroker', "PUBCOMP", id) => Has(toBroker, "PUBCOMP", id))
      BY Zenon, <1>7, <1>12, <2>4
    <3> QED
      BY ZenonT(30), <1>3, <1>4, <1>6, <1>12, <2>1, <2>2, <3>1 DEF ReceiverFor
  <2> QED
    BY Zenon, <2>3, <2>4
<1>16. ReceiverInv'
  BY Zenon, <1>1, <1>14, <1>15 DEF ReceiverInv
<1> QED
  BY Zenon, <1>9, <1>13, <1>16

(* The receive thread takes a packet.                                      *)
LEMMA ReceiveKeeps ==
    ASSUME DeliveryInv, Receive
    PROVE  DeliveryInv'
<1>1. /\ link = "up" /\ toHub # <<>>
      /\ next' = next /\ publications' = publications /\ publisher' = publisher
      /\ pendingWrite' = pendingWrite /\ partial' = partial /\ failed' = failed
      /\ published' = published /\ held' = held /\ nextIn' = nextIn /\ sending' = sending
      /\ scenario' = scenario /\ skipped' = skipped
  BY DEF Receive, broker, setting
<1>2. Turn' = Turn
  BY Zenon, <1>1, TurnKept
<1> DEFINE h == Head(toHub)
           id == h.id
<1>3. toHub \in Seq(Packets) /\ toBroker \in Seq(Packets) /\ DeliveryTypes
  BY Zenon DEF DeliveryInv, DeliveryTypes
<1>4. id \in Nat /\ Has(toHub, h.type, id)
  BY Zenon, <1>1, <1>3, HeadIs
<1>5. \/ h.type = "PUBACK" /\ handlePubacks(id)
      \/ h.type = "PUBREC" /\ handlePubrecs(id)
      \/ h.type = "PUBCOMP" /\ handlePubcomps(id)
      \/ h.type = "PUBLISH" /\ handlePublishes(id)
      \/ h.type = "PUBREL" /\ handlePubrels(id, h.dup)
  BY Zenon DEF Receive
<1>6. Head(toHub).id = id /\ Head(toHub).type = h.type
  OBVIOUS
<1> HIDE DEF h, id
<1>7. /\ "PUBACK" \in Steps /\ "PUBREC" \in Steps /\ "PUBCOMP" \in Steps
      /\ "PUBREL" \notin Steps /\ "PUBLISH" \notin Steps
      /\ \A type \in Steps : type \in Steps \cup {"PUBREL"}
      /\ "PUBREL" \in Steps \cup {"PUBREL"}
  BY DEF Steps
<1>8. outbound \in Seq(Entries) /\ succeeded \in [Out -> Nat] /\ arrived \in [In -> Nat]
  BY Zenon, <1>3 DEF DeliveryTypes
\* A packet answered with one of type, or not at all.
<1>9. ASSUME NEW type \in Steps \cup {"PUBREL"}, Answer(type, id) \/ NoAnswer
      PROVE  /\ OrderInv'
             /\ outbound' \in Seq(Entries) /\ succeeded' \in [Out -> Nat] /\ arrived' \in [In -> Nat]
                => DeliveryTypes'
             /\ \A m, t : Has(toHub', t, m) => Has(toHub, t, m)
             /\ \A m : PublishFirst(toHub, m) => PublishFirst(toHub', m)
             /\ \A m : PublishOnce(toHub, m) => PublishOnce(toHub', m)
             /\ \A m, t : Has(toBroker', t, m) =>
                   Has(toBroker, t, m) \/ (t = type /\ m = id /\ partial = <<>> /\ Answer(type, id))
             /\ \A m : PublishFirst(toBroker, m) => PublishFirst(toBroker', m)
             /\ \A m : PublishOnce(toBroker, m) => PublishOnce(toBroker', m)
             /\ Handled
  <2>1. Handled
    BY Zenon, <1>1, <1>4, <1>9 DEF Handled
  <2>2. /\ toBroker' \in Seq(Packets)
        /\ \A m, t : Has(toBroker', t, m) =>
              Has(toBroker, t, m) \/ (t = type /\ m = id /\ partial = <<>> /\ Answer(type, id))
        /\ \A m : PublishFirst(toBroker, m) => PublishFirst(toBroker', m)
        /\ \A m : PublishOnce(toBroker, m) => PublishOnce(toBroker', m)
        /\ link' \in {"up", "broken"} /\ (link' # "up" => toBroker' = <<>> /\ toHub' = <<>>)
    BY Zenon, <1>1, <1>3, <1>4, <1>9, AnswerIs
  <2>3. /\ toHub' \in Seq(Packets)
        /\ \A m, t : Has(toHub', t, m) => Has(toHub, t, m)
        /\ \A m : PublishFirst(toHub, m) => PublishFirst(toHub', m)
        /\ \A m : PublishOnce(toHub, m) => PublishOnce(toHub', m)
    BY Zenon, <1>3, <2>1, HandledIs
  <2>4. OrderInv'
    BY Zenon, <1>1, <1>2, <1>3, <1>4, <1>9, AnswerOrder DEF DeliveryInv
  <2>5. ASSUME outbound' \in Seq(Entries), succeeded' \in [Out -> Nat], arrived' \in [In -> Nat]
        PROVE  DeliveryTypes'
    BY Zenon, <1>1, <1>3, <2>2, <2>3, <2>5, HandledTypes
  <2> QED
    BY Zenon, <2>1, <2>2, <2>3, <2>4, <2>5
<1>10. ASSUME NEW t \in {"PUBACK", "PUBCOMP"}, h.type = t, NoAnswer, Acknowledged(id),
              outbound' = ListRemove(outbound, Awaiting(id, t)), inbound' = inbound, arrived' = arrived
       PROVE  DeliveryInv'
  <2>1. toBroker' = toBroker
    BY Zenon, <1>10 DEF NoAnswer
  <2>2. /\ OrderInv'
        /\ outbound' \in Seq(Entries) /\ succeeded' \in [Out -> Nat] => DeliveryTypes'
        /\ \A m, u : Has(toHub', u, m) => Has(toHub, u, m)
        /\ \A m : PublishFirst(toHub, m) => PublishFirst(toHub', m)
        /\ \A m : PublishOnce(toHub, m) => PublishOnce(toHub', m)
    <3>1. arrived' \in [In -> Nat]
      BY Zenon, <1>8, <1>10
    <3> QED
      BY Zenon, <1>7, <1>9, <1>10, <3>1
  <2>3. Has(toHub, t, id)
    BY Zenon, <1>4, <1>10
  <2>4. /\ outbound' \in Seq(Entries) /\ RightQos' /\ SenderInv'
        /\ id \in Out /\ id < Turn /\ published[id] >= 1
        /\ \A m : m # id => (m \in Ids(outbound') <=> m \in Ids(outbound))
    BY Zenon, <1>1, <1>2, <1>10, <2>1, <2>2, <2>3, CompletedSender
  <2>5. succeeded' \in [Out -> Nat] /\ TellInv'
    BY Zenon, <1>1, <1>2, <1>3, <1>10, <2>4, CompletedTell DEF DeliveryInv
  <2>6. BrokerQos' /\ ReceiverInv'
    BY Zenon, <1>1, <1>10, <2>1, <2>2, QuietReceiver DEF DeliveryInv
  <2> QED
    BY Zenon, <2>2, <2>4, <2>5, <2>6 DEF DeliveryInv
<1>11. CASE h.type = "PUBACK" /\ handlePubacks(id)
  <2>1. /\ NoAnswer /\ Acknowledged(id) /\ inbound' = inbound /\ arrived' = arrived
        /\ outbound' = ListRemove(outbound, Awaiting(id, "PUBACK"))
    BY Zenon, <1>11 DEF handlePubacks
  <2>2. "PUBACK" \in {"PUBACK", "PUBCOMP"}
    OBVIOUS
  <2> QED
    BY Zenon, <1>10, <1>11, <2>1, <2>2
<1>12. CASE h.type = "PUBCOMP" /\ handlePubcomps(id)
  <2>1. /\ NoAnswer /\ Acknowledged(id) /\ inbound' = inbound /\ arrived' = arrived
        /\ outbound' = ListRemove(outbound, Awaiting(id, "PUBCOMP"))
    BY Zenon, <1>12 DEF handlePubcomps
  <2>2. "PUBCOMP" \in {"PUBACK", "PUBCOMP"}
    OBVIOUS
  <2> QED
    BY Zenon, <1>10, <1>12, <2>1, <2>2
<1>13. CASE h.type = "PUBREC" /\ handlePubrecs(id)
  <2>1. inbound' = inbound /\ arrived' = arrived /\ responses' = responses /\ succeeded' = succeeded
        /\ (Answer("PUBREL", id) \/ NoAnswer)
    BY Zenon, <1>13 DEF handlePubrecs
  <2>2. /\ OrderInv'
        /\ outbound' \in Seq(Entries) => DeliveryTypes'
        /\ \A m, u : Has(toHub', u, m) => Has(toHub, u, m)
        /\ \A m : PublishFirst(toHub, m) => PublishFirst(toHub', m)
        /\ \A m : PublishOnce(toHub, m) => PublishOnce(toHub', m)
        /\ \A m, u : Has(toBroker', u, m) =>
              Has(toBroker, u, m) \/ (u = "PUBREL" /\ m = id /\ Answer("PUBREL", id))
        /\ \A m : PublishFirst(toBroker, m) => PublishFirst(toBroker', m)
        /\ \A m : PublishOnce(toBroker, m) => PublishOnce(toBroker', m)
    <3>1. arrived' \in [In -> Nat] /\ succeeded' \in [Out -> Nat]
      <4>1. Out' = Out /\ In' = In
        BY Zenon, <1>1, Steady
      <4> QED
        BY Zenon, <1>8, <2>1
    <3> QED
      BY ZenonT(30), <1>7, <1>9, <2>1, <3>1
  <2>3. BrokerQos' /\ ReceiverInv'
    <3>1. \A m : \A u \in Steps : Has(toBroker', u, m) => Has(toBroker, u, m)
      BY Zenon, <1>7, <2>2
    <3> QED
      BY ZenonT(30), <1>1, <2>1, <2>2, <3>1, QuietReceiver DEF DeliveryInv
  <2>4. outbound' \in Seq(Entries) /\ RightQos' /\ SenderInv' /\ \A m : m \in Ids(outbound) => m \in Ids(outbound')
    <3>1. CASE Awaits(outbound, id, "PUBREC")
      <4>1. outbound' = Released(outbound, id)
        BY Zenon, <1>13, <3>1 DEF handlePubrecs
      <4>2. \A m, u : Has(toBroker', u, m) => Has(toBroker, u, m) \/ (u = "PUBREL" /\ m = id)
        BY Zenon, <2>2
      <4>3. Has(toHub, "PUBREC", id)
        BY Zenon, <1>4, <1>13
      <4>4. link' = "up" => partial = <<>>
        <5>1. Answer("PUBREL", id)
          BY Zenon, <1>13, <3>1 DEF handlePubrecs
        <5>2. partial # <<>> => link' = "broken"
          BY Zenon, <5>1 DEF Answer
        <5> QED
          BY <5>2
      <4> QED
        BY ZenonT(30), <1>1, <1>2, <2>2, <3>1, <4>1, <4>2, <4>3, <4>4, ReleasedSender
    <3>2. CASE ~Awaits(outbound, id, "PUBREC")
      <4>1. outbound' = outbound /\ NoAnswer
        BY Zenon, <1>13, <3>2 DEF handlePubrecs
      <4>2. toBroker' = toBroker
        BY Zenon, <4>1 DEF NoAnswer
      <4>3. RightQos' /\ SenderInv'
        BY ZenonT(30), <1>1, <1>2, <2>2, <4>1, <4>2, QuietSender DEF DeliveryInv
      <4> QED
        BY Zenon, <1>8, <4>1, <4>3
    <3> QED
      BY Zenon, <3>1, <3>2
  <2>5. TellInv'
    <3>1. \A m \in Out : published[m] >= 1 => published'[m] >= 1
      BY Zenon, <1>1
    <3> QED
      BY Zenon, <1>1, <1>2, <2>1, <2>4, <3>1, QuietTell DEF DeliveryInv
  <2> QED
    BY Zenon, <2>2, <2>3, <2>4, <2>5 DEF DeliveryInv
\* The messages of the broker leave those of the hub alone.
<1>14. ASSUME outbound' = outbound, responses' = responses, succeeded' = succeeded, arrived' \in [In -> Nat],
              BrokerQos', ReceiverInv', NEW type \in Steps, Answer(type, id) \/ NoAnswer
       PROVE  DeliveryInv'
  <2>1. type \in Steps \cup {"PUBREL"}
    BY Zenon, <1>7
  <2>2. /\ OrderInv'
        /\ outbound' \in Seq(Entries) /\ succeeded' \in [Out -> Nat] => DeliveryTypes'
        /\ \A m, u : Has(toHub', u, m) => Has(toHub, u, m)
        /\ \A m, u : Has(toBroker', u, m) => Has(toBroker, u, m) \/ u = type
        /\ \A m : PublishFirst(toBroker, m) => PublishFirst(toBroker', m)
        /\ \A m : PublishOnce(toBroker, m) => PublishOnce(toBroker', m)
    BY ZenonT(30), <1>9, <1>14, <2>1
  <2>3. DeliveryTypes'
    BY Zenon, <1>8, <1>14, <2>2
  <2>4. /\ \A m : Has(toBroker', "PUBLISH", m) => Has(toBroker, "PUBLISH", m)
        /\ \A m : Has(toBroker', "PUBREL", m) => Has(toBroker, "PUBREL", m)
    BY Zenon, <1>7, <2>2
  <2>5. RightQos' /\ SenderInv'
    BY ZenonT(30), <1>1, <1>2, <1>14, <2>2, <2>4, QuietSender DEF DeliveryInv
  <2>6. TellInv'
    <3>1. \A m \in Out : published[m] >= 1 => published'[m] >= 1
      BY Zenon, <1>1
    <3>2. \A m : m \in Ids(outbound) => m \in Ids(outbound')
      BY Zenon, <1>14
    <3> QED
      BY Zenon, <1>1, <1>2, <1>14, <3>1, <3>2, QuietTell DEF DeliveryInv
  <2> QED
    BY Zenon, <1>14, <2>2, <2>3, <2>5, <2>6 DEF DeliveryInv
<1>15. CASE h.type = "PUBLISH" /\ handlePublishes(id)
  <2>1. outbound' = outbound /\ responses' = responses /\ succeeded' = succeeded
        /\ (InQos[id] = 0 => NoAnswer) /\ (InQos[id] # 0 => Answer(FirstAck(InQos[id]), id))
    BY Zenon, <1>15 DEF handlePublishes
  <2>2. InQos[id] \in 0 .. 2 /\ id \in In
    <3>1. id \in In
      BY Zenon, <1>4, <1>15 DEF DeliveryInv, BrokerQos
    <3> QED
      BY Zenon, <1>3, <3>1, ScenarioTypes DEF DeliveryTypes
  <2>3. PICK type \in Steps : (type = FirstAck(InQos[id]) /\ InQos[id] > 0) \/ (type = "PUBACK" /\ NoAnswer /\ InQos[id] = 0)
    <3>1. CASE InQos[id] = 0
      BY Zenon, <1>7, <2>1, <3>1
    <3>2. CASE InQos[id] # 0
      <4>1. FirstAck(InQos[id]) \in Steps /\ InQos[id] > 0
        BY <2>2, <3>2 DEF FirstAck, Steps
      <4> QED
        BY Zenon, <4>1
    <3> QED
      BY Zenon, <3>1, <3>2
  <2>4. type \in Steps /\ (Answer(type, id) \/ NoAnswer)
    <3>1. InQos[id] > 0 => InQos[id] # 0
      OBVIOUS
    <3> QED
      BY Zenon, <2>1, <2>3, <3>1
  <2>5. Handled /\ \A m : \A u \in Steps : Has(toBroker', u, m) =>
           Has(toBroker, u, m) \/ (u = type /\ m = id /\ partial = <<>> /\ Answer(type, id))
    <3>1. type \in Steps \cup {"PUBREL"}
      BY Zenon, <1>7, <2>4
    <3> QED
      BY Zenon, <1>9, <2>4, <3>1
  <2>6. \A m : \A u \in Steps : Has(toBroker', u, m) =>
           Has(toBroker, u, m) \/ (InQos[id] > 0 /\ u = FirstAck(InQos[id]) /\ m = id /\ partial = <<>>)
    <3>1. CASE InQos[id] > 0 /\ type = FirstAck(InQos[id])
      BY Zenon, <2>5, <3>1
    <3>2. CASE NoAnswer
      BY Zenon, <3>2 DEF NoAnswer
    <3> QED
      BY Zenon, <2>3, <3>1, <3>2
  <2>7. arrived' \in [In -> Nat] /\ BrokerQos' /\ ReceiverInv'
    BY Zenon, <1>1, <1>6, <1>15, <2>5, <2>6, PublishesReceiver
  <2> QED
    BY Zenon, <1>14, <2>1, <2>4, <2>7
<1>16. CASE h.type = "PUBREL" /\ handlePubrels(id, h.dup)
  <2>1. outbound' = outbound /\ responses' = responses /\ succeeded' = succeeded
        /\ (Answer("PUBCOMP", id) \/ NoAnswer)
    BY Zenon, <1>16 DEF handlePubrels
  <2>2. Handled /\ \A m : \A u \in Steps : Has(toBroker', u, m) =>
           Has(toBroker, u, m) \/ (u = "PUBCOMP" /\ m = id /\ partial = <<>>)
    <3>1. "PUBCOMP" \in Steps \cup {"PUBREL"}
      BY Zenon, <1>7
    <3> QED
      BY Zenon, <1>9, <2>1, <3>1
  <2>3. arrived' \in [In -> Nat] /\ BrokerQos' /\ ReceiverInv'
    BY Zenon, <1>1, <1>6, <1>16, <2>2, PubrelsReceiver
  <2> QED
    BY Zenon, <1>7, <1>14, <2>1, <2>3
<1> QED
  BY Zenon, <1>5, <1>11, <1>12, <1>13, <1>15, <1>16

-----------------------------------------------------------------------------
(* At the start nothing is on its way.                                     *)
LEMMA InitInv == DeliveryInit => DeliveryInv
<1> SUFFICES ASSUME DeliveryInit PROVE DeliveryInv
  BY Zenon
<1>1. /\ Len(OutQos) \in Nat /\ \A m \in Out : m \in Nat /\ m >= 1 /\ OutQos[m] \in 0 .. 2
      /\ Len(InQos) \in Nat /\ \A m \in In : m \in Nat /\ m >= 1 /\ InQos[m] \in 0 .. 2
  BY ScenarioTypes DEF DeliveryInit
<1>2. /\ \A m \in Out : published[m] = 0 /\ succeeded[m] = 0 /\ failed[m] = 0
      /\ \A m \in In : arrived[m] = 0
      /\ published \in [Out -> Nat] /\ succeeded \in [Out -> Nat] /\ failed \in [Out -> Nat]
      /\ arrived \in [In -> Nat]
  BY DEF DeliveryInit
<1>3. /\ next = 1 /\ nextIn = 1 /\ publications = <<>> /\ Turn = 1
      /\ next \in 1 .. Len(OutQos) + 1 /\ nextIn \in 1 .. Len(InQos) + 1
      /\ \A k : k \notin 1 .. Len(publications)
  BY <1>1 DEF DeliveryInit, Turn
<1>4. DeliveryTypes
  <2>1. link \in {"up", "broken", "down"} /\ link = "up" /\ Turn >= 1 /\ link # "down"
    BY <1>3 DEF DeliveryInit
  <2> QED
    BY ZenonT(30), <1>2, <1>3, <2>1, NoneIsSeq DEF DeliveryInit, DeliveryTypes
<1>5. \A m, t : /\ ~Has(toBroker, t, m) /\ ~Has(toHub, t, m)
                /\ PublishFirst(toBroker, m) /\ PublishOnce(toBroker, m)
                /\ PublishFirst(toHub, m) /\ PublishOnce(toHub, m)
  BY Zenon, HasNone DEF DeliveryInit
<1>6. /\ \A m, t : ~Awaits(outbound, m, t) /\ ~Awaits(sending, m, t)
      /\ \A m : m \notin Ids(outbound) /\ m \notin Ids(sending) /\ m \notin held /\ m \notin inbound
      /\ InOrder(outbound) /\ InOrder(sending) /\ \A m : ~Waits(m) /\ ~Cut(m) /\ ~CutRelease(m)
  BY DEF DeliveryInit, Awaits, Ids, InOrder, Waits, Cut, CutRelease, CutOf
<1>7. RightQos /\ BrokerQos
  BY Zenon, <1>5, <1>6 DEF RightQos, BrokerQos
<1>8. /\ \A m \in Out : ~(m < Turn) /\ published[m] <= 1 /\ published[m] # 1 /\ ~(published[m] >= 1)
                        /\ ~(succeeded[m] > 0)
      /\ \A m \in In : ~(m < nextIn) /\ arrived[m] <= 1 /\ arrived[m] # 1
  BY <1>1, <1>2, <1>3
<1>9. SenderInv
  BY ZenonT(30), <1>2, <1>5, <1>6, <1>8 DEF SenderInv, UnsentInv, OnceInv, AckInv, ExactInv
<1>10. OrderInv
  <2>1. \A k : k \notin 1 .. Len(toBroker)
    BY DEF DeliveryInit
  <2> QED
    BY Zenon, <1>8, <2>1 DEF OrderInv, OrderKept, Fifo
<1>11. TellInv
  <2>1. responses = <<>> /\ \A i : i \notin 1 .. Len(responses)
    BY DEF DeliveryInit
  <2> QED
    BY Zenon, <1>2, <1>6, <1>8, <2>1, NoneIsSeq DEF TellInv, SuccessIsPublished
<1>12. ReceiverInv
  BY ZenonT(30), <1>2, <1>5, <1>6, <1>8 DEF ReceiverInv, ReceiverFor
<1> QED
  BY Zenon, <1>4, <1>7, <1>9, <1>10, <1>11, <1>12 DEF DeliveryInv

(* Every step of the client, of the broker and of the network keeps the    *)
(* invariant.                                                              *)
LEMMA StepInv == DeliveryInv /\ [DeliveryNext]_deliveryVars => DeliveryInv'
<1>1. SUFFICES ASSUME DeliveryInv, DeliveryNext \/ UNCHANGED deliveryVars PROVE DeliveryInv'
  BY Zenon
<1>2. CASE Send \/ LinkBreaks \/ BrokerSends \/ BrokerReceives
  BY Zenon, <1>1, <1>2, SendKeeps, LinkBreaksKeeps, BrokerSendsKeeps, BrokerReceivesKeeps
<1>3. CASE PublishThread
  BY Zenon, <1>1, <1>3, ProcessPublishKeeps, PublishFlagsKeeps, PublishRespondsKeeps DEF PublishThread
<1>4. CASE DeliveryThread
  BY Zenon, <1>1, <1>4, ContinueWriteKeeps, ReceiveKeeps, RetryKeeps, CloseKeeps, ReconnectKeeps
     DEF DeliveryThread
<1>5. CASE UNCHANGED deliveryVars
  <2>1. /\ scenario' = scenario /\ link' = link /\ next' = next /\ publications' = publications
        /\ publisher' = publisher /\ outbound' = outbound /\ inbound' = inbound
        /\ responses' = responses /\ pendingWrite' = pendingWrite /\ partial' = partial
        /\ succeeded' = succeeded /\ failed' = failed /\ arrived' = arrived
        /\ toBroker' = toBroker /\ toHub' = toHub /\ published' = published /\ held' = held
        /\ nextIn' = nextIn /\ sending' = sending /\ skipped' = skipped
    BY <1>5 DEF deliveryVars, session, callbacks, channels, broker, setting
  <2>2. OutQos' = OutQos /\ InQos' = InQos /\ Out' = Out /\ In' = In /\ MayInterrupt' = MayInterrupt
    BY Zenon, <2>1, Steady
  <2>3. Turn' = Turn
    BY Zenon, <2>1, TurnKept
  <2>4. DeliveryTypes'
    BY ZenonT(30), <1>1, <2>1, <2>2, <2>3 DEF DeliveryInv, DeliveryTypes
  <2>5. RightQos' /\ SenderInv'
    BY Zenon, <1>1, <2>1, <2>3, QuietSender DEF DeliveryInv
  <2>6. OrderInv'
    BY Zenon, <1>1, <2>1, <2>3, QuietOrder DEF DeliveryInv
  <2>7. TellInv'
    BY Zenon, <1>1, <2>1, <2>3, QuietTell DEF DeliveryInv
  <2>8. BrokerQos' /\ ReceiverInv'
    BY Zenon, <1>1, <2>1, QuietReceiver DEF DeliveryInv
  <2> QED
    BY Zenon, <2>4, <2>5, <2>6, <2>7, <2>8 DEF DeliveryInv
<1> QED
  BY Zenon, <1>1, <1>2, <1>3, <1>4, <1>5 DEF DeliveryNext

(* The invariant holds for every value of the constants.                   *)
LEMMA DeliveryInvariant == DeliverySpec => []DeliveryInv
BY InitInv, StepInv, PTL DEF DeliverySpec

-----------------------------------------------------------------------------
(* A message sent that is not queued any more has been begun.              *)
LEMMA BegunIs ==
    ASSUME DeliveryInv, NEW m \in Out, m < next, ~Unfinished(m)
    PROVE  m < Turn /\ m \notin Ids(outbound)
<1>1. /\ Len(publications) \in Nat /\ \A k \in 1 .. Len(publications) : publications[k] = Turn - 1 + k
      /\ m \in Nat /\ next \in Nat /\ Turn = next - Len(publications)
  BY ScenarioTypes DEF DeliveryInv, DeliveryTypes, Turn
<1>2. ~(m >= Turn)
  <2>1. SUFFICES ASSUME m >= Turn PROVE FALSE
    OBVIOUS
  <2>2. m - Turn + 1 \in 1 .. Len(publications) /\ publications[m - Turn + 1] = m
    BY SMTT(30), <1>1, <2>1
  <2> QED
    BY Zenon, <2>2 DEF Unfinished, Underway
<1>3. m < Turn
  BY <1>1, <1>2
<1> QED
  BY Zenon, <1>3 DEF Unfinished

(* MQTTProtocol_startPublish, MQTTProtocol_retries, the handlers of the    *)
(* acknowledgements and MQTTAsync_completeConnection: for any messages and *)
(* any number of lost connections and retries, the broker passes on a      *)
(* message of QoS 0 or 2 at most once, and one of QoS 1 or 2 that the      *)
(* client has forgotten at least once.                                     *)
THEOREM PublishedTheorem == DeliverySpec => []PublishedAsPromised
<1>1. DeliveryInv => PublishedAsPromised
  <2>1. SUFFICES ASSUME DeliveryInv PROVE PublishedAtMostOnce /\ PublishedAtLeastOnce
    BY Zenon DEF PublishedAsPromised
  <2>2. \A m \in Out : OutQos[m] = 0 \/ OutQos[m] = 1 \/ OutQos[m] = 2
    BY <2>1, ScenarioTypes DEF DeliveryInv, DeliveryTypes
  <2>3. PublishedAtMostOnce
    BY Zenon, <2>1, <2>2 DEF PublishedAtMostOnce, DeliveryInv, SenderInv, OnceInv, ExactInv
  <2>4. ASSUME NEW m \in Out, OutQos[m] > 0, m < next, ~Unfinished(m) PROVE published[m] >= 1
    <3>1. m < Turn /\ m \notin Ids(outbound)
      BY Zenon, <2>1, <2>4, BegunIs
    <3>2. CASE OutQos[m] = 1
      BY Zenon, <2>1, <3>1, <3>2 DEF DeliveryInv, SenderInv, AckInv
    <3>3. CASE OutQos[m] = 2
      <4>1. published[m] = 1
        BY Zenon, <2>1, <3>1, <3>3 DEF DeliveryInv, SenderInv, ExactInv
      <4> QED
        BY <4>1
    <3>4. OutQos[m] # 0
      BY <2>4
    <3> QED
      BY Zenon, <2>2, <3>2, <3>3, <3>4
  <2> QED
    BY Zenon, <2>3, <2>4 DEF PublishedAtLeastOnce
<1> QED
  BY <1>1, DeliveryInvariant, PTL

(* MQTTAsync_completeConnection and MQTTAsync_retry repeat the unfinished  *)
(* messages oldest first and before any new command, until the socket      *)
(* takes one in part: messages of QoS 1 and 2 first reach the broker in    *)
(* the order they were sent in, except those that a repetition on a        *)
(* reconnection did not come to.                                           *)
THEOREM OrderTheorem == DeliverySpec => []OrderKept
<1>1. DeliveryInv => OrderKept
  BY Zenon DEF DeliveryInv, OrderInv
<1> QED
  BY <1>1, DeliveryInvariant, PTL

(* The callbacks of MQTTAsync_send: the success of a message of QoS 1 or 2 *)
(* is told only when the broker has it.  Where the socket takes whole      *)
(* packets each message is told of at most once, and one that the client   *)
(* has forgotten has been told of.                                         *)
THEOREM CallbacksTheorem == DeliverySpec => []CallbacksAreTrue
<1>1. DeliveryInv => CallbacksAreTrue
  <2>1. SUFFICES ASSUME DeliveryInv
                 PROVE  SuccessIsPublished /\ (~MayInterrupt => ToldAtMostOnce /\ CompletedIsTold)
    BY Zenon DEF CallbacksAreTrue
  <2>2. SuccessIsPublished
    BY Zenon, <2>1 DEF DeliveryInv, TellInv
  <2>3. ASSUME ~MayInterrupt, NEW m \in Out PROVE succeeded[m] + failed[m] <= 1
    <3>1. succeeded[m] \in Nat /\ failed[m] \in Nat /\ m \in Nat /\ Turn \in Nat
      BY SMTT(30), <2>1, ScenarioTypes, TurnIsInt DEF DeliveryInv, DeliveryTypes
    <3>2. CASE m >= Turn
      <4>1. succeeded[m] = 0 /\ failed[m] = 0
        BY Zenon, <2>1, <2>3, <3>2 DEF DeliveryInv, TellInv
      <4> QED
        BY <4>1
    <3>3. CASE m < Turn
      <4>1. succeeded[m] + failed[m] = 0 \/ succeeded[m] + failed[m] = 1
        BY Zenon, <2>1, <2>3, <3>3 DEF DeliveryInv, TellInv
      <4> QED
        BY <3>1, <4>1
    <3> QED
      BY <3>1, <3>2, <3>3
  <2>4. ASSUME ~MayInterrupt, NEW m \in Out, m < next, ~Unfinished(m) PROVE succeeded[m] + failed[m] >= 1
    <3>1. m < Turn /\ m \notin Ids(outbound)
      BY Zenon, <2>1, <2>4, BegunIs
    <3>2. ~Waits(m)
      BY Zenon, <2>1, <2>4, <3>1 DEF DeliveryInv, TellInv
    <3>3. succeeded[m] + failed[m] = 1
      BY Zenon, <2>1, <2>4, <3>1, <3>2 DEF DeliveryInv, TellInv
    <3> QED
      BY <3>3
  <2> QED
    BY Zenon, <2>2, <2>3, <2>4 DEF ToldAtMostOnce, CompletedIsTold
<1> QED
  BY <1>1, DeliveryInvariant, PTL

(* MQTTProtocol_handlePublishes and MQTTProtocol_handlePubrels: for any    *)
(* messages, lost connections and brokers that mark a repeated PUBREL or   *)
(* do not, a message of QoS 0 or 2 is given to the application at most     *)
(* once, and one of QoS 1 or 2 that the broker regards as delivered at     *)
(* least once.                                                             *)
THEOREM ArrivesTheorem == DeliverySpec => []ArrivesAsPromised
<1>1. DeliveryInv => ArrivesAsPromised
  <2>1. SUFFICES ASSUME DeliveryInv PROVE ArrivesAtMostOnce /\ DeliveredHasArrived
    BY Zenon DEF ArrivesAsPromised
  <2>2. \A m \in In : InQos[m] = 0 \/ InQos[m] = 1 \/ InQos[m] = 2
    BY <2>1, ScenarioTypes DEF DeliveryInv, DeliveryTypes
  <2> QED
    BY Zenon, <2>1, <2>2 DEF ArrivesAtMostOnce, DeliveredHasArrived, DeliveryInv, ReceiverInv, ReceiverFor
<1> QED
  BY <1>1, DeliveryInvariant, PTL
=============================================================================
