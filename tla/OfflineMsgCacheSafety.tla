------------------------- MODULE OfflineMsgCacheSafety ------------------------
(***************************************************************************)
(* Theorems about OfflineMsgCache, for every number of threads, requests   *)
(* and crashes, every capacity, every set of priorities and every fault of *)
(* FaultKinds: its types, and safety.                                      *)
(***************************************************************************)
EXTENDS OfflineMsgCache, FiniteSetTheorems, SequenceTheorems, TLAPS

-----------------------------------------------------------------------------
(* The operators the model is built from.                                  *)

(* get_cache_file_path names a path, and keeps the timestamp.              *)
LEMMA PathOfHeader ==
    ASSUME NEW h \in Headers
    PROVE  /\ get_cache_file_path(h) \in Paths
           /\ get_cache_file_path(h).timestamp = h.timestamp
BY Zenon DEF Headers, Paths, get_cache_file_path

(* get_cache_file_header_from_file_base reads a header back, with the      *)
(* timestamp of the name.                                                  *)
LEMMA HeaderOfPath ==
    ASSUME NEW p \in Paths
    PROVE  /\ get_cache_file_header_from_file_base(p) \in Headers
           /\ get_cache_file_header_from_file_base(p).timestamp = p.timestamp
BY PrioritiesAssumption DEF Headers, Paths, get_cache_file_header_from_file_base

(* Removing a node leaves a list one shorter, of nodes that were there.    *)
LEMMA RemoveProperties ==
    ASSUME NEW S, NEW q \in Seq(S), NEW i \in 1 .. Len(q)
    PROVE  /\ list_remove(q, i) \in Seq(S)
           /\ Len(list_remove(q, i)) = Len(q) - 1
           /\ \A j \in 1 .. Len(q) - 1 :
                 list_remove(q, i)[j] = IF j < i THEN q[j] ELSE q[j + 1]
<1> DEFINE a == SubSeq(q, 1, i - 1)
           b == SubSeq(q, i + 1, Len(q))
<1>1. a \in Seq(S) /\ Len(a) = i - 1 /\ \A j \in 1 .. i - 1 : a[j] = q[j]
  OBVIOUS
<1>2. b \in Seq(S) /\ Len(b) = Len(q) - i /\ \A j \in 1 .. Len(q) - i : b[j] = q[i + j]
  OBVIOUS
<1>3. list_remove(q, i) = a \o b
  BY Zenon DEF list_remove
<1>4. /\ a \o b \in Seq(S)
      /\ Len(a \o b) = Len(a) + Len(b)
      /\ \A j \in 1 .. Len(a) + Len(b) :
            (a \o b)[j] = IF j <= Len(a) THEN a[j] ELSE b[j - Len(a)]
  BY ZenonT(60), <1>1, <1>2, ConcatProperties
<1> HIDE DEF a, b
<1> QED
  BY SMTT(60), <1>1, <1>2, <1>3, <1>4

(* list_lpush puts the node in front of the others.                        *)
LEMMA LpushProperties ==
    ASSUME NEW S, NEW q \in Seq(S), NEW e \in S
    PROVE  /\ list_lpush(q, e) \in Seq(S)
           /\ Len(list_lpush(q, e)) = Len(q) + 1
           /\ \A j \in 1 .. Len(q) + 1 : list_lpush(q, e)[j] = IF j = 1 THEN e ELSE q[j - 1]
BY DEF list_lpush

(* load_offline_messages: what it queues are the headers of the files.     *)
LEMMA LoadedList ==
    ASSUME DOMAIN files \subseteq Paths, IsFiniteSet(DOMAIN files), NEW s \in LoadOrders,
           NEW l, l = [i \in 1 .. Len(s) |-> get_cache_file_header_from_file_base(s[i])]
    PROVE  /\ l \in Seq(Headers)
           /\ \A i \in 1 .. Len(l) : \E p \in DOMAIN files :
                 l[i] = get_cache_file_header_from_file_base(p)
<1> DEFINE n == Cardinality(DOMAIN files)
<1>1. n \in Nat
  BY Zenon, FS_CardinalityType
<1>2. s \in [1 .. n -> DOMAIN files]
  BY Zenon DEF LoadOrders
<1> HIDE DEF n
<1>3. s \in Seq(Paths) /\ Len(s) = n
  BY <1>1, <1>2
<1>4. \A i \in 1 .. n : get_cache_file_header_from_file_base(s[i]) \in Headers
  BY Zenon, <1>2, HeaderOfPath
<1>5. l \in [1 .. n -> Headers]
  BY Zenon, <1>3, <1>4
<1>6. l \in Seq(Headers) /\ Len(l) = n
  BY <1>1, <1>5
<1> QED
  BY Zenon, <1>2, <1>3, <1>6

-----------------------------------------------------------------------------
(* Types.                                                                  *)

FilesOK ==
    /\ DOMAIN files \subseteq Paths
    /\ IsFiniteSet(DOMAIN files)
    /\ \A p \in DOMAIN files : files[p] \in Msgs \cup {Partial}

ProcessOK ==
    up \in BOOLEAN /\ crashes \in Nat /\ capacity \in Nat /\ cut \in [1 .. MaxMsgs -> Nat]

QueueOK ==
    list \in Seq(Headers) /\ listMade \in BOOLEAN /\ listLock \in Workers \cup {NoThread}

MqttOK == connected \in BOOLEAN /\ cb \in {"idle", "count", "flag", "create"}

WorkersOK ==
    /\ wpc \in [Workers -> WorkerLabels] /\ req \in [Workers -> Requests] /\ clock \in Nat
    /\ \A t \in Workers : wpc[t] # "idle" => req[t].msg \in Msgs

SendersOK ==
    /\ spc \in [Senders -> SenderLabels] /\ node \in [Senders -> Headers]
    /\ buf \in [Senders -> Nat] /\ isAsyncSending \in BOOLEAN
    /\ \A s \in Senders : spc[s] \in {"send", "unlink", "putBack"} => buf[s] \in Msgs

HistoryOK ==
    /\ sent \in Seq(Nat) /\ Msgs \subseteq 1 .. MaxMsgs
    /\ acked \subseteq Msgs /\ discarded \subseteq Msgs /\ dropped \subseteq Msgs

(* TypeOK alone is not inductive: the directory must be finite for a start *)
(* to list it, and what a thread writes or sends must be a request.        *)
TypeInv ==
    ProcessOK /\ QueueOK /\ FilesOK /\ MqttOK /\ WorkersOK /\ SendersOK /\ HistoryOK

(* The part of the state an action leaves alone keeps its types, since     *)
(* requests are only ever added.                                           *)
LEMMA Frame ==
    ASSUME TypeInv, Msgs \subseteq Msgs'
    PROVE  /\ UNCHANGED process => ProcessOK'
           /\ UNCHANGED queue => QueueOK'
           /\ UNCHANGED files => FilesOK'
           /\ UNCHANGED mqtt => MqttOK'
           /\ UNCHANGED workers => WorkersOK'
           /\ UNCHANGED senders => SendersOK'
           /\ UNCHANGED history => HistoryOK'
<1> USE DEF TypeInv
<1>1. UNCHANGED process => ProcessOK'
  BY Zenon DEF process, ProcessOK
<1>2. UNCHANGED queue => QueueOK'
  BY Zenon DEF queue, QueueOK
<1>3. UNCHANGED files => FilesOK'
  BY Zenon DEF FilesOK
<1>4. UNCHANGED mqtt => MqttOK'
  BY Zenon DEF mqtt, MqttOK
<1>5. UNCHANGED workers => WorkersOK'
  BY Zenon DEF workers, WorkersOK
<1>6. UNCHANGED senders => SendersOK'
  BY Zenon DEF senders, SendersOK
<1>7. UNCHANGED history => HistoryOK'
  BY Zenon DEF history, HistoryOK, Msgs
<1> QED
  BY Zenon, <1>1, <1>2, <1>3, <1>4, <1>5, <1>6, <1>7

(* A worker moves on with a request it may hold.                           *)
LEMMA GotoType ==
    ASSUME WorkersOK, NEW t \in Workers, NEW l \in WorkerLabels, NEW r \in Requests,
           Goto(t, l), req' = [req EXCEPT ![t] = r], clock' \in Nat,
           l # "idle" => r.msg \in Msgs', Msgs \subseteq Msgs'
    PROVE  WorkersOK'
BY Zenon DEF WorkersOK, Goto

(* A worker answers its request.                                           *)
LEMMA FinishType ==
    ASSUME WorkersOK, NEW t \in Workers, Finish(t), clock' \in Nat, Msgs \subseteq Msgs'
    PROVE  WorkersOK'
<1>1. NoRequest \in Requests
  BY DEF NoRequest, Requests
<1> QED
  BY ZenonT(60), <1>1, GotoType DEF Finish, WorkerLabels

(* unlink leaves the other files alone.                                    *)
LEMMA UnlinkProperties ==
    ASSUME FilesOK, NEW p, Unlink(p), Msgs' = Msgs
    PROVE  /\ FilesOK'
           /\ DOMAIN files' = DOMAIN files \ {p}
           /\ \A q \in DOMAIN files' : files'[q] = files[q]
<1>1. DOMAIN files' = DOMAIN files \ {p} /\ \A q \in DOMAIN files' : files'[q] = files[q]
  BY Zenon DEF Unlink
<1>2. IsFiniteSet(DOMAIN files \ {p})
  BY Zenon, FS_RemoveElement DEF FilesOK
<1> QED
  BY Zenon, <1>1, <1>2 DEF FilesOK

(* write_file_string replaces one file and leaves the others alone.        *)
LEMMA WriteFileProperties ==
    ASSUME FilesOK, NEW p \in Paths, NEW c \in Msgs \cup {Partial}, WriteFile(p, c), Msgs' = Msgs
    PROVE  /\ FilesOK'
           /\ DOMAIN files' = DOMAIN files \cup {p}
           /\ files'[p] = c
           /\ \A q \in DOMAIN files : q # p => files'[q] = files[q]
<1>1. /\ DOMAIN files' = DOMAIN files \cup {p}
      /\ files'[p] = c
      /\ \A q \in DOMAIN files : q # p => files'[q] = files[q]
  BY Zenon DEF WriteFile
<1>2. IsFiniteSet(DOMAIN files \cup {p})
  BY Zenon, FS_AddElement DEF FilesOK
<1> QED
  BY Zenon, <1>1, <1>2 DEF FilesOK

(* A step of a worker keeps the types.                                     *)
LEMMA WorkerType ==
    ASSUME TypeInv, NEW t \in Workers, Worker(t)
    PROVE  TypeInv'
<1> DEFINE r == req[t]
<1>0. r \in Requests /\ clock \in Nat /\ (wpc[t] # "idle" => r.msg \in Msgs)
  BY Zenon DEF TypeInv, WorkersOK
<1>1. CASE Receive(t)
  <2> DEFINE R(p, c) == [msg |-> Len(sent) + 1, priority |-> p, timestamp |-> 0, cache |-> c]
  <2>1. HistoryOK' /\ Msgs \subseteq Msgs' /\ Len(sent) + 1 \in Msgs'
    <3>1. /\ sent \in Seq(Nat) /\ Len(sent) < MaxMsgs /\ sent' = Append(sent, 0)
          /\ UNCHANGED <<acked, discarded, dropped>>
      BY Zenon, <1>1 DEF Receive, TypeInv, HistoryOK
    <3>2. /\ sent' \in Seq(Nat) /\ Msgs' \subseteq 1 .. MaxMsgs
          /\ Msgs \subseteq Msgs' /\ Len(sent) + 1 \in Msgs'
      BY <3>1, BoundsAssumption DEF Msgs
    <3> QED
      BY Zenon, <3>1, <3>2 DEF TypeInv, HistoryOK
  <2>2. \A p \in Priorities, c \in BOOLEAN : R(p, c) \in Requests /\ R(p, c).msg \in Msgs'
    BY <2>1, PrioritiesAssumption DEF Requests, TypeInv, HistoryOK
  <2>3. WorkersOK'
    <3>1. PICK p \in Priorities, c \in BOOLEAN :
             IF connected THEN Goto(t, "send") /\ req' = [req EXCEPT ![t] = R(p, c)]
             ELSE Failed(t, R(p, c))
      BY Zenon, <1>1 DEF Receive
    <3> HIDE DEF R
    <3>2. \/ Goto(t, "send") /\ req' = [req EXCEPT ![t] = R(p, c)]
          \/ Goto(t, "cache") /\ req' = [req EXCEPT ![t] = R(p, c)]
          \/ Finish(t)
      BY Zenon, <3>1 DEF Failed
    <3>3. clock' \in Nat
      BY Zenon, <1>0, <1>1 DEF Receive
    <3> QED
      BY Zenon, <2>1, <2>2, <3>2, <3>3, GotoType, FinishType DEF TypeInv, WorkerLabels
  <2> QED
    BY Zenon, <1>1, <2>1, <2>3, Frame DEF Receive, TypeInv
<1>2. CASE SendOnline(t)
  <2>1. HistoryOK' /\ Msgs' = Msgs
    <3>1. sent' = [sent EXCEPT ![r.msg] = @ + 1] \/ UNCHANGED sent
      BY Zenon, <1>2 DEF SendOnline
    <3>2. r.msg \in Msgs
      BY Zenon, <1>0, <1>2 DEF SendOnline
    <3>3. sent' \in Seq(Nat) /\ Len(sent') = Len(sent)
      BY SMTT(60), <3>1, <3>2 DEF TypeInv, HistoryOK, Msgs
    <3>4. Msgs' = Msgs
      BY Zenon, <3>3 DEF Msgs
    <3> QED
      BY Zenon, <1>2, <3>3, <3>4 DEF SendOnline, TypeInv, HistoryOK
  <2>2. WorkersOK'
    BY Zenon, <1>0, <1>2, <2>1, GotoType, FinishType DEF SendOnline, Failed, TypeInv, WorkerLabels
  <2> QED
    BY Zenon, <1>2, <2>1, <2>2, Frame DEF SendOnline, TypeInv
<1>3. CASE StartCaching(t)
  <2>1. Msgs' = Msgs
    BY Zenon, <1>3 DEF StartCaching, history, Msgs
  <2>2. PICK now \in ClockReadings : clock' = now /\ req' = [req EXCEPT ![t].timestamp = now]
    BY ZenonT(60), <1>3 DEF StartCaching
  <2>4. now \in Nat
    BY <1>0 DEF ClockReadings
  <2>3. WorkersOK'
    <3> DEFINE r2 == [r EXCEPT !.timestamp = now]
    <3>1. r2 \in Requests /\ r2.msg = r.msg
      BY Zenon, <1>0, <2>4 DEF Requests
    <3>2. req' = [req EXCEPT ![t] = r2]
      BY Zenon, <2>2
    <3> HIDE DEF r2
    <3> QED
      BY ZenonT(60), <1>0, <1>3, <2>1, <2>2, <2>4, <3>1, <3>2, GotoType DEF StartCaching, TypeInv, WorkerLabels
  <2> QED
    BY Zenon, <1>3, <2>1, <2>3, Frame DEF StartCaching, TypeInv
<1>4. CASE InitList(t)
  <2>1. Msgs' = Msgs
    BY Zenon, <1>4 DEF InitList, history, Msgs
  <2>2. WorkersOK'
    BY Zenon, <1>4, <2>1 DEF InitList, Goto, TypeInv, WorkersOK, WorkerLabels
  <2>3. QueueOK'
    BY SMTT(60), <1>4 DEF InitList, TypeInv, QueueOK
  <2> QED
    BY Zenon, <1>4, <2>1, <2>2, <2>3, Frame DEF InitList, TypeInv
<1>5. CASE CanEnter(t)
  <2>1. Msgs' = Msgs
    BY Zenon, <1>5 DEF CanEnter, Msgs
  <2>2. WorkersOK'
    <3>1. CASE Finish(t)
      BY Zenon, <1>0, <1>5, <2>1, <3>1, FinishType DEF CanEnter, TypeInv
    <3>2. CASE Goto(t, "open") /\ UNCHANGED req
      BY Zenon, <1>5, <2>1, <3>2 DEF CanEnter, Goto, TypeInv, WorkersOK, WorkerLabels
    <3> QED
      BY Zenon, <1>5, <3>1, <3>2 DEF CanEnter
  <2>3. HistoryOK'
    BY Zenon, <1>0, <1>5, <2>1 DEF CanEnter, TypeInv, HistoryOK
  <2> QED
    BY Zenon, <1>5, <2>1, <2>2, <2>3, Frame DEF CanEnter, TypeInv
<1>6. CASE OpenFile(t)
  <2>1. Msgs' = Msgs
    BY Zenon, <1>6 DEF OpenFile, history, Msgs
  <2>2. WorkersOK'
    BY Zenon, <1>0, <1>6, <2>1 DEF OpenFile, Goto, TypeInv, WorkersOK, WorkerLabels
  <2>3. FilesOK'
    <3>1. HeaderOf(r) \in Headers
      BY Zenon, <1>0 DEF HeaderOf, Requests, Headers
    <3> QED
      BY ZenonT(60), <1>6, <2>1, <3>1, PathOfHeader, WriteFileProperties, Frame DEF OpenFile, TypeInv
  <2> QED
    BY Zenon, <1>6, <2>1, <2>2, <2>3, Frame DEF OpenFile, TypeInv
<1>7. CASE FillFile(t)
  <2> DEFINE p == get_cache_file_path(HeaderOf(r))
  <2>1. Msgs' = Msgs
    BY Zenon, <1>7 DEF FillFile, history, Msgs
  <2>2. WorkersOK'
    <3>1. CASE Finish(t)
      BY Zenon, <1>0, <1>7, <2>1, <3>1, FinishType DEF FillFile, TypeInv
    <3>2. CASE Goto(t, "push") /\ UNCHANGED req
      BY Zenon, <1>0, <1>7, <2>1, <3>2 DEF FillFile, Goto, TypeInv, WorkersOK, WorkerLabels
    <3> QED
      BY Zenon, <1>7, <3>1, <3>2 DEF FillFile
  <2>3. FilesOK'
    <3>1. p \in Paths
      BY Zenon, <1>0, PathOfHeader DEF HeaderOf, Requests, Headers
    <3>2. r.msg \in Msgs
      BY Zenon, <1>0, <1>7 DEF FillFile
    <3>3. WriteFile(p, r.msg) \/ UNCHANGED files \/ Unlink(p)
      BY Zenon, <1>7 DEF FillFile
    <3> HIDE DEF p, r
    <3> QED
      BY ZenonT(60), <2>1, <3>1, <3>2, <3>3, WriteFileProperties, UnlinkProperties, Frame DEF TypeInv
  <2> QED
    BY Zenon, <1>7, <2>1, <2>2, <2>3, Frame DEF FillFile, TypeInv
<1>8. CASE EvictOne(t)
  <2>1. Msgs' = Msgs
    BY Zenon, <1>8 DEF EvictOne, Msgs
  <2>2. QueueOK' /\ FilesOK' /\ HistoryOK'
    <3>1. CASE list = <<>>
      BY Zenon, <1>8, <2>1, <3>1, Frame
      DEF EvictOne, TypeInv, QueueOK, HistoryOK
    <3>2. CASE list # <<>>
      <4>1. PICK i \in 1 .. Len(list) :
               LET p == get_cache_file_path(list[i]) IN
               /\ list' = list_remove(list, i)
               /\ Unlink(p)
               /\ discarded' = discarded \cup {m \in Msgs : p \in DOMAIN files /\ files[p] = m}
        BY Zenon, <1>8, <3>2 DEF EvictOne
      <4>2. QueueOK'
        BY Zenon, <1>8, <4>1, RemoveProperties DEF EvictOne, TypeInv, QueueOK
      <4>3. FilesOK'
        BY ZenonT(60), <2>1, <4>1, UnlinkProperties DEF TypeInv
      <4>4. HistoryOK'
        BY Zenon, <1>8, <2>1, <4>1 DEF EvictOne, TypeInv, HistoryOK
      <4> QED
        BY Zenon, <4>2, <4>3, <4>4
    <3> QED
      BY Zenon, <3>1, <3>2
  <2> QED
    BY Zenon, <1>8, <2>1, <2>2, Frame DEF EvictOne, TypeInv
<1>9. CASE PushNode(t)
  <2>1. Msgs' = Msgs
    BY Zenon, <1>9 DEF PushNode, Msgs
  <2>2. HeaderOf(r) \in Headers
    BY Zenon, <1>0 DEF HeaderOf, Requests, Headers
  <2>3. QueueOK'
    BY SMTT(60), <1>9, <2>2 DEF PushNode, TypeInv, QueueOK
  <2>4. HistoryOK'
    BY Zenon, <1>0, <1>9, <2>1 DEF PushNode, TypeInv, HistoryOK
  <2>5. WorkersOK'
    BY Zenon, <1>0, <1>9, <2>1, FinishType DEF PushNode, TypeInv
  <2> QED
    BY Zenon, <1>9, <2>1, <2>3, <2>4, <2>5, Frame DEF PushNode, TypeInv
<1> QED
  BY Zenon, <1>1, <1>2, <1>3, <1>4, <1>5, <1>6, <1>7, <1>8, <1>9 DEF Worker

(* A drain thread ends a round.                                            *)
LEMMA EndRoundType ==
    ASSUME SendersOK, NEW s \in Senders, EndRound(s), UNCHANGED isAsyncSending, Msgs' = Msgs
    PROVE  SendersOK'
<1>1. NoNode \in Headers
  BY DEF NoNode, Headers
<1> QED
  BY Zenon, <1>1 DEF SendersOK, EndRound, Step, SenderLabels

(* A step of a drain thread keeps the types.                               *)
LEMMA SenderType ==
    ASSUME TypeInv, NEW s \in Senders, Sender(s)
    PROVE  TypeInv'
<1>1. CASE SenderStart(s)
  <2>1. Msgs' = Msgs
    BY Zenon, <1>1 DEF SenderStart, history, Msgs
  <2>2. SendersOK'
    BY Zenon, <1>1, <2>1 DEF SenderStart, Step, TypeInv, SendersOK, SenderLabels
  <2> QED
    BY Zenon, <1>1, <2>1, <2>2, Frame DEF SenderStart, TypeInv
<1>2. CASE SenderCount(s)
  <2>1. Msgs' = Msgs
    BY Zenon, <1>2 DEF SenderCount, history, Msgs
  <2>2. SendersOK'
    BY Zenon, <1>2, <2>1 DEF SenderCount, Step, TypeInv, SendersOK, SenderLabels
  <2> QED
    BY Zenon, <1>2, <2>1, <2>2, Frame DEF SenderCount, TypeInv
<1>3. CASE SenderIsConnected(s)
  <2>1. Msgs' = Msgs
    BY Zenon, <1>3 DEF SenderIsConnected, history, Msgs
  <2>2. SendersOK'
    BY Zenon, <1>3, <2>1 DEF SenderIsConnected, Step, TypeInv, SendersOK, SenderLabels
  <2> QED
    BY Zenon, <1>3, <2>1, <2>2, Frame DEF SenderIsConnected, TypeInv
<1>4. CASE SenderPop(s)
  <2>1. Msgs' = Msgs
    BY Zenon, <1>4 DEF SenderPop, history, Msgs
  <2>2. list # <<>> => Head(list) \in Headers /\ Tail(list) \in Seq(Headers)
    BY DEF TypeInv, QueueOK
  <2>3. SendersOK'
    BY ZenonT(60), <1>4, <2>1, <2>2 DEF SenderPop, Step, TypeInv, SendersOK, SenderLabels
  <2>4. QueueOK'
    BY Zenon, <1>4, <2>2 DEF SenderPop, ListAfterPop, TypeInv, QueueOK
  <2> QED
    BY Zenon, <1>4, <2>1, <2>3, <2>4, Frame DEF SenderPop, TypeInv
<1>5. CASE SenderRead(s)
  <2> DEFINE p == get_cache_file_path(node[s])
  <2>1. Msgs' = Msgs
    BY Zenon, <1>5 DEF SenderRead, history, Msgs
  <2>2. CASE p \in DOMAIN files /\ files[p] # Partial
    <3>1. files[p] \in Msgs /\ files[p] \in Nat
      BY <2>2 DEF TypeInv, FilesOK, HistoryOK, Msgs
    <3>2. SendersOK'
      BY Zenon, <1>5, <2>1, <2>2, <3>1 DEF SenderRead, Step, TypeInv, SendersOK, SenderLabels
    <3> QED
      BY Zenon, <1>5, <2>1, <2>2, <3>2, Frame DEF SenderRead, TypeInv
  <2>3. CASE ~(p \in DOMAIN files /\ files[p] # Partial)
    <3>1. Unlink(p) /\ EndRound(s) /\ UNCHANGED isAsyncSending
      BY Zenon, <1>5, <2>3 DEF SenderRead
    <3> QED
      BY ZenonT(60), <1>5, <2>1, <3>1, EndRoundType, UnlinkProperties, Frame DEF SenderRead, TypeInv
  <2> QED
    BY Zenon, <2>2, <2>3
<1>6. CASE SenderSend(s)
  <2>1. buf[s] \in Msgs
    BY Zenon, <1>6 DEF SenderSend, TypeInv, SendersOK
  <2>2. HistoryOK' /\ Msgs' = Msgs
    <3>1. sent' = [sent EXCEPT ![buf[s]] = @ + 1] \/ UNCHANGED sent
      BY Zenon, <1>6 DEF SenderSend
    <3>2. sent' \in Seq(Nat) /\ Len(sent') = Len(sent)
      BY SMTT(60), <2>1, <3>1 DEF TypeInv, HistoryOK, Msgs
    <3>3. Msgs' = Msgs
      BY Zenon, <3>2 DEF Msgs
    <3> QED
      BY Zenon, <1>6, <3>2, <3>3 DEF SenderSend, TypeInv, HistoryOK
  <2>3. SendersOK'
    BY Zenon, <1>6, <2>1, <2>2
    DEF SenderSend, AfterAccepted, Step, TypeInv, SendersOK, SenderLabels
  <2> QED
    BY Zenon, <1>6, <2>2, <2>3, Frame DEF SenderSend, TypeInv
<1>7. CASE SenderUnlink(s)
  <2>1. Msgs' = Msgs
    BY Zenon, <1>7 DEF SenderUnlink, history, Msgs
  <2>2. SendersOK' /\ FilesOK'
    BY ZenonT(60), <1>7, <2>1, EndRoundType, UnlinkProperties DEF SenderUnlink, TypeInv
  <2> QED
    BY Zenon, <1>7, <2>1, <2>2, Frame DEF SenderUnlink, TypeInv
<1>8. CASE SenderPutBack(s)
  <2>1. Msgs' = Msgs
    BY Zenon, <1>8 DEF SenderPutBack, Msgs
  <2>2. SendersOK'
    BY Zenon, <1>8, <2>1, EndRoundType DEF SenderPutBack, TypeInv
  <2>3. QueueOK'
    <3>1. node[s] \in Headers
      BY Zenon DEF TypeInv, SendersOK
    <3>2. list_lpush(list, node[s]) \in Seq(Headers)
      BY Zenon, <3>1, LpushProperties DEF TypeInv, QueueOK
    <3> QED
      BY Zenon, <1>8, <3>2 DEF SenderPutBack, ListAfterLpush, TypeInv, QueueOK
  <2>4. HistoryOK'
    <3>1. /\ UNCHANGED <<sent, acked>> /\ Msgs' = Msgs
          /\ dropped' \subseteq dropped \cup {buf[s]} /\ discarded' \subseteq discarded \cup {buf[s]}
          /\ buf[s] \in Msgs
      BY Zenon, <1>8, <2>1 DEF SenderPutBack, TypeInv, SendersOK
    <3> QED
      BY Zenon, <3>1 DEF TypeInv, HistoryOK
  <2> QED
    BY Zenon, <1>8, <2>1, <2>2, <2>3, <2>4, Frame DEF SenderPutBack, TypeInv
<1>9. CASE SenderClear(s)
  <2>1. Msgs' = Msgs
    BY Zenon, <1>9 DEF SenderClear, history, Msgs
  <2>2. SendersOK'
    BY ZenonT(60), <1>9, <2>1 DEF SenderClear, ClearFlag, Step, TypeInv, SendersOK, SenderLabels
  <2> QED
    BY Zenon, <1>9, <2>1, <2>2, Frame DEF SenderClear, TypeInv
<1> QED
  BY Zenon, <1>1, <1>2, <1>3, <1>4, <1>5, <1>6, <1>7, <1>8, <1>9 DEF Sender

(* A step of an MQTT callback keeps the types.                             *)
LEMMA CallbackType ==
    ASSUME TypeInv, Callback
    PROVE  TypeInv'
<1>1. Msgs' = Msgs
  BY Zenon DEF Callback, on_connect, on_connection_lost, AsynCount, AsynReadFlag, AsynCreateThread,
         history, Msgs
<1>2. MqttOK'
  BY ZenonT(60) DEF Callback, on_connect, on_connection_lost, AsynCount, AsynReadFlag, AsynCreateThread,
         TypeInv, MqttOK
<1>3. SendersOK'
  <2>1. CASE AsynCreateThread
    BY Zenon, <1>1, <2>1 DEF AsynCreateThread, TypeInv, SendersOK, SenderLabels
  <2>2. CASE UNCHANGED senders
    BY Zenon, <1>1, <2>2, Frame
  <2> QED
    BY Zenon, <2>1, <2>2 DEF Callback, on_connect, on_connection_lost, AsynCount, AsynReadFlag
<1> QED
  BY Zenon, <1>1, <1>2, <1>3, Frame
  DEF Callback, on_connect, on_connection_lost, AsynCount, AsynReadFlag, AsynCreateThread, TypeInv

(* A crash and a start keep the types.                                     *)
LEMMA ProcessType ==
    ASSUME TypeInv, Crash \/ Start
    PROVE  TypeInv'
<1>1. Msgs' = Msgs
  BY Zenon DEF Crash, Start, history, Msgs
<1>2. NoNode \in Headers /\ NoRequest \in Requests
  BY SMTT(60) DEF NoNode, Headers, NoRequest, Requests
<1>3. CASE Crash
  <2>1. ProcessOK'
    <3>1. crashes' \in Nat /\ capacity' \in Nat
      BY SMTT(60), <1>3 DEF Crash, TypeInv, ProcessOK
    <3>2. up' \in BOOLEAN
      BY ZenonT(60), <1>3 DEF Crash
    <3>3. cut' \in [1 .. MaxMsgs -> Nat]
      BY SMTT(60), <1>3 DEF Crash, TypeInv, ProcessOK
    <3> QED
      BY Zenon, <3>1, <3>2, <3>3 DEF ProcessOK
  <2>4. QueueOK'
    <3>1. list' \in Seq(Headers)
      BY <1>3 DEF Crash
    <3>2. listMade' \in BOOLEAN /\ listLock' \in Workers \cup {NoThread}
      BY ZenonT(60), <1>3, Zenon DEF Crash
    <3> QED
      BY Zenon, <3>1, <3>2 DEF QueueOK
  <2>5. MqttOK'
    BY ZenonT(60), <1>3, Zenon DEF Crash, MqttOK
  <2>2. WorkersOK'
    BY Zenon, <1>2, <1>3 DEF Crash, TypeInv, WorkersOK, WorkerLabels
  <2>3. SendersOK'
    BY ZenonT(60), <1>2, <1>3 DEF Crash, TypeInv, SendersOK, SenderLabels
  <2> QED
    BY Zenon, <1>1, <1>3, <2>1, <2>2, <2>3, <2>4, <2>5, Frame DEF Crash, TypeInv
<1>4. CASE Start
  <2>1. ProcessOK'
    BY Zenon, <1>4, CapacitiesAssumption DEF Start, TypeInv, ProcessOK
  <2>2. QueueOK'
    <3>1. list' \in Seq(Headers)
      BY Zenon, <1>4, LoadedList DEF Start, TypeInv, QueueOK, FilesOK
    <3> QED
      BY ZenonT(60), <1>4, <3>1 DEF Start, TypeInv, QueueOK
  <2> QED
    BY Zenon, <1>1, <1>4, <2>1, <2>2, Frame DEF Start, TypeInv
<1> QED
  BY Zenon, <1>3, <1>4

(* The type invariant holds of every behaviour of the hub's cache.         *)
LEMMA TypeInvariant == Spec => []TypeInv
<1>1. Init => TypeInv
  <2> SUFFICES ASSUME Init PROVE TypeInv
    BY Zenon
  <2>1. ProcessOK /\ MqttOK
    BY ZenonT(60), CapacitiesAssumption DEF Init, ProcessOK, MqttOK
  <2>5. QueueOK
    <3>1. list \in Seq(Headers)
      BY DEF Init
    <3>2. listMade \in BOOLEAN /\ listLock \in Workers \cup {NoThread}
      BY ZenonT(60), Zenon DEF Init
    <3> QED
      BY Zenon, <3>1, <3>2 DEF QueueOK
  <2>6. HistoryOK
    <3>1. sent = << >> /\ acked = {} /\ discarded = {} /\ dropped = {}
      BY Zenon DEF Init
    <3>2. Msgs = {} /\ sent \in Seq(Nat)
      BY <3>1 DEF Msgs
    <3> QED
      BY Zenon, <3>1, <3>2 DEF HistoryOK
  <2>2. FilesOK
    BY Zenon, FS_EmptySet DEF Init, FilesOK
  <2>3. WorkersOK
    BY DEF Init, WorkersOK, WorkerLabels, NoRequest, Requests
  <2>4. SendersOK
    <3>1. NoNode \in Headers
      BY DEF NoNode, Headers
    <3> QED
      BY ZenonT(60), <3>1 DEF Init, SendersOK, SenderLabels
  <2> QED
    BY Zenon, <2>1, <2>2, <2>3, <2>4, <2>5, <2>6 DEF TypeInv
<1>2. TypeInv /\ [Next]_vars => TypeInv'
  <2> SUFFICES ASSUME TypeInv, [Next]_vars PROVE TypeInv'
    BY Zenon
  <2>1. CASE Next
    BY Zenon, <2>1, WorkerType, SenderType, CallbackType, ProcessType DEF Next
  <2>2. CASE UNCHANGED vars
    BY Zenon, <2>2, Frame
    DEF vars, process, queue, mqtt, workers, senders, history, Msgs, TypeInv
  <2> QED
    BY Zenon, <2>1, <2>2
<1> QED
  BY <1>1, <1>2, PTL DEF Spec

(* The variables of offlinemsgcache.c and of the threads around it always  *)
(* have the shapes their declarations give them.                           *)
THEOREM TypeCorrect == Spec => []TypeOK
<1>1. TypeInv => TypeOK
  BY Zenon DEF TypeInv, ProcessOK, QueueOK, FilesOK, MqttOK, WorkersOK, SendersOK, HistoryOK, TypeOK
<1> QED
  BY <1>1, TypeInvariant, PTL

-----------------------------------------------------------------------------
(* One drain at a time.                                                    *)

(* send_messages_thread_fun: at most one thread is between setting and     *)
(* clearing g_isAsyncSending, however many the callback has created.       *)
THEOREM OneSender == Spec => []SingleSender
<1> USE DEF SingleSender, Draining
<1>1. Init => SingleSender
  BY Zenon DEF Init
<1>2. TypeInv /\ SingleSender /\ [Next]_vars => SingleSender'
  <2> SUFFICES ASSUME TypeInv, SingleSender, [Next]_vars PROVE SingleSender'
    BY Zenon
  <2>0. spc \in [Senders -> SenderLabels]
    BY Zenon DEF TypeInv, SendersOK
  <2>1. ASSUME NEW s \in Senders, Sender(s) PROVE SingleSender'
    <3>1. CASE SenderStart(s)
      BY Zenon, <2>0, <3>1 DEF SenderStart, AlreadySending, Step
    <3>2. CASE SenderClear(s)
      BY Zenon, <2>0, <3>2 DEF SenderClear, ClearFlag, Step
    <3>3. ASSUME NEW l \in {"count", "isConnected", "clear", "pop", "read", "send", "unlink",
                            "putBack"},
                 Step(s, l), Draining(s), UNCHANGED isAsyncSending
          PROVE  SingleSender'
      BY Zenon, <2>0, <3>3 DEF Step
    <3>4. CASE SenderCount(s) \/ SenderIsConnected(s)
      BY Zenon, <3>3, <3>4 DEF SenderCount, SenderIsConnected
    <3>5. CASE SenderPop(s) \/ SenderRead(s)
      BY Zenon, <3>3, <3>5 DEF SenderPop, SenderRead, EndRound
    <3>6. CASE SenderSend(s) \/ SenderUnlink(s) \/ SenderPutBack(s)
      BY Zenon, <3>3, <3>6 DEF SenderSend, SenderUnlink, SenderPutBack, EndRound, AfterAccepted
    <3> QED
      BY Zenon, <2>1, <3>1, <3>2, <3>4, <3>5, <3>6 DEF Sender
  <2>2. CASE AsynCreateThread
    BY Zenon, <2>0, <2>2 DEF AsynCreateThread
  <2>3. CASE Crash
    BY Zenon, <2>3 DEF Crash
  <2>4. CASE UNCHANGED senders
    BY Zenon, <2>4 DEF senders
  <2>5. ASSUME NEW t \in Workers, Worker(t) PROVE UNCHANGED senders
    BY Zenon, <2>5 DEF Worker, Receive, SendOnline, StartCaching, InitList, CanEnter, OpenFile, FillFile,
                EvictOne, PushNode
  <2> QED
    BY Zenon, <2>1, <2>2, <2>3, <2>4, <2>5
    DEF Next, Callback, on_connect, on_connection_lost, AsynCount, AsynReadFlag, Start, vars, senders
<1> QED
  BY <1>1, <1>2, TypeInvariant, PTL DEF Spec

-----------------------------------------------------------------------------
(* The bound on the queue.                                                 *)

(* cache_offline_message and the put-back: while the hub runs g_list grows *)
(* only to a length within the capacity.                                   *)
THEOREM BoundedGrowth == Spec => GrowthWithinCapacity
<1> DEFINE Bounded == up /\ Len(list') > Len(list) => Len(list') <= capacity
<1>1. TypeInv /\ [Next]_vars => [Bounded]_vars
  <2> SUFFICES ASSUME TypeInv, Next, up, Len(list') > Len(list) PROVE Len(list') <= capacity
    BY Zenon
  <2>0. list \in Seq(Headers) /\ Len(list) \in Nat /\ capacity \in Nat
    BY DEF TypeInv, QueueOK, ProcessOK
  <2>1. list' # list
    BY SMTT(60), <2>0
  <2>2. ASSUME NEW t \in Workers, Worker(t) PROVE Len(list') <= capacity
    <3>1. CASE InitList(t)
      BY SMTT(60), <2>0, <3>1 DEF InitList
    <3>2. CASE EvictOne(t)
      BY SMTT(60), <2>0, <2>1, <3>2, RemoveProperties DEF EvictOne
    <3>3. CASE PushNode(t)
      BY SMTT(60), <2>0, <3>3 DEF PushNode, HasRoom
    <3> QED
      BY Zenon, <2>1, <2>2, <3>1, <3>2, <3>3
      DEF Worker, Receive, SendOnline, StartCaching, CanEnter, OpenFile, FillFile, queue
  <2>3. ASSUME NEW s \in Senders, Sender(s) PROVE Len(list') <= capacity
    <3>1. CASE SenderPop(s)
      BY SMTT(60), <2>0, <2>1, <3>1 DEF SenderPop, ListAfterPop
    <3>2. CASE SenderPutBack(s)
      BY SMTT(60), <2>0, <2>1, <3>2, LpushProperties
      DEF SenderPutBack, HasRoom, ListAfterLpush, TypeInv, SendersOK
    <3> QED
      BY Zenon, <2>1, <2>3, <3>1, <3>2
      DEF Sender, SenderStart, SenderCount, SenderIsConnected, SenderRead, SenderSend, SenderUnlink,
          SenderClear, queue
  <2>4. CASE Crash
    BY SMTT(60), <2>0, <2>4 DEF Crash
  <2> QED
    BY Zenon, <2>1, <2>2, <2>3, <2>4
    DEF Next, Callback, on_connect, on_connection_lost, AsynCount, AsynReadFlag, AsynCreateThread,
        Start, queue
<1> QED
  BY <1>1, TypeInvariant, PTL DEF Spec, GrowthWithinCapacity

-----------------------------------------------------------------------------
(* No duplicates within a life of the process.                             *)

Unwritten(t) == wpc[t] \in {"send", "cache", "initList", "canEnter", "open", "fill"}

Unsent(s) == spc[s] \in {"send", "putBack"}

WorkersUnsent ==
    \A t \in Workers : Unwritten(t) =>
        /\ sent[req[t].msg] = 0
        /\ ~OnDisk(req[t].msg)
        /\ \A s \in Senders : Unsent(s) => buf[s] # req[t].msg
        /\ \A u \in Workers : Unwritten(u) /\ req[u].msg = req[t].msg => u = t

OneFile == \A p, q \in DOMAIN files : files[p] = files[q] /\ files[p] # Partial => p = q

ReadUnsent ==
    \A s \in Senders : Unsent(s) =>
        /\ sent[buf[s]] = cut[buf[s]]
        /\ \A p \in DOMAIN files : files[p] = buf[s] => p = get_cache_file_path(node[s])

FilesUnsent ==
    \A p \in DOMAIN files : files[p] # Partial =>
        \/ sent[files[p]] = cut[files[p]]
        \/ \E s \in Senders :
              spc[s] = "unlink" /\ buf[s] = files[p] /\ get_cache_file_path(node[s]) = p

UnlinkSent == \A s \in Senders : spc[s] = "unlink" => sent[buf[s]] = cut[buf[s]] + 1

FreshUncut == \A k \in 1 .. MaxMsgs : k \notin Msgs => cut[k] = 0

(* OncePerLife is not inductive: a message could be sent again from        *)
(* wherever it is kept.  So a request is in one place only (with the       *)
(* worker that received it, in one file, or read from that file), and what *)
(* is kept has been sent as often as a crash cut its unlink off, unless    *)
(* the drain thread is about to remove its file.                           *)
OnceInv ==
    /\ OncePerLife /\ WorkersUnsent /\ OneFile /\ ReadUnsent /\ FilesUnsent
    /\ UnlinkSent /\ FreshUncut

(* A step that sends nothing, writes no message and reads none keeps       *)
(* OnceInv, provided that a thread about to remove a file does so or       *)
(* remains about to.                                                       *)
LEMMA OnceQuiet ==
    ASSUME TypeInv, OnceInv, UNCHANGED <<sent, cut>>,
           \A t \in Workers : Unwritten(t)' => Unwritten(t) /\ req'[t].msg = req[t].msg,
           \A p \in DOMAIN files' :
               files'[p] # Partial => p \in DOMAIN files /\ files'[p] = files[p],
           \A s \in Senders : Unsent(s)' => Unsent(s) /\ buf'[s] = buf[s] /\ node'[s] = node[s],
           \A s \in Senders : spc'[s] = "unlink" => spc[s] = "unlink" /\ buf'[s] = buf[s],
           \A s \in Senders : spc[s] = "unlink" =>
               \/ spc'[s] = "unlink" /\ buf'[s] = buf[s] /\ node'[s] = node[s]
               \/ get_cache_file_path(node[s]) \notin DOMAIN files'
    PROVE  OnceInv'
<1>1. OncePerLife'
  BY Zenon DEF OnceInv, OncePerLife, Msgs
<1>2. WorkersUnsent'
  <2>1. \A m \in Msgs : OnDisk(m)' => OnDisk(m)
    BY SMTT(60), SentinelsAssumption DEF OnDisk, TypeInv, HistoryOK, Msgs
  <2>2. \A t \in Workers : Unwritten(t) => req[t].msg \in Msgs
    BY Zenon DEF TypeInv, WorkersOK, Unwritten
  <2> QED
    BY SMTT(60), <2>1, <2>2 DEF OnceInv, WorkersUnsent
<1>3. OneFile'
  BY ZenonT(30) DEF OnceInv, OneFile
<1>4. ReadUnsent'
  <2>1. \A s \in Senders : Unsent(s) => buf[s] # Partial
    BY SMTT(60), SentinelsAssumption DEF Unsent, TypeInv, SendersOK
  <2> QED
    BY SMTT(60), <2>1 DEF OnceInv, ReadUnsent
<1>5. FilesUnsent'
  <2> SUFFICES ASSUME NEW p \in DOMAIN files', files'[p] # Partial
               PROVE  \/ sent'[files'[p]] = cut'[files'[p]]
                      \/ \E s \in Senders : /\ spc'[s] = "unlink" /\ buf'[s] = files'[p]
                                           /\ get_cache_file_path(node'[s]) = p
    BY Zenon DEF FilesUnsent
  <2>0. p \in DOMAIN files /\ files'[p] = files[p] /\ files[p] # Partial
    BY Zenon
  <2>1. CASE sent[files[p]] = cut[files[p]]
    BY Zenon, <2>0, <2>1
  <2>2. ASSUME NEW s \in Senders, spc[s] = "unlink", buf[s] = files[p], get_cache_file_path(node[s]) = p
        PROVE  spc'[s] = "unlink" /\ buf'[s] = files[p] /\ get_cache_file_path(node'[s]) = p
    BY Zenon, <2>0, <2>2
  <2> QED
    <3>1. \/ sent[files[p]] = cut[files[p]]
          \/ \E s \in Senders :
                spc[s] = "unlink" /\ buf[s] = files[p] /\ get_cache_file_path(node[s]) = p
      BY Zenon, <2>0 DEF OnceInv, FilesUnsent
    <3> QED
      BY Zenon, <2>0, <2>1, <2>2, <3>1
<1>6. UnlinkSent' /\ FreshUncut'
  BY Zenon DEF OnceInv, UnlinkSent, FreshUncut, Msgs
<1> QED
  BY Zenon, <1>1, <1>2, <1>3, <1>4, <1>5, <1>6 DEF OnceInv

(* A step of a worker keeps OnceInv.                                       *)
LEMMA OnceWorker ==
    ASSUME TypeInv, TypeInv', OnceInv, NEW t \in Workers, Worker(t)
    PROVE  OnceInv'
<1> DEFINE m == req[t].msg
<1>0. /\ wpc \in [Workers -> WorkerLabels] /\ req \in [Workers -> Requests]
      /\ \A u \in Workers : Unwritten(u) => req[u].msg \in Msgs
      /\ \A s \in Senders : Unsent(s) => buf[s] \in Msgs
      /\ \A p \in DOMAIN files : files[p] \in Msgs \cup {Partial}
      /\ sent \in Seq(Nat) /\ cut \in [1 .. MaxMsgs -> Nat] /\ Msgs \subseteq 1 .. MaxMsgs
      /\ FilesOK
      /\ \A s \in Senders : spc[s] = "unlink" => buf[s] \in Msgs
      /\ Partial \notin Msgs
  BY SMTT(60), SentinelsAssumption
  DEF TypeInv, WorkersOK, SendersOK, FilesOK, HistoryOK, ProcessOK, Unwritten, Unsent, Msgs
<1>1. CASE Receive(t)
  <2> DEFINE n == Len(sent) + 1
  <2>1. /\ Msgs' = Msgs \cup {n} /\ n \notin Msgs
        /\ \A k \in Msgs : sent'[k] = sent[k]
        /\ sent'[n] = 0
    BY SMTT(60), <1>0, <1>1 DEF Receive, Msgs
  <2>2. UNCHANGED <<files, cut, spc, node, buf>>
    BY Zenon, <1>1 DEF Receive, process, senders
  <2>3. /\ Unwritten(t)' => req'[t].msg = n
        /\ \A u \in Workers \ {t} : wpc'[u] = wpc[u] /\ req'[u] = req[u]
    BY SMTT(60), <1>0, <1>1 DEF Receive, Failed, Finish, Goto, Unwritten, NoRequest
  <2> HIDE DEF n
  <2>4. OncePerLife'
    <3>1. n \in 1 .. MaxMsgs
      BY Zenon, <2>1 DEF TypeInv, HistoryOK
    <3>2. cut[n] = 0
      BY Zenon, <2>1, <3>1 DEF OnceInv, FreshUncut
    <3> QED
      BY Zenon, <2>1, <2>2, <3>2 DEF OnceInv, OncePerLife
  <2>5. WorkersUnsent'
    <3>1. ~OnDisk(n) /\ \A s \in Senders : Unsent(s) => buf[s] # n
      <4>1. n # Partial
        BY SMTT(60), <1>0, SentinelsAssumption DEF n
      <4> QED
        BY SMTT(60), <1>0, <2>1, <4>1 DEF OnDisk
    <3>2. \A u \in Workers : Unwritten(u) => req[u].msg \in Msgs /\ req[u].msg # n
      BY Zenon, <1>0, <2>1
    <3>3. \A u \in Workers \ {t} : Unwritten(u)' => Unwritten(u)
      BY Zenon, <2>3 DEF Unwritten
    <3>4. (\A k : OnDisk(k)' <=> OnDisk(k)) /\ (\A s \in Senders : Unsent(s)' <=> Unsent(s))
      BY Zenon, <2>2 DEF OnDisk, Unsent
    <3> QED
      BY SMTT(60), <2>1, <2>2, <2>3, <3>1, <3>2, <3>3, <3>4 DEF OnceInv, WorkersUnsent
  <2>6. OneFile' /\ ReadUnsent' /\ FilesUnsent'
    <3>1. OneFile'
      BY Zenon, <2>2 DEF OnceInv, OneFile
    <3>2. ReadUnsent'
      BY ZenonT(30), <1>0, <2>1, <2>2 DEF OnceInv, ReadUnsent, Unsent
    <3>3. FilesUnsent'
      BY ZenonT(30), <1>0, <2>1, <2>2 DEF OnceInv, FilesUnsent
    <3> QED
      BY Zenon, <3>1, <3>2, <3>3
  <2>7. UnlinkSent' /\ FreshUncut'
    BY Zenon, <1>0, <2>1, <2>2 DEF OnceInv, UnlinkSent, FreshUncut
  <2> QED
    BY Zenon, <2>4, <2>5, <2>6, <2>7 DEF OnceInv
<1>2. CASE SendOnline(t)
  <2>1. UNCHANGED <<files, cut, spc, node, buf>> /\ Unwritten(t)
    BY Zenon, <1>2 DEF SendOnline, process, senders, Unwritten
  <2>2. CASE sent' = [sent EXCEPT ![m] = @ + 1] /\ Finish(t)
    <3>1. /\ Msgs' = Msgs /\ m \in Msgs
          /\ sent'[m] = 1
          /\ \A k \in Msgs \ {m} : sent'[k] = sent[k]
      BY SMTT(60), <1>0, <2>1, <2>2 DEF OnceInv, WorkersUnsent, Msgs
    <3>2. \A u \in Workers : Unwritten(u)' => u # t /\ Unwritten(u) /\ req'[u] = req[u]
      BY Zenon, <1>0, <2>2 DEF Finish, Goto, Unwritten
    <3>3. OncePerLife'
      <4>1. sent[m] = 0 /\ cut[m] \in Nat /\ sent[m] \in {cut[m], cut[m] + 1}
        BY Zenon, <1>0, <2>1, <3>1 DEF OnceInv, OncePerLife, WorkersUnsent
      <4>2. sent'[m] = cut[m] + 1
        BY <3>1, <4>1
      <4> QED
        BY Zenon, <2>1, <3>1, <4>2 DEF OnceInv, OncePerLife
    <3>4. WorkersUnsent'
      <4>1. \A u \in Workers : Unwritten(u)' => req[u].msg \in Msgs \ {m}
        BY Zenon, <1>0, <2>1, <3>2 DEF OnceInv, WorkersUnsent
      <4>2. (\A k : OnDisk(k)' <=> OnDisk(k)) /\ (\A s \in Senders : Unsent(s)' <=> Unsent(s))
        BY Zenon, <2>1 DEF OnDisk, Unsent
      <4> SUFFICES ASSUME NEW v \in Workers, Unwritten(v)'
                   PROVE  /\ sent'[req'[v].msg] = 0 /\ ~OnDisk(req[v].msg)'
                          /\ \A s \in Senders : Unsent(s)' => buf'[s] # req'[v].msg
                          /\ \A u \in Workers : Unwritten(u)' /\ req'[u].msg = req'[v].msg => u = v
        BY Zenon DEF WorkersUnsent
      <4>3. /\ Unwritten(v) /\ req'[v] = req[v] /\ sent'[req[v].msg] = sent[req[v].msg]
            /\ UNCHANGED <<files, buf>>
        BY Zenon, <2>1, <3>1, <3>2, <4>1
      <4>4. /\ sent[req[v].msg] = 0 /\ ~OnDisk(req[v].msg)
            /\ \A s \in Senders : Unsent(s) => buf[s] # req[v].msg
            /\ \A u \in Workers : Unwritten(u) /\ req[u].msg = req[v].msg => u = v
        BY Zenon, <4>3 DEF OnceInv, WorkersUnsent
      <4>5. ~OnDisk(req[v].msg)'
        BY Zenon, <4>3, <4>4 DEF OnDisk
      <4> QED
        BY Zenon, <3>2, <4>2, <4>3, <4>4, <4>5
    <3>5. \A p \in DOMAIN files : files[p] # m
      BY Zenon, <2>1 DEF OnceInv, WorkersUnsent, OnDisk
    <3>6. \A s \in Senders : Unsent(s) => buf[s] # m
      BY Zenon, <2>1 DEF OnceInv, WorkersUnsent
    <3>7. OneFile' /\ ReadUnsent' /\ FilesUnsent'
      <4>1. OneFile'
        BY Zenon, <2>1 DEF OnceInv, OneFile
      <4>2. ReadUnsent'
        BY ZenonT(30), <1>0, <2>1, <3>1, <3>6 DEF OnceInv, ReadUnsent, Unsent
      <4>3. FilesUnsent'
        BY ZenonT(30), <1>0, <2>1, <3>1, <3>5 DEF OnceInv, FilesUnsent
      <4> QED
        BY Zenon, <4>1, <4>2, <4>3
    <3>8. \A s \in Senders : spc[s] = "unlink" => buf[s] # m
      <4>1. sent[m] = 0
        BY Zenon, <2>1 DEF OnceInv, WorkersUnsent
      <4> SUFFICES ASSUME NEW s \in Senders, spc[s] = "unlink", buf[s] = m PROVE FALSE
        OBVIOUS
      <4>2. sent[m] = cut[m] + 1 /\ cut[m] \in Nat
        BY Zenon, <1>0, <3>1 DEF OnceInv, UnlinkSent
      <4> QED
        BY <4>1, <4>2
    <3>9. UnlinkSent' /\ FreshUncut'
      BY Zenon, <1>0, <2>1, <3>1, <3>8 DEF OnceInv, UnlinkSent, FreshUncut
    <3> QED
      BY Zenon, <3>3, <3>4, <3>7, <3>9 DEF OnceInv
  <2>3. CASE Failed(t, req[t]) /\ UNCHANGED sent
    <3>1. \A u \in Workers : Unwritten(u)' => Unwritten(u) /\ req'[u].msg = req[u].msg
      BY Zenon, <1>0, <2>1, <2>3 DEF Failed, Finish, Goto, Unwritten
    <3> QED
      BY Zenon, <2>1, <2>3, <3>1, OnceQuiet DEF Unsent
  <2> QED
    BY Zenon, <1>2, <2>2, <2>3 DEF SendOnline
<1>3. CASE StartCaching(t)
  <2>1. \A u \in Workers : Unwritten(u)' => Unwritten(u) /\ req'[u].msg = req[u].msg
    BY SMTT(60), <1>0, <1>3 DEF StartCaching, Goto, Unwritten, Requests
  <2> QED
    BY Zenon, <1>3, <2>1, OnceQuiet DEF StartCaching, process, senders, history, Unsent
<1>4. CASE InitList(t)
  <2>1. \A u \in Workers : Unwritten(u)' => Unwritten(u) /\ req'[u].msg = req[u].msg
    BY Zenon, <1>0, <1>4 DEF InitList, Goto, Unwritten
  <2> QED
    BY Zenon, <1>4, <2>1, OnceQuiet DEF InitList, process, senders, history, Unsent
<1>5. CASE CanEnter(t)
  <2>1. \A u \in Workers : Unwritten(u)' => Unwritten(u) /\ req'[u].msg = req[u].msg
    BY Zenon, <1>0, <1>5 DEF CanEnter, Finish, Goto, Unwritten
  <2> QED
    BY Zenon, <1>5, <2>1, OnceQuiet DEF CanEnter, process, senders, Unsent
<1>6. CASE OpenFile(t)
  <2>1. \A u \in Workers : Unwritten(u)' => Unwritten(u) /\ req'[u].msg = req[u].msg
    BY Zenon, <1>0, <1>6 DEF OpenFile, Goto, Unwritten
  <2>2. \A p \in DOMAIN files' : files'[p] # Partial => p \in DOMAIN files /\ files'[p] = files[p]
    BY Zenon, <1>6 DEF OpenFile, WriteFile
  <2> QED
    BY Zenon, <1>6, <2>1, <2>2, OnceQuiet DEF OpenFile, process, senders, history, Unsent
<1>7. CASE FillFile(t)
  <2> DEFINE p == get_cache_file_path(HeaderOf(req[t]))
  <2>0. UNCHANGED <<sent, cut, spc, node, buf>> /\ Unwritten(t) /\ m \in Msgs
    BY Zenon, <1>0, <1>7 DEF FillFile, process, senders, history, Unwritten
  <2>1. CASE WriteFile(p, m) /\ Goto(t, "push") /\ UNCHANGED req
    <3>1. /\ DOMAIN files' = DOMAIN files \cup {p}
          /\ files'[p] = m
          /\ \A q \in DOMAIN files : q # p => files'[q] = files[q]
      BY Zenon, <2>1 DEF WriteFile
    <3>2. \A u \in Workers : Unwritten(u)' => u # t /\ Unwritten(u) /\ req'[u] = req[u]
      BY Zenon, <1>0, <2>1 DEF Goto, Unwritten
    <3>3. \A q \in DOMAIN files : files[q] # m
      BY Zenon, <2>0 DEF OnceInv, WorkersUnsent, OnDisk
    <3>4. \A s \in Senders : Unsent(s) => buf[s] # m
      BY Zenon, <2>0 DEF OnceInv, WorkersUnsent
    <3>5. sent[m] = 0 /\ \A u \in Workers : Unwritten(u) /\ u # t => req[u].msg # m
      BY Zenon, <2>0 DEF OnceInv, WorkersUnsent
    <3> HIDE DEF p, m
    <3>6. OncePerLife' /\ OneFile'
      BY Zenon, <2>0, <3>1, <3>3 DEF OnceInv, OncePerLife, OneFile, Msgs
    <3>7. WorkersUnsent'
      BY SMTT(60), <2>0, <3>1, <3>2, <3>5 DEF OnceInv, WorkersUnsent, OnDisk, Unsent
    <3>8. ReadUnsent'
      BY Zenon, <2>0, <3>1, <3>4 DEF OnceInv, ReadUnsent, Unsent
    <3>9. FilesUnsent'
      <4>1. cut[m] \in Nat /\ sent[m] \in {cut[m], cut[m] + 1}
        BY Zenon, <1>0, <2>0 DEF OnceInv, OncePerLife
      <4>2. sent[m] = cut[m]
        BY <3>5, <4>1
      <4> QED
        BY ZenonT(30), <1>0, <2>0, <3>1, <4>2 DEF OnceInv, FilesUnsent
    <3>10. UnlinkSent' /\ FreshUncut'
      BY Zenon, <2>0 DEF OnceInv, UnlinkSent, FreshUncut, Msgs
    <3> QED
      BY Zenon, <3>6, <3>7, <3>8, <3>9, <3>10 DEF OnceInv
  <2>2. CASE Goto(t, "push") /\ UNCHANGED <<files, req>>
    <3>1. \A u \in Workers : Unwritten(u)' => Unwritten(u) /\ req'[u].msg = req[u].msg
      BY Zenon, <1>0, <2>2 DEF Goto, Unwritten
    <3> QED
      BY Zenon, <2>0, <2>2, <3>1, OnceQuiet DEF Unsent
  <2>3. CASE Unlink(p) /\ Finish(t)
    <3>1. \A u \in Workers : Unwritten(u)' => Unwritten(u) /\ req'[u].msg = req[u].msg
      BY Zenon, <1>0, <2>3 DEF Finish, Goto, Unwritten
    <3>2. \A q \in DOMAIN files' : q \in DOMAIN files /\ files'[q] = files[q]
      BY Zenon, <2>3 DEF Unlink
    <3> QED
      BY Zenon, <2>0, <3>1, <3>2, OnceQuiet DEF Unsent
  <2> QED
    BY Zenon, <1>7, <2>1, <2>2, <2>3 DEF FillFile
<1>8. CASE EvictOne(t)
  <2>1. \A p \in DOMAIN files' : p \in DOMAIN files /\ files'[p] = files[p]
    BY ZenonT(60), <1>8 DEF EvictOne, Unlink
  <2> QED
    BY Zenon, <1>8, <2>1, OnceQuiet DEF EvictOne, process, workers, senders, Unsent, Unwritten
<1>9. CASE PushNode(t)
  <2>1. \A u \in Workers : Unwritten(u)' => Unwritten(u) /\ req'[u].msg = req[u].msg
    BY Zenon, <1>0, <1>9 DEF PushNode, Finish, Goto, Unwritten
  <2> QED
    BY Zenon, <1>9, <2>1, OnceQuiet DEF PushNode, process, senders, Unsent
<1> QED
  BY Zenon, <1>1, <1>2, <1>3, <1>4, <1>5, <1>6, <1>7, <1>8, <1>9 DEF Worker

(* A step of a drain thread keeps OnceInv: no other thread drains, so none *)
(* reads the file this one has sent.                                       *)
LEMMA OnceSender ==
    ASSUME TypeInv, SingleSender, OnceInv, NEW s \in Senders, Sender(s)
    PROVE  OnceInv'
<1> DEFINE p == get_cache_file_path(node[s])
           m == buf[s]
<1>0. /\ spc \in [Senders -> SenderLabels] /\ buf \in [Senders -> Nat]
      /\ node \in [Senders -> Headers]
      /\ \A u \in Workers : Unwritten(u) => req[u].msg \in Msgs
      /\ sent \in Seq(Nat) /\ cut \in [1 .. MaxMsgs -> Nat] /\ Msgs \subseteq 1 .. MaxMsgs
  BY Zenon DEF TypeInv, WorkersOK, SendersOK, HistoryOK, ProcessOK, Unwritten
<1>1. ASSUME NEW l, Step(s, l), l \notin {"send", "putBack", "unlink"},
             UNCHANGED <<sent, cut, wpc, req>>,
             \A u \in Senders \ {s} : buf'[u] = buf[u] /\ node'[u] = node[u],
             \A q \in DOMAIN files' : q \in DOMAIN files /\ files'[q] = files[q],
             spc[s] = "unlink" => p \notin DOMAIN files'
      PROVE  OnceInv'
  BY Zenon, <1>0, <1>1, OnceQuiet DEF Step, Unsent, Unwritten
<1>2. CASE SenderStart(s) \/ SenderCount(s) \/ SenderIsConnected(s) \/ SenderClear(s)
  BY Zenon, <1>1, <1>2
  DEF SenderStart, SenderCount, SenderIsConnected, SenderClear, process, workers, history
<1>3. CASE SenderPop(s)
  BY ZenonT(60), <1>0, <1>1, <1>3 DEF SenderPop, process, workers, history
<1>4. CASE SenderRead(s)
  <2>1. CASE p \in DOMAIN files /\ files[p] # Partial
    <3> DEFINE k == files[p]
    <3>1. /\ spc[s] = "read" /\ spc' = [spc EXCEPT ![s] = "send"] /\ buf' = [buf EXCEPT ![s] = k]
          /\ UNCHANGED <<files, node, sent, cut, wpc, req>>
      BY Zenon, <1>4, <2>1 DEF SenderRead, Step, process, workers, history
    <3>2. \A u \in Senders \ {s} : ~Unsent(u) /\ spc[u] # "unlink" /\ ~Unsent(u)'
      BY Zenon, <1>0, <3>1 DEF SingleSender, Draining, Unsent
    <3>3. sent[k] = cut[k]
      BY Zenon, <2>1, <3>1, <3>2 DEF OnceInv, FilesUnsent
    <3>4. OncePerLife' /\ OneFile' /\ FilesUnsent'
      BY Zenon, <1>0, <3>1, <3>2 DEF OnceInv, OncePerLife, OneFile, FilesUnsent, Msgs
    <3>5. WorkersUnsent'
      BY Zenon, <1>0, <2>1, <3>1, <3>2 DEF OnceInv, WorkersUnsent, OnDisk, Unwritten
    <3>6. ReadUnsent'
      <4>1. buf'[s] = k /\ node'[s] = node[s] /\ UNCHANGED <<files, sent, cut>>
        BY Zenon, <1>0, <3>1
      <4>2. \A q \in DOMAIN files : files[q] = k => q = p
        BY Zenon, <2>1 DEF OnceInv, OneFile
      <4> HIDE DEF k
      <4> QED
        BY ZenonT(30), <3>2, <3>3, <4>1, <4>2 DEF ReadUnsent
    <3>7. UnlinkSent' /\ FreshUncut'
      <4>1. \A u \in Senders : spc'[u] # "unlink"
        BY Zenon, <1>0, <3>1, <3>2
      <4> QED
        BY Zenon, <3>1, <4>1 DEF OnceInv, UnlinkSent, FreshUncut, Msgs
    <3> QED
      BY Zenon, <3>4, <3>5, <3>6, <3>7 DEF OnceInv
  <2>2. CASE ~(p \in DOMAIN files /\ files[p] # Partial)
    <3>1. Unlink(p) /\ EndRound(s) /\ UNCHANGED <<sent, cut, wpc, req>>
      BY Zenon, <1>4, <2>2 DEF SenderRead, process, workers, history
    <3> QED
      BY Zenon, <1>0, <1>1, <3>1 DEF Unlink, EndRound
  <2> QED
    BY Zenon, <2>1, <2>2
<1>5. CASE SenderSend(s)
  <2>0. UNCHANGED <<files, node, buf, cut, wpc, req>> /\ Unsent(s) /\ m \in Msgs
    BY Zenon, <1>5 DEF SenderSend, process, workers, Unsent, TypeInv, SendersOK
  <2>1. CASE sent' = [sent EXCEPT ![m] = @ + 1] /\ Step(s, AfterAccepted)
    <3>1. /\ Msgs' = Msgs
          /\ sent'[m] = sent[m] + 1
          /\ \A k \in Msgs \ {m} : sent'[k] = sent[k]
      BY SMTT(60), <1>0, <2>0, <2>1 DEF Msgs
    <3>2. /\ spc'[s] = "unlink" /\ \A u \in Senders : ~Unsent(u)'
          /\ \A u \in Senders \ {s} : spc[u] # "unlink"
      BY ZenonT(60), <1>0, <2>0, <2>1 DEF Step, AfterAccepted, SingleSender, Draining, Unsent
    <3>3. sent[m] = cut[m]
      BY Zenon, <2>0 DEF OnceInv, ReadUnsent
    <3>4. OncePerLife'
      BY Zenon, <2>0, <3>1, <3>3 DEF OnceInv, OncePerLife
    <3>5. WorkersUnsent'
      BY ZenonT(60), <1>0, <2>0, <3>1, <3>2 DEF OnceInv, WorkersUnsent, OnDisk, Unwritten
    <3>6. OneFile' /\ ReadUnsent'
      BY ZenonT(60), <2>0, <3>2 DEF OnceInv, OneFile, ReadUnsent
    <3>7. FilesUnsent'
      <4>1. \A q \in DOMAIN files : files[q] = m => q = p
        BY Zenon, <2>0 DEF OnceInv, ReadUnsent
      <4>2. \A q \in DOMAIN files : files[q] # Partial => files[q] \in Msgs
        BY Zenon DEF TypeInv, FilesOK
      <4>3. spc[s] # "unlink"
        BY Zenon, <2>0 DEF Unsent
      <4>4. \A q \in DOMAIN files : files[q] # Partial => sent[files[q]] = cut[files[q]]
        BY Zenon, <3>2, <4>3 DEF OnceInv, FilesUnsent
      <4> QED
        BY ZenonT(60), <2>0, <3>1, <3>2, <4>1, <4>2, <4>4 DEF FilesUnsent
    <3>8. UnlinkSent' /\ FreshUncut'
      <4>1. \A u \in Senders : spc'[u] = "unlink" => u = s
        BY Zenon, <1>0, <2>1, <3>2 DEF Step
      <4> QED
        BY Zenon, <2>0, <3>1, <3>3, <4>1 DEF OnceInv, UnlinkSent, FreshUncut
    <3> QED
      BY Zenon, <3>4, <3>5, <3>6, <3>7, <3>8 DEF OnceInv
  <2>2. CASE Step(s, "putBack") /\ UNCHANGED sent
    <3>1. \A u \in Senders : Unsent(u)' => Unsent(u) /\ buf'[u] = buf[u] /\ node'[u] = node[u]
      BY Zenon, <1>0, <2>0, <2>2 DEF Step, Unsent
    <3>2. \A u \in Senders :
             /\ spc'[u] = "unlink" <=> spc[u] = "unlink"
             /\ buf'[u] = buf[u] /\ node'[u] = node[u]
      BY Zenon, <1>0, <2>0, <2>2 DEF Step, Unsent
    <3>3. \A u \in Workers : Unwritten(u)' => Unwritten(u) /\ req'[u].msg = req[u].msg
      BY Zenon, <2>0 DEF Unwritten
    <3>4. UNCHANGED <<sent, cut>> /\ UNCHANGED files
      BY Zenon, <2>0, <2>2
    <3> QED
      BY Zenon, <3>1, <3>2, <3>3, <3>4, OnceQuiet
  <2> QED
    BY Zenon, <1>5, <2>1, <2>2 DEF SenderSend
<1>6. CASE SenderUnlink(s)
  BY ZenonT(60), <1>0, <1>1, <1>6 DEF SenderUnlink, Unlink, EndRound, process, workers, history
<1>7. CASE SenderPutBack(s)
  BY Zenon, <1>0, <1>1, <1>7 DEF SenderPutBack, EndRound, process, workers
<1> QED
  BY Zenon, <1>2, <1>3, <1>4, <1>5, <1>6, <1>7 DEF Sender

(* OnceInv holds throughout.                                               *)
LEMMA OnceInvariant == Spec => []OnceInv
<1>1. Init => OnceInv
  BY SMTT(60) DEF Init, OnceInv, OncePerLife, WorkersUnsent, OneFile, ReadUnsent, FilesUnsent, Unwritten,
         Unsent, UnlinkSent, FreshUncut, Msgs
<1>2. TypeInv /\ TypeInv' /\ SingleSender /\ OnceInv /\ [Next]_vars => OnceInv'
  <2> SUFFICES ASSUME TypeInv, TypeInv', SingleSender, OnceInv, [Next]_vars PROVE OnceInv'
    BY Zenon
  <2>1. CASE Crash
    <3>1. /\ cut \in [1 .. MaxMsgs -> Nat] /\ Msgs \subseteq 1 .. MaxMsgs
          /\ \A s \in Senders : spc[s] = "unlink" => buf[s] \in Msgs
          /\ \A p \in DOMAIN files : files[p] # Partial => files[p] \in Msgs
      BY Zenon DEF TypeInv, HistoryOK, ProcessOK, SendersOK, FilesOK
    <3>2. UNCHANGED <<files, sent>>
      BY Zenon, <2>1 DEF Crash, history
    <3> DEFINE CutOff(m) == \E s \in Senders : spc[s] = "unlink" /\ buf[s] = m
    <3>3. /\ \A t \in Workers : ~Unwritten(t)'
          /\ \A s \in Senders : ~Unsent(s)' /\ spc'[s] # "unlink"
      BY Zenon, <2>1 DEF Crash, Unwritten, Unsent
    <3>4. \A m \in 1 .. MaxMsgs : cut'[m] = IF CutOff(m) THEN cut[m] + 1 ELSE cut[m]
      BY Zenon, <2>1, <3>1 DEF Crash
    <3>5. \A m \in Msgs : CutOff(m) => sent[m] = cut'[m]
      BY Zenon, <3>1, <3>4 DEF OnceInv, UnlinkSent
    <3>6. \A m \in Msgs : ~CutOff(m) => cut'[m] = cut[m]
      BY Zenon, <3>1, <3>4
    <3>7. OncePerLife'
      BY Zenon, <3>2, <3>5, <3>6 DEF OnceInv, OncePerLife, Msgs
    <3>8. FilesUnsent'
      <4> SUFFICES ASSUME NEW p \in DOMAIN files, files[p] # Partial PROVE sent[files[p]] = cut'[files[p]]
        BY Zenon, <3>2 DEF FilesUnsent
      <4>1. files[p] \in Msgs
        BY Zenon, <3>1
      <4>2. sent[files[p]] = cut[files[p]] \/ CutOff(files[p])
        BY Zenon DEF OnceInv, FilesUnsent
      <4> QED
        BY Zenon, <3>5, <3>6, <4>1, <4>2
    <3>9. UnlinkSent' /\ FreshUncut'
      BY Zenon, <3>1, <3>2, <3>3, <3>4 DEF OnceInv, UnlinkSent, FreshUncut, Msgs
    <3> QED
      BY ZenonT(60), <3>2, <3>3, <3>7, <3>8, <3>9 DEF OnceInv, WorkersUnsent, OneFile, ReadUnsent
  <2>2. CASE UNCHANGED <<sent, cut, wpc, req, files, spc, node, buf>>
    BY Zenon, <2>2, OnceQuiet DEF Unsent, Unwritten
  <2>3. CASE AsynCreateThread
    <3>1. spc \in [Senders -> SenderLabels]
      BY Zenon DEF TypeInv, SendersOK
    <3>2. \A s \in Senders : Unsent(s)' => Unsent(s) /\ buf'[s] = buf[s] /\ node'[s] = node[s]
      BY Zenon, <2>3, <3>1 DEF AsynCreateThread, Unsent
    <3>3. \A s \in Senders :
             /\ spc'[s] = "unlink" <=> spc[s] = "unlink"
             /\ buf'[s] = buf[s] /\ node'[s] = node[s]
      BY Zenon, <2>3, <3>1 DEF AsynCreateThread
    <3>4. \A t \in Workers : Unwritten(t)' => Unwritten(t) /\ req'[t].msg = req[t].msg
      BY Zenon, <2>3 DEF AsynCreateThread, workers, Unwritten
    <3>5. UNCHANGED <<sent, cut>> /\ UNCHANGED files
      BY Zenon, <2>3 DEF AsynCreateThread, process, history
    <3> QED
      BY Zenon, <3>2, <3>3, <3>4, <3>5, OnceQuiet
  <2> QED
    BY Zenon, <2>1, <2>2, <2>3, OnceWorker, OnceSender
    DEF Next, Callback, on_connect, on_connection_lost, AsynCount, AsynReadFlag, Start,
        vars, process, workers, senders, history
<1> QED
  BY <1>1, <1>2, TypeInvariant, OneSender, PTL DEF Spec

(* No request reaches the MQTT client twice, whether online or from the    *)
(* cache, even when files cannot be written, timestamps repeat or threads  *)
(* cannot be created, but for the crashes between its sendMessage and its  *)
(* unlink: each of them makes at most one duplicate, in a later life.      *)
THEOREM NoDuplicateInALife == Spec => []OncePerLife
<1>1. OnceInv => OncePerLife
  BY Zenon DEF OnceInv
<1> QED
  BY <1>1, OnceInvariant, PTL

=============================================================================
