------------------------- MODULE OfflineMsgCacheNoLoss ------------------------
(***************************************************************************)
(* No message is lost: AckedKept of OfflineMsgCache, for every number of   *)
(* threads, requests and crashes, every capacity and every set of          *)
(* priorities, provided that cache files can be written and that the clock *)
(* does not repeat.                                                        *)
(***************************************************************************)
EXTENDS OfflineMsgCacheSafety

-----------------------------------------------------------------------------
(* The faults under which the cache does lose messages.                    *)
Lossless == Faults \cap {"write", "clock"} = {}

-----------------------------------------------------------------------------
(* The inductive invariant.                                                *)

Stamped(t) == wpc[t] \in {"initList", "canEnter", "open", "fill", "push"}

PathOf(t) == get_cache_file_path(HeaderOf(req[t]))

NodePath(s) == get_cache_file_path(node[s])

(* The timestamps of the nodes in g_list and in the drain threads' hands.  *)
QueueStamps ==
    {list[i].timestamp : i \in 1 .. Len(list)}
        \cup {node[s].timestamp : s \in {u \in Senders : InHand(u)}}

StampsPast ==
    /\ \A p \in DOMAIN files : p.timestamp <= clock
    /\ \A x \in QueueStamps : x <= clock

OwnStamp ==
    \A t \in Workers : Stamped(t) =>
        /\ req[t].timestamp <= clock
        /\ req[t].timestamp \notin QueueStamps
        /\ \A u \in Workers : Stamped(u) /\ req[u].timestamp = req[t].timestamp => u = t
        /\ \A p \in DOMAIN files : p.timestamp = req[t].timestamp =>
              p = PathOf(t) /\ wpc[t] \in {"fill", "push"}
        /\ wpc[t] = "fill" /\ PathOf(t) \in DOMAIN files => files[PathOf(t)] = Partial
        /\ wpc[t] = "push" => PathOf(t) \in DOMAIN files /\ files[PathOf(t)] = req[t].msg

SenderFile ==
    \A s \in Senders :
        /\ spc[s] \in {"send", "unlink"} /\ NodePath(s) \in DOMAIN files =>
              files[NodePath(s)] = buf[s]
        /\ spc[s] = "unlink" => sent[buf[s]] > 0

(* AckedKept is not inductive: a file could be overwritten or removed in   *)
(* another's place.  With a clock that never repeats, the timestamp of a   *)
(* request being cached is its own, so its file is too, and the file the   *)
(* drain thread removes still holds what it has sent.                      *)
KeptInv == AckedKept /\ StampsPast /\ OwnStamp /\ SenderFile

-----------------------------------------------------------------------------
(* What keeps each part of it.                                             *)

(* AckedKept survives a step that removes only files whose message was     *)
(* sent or is counted as discarded.                                        *)
LEMMA AckedQuiet ==
    ASSUME TypeInv, AckedKept, UNCHANGED acked, discarded \subseteq discarded',
           \A m \in Msgs : sent[m] > 0 => sent'[m] > 0,
           \A p \in DOMAIN files : files[p] \in acked =>
               \/ p \in DOMAIN files' /\ files'[p] = files[p]
               \/ sent[files[p]] > 0
               \/ files[p] \in discarded'
    PROVE  AckedKept'
<1>1. acked \subseteq Msgs
  BY Zenon DEF TypeInv, HistoryOK
<1>2. ASSUME NEW m \in acked PROVE OnDisk(m)' \/ sent'[m] > 0 \/ m \in discarded'
  <2>1. CASE OnDisk(m)
    BY Zenon, <1>1, <2>1 DEF OnDisk
  <2> QED
    BY Zenon, <1>1, <1>2, <2>1 DEF AckedKept
<1> QED
  BY Zenon, <1>2 DEF AckedKept

(* OwnStamp survives a step that takes no new timestamp, moves no worker   *)
(* past its file, and removes only the files of queued nodes.              *)
LEMMA StampsQuiet ==
    ASSUME TypeInv, StampsPast, OwnStamp, UNCHANGED clock, QueueStamps' \subseteq QueueStamps,
           \A t \in Workers : Stamped(t)' =>
               /\ Stamped(t) /\ req'[t] = req[t]
               /\ wpc[t] \in {"fill", "push"} => wpc'[t] = wpc[t]
               /\ wpc'[t] \in {"fill", "push"} => wpc[t] = wpc'[t],
           \A p \in DOMAIN files' : p \in DOMAIN files /\ files'[p] = files[p],
           \A p \in DOMAIN files : p \in DOMAIN files' \/ p.timestamp \in QueueStamps
    PROVE  StampsPast' /\ OwnStamp'
<1>1. StampsPast'
  BY Zenon DEF StampsPast
<1>2. ASSUME NEW t \in Workers, Stamped(t)'
      PROVE  /\ req'[t].timestamp <= clock'
             /\ req'[t].timestamp \notin QueueStamps'
             /\ \A u \in Workers : Stamped(u)' /\ req'[u].timestamp = req'[t].timestamp => u = t
             /\ \A p \in DOMAIN files' : p.timestamp = req'[t].timestamp =>
                   p = PathOf(t)' /\ wpc'[t] \in {"fill", "push"}
             /\ wpc'[t] = "fill" /\ PathOf(t)' \in DOMAIN files' => files'[PathOf(t)'] = Partial
             /\ wpc'[t] = "push" => PathOf(t)' \in DOMAIN files' /\ files'[PathOf(t)'] = req'[t].msg
  <2>1. Stamped(t) /\ req'[t] = req[t] /\ PathOf(t)' = PathOf(t)
    BY Zenon, <1>2 DEF PathOf
  <2>2. PathOf(t).timestamp = req[t].timestamp
    BY Zenon, PathOfHeader DEF PathOf, HeaderOf, TypeInv, WorkersOK, Requests, Headers
  <2>3. /\ req'[t].timestamp <= clock' /\ req'[t].timestamp \notin QueueStamps'
        /\ \A u \in Workers : Stamped(u)' /\ req'[u].timestamp = req'[t].timestamp => u = t
    BY SMTT(60), <1>2, <2>1 DEF OwnStamp
  <2>4. \A p \in DOMAIN files' : p.timestamp = req'[t].timestamp =>
           p = PathOf(t)' /\ wpc'[t] \in {"fill", "push"}
    BY SMTT(60), <1>2, <2>1 DEF OwnStamp
  <2>5. /\ wpc'[t] = "fill" /\ PathOf(t)' \in DOMAIN files' => files'[PathOf(t)'] = Partial
        /\ wpc'[t] = "push" => PathOf(t)' \in DOMAIN files' /\ files'[PathOf(t)'] = req'[t].msg
    BY SMTT(60), <1>2, <2>1, <2>2 DEF OwnStamp
  <2> QED
    BY Zenon, <2>3, <2>4, <2>5
<1>3. OwnStamp'
  BY Zenon, <1>2 DEF OwnStamp
<1> QED
  BY Zenon, <1>1, <1>3

(* SenderFile survives a step in which no drain thread reads or sends, and *)
(* the files they have read are removed at most.                           *)
LEMMA SenderFileQuiet ==
    ASSUME TypeInv, SenderFile,
           \A m \in Msgs : sent[m] > 0 => sent'[m] > 0,
           \A s \in Senders : spc'[s] \in {"send", "unlink"} =>
               /\ spc'[s] = spc[s] /\ node'[s] = node[s] /\ buf'[s] = buf[s]
               /\ NodePath(s) \in DOMAIN files' =>
                     NodePath(s) \in DOMAIN files /\ files'[NodePath(s)] = files[NodePath(s)]
    PROVE  SenderFile'
<1>1. \A s \in Senders : spc[s] = "unlink" => buf[s] \in Msgs
  BY Zenon DEF TypeInv, SendersOK
<1> QED
  BY Zenon, <1>1 DEF SenderFile, NodePath

-----------------------------------------------------------------------------
(* One lemma per thread.                                                   *)

(* No timestamp joins the queue when no node does.                         *)
LEMMA StampsKept ==
    ASSUME \A j \in 1 .. Len(list') : \E k \in 1 .. Len(list) : list'[j] = list[k],
           \A s \in Senders : InHand(s)' => InHand(s) /\ node'[s] = node[s]
    PROVE  QueueStamps' \subseteq QueueStamps
<1> SUFFICES ASSUME NEW x \in QueueStamps' PROVE x \in QueueStamps
  BY Zenon
<1>1. CASE \E j \in 1 .. Len(list') : x = list'[j].timestamp
  <2>1. PICK j \in 1 .. Len(list') : x = list'[j].timestamp
    BY Zenon, <1>1
  <2>2. PICK k \in 1 .. Len(list) : list'[j] = list[k]
    BY Zenon
  <2>3. x = list[k].timestamp
    BY Zenon, <2>1, <2>2
  <2> QED
    BY Zenon, <2>3 DEF QueueStamps
<1>2. CASE \E s \in Senders : InHand(s)' /\ x = node'[s].timestamp
  BY Zenon, <1>2 DEF QueueStamps
<1> QED
  BY Zenon, <1>1, <1>2 DEF QueueStamps

(* A step of a worker keeps KeptInv.                                       *)
LEMMA KeptWorker ==
    ASSUME Lossless, TypeInv, KeptInv, NEW t \in Workers, Worker(t)
    PROVE  KeptInv'
<1> DEFINE p == PathOf(t)
<1> USE DEF KeptInv
<1>0. /\ wpc \in [Workers -> WorkerLabels] /\ req \in [Workers -> Requests] /\ clock \in Nat
      /\ sent \in Seq(Nat) /\ Len(sent) \in Nat /\ acked \subseteq Msgs
      /\ \A u \in Workers : wpc[u] # "idle" => req[u].msg \in Msgs
      /\ FilesOK /\ DOMAIN files \subseteq Paths
  BY DEF TypeInv, WorkersOK, HistoryOK, FilesOK
<1>1. /\ p \in Paths /\ p.timestamp = req[t].timestamp
      /\ \A s \in Senders : NodePath(s).timestamp = node[s].timestamp
  <2>1. HeaderOf(req[t]) \in Headers /\ HeaderOf(req[t]).timestamp = req[t].timestamp
    BY Zenon, <1>0 DEF HeaderOf, Requests, Headers
  <2>2. \A s \in Senders : node[s] \in Headers
    BY Zenon DEF TypeInv, SendersOK
  <2> QED
    BY Zenon, <2>1, <2>2, PathOfHeader DEF PathOf, NodePath
<1>2. UNCHANGED <<spc, node, buf>>
  BY Zenon DEF Worker, Receive, SendOnline, StartCaching, InitList, CanEnter, OpenFile, FillFile,
         EvictOne, PushNode, senders
<1>3. UNCHANGED list => QueueStamps' = QueueStamps
  BY Zenon, <1>2 DEF QueueStamps, InHand
<1>4. CASE Receive(t) \/ SendOnline(t)
  <2>1. UNCHANGED <<files, list, clock, acked, discarded>>
    BY Zenon, <1>4 DEF Receive, SendOnline, queue
  <2>2. \A m \in Msgs : sent[m] > 0 => sent'[m] > 0
    <3>1. \/ sent' = Append(sent, 0)
          \/ sent' = [sent EXCEPT ![req[t].msg] = @ + 1]
          \/ sent' = sent
      BY Zenon, <1>4 DEF Receive, SendOnline
    <3> QED
      BY SMTT(60), <1>0, <3>1 DEF Msgs
  <2>3. \A u \in Workers : Stamped(u)' => Stamped(u) /\ wpc'[u] = wpc[u] /\ req'[u] = req[u]
    BY ZenonT(30), <1>0, <1>4 DEF Receive, SendOnline, Failed, Finish, Goto, Stamped
  <2>4. AckedKept'
    BY Zenon, <2>1, <2>2, AckedQuiet
  <2>5. StampsPast' /\ OwnStamp'
    BY Zenon, <1>3, <2>1, <2>3, StampsQuiet
  <2>6. SenderFile'
    BY Zenon, <1>2, <2>1, <2>2, SenderFileQuiet
  <2> QED
    BY Zenon, <2>4, <2>5, <2>6
<1>5. CASE StartCaching(t)
  <2>1. UNCHANGED <<files, list, acked, discarded, sent>>
    BY Zenon, <1>5 DEF StartCaching, queue, history
  <2>2. /\ clock' = clock + 1
        /\ req' = [req EXCEPT ![t].timestamp = clock + 1]
        /\ wpc' = [wpc EXCEPT ![t] = IF listMade THEN "canEnter" ELSE "initList"]
    BY ZenonT(60), <1>5 DEF StartCaching, ClockReadings, Lossless, Goto
  <2>3. req'[t].timestamp = clock + 1 /\ wpc'[t] \in {"canEnter", "initList"}
    BY Zenon, <1>0, <2>2 DEF Requests
  <2>4. \A u \in Workers \ {t} : /\ req'[u] = req[u] /\ wpc'[u] = wpc[u]
                                /\ PathOf(u)' = PathOf(u)
    BY Zenon, <1>0, <2>2 DEF PathOf
  <2>5. /\ \A x \in QueueStamps' : x <= clock /\ x \in Nat
        /\ \A q \in DOMAIN files' : q.timestamp <= clock /\ q.timestamp \in Nat
        /\ \A u \in Workers : Stamped(u) => req[u].timestamp <= clock /\ req[u].timestamp \in Nat
    <3>1. QueueStamps \subseteq Nat
      <4>1. \A i \in 1 .. Len(list) : list[i].timestamp \in Nat
        <5>1. \A i \in 1 .. Len(list) : list[i] \in Headers
          BY DEF TypeInv, QueueOK
        <5> QED
          BY Zenon, <5>1 DEF Headers
      <4>2. \A s \in Senders : node[s].timestamp \in Nat
        BY Zenon DEF TypeInv, SendersOK, Headers
      <4> QED
        BY Zenon, <4>1, <4>2 DEF QueueStamps
    <3>2. \A q \in DOMAIN files : q.timestamp \in Nat
      BY Zenon, <1>0 DEF Paths
    <3>3. \A u \in Workers : req[u].timestamp \in Nat
      BY Zenon, <1>0 DEF Requests
    <3> QED
      BY ZenonT(60), <1>3, <2>1, <3>1, <3>2, <3>3 DEF StampsPast, OwnStamp
  <2>6. StampsPast'
    BY SMTT(60), <1>0, <2>2, <2>5 DEF StampsPast
  <2>7. OwnStamp'
    <3>1. \A u \in Workers \ {t} : Stamped(u)' => Stamped(u)
      BY Zenon, <2>4 DEF Stamped
    <3>2. /\ req'[t].timestamp <= clock' /\ req'[t].timestamp \notin QueueStamps'
          /\ \A q \in DOMAIN files' : q.timestamp # req'[t].timestamp
          /\ \A u \in Workers \ {t} : Stamped(u)' => req'[u].timestamp # req'[t].timestamp
          /\ wpc'[t] \notin {"fill", "push"}
      BY SMTT(60), <1>0, <2>2, <2>3, <2>4, <2>5, <3>1
    <3>3. ASSUME NEW u \in Workers \ {t}, Stamped(u)'
          PROVE  /\ req'[u].timestamp <= clock' /\ req'[u].timestamp \notin QueueStamps'
                 /\ \A v \in Workers : Stamped(v)' /\ req'[v].timestamp = req'[u].timestamp => v = u
                 /\ \A q \in DOMAIN files' : q.timestamp = req'[u].timestamp =>
                       q = PathOf(u)' /\ wpc'[u] \in {"fill", "push"}
                 /\ wpc'[u] = "fill" /\ PathOf(u)' \in DOMAIN files' => files'[PathOf(u)'] = Partial
                 /\ wpc'[u] = "push" =>
                       PathOf(u)' \in DOMAIN files' /\ files'[PathOf(u)'] = req'[u].msg
      <4>1. Stamped(u) /\ req'[u] = req[u] /\ wpc'[u] = wpc[u] /\ PathOf(u)' = PathOf(u)
        BY Zenon, <2>4, <3>1, <3>3
      <4>2. req[u].timestamp <= clock /\ req[u].timestamp \in Nat
        BY Zenon, <2>5, <4>1
      <4>3. \A v \in Workers : Stamped(v)' /\ req'[v].timestamp = req'[u].timestamp => v = u
        BY SMTT(60), <2>4, <3>1, <3>2, <3>3, <4>1 DEF OwnStamp
      <4> QED
        BY SMTT(60), <1>0, <1>3, <2>1, <2>2, <4>1, <4>2, <4>3 DEF OwnStamp
    <3> QED
      BY Zenon, <3>2, <3>3 DEF OwnStamp
  <2> QED
    BY Zenon, <1>2, <2>1, <2>6, <2>7, AckedQuiet, SenderFileQuiet
<1>6. CASE InitList(t) \/ CanEnter(t)
  <2>1. UNCHANGED <<files, clock, acked, sent>> /\ discarded \subseteq discarded'
    BY Zenon, <1>6 DEF InitList, CanEnter, history
  <2>2. QueueStamps' \subseteq QueueStamps
    BY SMTT(60), <1>2, <1>3, <1>6 DEF InitList, CanEnter, queue, QueueStamps, InHand
  <2>3. \A u \in Workers : Stamped(u)' =>
           /\ Stamped(u) /\ req'[u] = req[u]
           /\ wpc[u] \in {"fill", "push"} => wpc'[u] = wpc[u]
           /\ wpc'[u] \in {"fill", "push"} => wpc[u] = wpc'[u]
    BY Zenon, <1>0, <1>6 DEF InitList, CanEnter, Finish, Goto, Stamped
  <2> QED
    BY Zenon, <1>2, <2>1, <2>2, <2>3, AckedQuiet, StampsQuiet, SenderFileQuiet
<1>7. CASE OpenFile(t)
  <2>1. UNCHANGED <<list, clock, acked, discarded, sent, req>> /\ wpc[t] = "open" /\ Msgs' = Msgs
    BY Zenon, <1>7 DEF OpenFile, queue, history, Msgs
  <2>2. WriteFile(p, Partial) /\ Goto(t, "fill")
    BY Zenon, <1>7 DEF OpenFile, Lossless, PathOf
  <2>3. \A q \in DOMAIN files : q # p /\ q.timestamp # p.timestamp
    BY Zenon, <1>1, <2>1 DEF OwnStamp, Stamped
  <2>4. /\ DOMAIN files' = DOMAIN files \cup {p}
        /\ files'[p] = Partial
        /\ \A q \in DOMAIN files : files'[q] = files[q]
    BY ZenonT(60), <1>0, <1>1, <2>1, <2>2, <2>3, WriteFileProperties
  <2>5. /\ \A u \in Workers : Stamped(u)' <=> Stamped(u)
        /\ \A u \in Workers : PathOf(u)' = PathOf(u)
        /\ wpc'[t] = "fill" /\ \A u \in Workers \ {t} : wpc'[u] = wpc[u]
    BY Zenon, <1>0, <2>1, <2>2 DEF Goto, Stamped, PathOf
  <2>6. AckedKept'
    BY Zenon, <2>1, <2>4, AckedQuiet
  <2>7. StampsPast'
    BY Zenon, <1>1, <1>3, <2>1, <2>4 DEF StampsPast, OwnStamp, Stamped
  <2>8. OwnStamp'
    <3>1. \A u \in Workers \ {t} : Stamped(u) => PathOf(u) # p /\ req[u].timestamp # p.timestamp
      <4>1. \A u \in Workers : PathOf(u).timestamp = req[u].timestamp
        BY Zenon, <1>0, PathOfHeader DEF PathOf, HeaderOf, Requests, Headers
      <4> QED
        BY SMTT(60), <1>1, <2>1, <4>1 DEF OwnStamp, Stamped
    <3>2. /\ UNCHANGED <<clock, req>> /\ QueueStamps' = QueueStamps
          /\ \A q \in DOMAIN files' : q = p \/ q \in DOMAIN files
      BY Zenon, <1>3, <2>1, <2>4
    <3>3. Stamped(t)
      BY Zenon, <2>1 DEF Stamped
    <3> HIDE DEF p
    <3>4. ASSUME NEW u \in Workers, Stamped(u)
          PROVE  /\ req[u].timestamp <= clock /\ req[u].timestamp \notin QueueStamps
                 /\ \A v \in Workers : Stamped(v) /\ req[v].timestamp = req[u].timestamp => v = u
                 /\ \A q \in DOMAIN files' : q.timestamp = req[u].timestamp =>
                       q = PathOf(u) /\ wpc'[u] \in {"fill", "push"}
                 /\ wpc'[u] = "fill" /\ PathOf(u) \in DOMAIN files' => files'[PathOf(u)] = Partial
                 /\ wpc'[u] = "push" => PathOf(u) \in DOMAIN files' /\ files'[PathOf(u)] = req[u].msg
      <4>1. CASE u = t
        BY Zenon, <1>1, <2>3, <2>4, <2>5, <3>2, <3>3, <3>4, <4>1 DEF OwnStamp, p
      <4>2. CASE u # t
        BY SMTT(60), <2>4, <2>5, <3>1, <3>2, <3>4, <4>2 DEF OwnStamp
      <4> QED
        BY Zenon, <4>1, <4>2
    <3> QED
      BY SMTT(60), <2>5, <3>2, <3>4 DEF OwnStamp
  <2>9. SenderFile'
    <3>1. \A s \in Senders : InHand(s) => NodePath(s) # p
      BY SMTT(60), <1>1, <2>1 DEF OwnStamp, Stamped, QueueStamps
    <3> QED
      BY Zenon, <1>2, <2>1, <2>4, <3>1, SenderFileQuiet DEF InHand
  <2> QED
    BY Zenon, <2>6, <2>7, <2>8, <2>9
<1>8. CASE FillFile(t)
  <2>1. UNCHANGED <<list, clock, acked, discarded, sent>> /\ wpc[t] = "fill" /\ Msgs' = Msgs
    BY Zenon, <1>8 DEF FillFile, queue, history, Msgs
  <2>2. WriteFile(p, req[t].msg) /\ Goto(t, "push") /\ UNCHANGED req
    BY Zenon, <1>8 DEF FillFile, Lossless, PathOf
  <2>3. /\ DOMAIN files' = DOMAIN files \cup {p}
        /\ files'[p] = req[t].msg
        /\ \A q \in DOMAIN files : q # p => files'[q] = files[q]
    BY ZenonT(60), <1>0, <1>1, <2>1, <2>2, WriteFileProperties
  <2>4. /\ \A u \in Workers : Stamped(u)' <=> Stamped(u)
        /\ \A u \in Workers : PathOf(u)' = PathOf(u)
        /\ wpc'[t] = "push" /\ \A u \in Workers \ {t} : wpc'[u] = wpc[u]
    BY Zenon, <1>0, <2>1, <2>2 DEF Goto, Stamped, PathOf
  <2>5. AckedKept'
    <3>1. p \in DOMAIN files => files[p] = Partial
      BY Zenon, <2>1 DEF OwnStamp, Stamped
    <3>2. Partial \notin acked
      <4>1. Msgs \subseteq Int
        BY <1>0 DEF Msgs
      <4> QED
        BY ZenonT(60), <1>0, <4>1, SentinelsAssumption
    <3> QED
      BY Zenon, <2>1, <2>3, <3>1, <3>2, AckedQuiet
  <2>6. StampsPast'
    BY Zenon, <1>1, <1>3, <2>1, <2>3 DEF StampsPast, OwnStamp, Stamped
  <2>7. OwnStamp'
    <3>1. \A u \in Workers \ {t} : Stamped(u) => PathOf(u) # p
      <4>1. \A u \in Workers : PathOf(u).timestamp = req[u].timestamp
        BY Zenon, <1>0, PathOfHeader DEF PathOf, HeaderOf, Requests, Headers
      <4> QED
        BY SMTT(60), <1>1, <2>1, <4>1 DEF OwnStamp, Stamped
    <3>2. /\ UNCHANGED <<clock, req>> /\ QueueStamps' = QueueStamps
          /\ \A q \in DOMAIN files' : q = p \/ q \in DOMAIN files
      BY Zenon, <1>3, <2>1, <2>2, <2>3
    <3>3. \A u \in Workers \ {t} : Stamped(u) => p.timestamp # req[u].timestamp
      BY Zenon, <1>1, <2>1 DEF OwnStamp, Stamped
    <3>4. Stamped(t)
      BY Zenon, <2>1 DEF Stamped
    <3> HIDE DEF p
    <3>5. ASSUME NEW u \in Workers, Stamped(u)
          PROVE  /\ req[u].timestamp <= clock /\ req[u].timestamp \notin QueueStamps
                 /\ \A v \in Workers : Stamped(v) /\ req[v].timestamp = req[u].timestamp => v = u
                 /\ \A q \in DOMAIN files' : q.timestamp = req[u].timestamp =>
                       q = PathOf(u) /\ wpc'[u] \in {"fill", "push"}
                 /\ wpc'[u] = "fill" /\ PathOf(u) \in DOMAIN files' => files'[PathOf(u)] = Partial
                 /\ wpc'[u] = "push" => PathOf(u) \in DOMAIN files' /\ files'[PathOf(u)] = req[u].msg
      <4>1. CASE u = t
        BY Zenon, <2>3, <2>4, <3>2, <3>4, <3>5, <4>1 DEF OwnStamp, p
      <4>2. CASE u # t
        BY Zenon, <2>3, <2>4, <3>1, <3>2, <3>3, <3>5, <4>2 DEF OwnStamp
      <4> QED
        BY Zenon, <4>1, <4>2
    <3> QED
      BY SMTT(60), <2>4, <3>2, <3>5 DEF OwnStamp
  <2>8. SenderFile'
    <3>1. \A s \in Senders : InHand(s) => NodePath(s) # p
      BY SMTT(60), <1>1, <2>1 DEF OwnStamp, Stamped, QueueStamps
    <3> QED
      BY Zenon, <1>2, <2>1, <2>3, <3>1, SenderFileQuiet DEF InHand
  <2> QED
    BY Zenon, <2>5, <2>6, <2>7, <2>8
<1>9. CASE EvictOne(t)
  <2>1. UNCHANGED <<clock, acked, sent, wpc, req>>
    BY Zenon, <1>9 DEF EvictOne, workers
  <2>2. CASE list = <<>>
    <3>1. UNCHANGED <<list, files, discarded>>
      BY Zenon, <1>9, <2>2 DEF EvictOne
    <3>2. AckedKept'
      BY Zenon, <2>1, <3>1, AckedQuiet
    <3>3. StampsPast' /\ OwnStamp'
      BY Zenon, <1>3, <2>1, <3>1, StampsQuiet DEF Stamped
    <3>4. SenderFile'
      BY Zenon, <1>2, <2>1, <3>1, SenderFileQuiet
    <3> QED
      BY Zenon, <3>2, <3>3, <3>4
  <2>3. CASE list # <<>>
    <3>1. PICK i \in 1 .. Len(list) :
             LET q == get_cache_file_path(list[i]) IN
             /\ list' = list_remove(list, i)
             /\ Unlink(q)
             /\ discarded' = discarded \cup {m \in Msgs : q \in DOMAIN files /\ files[q] = m}
      BY Zenon, <1>9, <2>3 DEF EvictOne
    <3> DEFINE q == get_cache_file_path(list[i])
    <3>2. DOMAIN files' = DOMAIN files \ {q} /\ \A x \in DOMAIN files' : files'[x] = files[x]
      BY Zenon, <3>1 DEF Unlink
    <3>3. q.timestamp \in QueueStamps
      BY SMTT(60), PathOfHeader DEF QueueStamps, TypeInv, QueueOK
    <3>4. QueueStamps' \subseteq QueueStamps
      <4>1. \A j \in 1 .. Len(list') : \E k \in 1 .. Len(list) : list'[j] = list[k]
        <5>1. /\ Len(list') = Len(list) - 1
              /\ \A j \in 1 .. Len(list) - 1 : list'[j] = IF j < i THEN list[j] ELSE list[j + 1]
          BY ZenonT(60), <3>1, RemoveProperties DEF TypeInv, QueueOK
        <5>2. Len(list) \in Nat
          BY DEF TypeInv, QueueOK
        <5> QED
          BY SMTT(60), <5>1, <5>2
      <4> QED
        BY Zenon, <1>2, <4>1, StampsKept DEF InHand
    <3>5. discarded \subseteq discarded' /\
          (q \in DOMAIN files /\ files[q] \in acked => files[q] \in discarded')
      BY Zenon, <1>0, <3>1
    <3> HIDE DEF q
    <3>6. AckedKept'
      BY Zenon, <2>1, <3>2, <3>5, AckedQuiet
    <3>7. StampsPast' /\ OwnStamp'
      BY Zenon, <2>1, <3>2, <3>3, <3>4, StampsQuiet DEF Stamped
    <3>8. SenderFile'
      BY Zenon, <1>2, <2>1, <3>2, SenderFileQuiet
    <3> QED
      BY Zenon, <3>6, <3>7, <3>8
  <2> QED
    BY Zenon, <2>2, <2>3
<1>10. CASE PushNode(t)
  <2>1. UNCHANGED <<files, clock, sent, discarded>> /\ wpc[t] = "push" /\ acked' = acked \cup {req[t].msg}
    BY Zenon, <1>10 DEF PushNode
  <2>2. /\ wpc'[t] = "idle"
        /\ \A u \in Workers \ {t} : wpc'[u] = wpc[u] /\ req'[u] = req[u] /\ PathOf(u)' = PathOf(u)
    BY Zenon, <1>0, <1>10 DEF PushNode, Finish, Goto, PathOf
  <2>3. QueueStamps' \subseteq QueueStamps \cup {req[t].timestamp}
    <3>1. list \in Seq(Headers) /\ HeaderOf(req[t]).timestamp = req[t].timestamp
      BY Zenon DEF TypeInv, QueueOK, HeaderOf
    <3>2. list' = Append(list, HeaderOf(req[t]))
      BY Zenon, <1>10 DEF PushNode
    <3>3. \A j \in 1 .. Len(list') :
             list'[j] = HeaderOf(req[t]) \/ \E k \in 1 .. Len(list) : list'[j] = list[k]
      BY SMTT(60), <3>1, <3>2
    <3> QED
      BY SMTT(60), <1>2, <3>1, <3>3 DEF QueueStamps, InHand
  <2>4. AckedKept'
    <3>1. \E q \in DOMAIN files' : files'[q] = req[t].msg
      BY Zenon, <2>1 DEF OwnStamp, Stamped
    <3> QED
      BY Zenon, <2>1, <3>1 DEF AckedKept, OnDisk
  <2>5. StampsPast'
    BY Zenon, <2>1, <2>3 DEF StampsPast, OwnStamp, Stamped
  <2>6. OwnStamp'
    BY SMTT(60), <2>1, <2>2, <2>3 DEF OwnStamp, Stamped
  <2>7. SenderFile'
    BY Zenon, <1>2, <2>1, SenderFileQuiet
  <2> QED
    BY Zenon, <2>4, <2>5, <2>6, <2>7
<1> QED
  BY Zenon, <1>4, <1>5, <1>6, <1>7, <1>8, <1>9, <1>10 DEF Worker

-----------------------------------------------------------------------------
(* Drain threads.                                                          *)

(* A drain thread leaves the workers, the clock and the answers alone.     *)
LEMMA SenderFrame ==
    ASSUME NEW s \in Senders, Sender(s)
    PROVE  UNCHANGED <<clock, acked, discarded, wpc, req>>
<1>1. CASE SenderStart(s)
  BY Zenon, <1>1 DEF SenderStart, workers, history
<1>2. CASE SenderCount(s)
  BY Zenon, <1>2 DEF SenderCount, workers, history
<1>3. CASE SenderIsConnected(s)
  BY Zenon, <1>3 DEF SenderIsConnected, workers, history
<1>4. CASE SenderPop(s)
  BY Zenon, <1>4 DEF SenderPop, workers, history
<1>5. CASE SenderRead(s)
  BY Zenon, <1>5 DEF SenderRead, workers, history
<1>6. CASE SenderSend(s)
  BY Zenon, <1>6 DEF SenderSend, workers, history
<1>7. CASE SenderUnlink(s)
  BY Zenon, <1>7 DEF SenderUnlink, workers, history
<1>8. CASE SenderPutBack(s)
  BY Zenon, <1>8 DEF SenderPutBack, workers, history
<1>9. CASE SenderClear(s)
  BY Zenon, <1>9 DEF SenderClear, workers, history
<1> QED
  BY Zenon, <1>1, <1>2, <1>3, <1>4, <1>5, <1>6, <1>7, <1>8, <1>9 DEF Sender

(* A step of a drain thread keeps KeptInv.                                 *)
LEMMA KeptSender ==
    ASSUME TypeInv, KeptInv, NEW s \in Senders, Sender(s)
    PROVE  KeptInv'
<1> DEFINE p == NodePath(s)
<1> USE DEF KeptInv
<1>0. /\ spc \in [Senders -> SenderLabels] /\ buf \in [Senders -> Nat]
      /\ node \in [Senders -> Headers]
      /\ sent \in Seq(Nat) /\ Len(sent) \in Nat /\ acked \subseteq Msgs
      /\ list \in Seq(Headers) /\ Len(list) \in Nat
  BY SMTT(60) DEF TypeInv, SendersOK, HistoryOK, QueueOK
<1>1. UNCHANGED <<clock, acked, discarded, wpc, req>>
  BY Zenon, SenderFrame
<1>2. p.timestamp = node[s].timestamp
  BY Zenon, <1>0, PathOfHeader DEF NodePath
<1>3. ASSUME NEW l, Step(s, l), UNCHANGED list, UNCHANGED node,
             l \in {"read", "send", "unlink", "putBack"} => InHand(s)
      PROVE  QueueStamps' \subseteq QueueStamps
  <2>1. \A u \in Senders : InHand(u)' => InHand(u)
    BY Zenon, <1>0, <1>3 DEF Step, InHand
  <2> QED
    BY Zenon, <1>3, <2>1 DEF QueueStamps
<1>4. EndRound(s) /\ UNCHANGED list => QueueStamps' \subseteq QueueStamps
  <2> SUFFICES ASSUME EndRound(s), UNCHANGED list PROVE QueueStamps' \subseteq QueueStamps
    BY Zenon
  <2>1. \A u \in Senders : InHand(u)' => InHand(u) /\ node'[u] = node[u]
    BY Zenon, <1>0 DEF EndRound, Step, InHand
  <2> QED
    BY Zenon, <2>1 DEF QueueStamps
<1>5. CASE SenderStart(s) \/ SenderCount(s) \/ SenderIsConnected(s) \/ SenderClear(s)
  <2>1. UNCHANGED <<files, list, node, buf, sent>>
    BY Zenon, <1>5 DEF SenderStart, SenderCount, SenderIsConnected, SenderClear, queue, history
  <2>2. PICK l : Step(s, l) /\ l \notin {"read", "send", "unlink", "putBack"}
    BY <1>5 DEF SenderStart, SenderCount, SenderIsConnected, SenderClear
  <2>3. QueueStamps' \subseteq QueueStamps
    BY Zenon, <1>3, <2>1, <2>2
  <2>4. \A u \in Senders : spc'[u] \in {"send", "unlink"} => spc'[u] = spc[u]
    BY Zenon, <1>0, <2>2 DEF Step
  <2>5. AckedKept'
    BY Zenon, <1>1, <2>1, AckedQuiet
  <2>6. StampsPast' /\ OwnStamp'
    BY Zenon, <1>1, <2>1, <2>3, StampsQuiet DEF Stamped
  <2>7. SenderFile'
    BY Zenon, <2>1, <2>4, SenderFileQuiet
  <2> QED
    BY Zenon, <2>5, <2>6, <2>7
<1>6. CASE SenderPop(s)
  <2>1. UNCHANGED <<files, buf, sent>>
    BY Zenon, <1>6 DEF SenderPop, history
  <2>2. QueueStamps' \subseteq QueueStamps
    <3>1. CASE list = <<>>
      BY Zenon, <1>3, <1>6, <3>1 DEF SenderPop
    <3>2. CASE list # <<>>
      <4>1. /\ node' = [node EXCEPT ![s] = list[1]] /\ spc' = [spc EXCEPT ![s] = "read"]
            /\ list' = Tail(list)
        BY SMTT(60), <1>6, <3>2 DEF SenderPop, ListAfterPop, Step
      <4>2. 1 \in 1 .. Len(list)
        BY SMTT(60), <1>0, <3>2
      <4>3. \A j \in 1 .. Len(list') : j + 1 \in 1 .. Len(list) /\ list'[j] = list[j + 1]
        BY SMTT(60), <1>0, <3>2, <4>1
      <4>4. \A u \in Senders \ {s} : node'[u] = node[u] /\ (InHand(u)' => InHand(u))
        BY Zenon, <1>0, <4>1 DEF InHand
      <4>5. node'[s] = list[1]
        BY Zenon, <1>0, <4>1
      <4> QED
        BY SMTT(60), <4>2, <4>3, <4>4, <4>5 DEF QueueStamps
    <3> QED
      BY Zenon, <3>1, <3>2
  <2>3. \A u \in Senders : spc'[u] \in {"send", "unlink"} => spc'[u] = spc[u] /\ node'[u] = node[u]
    BY Zenon, <1>0, <1>6 DEF SenderPop, Step
  <2>4. AckedKept'
    BY Zenon, <1>1, <2>1, AckedQuiet
  <2>5. StampsPast' /\ OwnStamp'
    BY Zenon, <1>1, <2>1, <2>2, StampsQuiet DEF Stamped
  <2>6. SenderFile'
    BY Zenon, <2>1, <2>3, SenderFileQuiet
  <2> QED
    BY Zenon, <2>4, <2>5, <2>6
<1>7. CASE SenderRead(s)
  <2>1. UNCHANGED <<list, sent>> /\ spc[s] = "read"
    BY Zenon, <1>7 DEF SenderRead, queue, history
  <2>2. CASE p \in DOMAIN files /\ files[p] # Partial
    <3>1. Step(s, "send") /\ buf' = [buf EXCEPT ![s] = files[p]] /\ UNCHANGED <<files, node>>
      BY Zenon, <1>7, <2>2 DEF SenderRead, NodePath
    <3>2. AckedKept'
      BY Zenon, <1>1, <2>1, <3>1, AckedQuiet
    <3>3. QueueStamps' \subseteq QueueStamps
      BY Zenon, <1>3, <2>1, <3>1 DEF InHand
    <3>4. StampsPast' /\ OwnStamp'
      BY Zenon, <1>1, <3>1, <3>3, StampsQuiet DEF Stamped
    <3>5. SenderFile'
      BY Zenon, <1>0, <2>1, <3>1 DEF SenderFile, Step, NodePath
    <3> QED
      BY Zenon, <3>2, <3>4, <3>5
  <2>3. CASE ~(p \in DOMAIN files /\ files[p] # Partial)
    <3>1. Unlink(p) /\ EndRound(s)
      BY Zenon, <1>7, <2>3 DEF SenderRead, NodePath
    <3>2. DOMAIN files' = DOMAIN files \ {p} /\ \A q \in DOMAIN files' : files'[q] = files[q]
      BY Zenon, <3>1 DEF Unlink
    <3>3. Partial \notin acked
      <4>1. Msgs \subseteq Int
        BY <1>0 DEF Msgs
      <4> QED
        BY ZenonT(60), <1>0, <4>1, SentinelsAssumption
    <3>4. p.timestamp \in QueueStamps
      BY Zenon, <1>2, <2>1 DEF QueueStamps, InHand
    <3>5. \A u \in Senders : spc'[u] \in {"send", "unlink"} =>
             spc'[u] = spc[u] /\ node'[u] = node[u] /\ buf'[u] = buf[u]
      BY Zenon, <1>0, <3>1 DEF EndRound, Step
    <3> HIDE DEF p
    <3>6. AckedKept'
      BY Zenon, <1>1, <2>1, <2>3, <3>2, <3>3, AckedQuiet
    <3>7. StampsPast' /\ OwnStamp'
      BY Zenon, <1>1, <1>4, <2>1, <3>1, <3>2, <3>4, StampsQuiet DEF Stamped
    <3>8. SenderFile'
      BY Zenon, <2>1, <3>2, <3>5, SenderFileQuiet
    <3> QED
      BY Zenon, <3>6, <3>7, <3>8
  <2> QED
    BY Zenon, <2>2, <2>3
<1>8. CASE SenderSend(s)
  <2>1. UNCHANGED <<files, list, node, buf>> /\ spc[s] = "send" /\ buf[s] \in Msgs
    BY Zenon, <1>8 DEF SenderSend, queue, TypeInv, SendersOK
  <2>2. \/ sent' = [sent EXCEPT ![buf[s]] = @ + 1] /\ Step(s, "unlink")
        \/ Step(s, "putBack") /\ UNCHANGED sent
    BY Zenon, <1>8 DEF SenderSend, AfterAccepted
  <2>3. \A m \in Msgs : sent[m] > 0 => sent'[m] > 0
    BY SMTT(60), <1>0, <2>2 DEF Msgs
  <2>4. QueueStamps' \subseteq QueueStamps
    BY Zenon, <1>3, <2>1, <2>2 DEF InHand
  <2>5. AckedKept'
    BY Zenon, <1>1, <2>1, <2>3, AckedQuiet
  <2>6. StampsPast' /\ OwnStamp'
    BY Zenon, <1>1, <2>1, <2>4, StampsQuiet DEF Stamped
  <2>7. SenderFile'
    <3>1. \A u \in Senders \ {s} : spc'[u] = spc[u]
      BY Zenon, <1>0, <2>2 DEF Step
    <3>2. \/ spc'[s] = "unlink" /\ sent'[buf[s]] > 0
          \/ spc'[s] = "putBack"
      BY SMTT(60), <1>0, <2>1, <2>2 DEF Step, Msgs
    <3>3. \A u \in Senders : spc[u] = "unlink" => buf[u] \in Msgs
      BY Zenon DEF TypeInv, SendersOK
    <3>4. \A u \in Senders : NodePath(u)' = NodePath(u)
      BY Zenon, <2>1 DEF NodePath
    <3> QED
      BY Zenon, <2>1, <2>3, <3>1, <3>2, <3>3, <3>4 DEF SenderFile
  <2> QED
    BY Zenon, <2>5, <2>6, <2>7
<1>9. CASE SenderUnlink(s)
  <2>1. UNCHANGED <<list, sent>> /\ spc[s] = "unlink" /\ Unlink(p) /\ EndRound(s)
    BY Zenon, <1>9 DEF SenderUnlink, queue, history, NodePath
  <2>2. DOMAIN files' = DOMAIN files \ {p} /\ \A q \in DOMAIN files' : files'[q] = files[q]
    BY Zenon, <2>1 DEF Unlink
  <2>3. p.timestamp \in QueueStamps
    BY Zenon, <1>2, <2>1 DEF QueueStamps, InHand
  <2>4. p \in DOMAIN files => sent[files[p]] > 0
    BY Zenon, <2>1 DEF SenderFile
  <2>5. \A u \in Senders : spc'[u] \in {"send", "unlink"} =>
           spc'[u] = spc[u] /\ node'[u] = node[u] /\ buf'[u] = buf[u]
    BY Zenon, <1>0, <2>1 DEF EndRound, Step
  <2> HIDE DEF p
  <2>6. AckedKept'
    BY Zenon, <1>1, <2>1, <2>2, <2>4, AckedQuiet
  <2>7. StampsPast' /\ OwnStamp'
    BY Zenon, <1>1, <1>4, <2>1, <2>2, <2>3, StampsQuiet DEF Stamped
  <2>8. SenderFile'
    BY ZenonT(60), <2>1, <2>2, <2>5, SenderFileQuiet
  <2> QED
    BY Zenon, <2>6, <2>7, <2>8
<1>10. CASE SenderPutBack(s)
  <2>1. UNCHANGED <<files, sent>> /\ spc[s] = "putBack" /\ EndRound(s)
    BY Zenon, <1>10 DEF SenderPutBack
  <2>2. QueueStamps' \subseteq QueueStamps
    <3>1. CASE UNCHANGED list
      BY Zenon, <1>4, <2>1, <3>1
    <3>2. CASE list' = list_lpush(list, node[s])
      <4>1. \A j \in 1 .. Len(list') :
               list'[j] = node[s] \/ \E k \in 1 .. Len(list) : list'[j] = list[k]
        <5>1. node[s] \in Headers /\ list \in Seq(Headers)
          BY Zenon, <1>0
        <5> DEFINE c == list_lpush(list, node[s])
        <5>3. /\ Len(c) = Len(list) + 1
              /\ \A j \in 1 .. Len(list) + 1 : c[j] = IF j = 1 THEN node[s] ELSE list[j - 1]
          BY SMTT(60), <5>1 DEF list_lpush
        <5> HIDE DEF c
        <5>4. list' = c
          BY Zenon, <3>2 DEF c
        <5>2. \A j \in 1 .. Len(list) + 1 : j # 1 => j - 1 \in 1 .. Len(list)
          BY SMTT(60), <1>0
        <5> QED
          BY Zenon, <5>2, <5>3, <5>4
      <4>2. \A u \in Senders : InHand(u)' => InHand(u) /\ node'[u] = node[u]
        BY Zenon, <1>0, <2>1 DEF EndRound, Step, InHand
      <4>3. InHand(s)
        BY Zenon, <2>1 DEF InHand
      <4> QED
        BY SMTT(60), <4>1, <4>2, <4>3 DEF QueueStamps
    <3> QED
      BY Zenon, <1>10, <3>1, <3>2 DEF SenderPutBack, ListAfterLpush
  <2>3. \A u \in Senders : spc'[u] \in {"send", "unlink"} =>
           spc'[u] = spc[u] /\ node'[u] = node[u] /\ buf'[u] = buf[u]
    BY Zenon, <1>0, <2>1 DEF EndRound, Step
  <2>4. AckedKept'
    BY Zenon, <1>1, <2>1, AckedQuiet
  <2>5. StampsPast' /\ OwnStamp'
    BY Zenon, <1>1, <2>1, <2>2, StampsQuiet DEF Stamped
  <2>6. SenderFile'
    BY Zenon, <2>1, <2>3, SenderFileQuiet
  <2> QED
    BY Zenon, <2>4, <2>5, <2>6
<1> QED
  BY Zenon, <1>5, <1>6, <1>7, <1>8, <1>9, <1>10 DEF Sender

-----------------------------------------------------------------------------
(* The theorem.                                                            *)

(* A process that is down has no threads.                                  *)
DownIdle ==
    ~up => /\ cb = "idle"
           /\ \A t \in Workers : wpc[t] = "idle"
           /\ \A s \in Senders : spc[s] = "none"

(* Only a start takes a step while the process is down.                    *)
LEMMA DownIsIdle == Spec => []DownIdle
<1>1. Init => DownIdle
  BY Zenon DEF Init, DownIdle
<1>2. DownIdle /\ [Next]_vars => DownIdle'
  <2> SUFFICES ASSUME DownIdle, [Next]_vars PROVE DownIdle'
    BY Zenon
  <2>1. ASSUME NEW t \in Workers, Worker(t) PROVE up /\ up' = up
    BY Zenon, <2>1 DEF DownIdle, Worker, Receive, SendOnline, StartCaching, InitList, CanEnter, OpenFile,
                FillFile, EvictOne, PushNode, process
  <2>2. ASSUME NEW s \in Senders, Sender(s) PROVE up /\ up' = up
    BY Zenon, <2>2 DEF DownIdle, Sender, SenderStart, SenderCount, SenderIsConnected, SenderPop, SenderRead,
                SenderSend, SenderUnlink, SenderPutBack, SenderClear, process
  <2>3. ASSUME Callback PROVE up /\ up' = up
    BY Zenon, <2>3 DEF DownIdle, Callback, on_connect, on_connection_lost, AsynCount, AsynReadFlag,
                AsynCreateThread, process
  <2>4. CASE Crash
    BY Zenon, <2>4 DEF Crash, DownIdle
  <2>5. CASE Start
    BY Zenon, <2>5 DEF Start, DownIdle
  <2>6. CASE UNCHANGED vars
    BY Zenon, <2>6 DEF vars, DownIdle
  <2> QED
    BY SMTT(60), <2>1, <2>2, <2>3, <2>4, <2>5, <2>6 DEF Next, DownIdle
<1> QED
  BY <1>1, <1>2, PTL DEF Spec

(* KeptInv holds throughout.                                               *)
LEMMA KeptInvariant ==
    ASSUME Lossless
    PROVE  Spec => []KeptInv
<1>1. Init => KeptInv
  BY SMTT(60) DEF Init, KeptInv, AckedKept, StampsPast, OwnStamp, SenderFile, Stamped, QueueStamps, InHand
<1>2. TypeInv /\ DownIdle /\ KeptInv /\ [Next]_vars => KeptInv'
  <2> SUFFICES ASSUME TypeInv, DownIdle, KeptInv, [Next]_vars PROVE KeptInv'
    BY Zenon
  <2> USE DEF KeptInv
  <2>0. spc \in [Senders -> SenderLabels] /\ node \in [Senders -> Headers]
    BY Zenon DEF TypeInv, SendersOK
  <2>1. CASE UNCHANGED <<list, files, clock, wpc, req, spc, node, buf, acked, sent, discarded>>
    <3>1. AckedKept'
      BY Zenon, <2>1, AckedQuiet
    <3>2. StampsPast' /\ OwnStamp'
      BY Zenon, <2>1, StampsQuiet DEF Stamped, QueueStamps, InHand
    <3>3. SenderFile'
      BY Zenon, <2>1, SenderFileQuiet
    <3> QED
      BY Zenon, <3>1, <3>2, <3>3
  <2>2. CASE AsynCreateThread
    <3>1. UNCHANGED <<list, files, clock, wpc, req, node, buf, acked, sent, discarded>>
      BY Zenon, <2>2 DEF AsynCreateThread, queue, workers, history
    <3>2. \A s \in Senders : spc'[s] = spc[s] \/ spc'[s] = "start"
      BY Zenon, <2>0, <2>2 DEF AsynCreateThread
    <3>3. QueueStamps' \subseteq QueueStamps
      BY ZenonT(60), <3>1, <3>2 DEF QueueStamps, InHand
    <3>4. AckedKept'
      BY Zenon, <3>1, AckedQuiet
    <3>5. StampsPast' /\ OwnStamp'
      BY Zenon, <3>1, <3>3, StampsQuiet DEF Stamped
    <3>6. SenderFile'
      BY Zenon, <3>1, <3>2, SenderFileQuiet
    <3> QED
      BY Zenon, <3>4, <3>5, <3>6
  <2>3. CASE Crash
    <3>1. UNCHANGED <<files, clock, acked, sent, discarded>> /\ list' = <<>>
      BY Zenon, <2>3 DEF Crash, history
    <3>2. (\A t \in Workers : ~Stamped(t)') /\ \A s \in Senders : spc'[s] = "none"
      BY Zenon, <2>3 DEF Crash, Stamped
    <3>3. QueueStamps' = {}
      BY SMTT(60), <3>1, <3>2 DEF QueueStamps, InHand
    <3>4. AckedKept'
      BY Zenon, <3>1, AckedQuiet
    <3> QED
      BY Zenon, <3>1, <3>2, <3>3, <3>4 DEF StampsPast, OwnStamp, SenderFile
  <2>4. CASE Start
    <3>1. UNCHANGED <<files, clock, wpc, req, spc, node, buf, acked, sent, discarded>>
      BY Zenon, <2>4 DEF Start, workers, senders, history
    <3>2. AckedKept'
      BY Zenon, <3>1, AckedQuiet
    <3>3. SenderFile'
      BY Zenon, <3>1, SenderFileQuiet
    <3>4. /\ \A t \in Workers : ~Stamped(t)'
          /\ \A s \in Senders : ~InHand(s)'
      BY Zenon, <2>4, <3>1 DEF Start, DownIdle, Stamped, InHand
    <3>5. \A i \in 1 .. Len(list') : list'[i].timestamp <= clock
      <4>1. CASE UNCHANGED list
        BY Zenon, <4>1 DEF StampsPast, QueueStamps
      <4>2. CASE ~UNCHANGED list
        <5>1. PICK l \in LoadOrders :
                 list' = [i \in 1 .. Len(l) |-> get_cache_file_header_from_file_base(l[i])]
          BY Zenon, <2>4, <4>2 DEF Start
        <5>2. DOMAIN files \subseteq Paths /\ IsFiniteSet(DOMAIN files)
          BY Zenon DEF TypeInv, FilesOK
        <5>3. \A i \in 1 .. Len(list') : \E p \in DOMAIN files :
                 list'[i] = get_cache_file_header_from_file_base(p)
          BY SMTT(60), <5>1, <5>2, LoadedList
        <5> QED
          BY SMTT(60), <5>2, <5>3, HeaderOfPath DEF StampsPast
      <4> QED
        BY Zenon, <4>1, <4>2
    <3>6. StampsPast'
      BY Zenon, <3>1, <3>4, <3>5 DEF StampsPast, QueueStamps
    <3> QED
      BY Zenon, <3>2, <3>3, <3>4, <3>6 DEF OwnStamp
  <2> QED
    BY ZenonT(60), <2>1, <2>2, <2>3, <2>4, KeptWorker, KeptSender
    DEF Next, Callback, on_connect, on_connection_lost, AsynCount, AsynReadFlag,
        vars, queue, workers, senders, history
<1> QED
  BY <1>1, <1>2, TypeInvariant, DownIsIdle, PTL DEF Spec

(* enqueue_offline_message: where files can be written and the clock does  *)
(* not repeat, a request answered "message was cached" is on disk until    *)
(* the MQTT client has accepted it or an eviction has counted it as        *)
(* discarded, whatever the threads do and wherever the process crashes.    *)
THEOREM NoAckedMessageIsLost ==
    ASSUME Lossless
    PROVE  Spec => []AckedKept
<1>1. KeptInv => AckedKept
  BY Zenon DEF KeptInv
<1>2. Spec => []KeptInv
  BY KeptInvariant
<1> QED
  BY <1>1, <1>2, PTL

=============================================================================
