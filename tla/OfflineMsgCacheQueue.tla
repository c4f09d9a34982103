------------------------- MODULE OfflineMsgCacheQueue -------------------------
(***************************************************************************)
(* The list of the offline cache, for every number of requests and         *)
(* crashes and every capacity.  It agrees with the directory               *)
(* (QueueIsDirectory), provided that the cache files can be written and    *)
(* listed, that the clock does not repeat and that no priority is          *)
(* negative.  It is ordered (QueueInOrder), provided that the files can be *)
(* written, that the clock does not repeat and that there is one worker.   *)
(***************************************************************************)
EXTENDS OfflineMsgCacheNoLoss

-----------------------------------------------------------------------------
(* The faults that part the list and the directory, and the priorities     *)
(* that a file name keeps.                                                 *)
Faithful == Faults \cap {"write", "clock", "scandir"} = {} /\ Priorities \subseteq Nat

-----------------------------------------------------------------------------
(* The inductive invariant.                                                *)

(* The nodes of g_list and the one in the hand of the drain thread.        *)
Held ==
    {list[i] : i \in 1 .. Len(list)} \cup {node[s] : s \in {u \in Senders : InHand(u)}}

(* The nodes held and the files agree.                                     *)
HeldIsDirectory ==
    /\ \A h \in Held : get_cache_file_path(h) \in DOMAIN files
    /\ up => \A p \in DOMAIN files :
          files[p] \in acked \ dropped => \E h \in Held : get_cache_file_path(h) = p

FilesApart ==
    /\ \A p \in DOMAIN files : p.cache_priority \in Nat
    /\ \A p, q \in DOMAIN files : p.timestamp = q.timestamp => p = q

NodesApart ==
    /\ \A i, j \in 1 .. Len(list) : list[i].timestamp = list[j].timestamp => i = j
    /\ \A s \in Senders : InHand(s) =>
          \A i \in 1 .. Len(list) : list[i].timestamp # node[s].timestamp

WorkersApart ==
    \A t \in Workers :
        /\ req[t].priority \in Nat /\ wpc[t] # "initList"
        /\ wpc[t] # "idle" =>
              /\ req[t].msg \notin acked
              /\ \A u \in Workers : wpc[u] # "idle" /\ req[u].msg = req[t].msg => u = t

(* What the drain thread puts back or drops is in the file of its node.    *)
PutBackIsFile ==
    \A s \in Senders :
        spc[s] = "putBack" /\ NodePath(s) \in DOMAIN files => files[NodePath(s)] = buf[s]

ListIsMade == up => listMade

(* QueueIsDirectory is not inductive: two nodes could share a file, which  *)
(* the removal of one would take from the other.  With a clock that never  *)
(* repeats every file and every node has a timestamp of its own; a message *)
(* is answered as cached only when its file is written and its node is     *)
(* queued, and what a put-back drops is what its file holds.               *)
DirInv ==
    HeldIsDirectory /\ FilesApart /\ NodesApart /\ WorkersApart /\ PutBackIsFile /\ ListIsMade

-----------------------------------------------------------------------------
(* What keeps each part of it.                                             *)

(* HeldIsDirectory says QueueIsDirectory, and more of the node in hand.    *)
LEMMA HeldSaysQueue ==
    ASSUME HeldIsDirectory
    PROVE  QueueIsDirectory
<1>1. NodeHasFile
  BY Zenon DEF HeldIsDirectory, NodeHasFile, Held
<1>2. FileHasNode
  BY Zenon DEF HeldIsDirectory, FileHasNode, Held
<1> QED
  BY Zenon, <1>1, <1>2 DEF QueueIsDirectory

(* A node held is a header, its path has its timestamp, and no worker is   *)
(* about to cache under it.                                                *)
LEMMA HeldHeaders ==
    ASSUME TypeInv, NEW h \in Held
    PROVE  h \in Headers /\ get_cache_file_path(h).timestamp = h.timestamp /\ h.timestamp \in QueueStamps
<1>1. \A i \in 1 .. Len(list) : list[i] \in Headers
  BY DEF TypeInv, QueueOK
<1>2. \A s \in Senders : node[s] \in Headers
  BY Zenon DEF TypeInv, SendersOK
<1>3. h \in Headers /\ h.timestamp \in QueueStamps
  BY Zenon, <1>1, <1>2 DEF Held, QueueStamps
<1> QED
  BY Zenon, <1>3, PathOfHeader

(* The nodes held stay the same when the list and the hands do.            *)
LEMMA HeldSame ==
    ASSUME UNCHANGED list,
           \A s \in Senders : (InHand(s)' <=> InHand(s)) /\ (InHand(s) => node'[s] = node[s])
    PROVE  Held' = Held /\ (NodesApart => NodesApart')
<1>1. Held' = Held
  BY Zenon DEF Held
<1>2. NodesApart => NodesApart'
  BY Zenon DEF NodesApart
<1> QED
  BY Zenon, <1>1, <1>2

(* Nothing happens to the nodes and the files.                             *)
LEMMA HeldQuiet ==
    ASSUME HeldIsDirectory, FilesApart, UNCHANGED <<files, up, acked>>, dropped \subseteq dropped',
           Held' = Held
    PROVE  HeldIsDirectory' /\ FilesApart'
BY Zenon DEF HeldIsDirectory, FilesApart

(* A node goes together with its file.                                     *)
LEMMA HeldRemoved ==
    ASSUME TypeInv, HeldIsDirectory, FilesApart, NEW g \in Held, Unlink(get_cache_file_path(g)),
           UNCHANGED <<up, acked>>, dropped \subseteq dropped',
           \A h \in Held : h = g \/ h \in Held',
           \A h \in Held' : h \in Held /\ h.timestamp # g.timestamp
    PROVE  HeldIsDirectory' /\ FilesApart'
<1> DEFINE q == get_cache_file_path(g)
<1>1. DOMAIN files' = DOMAIN files \ {q} /\ \A p \in DOMAIN files' : files'[p] = files[p]
  BY Zenon DEF Unlink
<1>2. \A h \in Held' : get_cache_file_path(h) # q
  BY Zenon, HeldHeaders
<1> HIDE DEF q
<1>3. \A h \in Held' : get_cache_file_path(h) \in DOMAIN files'
  BY Zenon, <1>1, <1>2 DEF HeldIsDirectory
<1>4. ASSUME up', NEW p \in DOMAIN files', files'[p] \in acked' \ dropped'
      PROVE  \E h \in Held' : get_cache_file_path(h) = p
  <2>1. PICK h \in Held : get_cache_file_path(h) = p
    BY Zenon, <1>1, <1>4 DEF HeldIsDirectory
  <2>2. h # g
    BY Zenon, <1>1, <2>1 DEF q
  <2> QED
    BY Zenon, <2>1, <2>2
<1>5. FilesApart'
  BY Zenon, <1>1 DEF FilesApart
<1> QED
  BY Zenon, <1>3, <1>4, <1>5 DEF HeldIsDirectory

(* A file is written that holds no cached message and whose timestamp is   *)
(* that of no other.                                                       *)
LEMMA HeldWritten ==
    ASSUME HeldIsDirectory, FilesApart, NEW p, p.cache_priority \in Nat,
           \A q \in DOMAIN files : q.timestamp = p.timestamp => q = p,
           DOMAIN files' = DOMAIN files \cup {p}, files'[p] \notin acked,
           \A q \in DOMAIN files : q # p => files'[q] = files[q],
           UNCHANGED <<up, acked, dropped>>, Held' = Held
    PROVE  HeldIsDirectory' /\ FilesApart'
<1>1. \A h \in Held' : get_cache_file_path(h) \in DOMAIN files'
  BY Zenon DEF HeldIsDirectory
<1>2. ASSUME up', NEW q \in DOMAIN files', files'[q] \in acked' \ dropped'
      PROVE  \E h \in Held' : get_cache_file_path(h) = q
  <2>1. q \in DOMAIN files /\ files[q] \in acked \ dropped
    BY Zenon, <1>2
  <2> QED
    BY Zenon, <1>2, <2>1 DEF HeldIsDirectory
<1>3. FilesApart'
  BY Zenon DEF FilesApart
<1> QED
  BY Zenon, <1>1, <1>2, <1>3 DEF HeldIsDirectory

(* PutBackIsFile survives a step that leaves the files of nodes in hand    *)
(* alone, or removes them.                                                 *)
LEMMA PutBackQuiet ==
    ASSUME PutBackIsFile,
           \A s \in Senders : spc'[s] = "putBack" =>
               /\ spc[s] = "putBack" /\ node'[s] = node[s] /\ buf'[s] = buf[s]
               /\ NodePath(s) \in DOMAIN files' =>
                     NodePath(s) \in DOMAIN files /\ files'[NodePath(s)] = files[NodePath(s)]
    PROVE  PutBackIsFile'
BY Zenon DEF PutBackIsFile, NodePath

(* WorkersApart survives a step in which no request comes in.              *)
LEMMA WorkersQuiet ==
    ASSUME WorkersApart, UNCHANGED acked,
           \A t \in Workers :
               /\ req'[t].priority \in Nat /\ wpc'[t] # "initList"
               /\ wpc'[t] # "idle" => wpc[t] # "idle" /\ req'[t].msg = req[t].msg
    PROVE  WorkersApart'
BY Zenon DEF WorkersApart

-----------------------------------------------------------------------------
(* One lemma per thread.                                                   *)

(* A step of a worker keeps DirInv.                                        *)
LEMMA DirWorker ==
    ASSUME Faithful, TypeInv, DownIdle, KeptInv, OneFile, DirInv, NEW t \in Workers, Worker(t)
    PROVE  DirInv'
<1> DEFINE p == PathOf(t)
<1> USE DEF DirInv
<1>0. /\ wpc \in [Workers -> WorkerLabels] /\ req \in [Workers -> Requests]
      /\ sent \in Seq(Nat) /\ Len(sent) \in Nat /\ acked \subseteq Msgs
      /\ \A u \in Workers : wpc[u] # "idle" => req[u].msg \in Msgs
      /\ list \in Seq(Headers) /\ Len(list) \in Nat
      /\ \A s \in Senders : node[s] \in Headers
  BY DEF TypeInv, WorkersOK, HistoryOK, QueueOK, SendersOK
<1>1. Lossless /\ Priorities \subseteq Nat
  BY Zenon DEF Faithful, Lossless
<1>2. UNCHANGED <<spc, node, buf, up, dropped>>
  BY Zenon DEF Worker, Receive, SendOnline, StartCaching, InitList, CanEnter, OpenFile, FillFile,
         EvictOne, PushNode, senders, process, history
<1>3. UNCHANGED list => Held' = Held /\ NodesApart'
  BY Zenon, <1>2, HeldSame DEF InHand
<1>4. /\ HeaderOf(req[t]) \in Headers /\ HeaderOf(req[t]).timestamp = req[t].timestamp
      /\ p.timestamp = req[t].timestamp /\ p.cache_priority \in Nat
  <2>1. HeaderOf(req[t]) \in Headers /\ HeaderOf(req[t]).timestamp = req[t].timestamp
    BY Zenon, <1>0 DEF HeaderOf, Requests, Headers
  <2>2. p.cache_priority = IF req[t].priority >= 0 THEN req[t].priority ELSE NoPriority
    BY Zenon DEF PathOf, HeaderOf, get_cache_file_path
  <2>3. req[t].priority \in Nat
    BY Zenon DEF WorkersApart
  <2>4. p.cache_priority \in Nat
    BY <2>2, <2>3
  <2> QED
    BY Zenon, <2>1, <2>4, PathOfHeader DEF PathOf
<1>5. /\ Stamped(t) => req[t].timestamp \notin QueueStamps
      /\ Stamped(t) => \A q \in DOMAIN files : q.timestamp = p.timestamp => q = p
      /\ wpc[t] = "push" => p \in DOMAIN files /\ files[p] = req[t].msg
  BY Zenon, <1>4 DEF KeptInv, OwnStamp, Stamped
<1>6. Partial \notin acked
  <2>1. Msgs \subseteq Int
    BY <1>0 DEF Msgs
  <2> QED
    BY ZenonT(60), <1>0, <2>1, SentinelsAssumption
<1>7. Stamped(t) => /\ \A h \in Held : get_cache_file_path(h) # p /\ h.timestamp # req[t].timestamp
                    /\ \A s \in Senders : InHand(s) => NodePath(s) # p
  <2>1. \A s \in Senders : InHand(s) => node[s] \in Held
    BY Zenon DEF Held
  <2> QED
    BY ZenonT(60), <1>4, <1>5, <2>1, HeldHeaders DEF NodePath
<1>8. \A u \in Workers : req[u].priority \in Nat /\ wpc[u] # "initList"
  BY Zenon DEF WorkersApart
<1> HIDE DEF p
<1>9. CASE Receive(t)
  <2>1. UNCHANGED <<files, list, listMade, acked>> /\ wpc[t] = "idle"
    BY Zenon, <1>9 DEF Receive, queue
  <2>2. /\ req'[t].priority \in Nat /\ wpc'[t] # "initList"
        /\ wpc'[t] # "idle" => req'[t].msg = Len(sent) + 1
        /\ \A u \in Workers \ {t} : wpc'[u] = wpc[u] /\ req'[u] = req[u]
    BY <1>0, <1>1, <1>9 DEF Receive, Failed, Finish, Goto, NoRequest
  <2>3. Len(sent) + 1 \notin Msgs
    BY <1>0 DEF Msgs
  <2>4. WorkersApart'
    BY <1>0, <2>1, <2>2, <2>3 DEF WorkersApart
  <2> QED
    BY Zenon, <1>2, <1>3, <2>1, <2>4, HeldQuiet, PutBackQuiet DEF ListIsMade
<1>10. CASE SendOnline(t) \/ StartCaching(t) \/ InitList(t) \/ CanEnter(t)
  <2>1. ~InitList(t)
    BY Zenon, <1>8 DEF InitList
  <2>2. UNCHANGED <<files, list, listMade, acked>> /\ wpc[t] # "idle"
    BY Zenon, <1>10, <2>1 DEF SendOnline, StartCaching, CanEnter, queue, history
  <2>3. up /\ listMade
    BY Zenon, <2>2 DEF DownIdle, ListIsMade
  <2>4. /\ \A u \in Workers \ {t} : wpc'[u] = wpc[u] /\ req'[u] = req[u]
        /\ req'[t].priority \in Nat /\ wpc'[t] # "initList"
        /\ wpc'[t] # "idle" => req'[t].msg = req[t].msg
    <3>1. CASE SendOnline(t)
      BY <1>0, <1>8, <3>1 DEF SendOnline, Failed, Finish, Goto, NoRequest
    <3>2. CASE StartCaching(t)
      BY <1>0, <1>8, <2>3, <3>2 DEF StartCaching, Goto, Requests
    <3>3. CASE CanEnter(t)
      BY <1>0, <1>8, <3>3 DEF CanEnter, Finish, Goto, NoRequest
    <3> QED
      BY Zenon, <1>10, <2>1, <3>1, <3>2, <3>3
  <2>5. WorkersApart'
    BY Zenon, <1>8, <2>2, <2>4, WorkersQuiet
  <2> QED
    BY Zenon, <1>2, <1>3, <2>2, <2>5, HeldQuiet, PutBackQuiet DEF ListIsMade
<1>11. CASE OpenFile(t) \/ FillFile(t)
  <2>1. UNCHANGED <<list, listMade, acked, req>> /\ Stamped(t)
    BY Zenon, <1>1, <1>11 DEF OpenFile, FillFile, Lossless, queue, history, Stamped
  <2>2. PICK c \in {Partial, req[t].msg} : WriteFile(p, c)
    BY Zenon, <1>1, <1>11 DEF OpenFile, FillFile, Lossless, PathOf, p
  <2>3. /\ DOMAIN files' = DOMAIN files \cup {p} /\ files'[p] = c
        /\ \A q \in DOMAIN files : q # p => files'[q] = files[q]
    BY Zenon, <2>2 DEF WriteFile
  <2>4. c \notin acked
    BY Zenon, <1>6, <2>1 DEF WorkersApart, Stamped
  <2>5. WorkersApart'
    <3>1. /\ \A u \in Workers \ {t} : wpc'[u] = wpc[u]
          /\ wpc'[t] # "initList"
      BY Zenon, <1>0, <1>1, <1>11 DEF OpenFile, FillFile, Lossless, Goto
    <3> QED
      BY Zenon, <1>8, <2>1, <3>1, WorkersQuiet DEF Stamped
  <2>6. HeldIsDirectory' /\ FilesApart'
    BY Zenon, <1>2, <1>3, <1>4, <1>5, <2>1, <2>3, <2>4, HeldWritten
  <2>7. PutBackIsFile'
    BY Zenon, <1>2, <1>7, <2>1, <2>3, PutBackQuiet DEF InHand
  <2> QED
    BY Zenon, <1>2, <1>3, <2>1, <2>5, <2>6, <2>7 DEF ListIsMade
<1>12. CASE EvictOne(t)
  <2>1. UNCHANGED <<acked, wpc, req, listMade>>
    BY Zenon, <1>12 DEF EvictOne, workers
  <2>2. WorkersApart' /\ ListIsMade'
    BY Zenon, <1>2, <1>8, <2>1, WorkersQuiet DEF ListIsMade
  <2>3. CASE list = <<>>
    <3>1. UNCHANGED <<list, files>>
      BY Zenon, <1>12, <2>3 DEF EvictOne
    <3> QED
      BY Zenon, <1>2, <1>3, <2>1, <2>2, <3>1, HeldQuiet, PutBackQuiet
  <2>4. CASE list # <<>>
    <3>1. PICK i \in 1 .. Len(list) :
             list' = list_remove(list, i) /\ Unlink(get_cache_file_path(list[i]))
      BY Zenon, <1>12, <2>4 DEF EvictOne
    <3>2. /\ Len(list') = Len(list) - 1
          /\ \A j \in 1 .. Len(list) - 1 : list'[j] = IF j < i THEN list[j] ELSE list[j + 1]
      BY ZenonT(60), <1>0, <3>1, RemoveProperties
    <3>3. i \in 1 .. Len(list) /\ Len(list) \in Nat
      BY Zenon, <1>0
    <3>4. list[i] \in Held
      BY Zenon DEF Held
    <3>5. /\ \A j \in 1 .. Len(list') : \E k \in 1 .. Len(list) : k # i /\ list'[j] = list[k]
          /\ \A k \in 1 .. Len(list) : k # i => \E j \in 1 .. Len(list') : list'[j] = list[k]
      <4>1. ASSUME NEW j \in 1 .. Len(list')
            PROVE  \E k \in 1 .. Len(list) : k # i /\ list'[j] = list[k]
        <5>1. CASE j < i
          <6>1. j \in 1 .. Len(list) /\ j # i /\ list'[j] = list[j]
            BY <3>2, <3>3, <5>1
          <6> QED
            BY Zenon, <6>1
        <5>2. CASE ~(j < i)
          <6>1. j + 1 \in 1 .. Len(list) /\ j + 1 # i /\ list'[j] = list[j + 1]
            BY <3>2, <3>3, <5>2
          <6> QED
            BY Zenon, <6>1
        <5> QED
          BY Zenon, <5>1, <5>2
      <4>2. ASSUME NEW k \in 1 .. Len(list), k # i
            PROVE  \E j \in 1 .. Len(list') : list'[j] = list[k]
        <5>1. CASE k < i
          <6>1. k \in 1 .. Len(list') /\ list'[k] = list[k]
            BY <3>2, <3>3, <5>1
          <6> QED
            BY Zenon, <6>1
        <5>2. CASE k > i
          <6>1. k - 1 \in 1 .. Len(list') /\ list'[k - 1] = list[k]
            BY <3>2, <3>3, <5>2
          <6> QED
            BY Zenon, <6>1
        <5> QED
          BY <3>3, <4>2, <5>1, <5>2
      <4> QED
        BY Zenon, <4>1, <4>2
    <3>6. \A h \in Held' : h \in Held /\ h.timestamp # list[i].timestamp
      <4>1. ASSUME NEW j \in 1 .. Len(list')
            PROVE  list'[j] \in Held /\ list'[j].timestamp # list[i].timestamp
        <5>1. PICK k \in 1 .. Len(list) : k # i /\ list'[j] = list[k]
          BY Zenon, <3>5
        <5>2. list[k].timestamp # list[i].timestamp
          BY Zenon, <5>1 DEF NodesApart
        <5> QED
          BY Zenon, <5>1, <5>2 DEF Held
      <4>2. ASSUME NEW s \in Senders, InHand(s)
            PROVE  node[s] \in Held /\ node[s].timestamp # list[i].timestamp
        BY Zenon, <4>2 DEF Held, NodesApart
      <4> QED
        BY Zenon, <1>2, <4>1, <4>2 DEF Held, InHand
    <3>7. \A h \in Held : h = list[i] \/ h \in Held'
      <4>1. ASSUME NEW k \in 1 .. Len(list), k # i PROVE list[k] \in Held'
        BY Zenon, <3>5, <4>1 DEF Held
      <4>2. ASSUME NEW s \in Senders, InHand(s) PROVE node[s] \in Held'
        BY Zenon, <1>2, <4>2 DEF Held, InHand
      <4> QED
        BY Zenon, <4>1, <4>2 DEF Held
    <3>10. NodesApart'
      <4>1. \A j, k \in 1 .. Len(list') : list'[j].timestamp = list'[k].timestamp => j = k
        BY <3>2, <3>3 DEF NodesApart
      <4>2. ASSUME NEW s \in Senders, InHand(s)', NEW j \in 1 .. Len(list')
            PROVE  list'[j].timestamp # node'[s].timestamp
        <5>1. PICK k \in 1 .. Len(list) : list'[j] = list[k]
          BY Zenon, <3>5
        <5>2. InHand(s) /\ node'[s] = node[s]
          BY Zenon, <1>2, <4>2 DEF InHand
        <5> QED
          BY Zenon, <5>1, <5>2 DEF NodesApart
      <4> QED
        BY Zenon, <4>1, <4>2 DEF NodesApart
    <3>8. HeldIsDirectory' /\ FilesApart'
      BY Zenon, <1>2, <2>1, <3>1, <3>4, <3>6, <3>7, HeldRemoved
    <3>9. PutBackIsFile'
      BY Zenon, <1>2, <3>1, PutBackQuiet DEF Unlink
    <3> QED
      BY Zenon, <2>2, <3>8, <3>9, <3>10
  <2> QED
    BY Zenon, <2>3, <2>4
<1>13. CASE PushNode(t)
  <2> DEFINE g == HeaderOf(req[t])
  <2>1. /\ UNCHANGED <<files, listMade>> /\ wpc[t] = "push" /\ Stamped(t)
        /\ acked' = acked \cup {req[t].msg} /\ list' = Append(list, g)
    BY Zenon, <1>13 DEF PushNode, Stamped
  <2>2. /\ wpc'[t] = "idle" /\ req'[t].priority \in Nat
        /\ \A u \in Workers \ {t} : wpc'[u] = wpc[u] /\ req'[u] = req[u]
    BY <1>0, <1>13 DEF PushNode, Finish, Goto, NoRequest
  <2>3. WorkersApart'
    BY <1>8, <2>1, <2>2 DEF WorkersApart
  <2>4. /\ Len(list') = Len(list) + 1 /\ list'[Len(list) + 1] = g
        /\ \A i \in 1 .. Len(list) : list'[i] = list[i]
    BY <1>0, <1>4, <2>1, AppendProperties
  <2> HIDE DEF g
  <2>5. 1 .. Len(list') = (1 .. Len(list)) \cup {Len(list) + 1} /\ Len(list) + 1 \notin 1 .. Len(list)
    BY <1>0, <2>4
  <2>6. Held' = Held \cup {g}
    <3>1. \A h : h \in Held' <=> \/ \E i \in 1 .. Len(list') : h = list'[i]
                                \/ \E s \in Senders : InHand(s) /\ h = node[s]
      BY Zenon, <1>2 DEF Held, InHand
    <3>2. \A h : h \in Held <=> \/ \E i \in 1 .. Len(list) : h = list[i]
                               \/ \E s \in Senders : InHand(s) /\ h = node[s]
      BY Zenon DEF Held
    <3>3. /\ \A i \in 1 .. Len(list') : list'[i] = g \/ \E k \in 1 .. Len(list) : list'[i] = list[k]
          /\ \A k \in 1 .. Len(list) : \E i \in 1 .. Len(list') : list'[i] = list[k]
          /\ \E i \in 1 .. Len(list') : list'[i] = g
      BY Zenon, <2>4, <2>5
    <3>4. ASSUME NEW h \in Held' PROVE h \in Held \/ h = g
      <4>1. CASE \E i \in 1 .. Len(list') : h = list'[i]
        <5>1. PICK i \in 1 .. Len(list') : h = list'[i]
          BY Zenon, <4>1
        <5>2. h = g \/ \E k \in 1 .. Len(list) : h = list[k]
          BY Zenon, <3>3, <5>1
        <5> QED
          BY Zenon, <3>2, <5>2
      <4>2. CASE \E s \in Senders : InHand(s) /\ h = node[s]
        BY Zenon, <3>2, <4>2
      <4> QED
        BY Zenon, <3>1, <4>1, <4>2
    <3>5. ASSUME NEW h \in Held PROVE h \in Held'
      BY ZenonT(60), <3>1, <3>2, <3>3
    <3>6. g \in Held'
      BY Zenon, <3>1, <3>3
    <3> QED
      BY Zenon, <3>4, <3>5, <3>6
  <2>7. \A i \in 1 .. Len(list) : list[i] \in Held
    BY Zenon DEF Held
  <2>8. \A s \in Senders : InHand(s) => node[s] \in Held
    BY Zenon DEF Held
  <2>9. NodesApart'
    <3>1. \A i \in 1 .. Len(list) : list[i].timestamp # g.timestamp
      BY Zenon, <1>4, <1>7, <2>1, <2>7 DEF g
    <3>2. \A s \in Senders : InHand(s) => node[s].timestamp # g.timestamp
      BY Zenon, <1>4, <1>7, <2>1, <2>8 DEF g
    <3>3. \A i, j \in 1 .. Len(list') : list'[i].timestamp = list'[j].timestamp => i = j
      BY Zenon, <2>4, <2>5, <3>1 DEF NodesApart
    <3>4. \A s \in Senders : InHand(s)' =>
             \A i \in 1 .. Len(list') : list'[i].timestamp # node'[s].timestamp
      BY Zenon, <1>2, <2>4, <2>5, <3>2 DEF NodesApart, InHand
    <3> QED
      BY Zenon, <3>3, <3>4 DEF NodesApart
  <2>10. get_cache_file_path(g) = p
    BY Zenon DEF p, g, PathOf
  <2>11. \A q \in DOMAIN files : files[q] = req[t].msg => q = p
    <3>1. req[t].msg # Partial
      <4>1. req[t].msg \in Nat
        BY Zenon, <1>0 DEF Requests
      <4> QED
        BY <4>1, SentinelsAssumption
    <3> QED
      BY Zenon, <1>5, <2>1, <3>1 DEF OneFile
  <2>12. HeldIsDirectory'
    <3>1. \A h \in Held' : get_cache_file_path(h) \in DOMAIN files'
      BY Zenon, <1>5, <2>1, <2>6, <2>10 DEF HeldIsDirectory
    <3>2. ASSUME up', NEW q \in DOMAIN files', files'[q] \in acked' \ dropped'
          PROVE  \E h \in Held' : get_cache_file_path(h) = q
      <4>1. CASE files[q] = req[t].msg
        BY Zenon, <2>1, <2>6, <2>10, <2>11, <3>2, <4>1
      <4>2. CASE files[q] # req[t].msg
        BY Zenon, <1>2, <2>1, <2>6, <3>2, <4>2 DEF HeldIsDirectory
      <4> QED
        BY Zenon, <4>1, <4>2
    <3> QED
      BY Zenon, <3>1, <3>2 DEF HeldIsDirectory
  <2>13. FilesApart' /\ PutBackIsFile' /\ ListIsMade'
    BY Zenon, <1>2, <2>1, PutBackQuiet DEF FilesApart, ListIsMade
  <2> QED
    BY Zenon, <2>3, <2>9, <2>12, <2>13
<1> QED
  BY Zenon, <1>9, <1>10, <1>11, <1>12, <1>13 DEF Worker

(* A drain thread that takes a step is the only one with a node in hand,   *)
(* and no step of its changes who runs or what was answered.               *)
LEMMA SenderHand ==
    ASSUME SingleSender, NEW s \in Senders, Draining(s)
    PROVE  \A u \in Senders : InHand(u) => u = s
BY Zenon DEF SingleSender, Draining, InHand

(* A step of a drain thread keeps DirInv.                                  *)
LEMMA DirSender ==
    ASSUME TypeInv, SingleSender, KeptInv, DirInv, NEW s \in Senders, Sender(s)
    PROVE  DirInv'
<1> USE DEF DirInv
<1>0. /\ spc \in [Senders -> SenderLabels] /\ node \in [Senders -> Headers]
      /\ buf \in [Senders -> Nat] /\ list \in Seq(Headers) /\ Len(list) \in Nat
  BY DEF TypeInv, SendersOK, QueueOK
<1>1. UNCHANGED <<acked, wpc, req, up, listMade>> /\ dropped \subseteq dropped'
  <2>1. UNCHANGED <<acked, wpc, req>>
    BY Zenon, SenderFrame
  <2>2. UNCHANGED <<up, listMade>> /\ dropped \subseteq dropped'
    BY Zenon DEF Sender, SenderStart, SenderCount, SenderIsConnected, SenderPop, SenderRead, SenderSend,
        SenderUnlink, SenderPutBack, SenderClear, process, queue, history
  <2> QED
    BY Zenon, <2>1, <2>2
<1>2. WorkersApart' /\ ListIsMade'
  <2>1. \A u \in Workers : req[u].priority \in Nat /\ wpc[u] # "initList"
    BY Zenon DEF WorkersApart
  <2> QED
    BY Zenon, <1>1, <2>1, WorkersQuiet DEF ListIsMade
<1>3. \A u \in Senders : InHand(u) => node[u] \in Held
  BY Zenon DEF Held
<1>4. ASSUME NEW l, Step(s, l), UNCHANGED <<files, list, node, buf>>,
             l \in {"read", "send", "unlink", "putBack"} <=> InHand(s),
             l = "putBack" /\ NodePath(s) \in DOMAIN files => files[NodePath(s)] = buf[s]
      PROVE  DirInv'
  <2>1. \A u \in Senders : (InHand(u)' <=> InHand(u)) /\ (u # s => spc'[u] = spc[u])
    BY Zenon, <1>0, <1>4 DEF Step, InHand
  <2>2. Held' = Held /\ NodesApart'
    BY Zenon, <1>4, <2>1, HeldSame
  <2>3. HeldIsDirectory' /\ FilesApart'
    BY Zenon, <1>1, <1>4, <2>2, HeldQuiet
  <2>4. spc'[s] = l
    BY Zenon, <1>0, <1>4 DEF Step
  <2>5. PutBackIsFile'
    BY Zenon, <1>4, <2>1, <2>4 DEF PutBackIsFile, NodePath
  <2> QED
    BY Zenon, <1>2, <2>2, <2>3, <2>5
(* The hand is emptied and the list stays: the node is gone.               *)
<1>5. ASSUME InHand(s), EndRound(s), UNCHANGED list
      PROVE  /\ \A u \in Senders : ~InHand(u)'
             /\ \A h \in Held' : h \in Held /\ h.timestamp # node[s].timestamp
             /\ \A h \in Held : h = node[s] \/ h \in Held'
             /\ NodesApart' /\ PutBackIsFile'
  <2>1. \A u \in Senders : InHand(u) => u = s
    BY Zenon, <1>5, SenderHand DEF InHand, Draining
  <2>2. \A u \in Senders : ~InHand(u)'
    BY Zenon, <1>0, <1>5, <2>1 DEF EndRound, Step, InHand
  <2>3. \A h \in Held' : h \in Held /\ h.timestamp # node[s].timestamp
    BY Zenon, <1>5, <2>2 DEF Held, NodesApart
  <2>4. \A h \in Held : h = node[s] \/ h \in Held'
    BY Zenon, <1>5, <2>1 DEF Held
  <2>5. NodesApart'
    BY Zenon, <1>5, <2>2 DEF NodesApart
  <2>6. PutBackIsFile'
    BY Zenon, <2>2 DEF PutBackIsFile, InHand
  <2> QED
    BY Zenon, <2>2, <2>3, <2>4, <2>5, <2>6
<1>6. CASE SenderStart(s) \/ SenderCount(s) \/ SenderIsConnected(s) \/ SenderClear(s)
  <2>1. UNCHANGED <<files, list, node, buf>> /\ ~InHand(s)
    BY Zenon, <1>6 DEF SenderStart, SenderCount, SenderIsConnected, SenderClear, queue, InHand
  <2>2. PICK l : Step(s, l) /\ l \notin {"read", "send", "unlink", "putBack"}
    BY <1>6 DEF SenderStart, SenderCount, SenderIsConnected, SenderClear
  <2> QED
    BY Zenon, <1>4, <2>1, <2>2
<1>7. CASE SenderPop(s)
  <2>1. UNCHANGED <<files, buf>> /\ spc[s] = "pop" /\ ~InHand(s)
    BY Zenon, <1>7 DEF SenderPop, InHand
  <2>2. CASE list = <<>>
    BY Zenon, <1>4, <1>7, <2>1, <2>2 DEF SenderPop
  <2>3. CASE list # <<>>
    <3>1. /\ node' = [node EXCEPT ![s] = list[1]] /\ spc' = [spc EXCEPT ![s] = "read"]
          /\ list' = Tail(list)
      BY <1>7, <2>3 DEF SenderPop, ListAfterPop, Step
    <3>2. /\ 1 \in 1 .. Len(list) /\ Len(list') = Len(list) - 1
          /\ \A j \in 1 .. Len(list') : j + 1 \in 1 .. Len(list) /\ list'[j] = list[j + 1]
      BY <1>0, <2>3, <3>1
    <3>3. \A u \in Senders : ~InHand(u)
      BY Zenon, <2>1, SenderHand DEF Draining, InHand
    <3>4. /\ node'[s] = list[1] /\ InHand(s)'
          /\ \A u \in Senders : u # s => ~InHand(u)'
          /\ \A u \in Senders : spc'[u] # "putBack"
      BY Zenon, <1>0, <3>1, <3>3 DEF InHand
    <3>5. \A k \in 1 .. Len(list) : k = 1 \/ \E j \in 1 .. Len(list') : list'[j] = list[k]
      <4>1. ASSUME NEW k \in 1 .. Len(list), k # 1
            PROVE  \E j \in 1 .. Len(list') : list'[j] = list[k]
        <5>1. k - 1 \in 1 .. Len(list') /\ (k - 1) + 1 = k
          BY <1>0, <3>2, <4>1
        <5>2. list'[k - 1] = list[k]
          BY <3>2, <5>1
        <5> QED
          BY Zenon, <5>1, <5>2
      <4> QED
        BY Zenon, <4>1
    <3>6. Held' = Held
      <4>1. \A h : h \in Held <=> \E k \in 1 .. Len(list) : h = list[k]
        BY Zenon, <3>3 DEF Held
      <4>2. \A h : h \in Held' <=> h = list[1] \/ \E j \in 1 .. Len(list') : h = list'[j]
        BY Zenon, <3>4 DEF Held
      <4>3. ASSUME NEW h \in Held' PROVE h \in Held
        <5>1. CASE h = list[1]
          BY Zenon, <3>2, <4>1, <5>1
        <5>2. CASE \E j \in 1 .. Len(list') : h = list'[j]
          BY Zenon, <3>2, <4>1, <5>2
        <5> QED
          BY Zenon, <4>2, <5>1, <5>2
      <4>4. ASSUME NEW h \in Held PROVE h \in Held'
        <5>1. PICK k \in 1 .. Len(list) : h = list[k]
          BY Zenon, <4>1
        <5>2. h = list[1] \/ \E j \in 1 .. Len(list') : h = list'[j]
          BY Zenon, <3>5, <5>1
        <5> QED
          BY Zenon, <4>2, <5>2
      <4> QED
        BY Zenon, <4>3, <4>4
    <3>7. NodesApart'
      <4>3. \A i, j \in 1 .. Len(list) : list[i].timestamp = list[j].timestamp => i = j
        BY Zenon DEF NodesApart
      <4>1. \A i, j \in 1 .. Len(list') : list'[i].timestamp = list'[j].timestamp => i = j
        BY <3>2, <4>3
      <4>2. \A i \in 1 .. Len(list') : list'[i].timestamp # list[1].timestamp
        BY <3>2, <4>3
      <4> QED
        BY Zenon, <3>4, <4>1, <4>2 DEF NodesApart
    <3>8. HeldIsDirectory' /\ FilesApart'
      BY Zenon, <1>1, <2>1, <3>6, HeldQuiet
    <3>9. PutBackIsFile'
      BY Zenon, <3>4 DEF PutBackIsFile
    <3> QED
      BY Zenon, <1>2, <3>7, <3>8, <3>9
  <2> QED
    BY Zenon, <2>2, <2>3
<1>8. CASE SenderRead(s)
  <2>1. UNCHANGED list /\ spc[s] = "read" /\ InHand(s)
    BY Zenon, <1>8 DEF SenderRead, queue, InHand
  <2>2. CASE NodePath(s) \in DOMAIN files /\ files[NodePath(s)] # Partial
    <3>1. Step(s, "send") /\ UNCHANGED <<files, node>> /\ buf' = [buf EXCEPT ![s] = files[NodePath(s)]]
      BY Zenon, <1>8, <2>2 DEF SenderRead, NodePath
    <3>2. \A u \in Senders : InHand(u)' <=> InHand(u)
      BY Zenon, <1>0, <2>1, <3>1 DEF Step, InHand
    <3>6. \A u \in Senders : spc'[u] = "putBack" => spc[u] = "putBack" /\ buf'[u] = buf[u]
      BY Zenon, <1>0, <2>1, <3>1 DEF Step
    <3>3. Held' = Held /\ NodesApart'
      BY Zenon, <2>1, <3>1, <3>2, HeldSame
    <3>4. HeldIsDirectory' /\ FilesApart'
      BY Zenon, <1>1, <3>1, <3>3, HeldQuiet
    <3>5. PutBackIsFile'
      BY Zenon, <3>1, <3>6, PutBackQuiet
    <3> QED
      BY Zenon, <1>2, <3>3, <3>4, <3>5
  <2>3. CASE ~(NodePath(s) \in DOMAIN files /\ files[NodePath(s)] # Partial)
    <3>1. Unlink(get_cache_file_path(node[s])) /\ EndRound(s)
      BY Zenon, <1>8, <2>3 DEF SenderRead, NodePath
    <3>2. HeldIsDirectory' /\ FilesApart'
      BY Zenon, <1>1, <1>3, <1>5, <2>1, <3>1, HeldRemoved
    <3> QED
      BY Zenon, <1>2, <1>5, <2>1, <3>1, <3>2
  <2> QED
    BY Zenon, <2>2, <2>3
<1>9. CASE SenderSend(s)
  <2>1. UNCHANGED <<files, list, node, buf>> /\ spc[s] = "send" /\ InHand(s)
    BY Zenon, <1>9 DEF SenderSend, queue, InHand
  <2>2. Step(s, "unlink") \/ Step(s, "putBack")
    BY Zenon, <1>9 DEF SenderSend, AfterAccepted
  <2>3. NodePath(s) \in DOMAIN files => files[NodePath(s)] = buf[s]
    BY Zenon, <2>1 DEF KeptInv, SenderFile
  <2> QED
    BY Zenon, <1>4, <2>1, <2>2, <2>3
<1>10. CASE SenderUnlink(s)
  <2>1. UNCHANGED list /\ InHand(s) /\ Unlink(get_cache_file_path(node[s])) /\ EndRound(s)
    BY Zenon, <1>10 DEF SenderUnlink, queue, InHand
  <2>2. HeldIsDirectory' /\ FilesApart'
    BY Zenon, <1>1, <1>3, <1>5, <2>1, HeldRemoved
  <2> QED
    BY Zenon, <1>2, <1>5, <2>1, <2>2
<1>11. CASE SenderPutBack(s)
  <2>1. UNCHANGED files /\ spc[s] = "putBack" /\ InHand(s) /\ EndRound(s)
    BY Zenon, <1>11 DEF SenderPutBack, InHand
  <2>2. FilesApart'
    BY Zenon, <2>1 DEF FilesApart
  <2>3. CASE HasRoom
    <3>1. list' = list_lpush(list, node[s]) /\ UNCHANGED dropped
      BY Zenon, <1>11, <2>3 DEF SenderPutBack, ListAfterLpush
    <3>2. /\ Len(list') = Len(list) + 1
          /\ \A j \in 1 .. Len(list) + 1 : list'[j] = IF j = 1 THEN node[s] ELSE list[j - 1]
      <4>1. node[s] \in Headers /\ list \in Seq(Headers)
        BY Zenon, <1>0
      <4> DEFINE c == list_lpush(list, node[s])
      <4>2. /\ Len(c) = Len(list) + 1
            /\ \A j \in 1 .. Len(list) + 1 : c[j] = IF j = 1 THEN node[s] ELSE list[j - 1]
        BY SMTT(60), <4>1 DEF list_lpush
      <4> HIDE DEF c
      <4>3. list' = c
        BY Zenon, <3>1 DEF c
      <4> QED
        BY Zenon, <4>2, <4>3
    <3>3. \A u \in Senders : InHand(u) => u = s
      BY Zenon, <2>1, SenderHand DEF Draining
    <3>4. \A u \in Senders : ~InHand(u)'
      BY Zenon, <1>0, <2>1, <3>3 DEF EndRound, Step, InHand
    <3>5. Held' = Held
      <4>1. \A h : h \in Held <=> h = node[s] \/ \E k \in 1 .. Len(list) : h = list[k]
        BY Zenon, <2>1, <3>3 DEF Held
      <4>2. \A h : h \in Held' <=> \E j \in 1 .. Len(list') : h = list'[j]
        BY Zenon, <3>4 DEF Held
      <4>3. \A j \in 1 .. Len(list') : list'[j] = node[s] \/ \E k \in 1 .. Len(list) : list'[j] = list[k]
        <5>1. \A j \in 1 .. Len(list') : j = 1 \/ j - 1 \in 1 .. Len(list)
          BY <1>0, <3>2
        <5> QED
          BY Zenon, <3>2, <5>1
      <4>4. \A k \in 1 .. Len(list) : \E j \in 1 .. Len(list') : list'[j] = list[k]
        <5>1. ASSUME NEW k \in 1 .. Len(list)
              PROVE  k + 1 \in 1 .. Len(list') /\ list'[k + 1] = list[k]
          BY <1>0, <3>2
        <5> QED
          BY Zenon, <5>1
      <4>5. 1 \in 1 .. Len(list') /\ list'[1] = node[s]
        BY <1>0, <3>2
      <4>6. ASSUME NEW h \in Held' PROVE h \in Held
        BY Zenon, <4>1, <4>2, <4>3
      <4>7. ASSUME NEW h \in Held PROVE h \in Held'
        BY ZenonT(60), <4>1, <4>2, <4>4, <4>5
      <4> QED
        BY Zenon, <4>6, <4>7
    <3>6. NodesApart'
      <4>1. \A i \in 1 .. Len(list) : list[i].timestamp # node[s].timestamp
        BY Zenon, <2>1 DEF NodesApart
      <4>2. \A i, j \in 1 .. Len(list) : list[i].timestamp = list[j].timestamp => i = j
        BY Zenon DEF NodesApart
      <4>3. Len(list) \in Nat
        BY Zenon, <1>0
      <4>5. \A i \in 1 .. Len(list') :
               \/ i = 1 /\ list'[i] = node[s]
               \/ i # 1 /\ i - 1 \in 1 .. Len(list) /\ list'[i] = list[i - 1]
        BY <3>2, <4>3
      <4>6. \A i, j \in 1 .. Len(list') : i - 1 = j - 1 => i = j
        BY <3>2, <4>3
      <4>4. \A i, j \in 1 .. Len(list') : list'[i].timestamp = list'[j].timestamp => i = j
        <5> SUFFICES ASSUME NEW i \in 1 .. Len(list'), NEW j \in 1 .. Len(list'),
                            list'[i].timestamp = list'[j].timestamp
                     PROVE  i = j
          BY Zenon
        <5>1. CASE i = 1
          BY Zenon, <4>1, <4>5, <5>1
        <5>2. CASE i # 1
          <6>1. i - 1 \in 1 .. Len(list) /\ list'[i] = list[i - 1]
            BY Zenon, <4>5, <5>2
          <6>2. j # 1
            BY Zenon, <4>1, <4>5, <6>1
          <6>3. j - 1 \in 1 .. Len(list) /\ list'[j] = list[j - 1]
            BY Zenon, <4>5, <6>2
          <6>4. i - 1 = j - 1
            BY Zenon, <4>2, <6>1, <6>3
          <6> QED
            BY Zenon, <4>6, <6>4
        <5> QED
          BY Zenon, <5>1, <5>2
      <4> QED
        BY Zenon, <3>4, <4>4 DEF NodesApart
    <3>7. HeldIsDirectory'
      BY Zenon, <1>1, <2>1, <3>5, HeldQuiet
    <3>8. PutBackIsFile'
      BY Zenon, <3>4 DEF PutBackIsFile, InHand
    <3> QED
      BY Zenon, <1>2, <2>2, <3>6, <3>7, <3>8
  <2>4. CASE ~HasRoom
    <3>1. dropped' = dropped \cup {buf[s]} /\ UNCHANGED list
      BY Zenon, <1>11, <2>4 DEF SenderPutBack
    <3>2. \A h \in Held' : get_cache_file_path(h) \in DOMAIN files'
      BY Zenon, <1>5, <2>1, <3>1 DEF HeldIsDirectory
    <3>3. ASSUME up', NEW p \in DOMAIN files', files'[p] \in acked' \ dropped'
          PROVE  \E h \in Held' : get_cache_file_path(h) = p
      <4>1. PICK h \in Held : get_cache_file_path(h) = p
        BY Zenon, <1>1, <2>1, <3>1, <3>3 DEF HeldIsDirectory
      <4>2. h # node[s]
        BY Zenon, <2>1, <3>1, <3>3, <4>1 DEF PutBackIsFile, NodePath
      <4> QED
        BY Zenon, <1>5, <2>1, <3>1, <4>1, <4>2
    <3>4. HeldIsDirectory'
      BY Zenon, <3>2, <3>3 DEF HeldIsDirectory
    <3> QED
      BY Zenon, <1>2, <1>5, <2>1, <2>2, <3>1, <3>4
  <2> QED
    BY Zenon, <2>3, <2>4
<1> QED
  BY Zenon, <1>6, <1>7, <1>8, <1>9, <1>10, <1>11 DEF Sender

-----------------------------------------------------------------------------
(* The theorem.                                                            *)

(* load_offline_messages queues every file once, under a node that leads   *)
(* back to it.                                                             *)
LEMMA LoadedIsDirectory ==
    ASSUME TypeInv, FilesApart, NEW l \in LoadOrders,
           list' = [i \in 1 .. Len(l) |-> get_cache_file_header_from_file_base(l[i])]
    PROVE  /\ \A i \in 1 .. Len(list') : get_cache_file_path(list'[i]) \in DOMAIN files
           /\ \A p \in DOMAIN files : \E i \in 1 .. Len(list') : get_cache_file_path(list'[i]) = p
           /\ \A i, j \in 1 .. Len(list') : list'[i].timestamp = list'[j].timestamp => i = j
<1> DEFINE n == Cardinality(DOMAIN files)
<1>1. n \in Nat /\ DOMAIN files \subseteq Paths /\ IsFiniteSet(DOMAIN files)
  BY Zenon, FS_CardinalityType DEF TypeInv, FilesOK
<1>2. /\ l \in [1 .. n -> DOMAIN files]
      /\ \A i, j \in 1 .. n : i < j => l[i] # l[j]
  BY Zenon DEF LoadOrders
<1>3. IsFiniteSet(1 .. n) /\ Cardinality(1 .. n) = n
  <2> HIDE DEF n
  <2>1. n \in Int /\ 1 \in Int
    BY <1>1
  <2>2. IsFiniteSet(1 .. n) /\ Cardinality(1 .. n) = IF 1 > n THEN 0 ELSE n - 1 + 1
    BY Zenon, <2>1, FS_Interval
  <2> QED
    BY <1>1, <2>2
<1>4. \A i, j \in 1 .. n : l[i] = l[j] => i = j
  <2>1. \A i, j \in 1 .. n : i # j => i < j \/ j < i
    BY <1>1
  <2> QED
    BY Zenon, <1>2, <2>1
<1>5. l \in Injection(1 .. n, DOMAIN files)
  BY Zenon, <1>2, <1>4 DEF Injection, IsInjective
<1>6. l \in Surjection(1 .. n, DOMAIN files)
  BY Zenon, <1>1, <1>3, <1>5, FS_Injection
<1>7. \A p \in DOMAIN files : \E i \in 1 .. n : l[i] = p
  BY Zenon, <1>6 DEF Surjection
<1> HIDE DEF n
<1>8. Len(l) = n
  BY <1>1, <1>2
<1>9. list' \in [1 .. n -> Headers]
  <2>1. \A i \in 1 .. n : get_cache_file_header_from_file_base(l[i]) \in Headers
    BY Zenon, <1>1, <1>2, HeaderOfPath
  <2> QED
    BY Zenon, <1>8, <2>1
<1>10. Len(list') = n
  BY <1>1, <1>9
<1>11. ASSUME NEW i \in 1 .. n
       PROVE  list'[i].timestamp = l[i].timestamp /\ get_cache_file_path(list'[i]) = l[i]
  <2>1. l[i] \in Paths /\ l[i].cache_priority \in Nat
    BY Zenon, <1>1, <1>2 DEF FilesApart
  <2>2. list'[i] = get_cache_file_header_from_file_base(l[i])
    BY Zenon, <1>8
  <2>3. l[i].cache_priority # NoPriority
    BY <2>1, SentinelsAssumption
  <2>4. list'[i] = [cache_priority |-> l[i].cache_priority, timestamp |-> l[i].timestamp]
    BY Zenon, <2>2, <2>3 DEF get_cache_file_header_from_file_base
  <2>5. l[i].cache_priority >= 0
    BY <2>1
  <2>6. get_cache_file_path(list'[i])
           = [timestamp |-> l[i].timestamp, cache_priority |-> l[i].cache_priority]
    <3>1. list'[i].timestamp = l[i].timestamp /\ list'[i].cache_priority = l[i].cache_priority
      BY <2>4
    <3> QED
      BY Zenon, <2>5, <3>1 DEF get_cache_file_path
  <2>7. l[i] = [timestamp |-> l[i].timestamp, cache_priority |-> l[i].cache_priority]
    BY <2>1 DEF Paths
  <2> QED
    BY Zenon, <2>4, <2>6, <2>7
<1>12. \A i \in 1 .. Len(list') : get_cache_file_path(list'[i]) \in DOMAIN files
  <2>1. \A i \in 1 .. n : l[i] \in DOMAIN files
    BY Zenon, <1>2
  <2> SUFFICES ASSUME NEW i \in 1 .. n PROVE get_cache_file_path(list'[i]) \in DOMAIN files
    BY Zenon, <1>10
  <2>2. get_cache_file_path(list'[i]) = l[i]
    BY Zenon, <1>11
  <2> QED
    BY Zenon, <2>1, <2>2
<1>13. \A p \in DOMAIN files : \E i \in 1 .. Len(list') : get_cache_file_path(list'[i]) = p
  <2> SUFFICES ASSUME NEW p \in DOMAIN files
               PROVE  \E i \in 1 .. n : get_cache_file_path(list'[i]) = p
    BY Zenon, <1>10
  <2>1. PICK i \in 1 .. n : l[i] = p
    BY Zenon, <1>7
  <2>2. get_cache_file_path(list'[i]) = l[i]
    BY Zenon, <1>11
  <2> QED
    BY Zenon, <2>1, <2>2
<1>14. \A i, j \in 1 .. Len(list') : list'[i].timestamp = list'[j].timestamp => i = j
  <2>1. \A i, j \in 1 .. n : l[i].timestamp = l[j].timestamp => i = j
    BY Zenon, <1>2, <1>4 DEF FilesApart
  <2> SUFFICES ASSUME NEW i \in 1 .. n, NEW j \in 1 .. n, list'[i].timestamp = list'[j].timestamp
               PROVE  i = j
    BY Zenon, <1>10
  <2>2. list'[i].timestamp = l[i].timestamp /\ list'[j].timestamp = l[j].timestamp
    BY Zenon, <1>11
  <2>3. l[i].timestamp = l[j].timestamp
    BY Zenon, <2>2
  <2> QED
    BY Zenon, <2>1, <2>3
<1> QED
  BY Zenon, <1>12, <1>13, <1>14

(* send_messages_thread_fun, cache_offline_message and                     *)
(* load_offline_messages: where the files can be written and listed, the   *)
(* clock does not repeat and no priority is negative, every node has its   *)
(* file, and every cached message on disk has its node in the list or in   *)
(* the hand of the drain thread, unless a put-back dropped it.             *)
THEOREM ListIsDirectory ==
    ASSUME Faithful
    PROVE  Spec => []QueueIsDirectory
<1>1. Init => DirInv
  <2> SUFFICES ASSUME Init PROVE DirInv
    BY Zenon
  <2>1. /\ Len(list) = 0 /\ DOMAIN files = {} /\ up = FALSE
        /\ \A s \in Senders : spc[s] = "none"
        /\ \A t \in Workers : wpc[t] = "idle" /\ req[t].priority = 0
    BY DEF Init, NoRequest
  <2>2. 1 .. Len(list) = {} /\ 0 \in Nat
    BY <2>1
  <2> QED
    BY Zenon, <2>1, <2>2 DEF DirInv, HeldIsDirectory, FilesApart, NodesApart, WorkersApart, PutBackIsFile,
       ListIsMade, Held, InHand
<1>2. TypeInv /\ DownIdle /\ SingleSender /\ KeptInv /\ OnceInv /\ DirInv /\ [Next]_vars => DirInv'
  <2> SUFFICES ASSUME TypeInv, DownIdle, SingleSender, KeptInv, OnceInv, DirInv, [Next]_vars
               PROVE  DirInv'
    BY Zenon
  <2> USE DEF DirInv
  <2>0. spc \in [Senders -> SenderLabels] /\ \A t \in Workers : req[t].priority \in Nat /\ wpc[t] # "initList"
    BY Zenon DEF TypeInv, SendersOK, WorkersApart
  <2>1. CASE UNCHANGED <<up, list, listMade, files, wpc, req, spc, node, buf, acked, dropped>>
    <3>1. Held' = Held /\ NodesApart'
      BY Zenon, <2>1, HeldSame DEF InHand
    <3>2. HeldIsDirectory' /\ FilesApart'
      BY Zenon, <2>1, <3>1, HeldQuiet
    <3>3. WorkersApart' /\ PutBackIsFile'
      BY Zenon, <2>0, <2>1, WorkersQuiet, PutBackQuiet
    <3> QED
      BY Zenon, <2>1, <3>1, <3>2, <3>3 DEF ListIsMade
  <2>2. CASE AsynCreateThread
    <3>1. UNCHANGED <<up, list, listMade, files, wpc, req, node, buf, acked, dropped>>
      BY Zenon, <2>2 DEF AsynCreateThread, process, queue, workers, history
    <3>2. \A s \in Senders : spc'[s] = spc[s] \/ (spc[s] = "none" /\ spc'[s] = "start")
      <4>1. CASE UNCHANGED spc
        BY Zenon, <4>1
      <4>2. CASE ~UNCHANGED spc
        <5>1. PICK u \in Senders : spc[u] = "none" /\ spc' = [spc EXCEPT ![u] = "start"]
          BY Zenon, <2>2, <4>2 DEF AsynCreateThread
        <5> QED
          BY Zenon, <2>0, <5>1
      <4> QED
        BY Zenon, <4>1, <4>2
    <3>3. \A s \in Senders : InHand(s)' <=> InHand(s)
      BY Zenon, <3>2 DEF InHand
    <3>4. Held' = Held /\ NodesApart'
      BY Zenon, <3>1, <3>3, HeldSame
    <3>5. HeldIsDirectory' /\ FilesApart'
      BY Zenon, <3>1, <3>4, HeldQuiet
    <3>6. WorkersApart' /\ PutBackIsFile'
      BY Zenon, <2>0, <3>1, <3>2, WorkersQuiet, PutBackQuiet
    <3> QED
      BY Zenon, <3>1, <3>4, <3>5, <3>6 DEF ListIsMade
  <2>3. CASE Crash
    <3>1. /\ up' = FALSE /\ list' = <<>> /\ UNCHANGED files
          /\ \A s \in Senders : spc'[s] = "none"
          /\ \A t \in Workers : wpc'[t] = "idle" /\ req'[t].priority = 0
      BY Zenon, <2>3 DEF Crash, NoRequest
    <3>2. 1 .. Len(list') = {} /\ 0 \in Nat
      BY <3>1
    <3>3. Held' = {}
      BY Zenon, <3>1, <3>2 DEF Held, InHand
    <3> QED
      BY Zenon, <3>1, <3>2, <3>3 DEF HeldIsDirectory, FilesApart, NodesApart, WorkersApart, PutBackIsFile,
         ListIsMade, InHand
  <2>4. CASE Start
    <3>1. UNCHANGED <<files, wpc, req, spc, node, buf, acked, dropped>> /\ listMade' = TRUE
      BY Zenon, <2>4 DEF Start, workers, senders, history, Faithful
    <3>2. PICK l \in LoadOrders :
             list' = [i \in 1 .. Len(l) |-> get_cache_file_header_from_file_base(l[i])]
      BY Zenon, <2>4 DEF Start, Faithful
    <3>3. /\ \A i \in 1 .. Len(list') : get_cache_file_path(list'[i]) \in DOMAIN files
          /\ \A p \in DOMAIN files : \E i \in 1 .. Len(list') : get_cache_file_path(list'[i]) = p
          /\ \A i, j \in 1 .. Len(list') : list'[i].timestamp = list'[j].timestamp => i = j
      BY Zenon, <3>2, LoadedIsDirectory
    <3>4. \A s \in Senders : ~InHand(s)'
      BY Zenon, <2>4, <3>1 DEF Start, DownIdle, InHand
    <3>5. \A h : h \in Held' <=> \E i \in 1 .. Len(list') : h = list'[i]
      BY Zenon, <3>4 DEF Held
    <3>6. HeldIsDirectory' /\ NodesApart'
      BY Zenon, <3>1, <3>3, <3>4, <3>5 DEF HeldIsDirectory, NodesApart
    <3>7. FilesApart' /\ WorkersApart' /\ PutBackIsFile'
      BY Zenon, <2>0, <3>1, WorkersQuiet, PutBackQuiet DEF FilesApart
    <3> QED
      BY Zenon, <3>1, <3>6, <3>7 DEF ListIsMade
  <2>5. ASSUME NEW t \in Workers, Worker(t) PROVE DirInv'
    BY Zenon, <2>5, DirWorker DEF OnceInv
  <2>6. ASSUME NEW s \in Senders, Sender(s) PROVE DirInv'
    BY Zenon, <2>6, DirSender
  <2> HIDE DEF DirInv
  <2> QED
    BY Zenon, <2>1, <2>2, <2>3, <2>4, <2>5, <2>6
    DEF Next, Callback, on_connect, on_connection_lost, AsynCount, AsynReadFlag,
        vars, process, queue, workers, senders, history
<1>3. DirInv => QueueIsDirectory
  BY Zenon, HeldSaysQueue DEF DirInv
<1>4. Spec => []KeptInv
  <2>1. Lossless
    BY Zenon DEF Faithful, Lossless
  <2> QED
    BY <2>1, KeptInvariant
<1> QED
  BY <1>1, <1>2, <1>3, <1>4, TypeInvariant, DownIsIdle, OneSender, OnceInvariant, PTL DEF Spec

-----------------------------------------------------------------------------
(* The order of the list.                                                  *)

OneWorker == \A t, u \in Workers : t = u

StampsDiffer == \A p, q \in DOMAIN files : p.timestamp = q.timestamp => p = q

(* What is being cached is later than all that is queued.                  *)
NewestLast == \A t \in Workers : Stamped(t) => \A x \in QueueStamps : x < req[t].timestamp

(* QueueInOrder is not inductive: the next node pushed might be older than *)
(* one in the list, and a list loaded at start is ordered strictly only    *)
(* when no two files have the same timestamp.                              *)
OrderInv == QueueInOrder /\ StampsDiffer /\ NewestLast

(* The list stays and no node is taken in hand.                            *)
LEMMA OrderSame ==
    ASSUME QueueInOrder, UNCHANGED list, \A s \in Senders : InHand(s)' => InHand(s) /\ node'[s] = node[s]
    PROVE  QueueInOrder' /\ QueueStamps' \subseteq QueueStamps
<1>1. QueueInOrder'
  BY Zenon DEF QueueInOrder
<1>2. QueueStamps' \subseteq QueueStamps
  BY Zenon, StampsKept
<1> QED
  BY Zenon, <1>1, <1>2

(* No worker takes a timestamp, and nothing is queued that was not.        *)
LEMMA NewestQuiet ==
    ASSUME NewestLast, QueueStamps' \subseteq QueueStamps,
           \A t \in Workers : Stamped(t)' => Stamped(t) /\ req'[t].timestamp = req[t].timestamp
    PROVE  NewestLast'
BY Zenon DEF NewestLast

(* A step of the only worker keeps OrderInv.                               *)
LEMMA OrderWorker ==
    ASSUME Lossless, OneWorker, TypeInv, KeptInv, OrderInv, NEW t \in Workers, Worker(t)
    PROVE  OrderInv'
<1> USE DEF OrderInv
<1>0. /\ wpc \in [Workers -> WorkerLabels] /\ req \in [Workers -> Requests] /\ clock \in Nat
      /\ list \in Seq(Headers) /\ Len(list) \in Nat
      /\ \A s \in Senders : node[s] \in Headers
  BY DEF TypeInv, WorkersOK, QueueOK, SendersOK
<1>1. UNCHANGED <<spc, node>>
  BY Zenon DEF Worker, Receive, SendOnline, StartCaching, InitList, CanEnter, OpenFile, FillFile,
         EvictOne, PushNode, senders
<1>2. \A s \in Senders : (InHand(s)' <=> InHand(s)) /\ node'[s] = node[s]
  BY Zenon, <1>1 DEF InHand
<1>3. \A u \in Workers : u = t
  BY Zenon DEF OneWorker
<1>4. CASE Receive(t) \/ SendOnline(t) \/ CanEnter(t)
  <2>1. UNCHANGED <<list, files>>
    BY Zenon, <1>4 DEF Receive, SendOnline, CanEnter, queue
  <2>2. Stamped(t)' => Stamped(t) /\ req'[t].timestamp = req[t].timestamp
    <3>1. CASE Receive(t)
      BY Zenon, <1>0, <3>1 DEF Receive, Failed, Finish, Goto, Stamped
    <3>2. CASE SendOnline(t)
      BY Zenon, <1>0, <3>2 DEF SendOnline, Failed, Finish, Goto, Stamped
    <3>3. CASE CanEnter(t)
      BY Zenon, <1>0, <3>3 DEF CanEnter, Finish, Goto, Stamped
    <3> QED
      BY Zenon, <1>4, <3>1, <3>2, <3>3
  <2>3. QueueInOrder' /\ QueueStamps' \subseteq QueueStamps
    BY Zenon, <1>2, <2>1, OrderSame
  <2>4. NewestLast'
    BY Zenon, <1>3, <2>2, <2>3, NewestQuiet
  <2> QED
    BY Zenon, <2>1, <2>3, <2>4 DEF StampsDiffer
<1>5. CASE StartCaching(t)
  <2>1. UNCHANGED <<list, files>>
    BY Zenon, <1>5 DEF StartCaching, queue
  <2>2. req'[t].timestamp = clock + 1
    BY <1>0, <1>5 DEF StartCaching, ClockReadings, Lossless, Requests
  <2>3. QueueInOrder' /\ QueueStamps' \subseteq QueueStamps
    BY Zenon, <1>2, <2>1, OrderSame
  <2>4. \A x \in QueueStamps : x \in Nat /\ x <= clock
    <3>1. \A i \in 1 .. Len(list) : list[i].timestamp \in Nat
      <4>1. \A i \in 1 .. Len(list) : list[i] \in Headers
        BY <1>0
      <4> QED
        BY Zenon, <4>1 DEF Headers
    <3>2. \A s \in Senders : node[s].timestamp \in Nat
      BY Zenon, <1>0 DEF Headers
    <3> QED
      BY Zenon, <3>1, <3>2 DEF KeptInv, StampsPast, QueueStamps
  <2>5. \A x \in QueueStamps : x < req'[t].timestamp
    BY <1>0, <2>2, <2>4
  <2>6. NewestLast'
    BY Zenon, <1>3, <2>3, <2>5 DEF NewestLast
  <2> QED
    BY Zenon, <2>1, <2>3, <2>6 DEF StampsDiffer
<1>6. CASE InitList(t)
  <2>1. UNCHANGED <<files, req>> /\ list' = <<>> /\ Stamped(t)
    BY Zenon, <1>6 DEF InitList, Stamped
  <2>2. 1 .. Len(list') = {}
    BY <2>1
  <2>3. QueueInOrder'
    BY Zenon, <2>2 DEF QueueInOrder
  <2>4. QueueStamps' \subseteq QueueStamps
    BY Zenon, <1>2, <2>2, StampsKept
  <2>5. NewestLast'
    BY Zenon, <1>3, <2>1, <2>4, NewestQuiet
  <2> QED
    BY Zenon, <2>1, <2>3, <2>5 DEF StampsDiffer
<1>7. CASE OpenFile(t) \/ FillFile(t)
  <2>1. UNCHANGED <<list, req>> /\ Stamped(t)
    BY Zenon, <1>7 DEF OpenFile, FillFile, Lossless, queue, Stamped
  <2>2. QueueInOrder' /\ QueueStamps' \subseteq QueueStamps
    BY Zenon, <1>2, <2>1, OrderSame
  <2>3. NewestLast'
    BY Zenon, <1>3, <2>1, <2>2, NewestQuiet
  <2>4. DOMAIN files' \subseteq DOMAIN files \cup {PathOf(t)}
    BY Zenon, <1>7 DEF OpenFile, FillFile, Lossless, PathOf, WriteFile
  <2>5. PathOf(t).timestamp = req[t].timestamp
    BY Zenon DEF PathOf, HeaderOf, get_cache_file_path
  <2>6. \A q \in DOMAIN files : q.timestamp = PathOf(t).timestamp => q = PathOf(t)
    BY Zenon, <2>1, <2>5 DEF KeptInv, OwnStamp
  <2>7. StampsDiffer'
    BY Zenon, <2>4, <2>6 DEF StampsDiffer
  <2> QED
    BY Zenon, <2>2, <2>3, <2>7
<1>8. CASE EvictOne(t)
  <2>1. UNCHANGED <<wpc, req>> /\ DOMAIN files' \subseteq DOMAIN files
    BY Zenon, <1>8 DEF EvictOne, workers, Unlink
  <2>2. StampsDiffer'
    BY Zenon, <2>1 DEF StampsDiffer
  <2>3. CASE list = <<>>
    <3>1. UNCHANGED list
      BY Zenon, <1>8, <2>3 DEF EvictOne
    <3>2. QueueInOrder' /\ QueueStamps' \subseteq QueueStamps
      BY Zenon, <1>2, <3>1, OrderSame
    <3>3. NewestLast'
      BY Zenon, <2>1, <3>2, NewestQuiet DEF Stamped
    <3> QED
      BY Zenon, <2>2, <3>2, <3>3
  <2>4. CASE list # <<>>
    <3>1. PICK i \in 1 .. Len(list) : list' = list_remove(list, i)
      BY Zenon, <1>8, <2>4 DEF EvictOne
    <3>2. /\ Len(list') = Len(list) - 1
          /\ \A j \in 1 .. Len(list) - 1 : list'[j] = IF j < i THEN list[j] ELSE list[j + 1]
      BY ZenonT(60), <1>0, <3>1, RemoveProperties
    <3> DEFINE at(j) == IF j < i THEN j ELSE j + 1
    <3>3. \A j \in 1 .. Len(list') : at(j) \in 1 .. Len(list) /\ list'[j] = list[at(j)]
      BY <1>0, <3>2
    <3>4. \A j, k \in 1 .. Len(list') : j < k => at(j) < at(k)
      BY <1>0, <3>2
    <3> HIDE DEF at
    <3>5. QueueInOrder'
      BY Zenon, <1>2, <3>3, <3>4 DEF QueueInOrder
    <3>6. QueueStamps' \subseteq QueueStamps
      BY Zenon, <1>2, <3>3, StampsKept
    <3>7. NewestLast'
      BY Zenon, <2>1, <3>6, NewestQuiet DEF Stamped
    <3> QED
      BY Zenon, <2>2, <3>5, <3>7
  <2> QED
    BY Zenon, <2>3, <2>4
<1>9. CASE PushNode(t)
  <2> DEFINE g == HeaderOf(req[t])
  <2>1. UNCHANGED files /\ Stamped(t) /\ list' = Append(list, g)
    BY Zenon, <1>9 DEF PushNode, Stamped
  <2>2. wpc'[t] = "idle"
    BY Zenon, <1>0, <1>9 DEF PushNode, Finish, Goto
  <2>3. NewestLast'
    BY Zenon, <1>3, <2>2 DEF NewestLast, Stamped
  <2>4. g \in Headers /\ g.timestamp = req[t].timestamp
    BY Zenon, <1>0 DEF HeaderOf, Requests, Headers
  <2> HIDE DEF g
  <2>5. /\ Len(list') = Len(list) + 1 /\ list'[Len(list) + 1] = g
        /\ \A i \in 1 .. Len(list) : list'[i] = list[i]
    BY <1>0, <2>1, <2>4, AppendProperties
  <2>6. \A i \in 1 .. Len(list') : (i \in 1 .. Len(list) \/ i = Len(list) + 1)
                                   /\ \A j \in 1 .. Len(list') : i < j => i \in 1 .. Len(list)
    BY <1>0, <2>5
  <2>7. \A i \in 1 .. Len(list) : list[i].timestamp < g.timestamp
    BY Zenon, <2>1, <2>4 DEF NewestLast, QueueStamps
  <2>8. \A s \in Senders : InHand(s) => node[s].timestamp < g.timestamp
    BY Zenon, <2>1, <2>4 DEF NewestLast, QueueStamps
  <2>9. QueueInOrder'
    BY Zenon, <1>2, <2>5, <2>6, <2>7, <2>8 DEF QueueInOrder
  <2> QED
    BY Zenon, <2>1, <2>3, <2>9 DEF StampsDiffer
<1> QED
  BY Zenon, <1>4, <1>5, <1>6, <1>7, <1>8, <1>9 DEF Worker

(* A step of the drain thread keeps OrderInv.                              *)
LEMMA OrderSender ==
    ASSUME TypeInv, SingleSender, OrderInv, NEW s \in Senders, Sender(s)
    PROVE  OrderInv'
<1> USE DEF OrderInv
<1>0. /\ spc \in [Senders -> SenderLabels] /\ node \in [Senders -> Headers]
      /\ list \in Seq(Headers) /\ Len(list) \in Nat
  BY DEF TypeInv, QueueOK, SendersOK
<1>1. UNCHANGED <<wpc, req>> /\ DOMAIN files' \subseteq DOMAIN files
  <2>1. DOMAIN files' \subseteq DOMAIN files
    BY Zenon DEF Sender, SenderStart, SenderCount, SenderIsConnected, SenderPop, SenderRead, SenderSend,
       SenderUnlink, SenderPutBack, SenderClear, Unlink
  <2> QED
    BY Zenon, <2>1, SenderFrame
<1>2. StampsDiffer'
  BY Zenon, <1>1 DEF StampsDiffer
<1>3. QueueStamps' \subseteq QueueStamps => NewestLast'
  BY Zenon, <1>1, NewestQuiet DEF Stamped
<1>4. CASE UNCHANGED list /\ \A u \in Senders : InHand(u)' => InHand(u) /\ node'[u] = node[u]
  BY Zenon, <1>2, <1>3, <1>4, OrderSame
<1>5. ASSUME InHand(s) \/ spc[s] = "pop" PROVE \A u \in Senders : u # s => ~InHand(u)
  BY Zenon, <1>5 DEF SingleSender, Draining, InHand
<1>6. CASE SenderPop(s) /\ list # <<>>
  <2>1. node' = [node EXCEPT ![s] = Head(list)] /\ list' = Tail(list)
    BY Zenon, <1>6 DEF SenderPop, ListAfterPop
  <2>2. spc[s] = "pop" /\ \A u \in Senders : u # s => spc'[u] = spc[u]
    BY Zenon, <1>0, <1>6 DEF SenderPop, Step
  <2>3. /\ Len(list') = Len(list) - 1 /\ 1 \in 1 .. Len(list) /\ node'[s] = list[1]
        /\ \A i \in 1 .. Len(list') : i + 1 \in 1 .. Len(list) /\ 1 < i + 1 /\ list'[i] = list[i + 1]
        /\ \A i, j \in 1 .. Len(list') : i < j => i + 1 < j + 1
    BY <1>0, <1>6, <2>1
  <2>4. \A u \in Senders : InHand(u)' => u = s
    BY Zenon, <1>5, <2>2 DEF InHand
  <2>5. QueueInOrder'
    <3>1. \A i, j \in 1 .. Len(list') : i < j => list'[i].timestamp < list'[j].timestamp
      BY Zenon, <2>3 DEF QueueInOrder
    <3>2. \A i \in 1 .. Len(list') : node'[s].timestamp < list'[i].timestamp
      BY Zenon, <2>3 DEF QueueInOrder
    <3> QED
      BY Zenon, <2>4, <3>1, <3>2 DEF QueueInOrder
  <2>6. QueueStamps' \subseteq QueueStamps
    <3>1. \A i \in 1 .. Len(list') : list'[i].timestamp \in QueueStamps
      BY Zenon, <2>3 DEF QueueStamps
    <3>2. node'[s].timestamp \in QueueStamps
      BY Zenon, <2>3 DEF QueueStamps
    <3> QED
      BY Zenon, <2>4, <3>1, <3>2 DEF QueueStamps
  <2> QED
    BY Zenon, <1>2, <1>3, <2>5, <2>6
<1>7. CASE SenderPutBack(s) /\ HasRoom
  <2>1. list' = list_lpush(list, node[s]) /\ InHand(s)
    BY Zenon, <1>7 DEF SenderPutBack, ListAfterLpush, InHand
  <2>2. /\ Len(list') = Len(list) + 1
        /\ \A j \in 1 .. Len(list) + 1 : list'[j] = IF j = 1 THEN node[s] ELSE list[j - 1]
    <3>1. node[s] \in Headers
      BY Zenon, <1>0
    <3> DEFINE h == node[s]
    <3> HIDE DEF h
    <3>2. /\ Len(list_lpush(list, h)) = Len(list) + 1
          /\ \A j \in 1 .. Len(list) + 1 : list_lpush(list, h)[j] = IF j = 1 THEN h ELSE list[j - 1]
      <4>1. list \in Seq(Headers) /\ h \in Headers
        BY Zenon, <1>0, <3>1 DEF h
      <4> QED
        BY SMTT(60), <4>1 DEF list_lpush
    <3> QED
      BY Zenon, <2>1, <3>2 DEF h
  <2>3. \A j \in 1 .. Len(list') :
           IF j = 1 THEN list'[j] = node[s] ELSE j - 1 \in 1 .. Len(list) /\ list'[j] = list[j - 1]
    BY <1>0, <2>2
  <2>4. \A i, j \in 1 .. Len(list') : i < j => j # 1 /\ (i # 1 => i - 1 < j - 1)
    BY <1>0, <2>2
  <2>5. spc'[s] = "count" /\ \A u \in Senders : u # s => spc'[u] = spc[u]
    BY Zenon, <1>0, <1>7 DEF SenderPutBack, EndRound, Step
  <2>6. \A u \in Senders : ~InHand(u)'
    BY Zenon, <1>5, <2>1, <2>5 DEF InHand
  <2>7. QueueInOrder'
    <3>1. ASSUME NEW i \in 1 .. Len(list'), NEW j \in 1 .. Len(list'), i < j
          PROVE  list'[i].timestamp < list'[j].timestamp
      <4>1. j - 1 \in 1 .. Len(list) /\ list'[j] = list[j - 1]
        BY Zenon, <2>3, <2>4, <3>1
      <4>2. CASE i = 1
        BY Zenon, <2>1, <2>3, <4>1, <4>2 DEF QueueInOrder
      <4>3. CASE i # 1
        BY Zenon, <2>3, <2>4, <3>1, <4>1, <4>3 DEF QueueInOrder
      <4> QED
        BY Zenon, <4>2, <4>3
    <3> QED
      BY Zenon, <2>6, <3>1 DEF QueueInOrder
  <2>8. QueueStamps' \subseteq QueueStamps
    <3>1. node[s].timestamp \in QueueStamps /\ \A i \in 1 .. Len(list) : list[i].timestamp \in QueueStamps
      BY Zenon, <2>1 DEF QueueStamps
    <3>2. \A j \in 1 .. Len(list') : list'[j].timestamp \in QueueStamps
      BY Zenon, <2>3, <3>1
    <3> QED
      BY Zenon, <2>6, <3>2 DEF QueueStamps
  <2> QED
    BY Zenon, <1>2, <1>3, <2>7, <2>8
<1>8. CASE SenderStart(s) \/ SenderCount(s) \/ SenderIsConnected(s) \/ SenderClear(s)
  <2>1. UNCHANGED <<list, node>>
    BY Zenon, <1>8 DEF SenderStart, SenderCount, SenderIsConnected, SenderClear, queue
  <2>2. \A u \in Senders : InHand(u)' => InHand(u)
    BY Zenon, <1>0, <1>8 DEF SenderStart, SenderCount, SenderIsConnected, SenderClear, Step, InHand
  <2> QED
    BY Zenon, <1>4, <2>1, <2>2
<1>9. CASE SenderPop(s) /\ list = <<>>
  <2>1. UNCHANGED <<list, node>> /\ \A u \in Senders : InHand(u)' => InHand(u)
    BY Zenon, <1>0, <1>9 DEF SenderPop, Step, InHand
  <2> QED
    BY Zenon, <1>4, <2>1
<1>10. CASE SenderRead(s) \/ SenderSend(s) \/ SenderUnlink(s) \/ (SenderPutBack(s) /\ ~HasRoom)
  <2>1. UNCHANGED list /\ InHand(s)
    BY Zenon, <1>10 DEF SenderRead, SenderSend, SenderUnlink, SenderPutBack, queue, InHand
  <2>2. \A u \in Senders : u # s => ~InHand(u)'
    <3>1. \A u \in Senders : u # s => spc'[u] = spc[u]
      BY Zenon, <1>0, <1>10 DEF SenderRead, SenderSend, SenderUnlink, SenderPutBack, EndRound, Step
    <3> QED
      BY Zenon, <1>5, <2>1, <3>1 DEF InHand
  <2>3. InHand(s)' => node'[s] = node[s]
    BY Zenon, <1>0, <1>10 DEF SenderRead, SenderSend, SenderUnlink, SenderPutBack, EndRound, Step, InHand
  <2> QED
    BY Zenon, <1>4, <2>1, <2>2, <2>3
<1> QED
  BY Zenon, <1>6, <1>7, <1>8, <1>9, <1>10 DEF Sender

(* load_offline_messages: files with different timestamps are queued in    *)
(* the order of their timestamps.                                          *)
LEMMA LoadedInOrder ==
    ASSUME TypeInv, StampsDiffer, NEW l \in LoadOrders,
           list' = [i \in 1 .. Len(l) |-> get_cache_file_header_from_file_base(l[i])]
    PROVE  \A i, j \in 1 .. Len(list') : i < j => list'[i].timestamp < list'[j].timestamp
<1> DEFINE n == Cardinality(DOMAIN files)
<1>1. n \in Nat /\ DOMAIN files \subseteq Paths
  BY Zenon, FS_CardinalityType DEF TypeInv, FilesOK
<1>2. /\ l \in [1 .. n -> DOMAIN files]
      /\ \A i, j \in 1 .. n : i < j => l[i] # l[j] /\ l[i].timestamp <= l[j].timestamp
  BY Zenon DEF LoadOrders
<1> HIDE DEF n
<1>3. Len(l) = n
  BY <1>1, <1>2
<1>4. list' \in [1 .. n -> Headers]
  <2>1. \A i \in 1 .. n : get_cache_file_header_from_file_base(l[i]) \in Headers
    BY Zenon, <1>1, <1>2, HeaderOfPath
  <2> QED
    BY Zenon, <1>3, <2>1
<1>5. Len(list') = n
  BY <1>1, <1>4
<1>6. \A i \in 1 .. n : list'[i].timestamp = l[i].timestamp /\ l[i].timestamp \in Nat
  <2>1. \A i \in 1 .. n : list'[i] = get_cache_file_header_from_file_base(l[i])
    BY Zenon, <1>3
  <2>2. \A i \in 1 .. n : l[i] \in Paths
    BY Zenon, <1>1, <1>2
  <2>3. \A i \in 1 .. n : l[i].timestamp \in Nat
    BY Zenon, <2>2 DEF Paths
  <2> QED
    BY Zenon, <2>1, <2>2, <2>3, HeaderOfPath
<1> SUFFICES ASSUME NEW i \in 1 .. n, NEW j \in 1 .. n, i < j
             PROVE  list'[i].timestamp < list'[j].timestamp
  BY Zenon, <1>5
<1>7. l[i].timestamp # l[j].timestamp /\ l[i].timestamp <= l[j].timestamp
  BY Zenon, <1>2 DEF StampsDiffer
<1>8. l[i].timestamp < l[j].timestamp
  <2>1. l[i].timestamp \in Nat /\ l[j].timestamp \in Nat
    BY Zenon, <1>6
  <2> QED
    BY <1>7, <2>1
<1> QED
  BY Zenon, <1>6, <1>8

(* cache_offline_message, the put-back of send_messages_thread_fun and     *)
(* load_offline_messages: where one worker caches at a time, the files can *)
(* be written and the clock does not repeat, the queue holds the messages  *)
(* in the order in which they were cached, behind the one in the hand of   *)
(* the drain thread, through evictions, put-backs, crashes and restarts.   *)
THEOREM CachedInOrder ==
    ASSUME Lossless, OneWorker
    PROVE  Spec => []QueueInOrder
<1>1. Init => OrderInv
  <2> SUFFICES ASSUME Init PROVE OrderInv
    BY Zenon
  <2>1. /\ Len(list) = 0 /\ DOMAIN files = {}
        /\ (\A s \in Senders : spc[s] = "none") /\ \A t \in Workers : wpc[t] = "idle"
    BY DEF Init
  <2>2. 1 .. Len(list) = {}
    BY <2>1
  <2> QED
    BY Zenon, <2>1, <2>2 DEF OrderInv, QueueInOrder, StampsDiffer, NewestLast, Stamped, InHand
<1>2. TypeInv /\ DownIdle /\ SingleSender /\ KeptInv /\ OrderInv /\ [Next]_vars => OrderInv'
  <2> SUFFICES ASSUME TypeInv, DownIdle, SingleSender, KeptInv, OrderInv, [Next]_vars
               PROVE  OrderInv'
    BY Zenon
  <2> USE DEF OrderInv
  <2>0. spc \in [Senders -> SenderLabels]
    BY Zenon DEF TypeInv, SendersOK
  <2>1. ASSUME UNCHANGED <<list, files, wpc, req, node>>, \A s \in Senders : InHand(s)' => InHand(s)
        PROVE  OrderInv'
    <3>1. QueueInOrder' /\ QueueStamps' \subseteq QueueStamps
      BY Zenon, <2>1, OrderSame
    <3>2. NewestLast'
      BY Zenon, <2>1, <3>1, NewestQuiet DEF Stamped
    <3> QED
      BY Zenon, <2>1, <3>1, <3>2 DEF StampsDiffer
  <2>2. CASE UNCHANGED <<list, files, wpc, req, spc, node>>
    BY Zenon, <2>1, <2>2 DEF InHand
  <2>3. CASE AsynCreateThread
    <3>1. UNCHANGED <<list, files, wpc, req, node>>
      BY Zenon, <2>3 DEF AsynCreateThread, queue, workers
    <3>2. \A s \in Senders : spc'[s] = spc[s] \/ spc'[s] = "start"
      BY Zenon, <2>0, <2>3 DEF AsynCreateThread
    <3> QED
      BY Zenon, <2>1, <3>1, <3>2 DEF InHand
  <2>4. CASE Crash
    <3>1. /\ list' = <<>> /\ UNCHANGED files
          /\ (\A s \in Senders : spc'[s] = "none") /\ \A t \in Workers : wpc'[t] = "idle"
      BY Zenon, <2>4 DEF Crash
    <3>2. 1 .. Len(list') = {}
      BY <3>1
    <3> QED
      BY Zenon, <3>1, <3>2 DEF QueueInOrder, StampsDiffer, NewestLast, Stamped, InHand
  <2>5. CASE Start
    <3>1. UNCHANGED <<files, wpc, req, spc, node>>
      BY Zenon, <2>5 DEF Start, workers, senders
    <3>2. (\A t \in Workers : ~Stamped(t)') /\ \A s \in Senders : ~InHand(s)'
      BY Zenon, <2>5, <3>1 DEF Start, DownIdle, Stamped, InHand
    <3>3. \A i, j \in 1 .. Len(list') : i < j => list'[i].timestamp < list'[j].timestamp
      <4>1. CASE UNCHANGED list
        BY Zenon, <4>1 DEF QueueInOrder
      <4>2. CASE ~UNCHANGED list
        BY Zenon, <2>5, <4>2, LoadedInOrder DEF Start
      <4> QED
        BY Zenon, <4>1, <4>2
    <3> QED
      BY Zenon, <3>1, <3>2, <3>3 DEF QueueInOrder, StampsDiffer, NewestLast
  <2>6. ASSUME NEW t \in Workers, Worker(t) PROVE OrderInv'
    BY Zenon, <2>6, OrderWorker
  <2>7. ASSUME NEW s \in Senders, Sender(s) PROVE OrderInv'
    BY Zenon, <2>7, OrderSender
  <2> HIDE DEF OrderInv
  <2> QED
    BY Zenon, <2>2, <2>3, <2>4, <2>5, <2>6, <2>7
    DEF Next, Callback, on_connect, on_connection_lost, AsynCount, AsynReadFlag,
        vars, queue, workers, senders, history
<1>3. OrderInv => QueueInOrder
  BY Zenon DEF OrderInv
<1>4. Spec => []KeptInv
  BY KeptInvariant
<1> QED
  BY <1>1, <1>2, <1>3, <1>4, TypeInvariant, DownIsIdle, OneSender, PTL DEF Spec

=============================================================================
