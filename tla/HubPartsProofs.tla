--------------------------- MODULE HubPartsProofs ---------------------------
(***************************************************************************)
(* Theorems about parts of the hub that share no state: the message        *)
(* counters, for any number of timer threads, events, reports and crashes, *)
(* the launches of the hub, and the body of a request.                     *)
(***************************************************************************)
EXTENDS MsgCounter, SingleInstance, RequestBody, TLAPS

-----------------------------------------------------------------------------
(* The message counters: their types, and what is reported and lost.       *)

(* The keys are there, and each names a counter.                           *)
LEMMA KeysAreCounters ==
    /\ Len(Keys) \in Nat /\ Len(Keys) >= 1
    /\ \A n \in 1 .. Len(Keys) :
          Keys[n] \in Counters /\ {Keys[i] : i \in 1 .. n} \subseteq Counters
BY DEF Keys, Counters

CountsOK == /\ mem \in [Counters -> Nat] /\ happened \in [Counters -> Nat]
            /\ reported \in [Counters -> Nat] /\ since \in [Counters -> Nat]
            /\ swallowed \in [Counters -> Nat]

FileOK == DOMAIN file \subseteq Counters /\ \A c \in DOMAIN file : file[c] \in Nat

SaversOK == /\ spc \in [Savers -> SaverLabels] /\ idx \in [Savers -> 1 .. Len(Keys)]
            /\ tot \in [Savers -> [Counters -> Nat]]

CallbackOK == rpc \in ReporterLabels /\ rep \in [Counters -> Nat] /\ reports \in Nat

RestOK == iniLock \in Savers \cup {Reporter, NoThread} /\ crashes \in Nat /\ interrupted \in BOOLEAN

(* The groups together are the type invariant.                             *)
LEMMA TypeGroups == TypeOK <=> CountsOK /\ FileOK /\ SaversOK /\ CallbackOK /\ RestOK
BY ZenonT(60) DEF TypeOK, CountsOK, FileOK, SaversOK, CallbackOK, RestOK

(* A total of zeros, a sum of totals and what the file holds are totals.   *)
LEMMA Totals ==
    /\ Zero \in [Counters -> Nat]
    /\ \A f, g \in [Counters -> Nat] : Plus(f, g) \in [Counters -> Nat]
    /\ FileOK => read_total_msg_count \in [Counters -> Nat]
    /\ FileOK => \A c \in Counters : InFile(c) \in Nat
BY DEF Zero, Plus, FileOK, read_total_msg_count, InFile

(* Counting one event.                                                     *)
LEMMA CountType ==
    ASSUME CountsOK, NEW c \in Counters, Count(c), UNCHANGED <<since, swallowed>>,
           reported' \in [Counters -> Nat]
    PROVE  CountsOK'
<1>1. mem' \in [Counters -> Nat] /\ happened' \in [Counters -> Nat]
  BY DEF CountsOK, Count
<1> QED
  BY Zenon, <1>1 DEF CountsOK

(* What the file holds after it was written is no more than what was       *)
(* written to it.                                                          *)
LEMMA FillProperties ==
    ASSUME NEW f \in [Counters -> Nat], Fill(f)
    PROVE  FileOK' /\ \A c \in Counters : InFile(c)' <= f[c]
<1>1. CASE file' = f
  BY <1>1 DEF FileOK, InFile
<1>2. ASSUME NEW n \in 1 .. Len(Keys), NEW cut \in 0 .. f[Keys[n]],
             file' = [c \in {Keys[i] : i \in 1 .. n} |-> IF c = Keys[n] THEN cut ELSE f[c]]
      PROVE  FileOK' /\ \A c \in Counters : InFile(c)' <= f[c]
  <2> DEFINE K == {Keys[i] : i \in 1 .. n}
  <2>1. K \subseteq Counters /\ Keys[n] \in Counters
    BY Zenon, KeysAreCounters
  <2>2. f[Keys[n]] \in Nat /\ cut \in Nat /\ cut <= f[Keys[n]]
    BY <2>1
  <2>3. DOMAIN file' = K /\ \A c \in K : file'[c] = IF c = Keys[n] THEN cut ELSE f[c]
    BY Zenon, <1>2
  <2> HIDE DEF K
  <2> QED
    BY <2>1, <2>2, <2>3 DEF FileOK, InFile
<1> QED
  BY ZenonT(60), <1>1, <1>2 DEF Fill

(* The file after fopen.                                                   *)
LEMMA TruncateProperties ==
    ASSUME Truncate PROVE FileOK' /\ \A c \in Counters : InFile(c)' = 0
BY Zenon DEF Truncate, FileOK, InFile

(* The labels a thread moves between.                                      *)
LEMMA StepType ==
    ASSUME SaversOK, NEW s \in Savers, NEW l \in SaverLabels, NEW i \in 1 .. Len(Keys), Step(s, l, i),
           tot' \in [Savers -> [Counters -> Nat]]
    PROVE  SaversOK'
BY ZenonT(60) DEF SaversOK, Step

(* A step of a timer thread keeps the types.                               *)
LEMMA SaverType ==
    ASSUME TypeOK, NEW s \in Savers, SaverStart(s) \/ Saving(s)
    PROVE  TypeOK'
<1>0. /\ CountsOK /\ FileOK /\ SaversOK /\ CallbackOK /\ RestOK
      /\ tot \in [Savers -> [Counters -> Nat]] /\ tot[s] \in [Counters -> Nat]
      /\ idx[s] \in 1 .. Len(Keys) /\ Keys[idx[s]] \in Counters /\ 1 \in 1 .. Len(Keys)
  BY TypeGroups, KeysAreCounters DEF SaversOK
<1> SUFFICES CountsOK' /\ FileOK' /\ SaversOK' /\ CallbackOK' /\ RestOK'
  BY ZenonT(60), TypeGroups DEF TypeOK, CountsOK, FileOK, SaversOK, CallbackOK, RestOK
<1>1. CASE SaverStart(s)
  <2>1. SaversOK'
    BY Zenon, <1>0, <1>1, StepType DEF SaverStart, SaverLabels
  <2> QED
    BY Zenon, <1>0, <1>1, <2>1 DEF SaverStart, callback, history, CountsOK, FileOK, CallbackOK, RestOK
<1>2. CASE SaverTest(s)
  <2>1. /\ AfterTest(s) \in SaverLabels
        /\ (IF AfterTest(s) = "test" THEN idx[s] + 1 ELSE 1) \in 1 .. Len(Keys)
    BY <1>0, KeysAreCounters DEF AfterTest, SaverLabels
  <2>2. SaversOK'
    BY Zenon, <1>0, <1>2, <2>1, StepType DEF SaverTest
  <2> QED
    BY ZenonT(60), <1>0, <1>2, <2>2 DEF SaverTest, callback, history, CountsOK, FileOK, CallbackOK, RestOK
<1>3. CASE SaverLock(s)
  <2>1. tot' \in [Savers -> [Counters -> Nat]]
    BY Zenon, <1>0, <1>3, Totals DEF SaverLock, TotalsRead
  <2>2. SaversOK'
    BY Zenon, <1>0, <1>3, <2>1, StepType DEF SaverLock, SaverLabels
  <2> QED
    BY Zenon, <1>0, <1>3, <2>2 DEF SaverLock, callback, history, CountsOK, FileOK, CallbackOK, RestOK
<1>4. CASE SaverDrain(s)
  <2> DEFINE c == Keys[idx[s]]
  <2>1. mem \in [Counters -> Nat] /\ since \in [Counters -> Nat] /\ mem[c] \in Nat /\ c \in Counters
    BY Zenon, <1>0 DEF CountsOK
  <2>2. mem' \in [Counters -> Nat] /\ since' \in [Counters -> Nat]
    BY <1>4, <2>1 DEF SaverDrain, ClearCounter
  <2>3. CountsOK'
    BY Zenon, <1>0, <1>4, <2>2 DEF SaverDrain, CountsOK
  <2>4. tot' \in [Savers -> [Counters -> Nat]]
    BY <1>0, <1>4, <2>1 DEF SaverDrain
  <2>5. SaversOK'
    <3>1. CASE idx[s] = Len(Keys)
      BY Zenon, <1>0, <1>4, <2>4, <3>1, StepType DEF SaverDrain, SaverLabels
    <3>2. CASE idx[s] # Len(Keys)
      <4>1. idx[s] + 1 \in 1 .. Len(Keys)
        BY <1>0, <3>2, KeysAreCounters
      <4> QED
        BY Zenon, <1>0, <1>4, <2>4, <3>2, <4>1, StepType DEF SaverDrain, SaverLabels
    <3> QED
      BY Zenon, <3>1, <3>2
  <2> QED
    BY Zenon, <1>0, <1>4, <2>3, <2>5 DEF SaverDrain, callback, FileOK, CallbackOK, RestOK
<1>5. ASSUME SaverEnd(s) PROVE SaversOK' /\ iniLock' = NoThread
  <2>1. tot' \in [Savers -> [Counters -> Nat]]
    BY Zenon, <1>0, <1>5, Totals DEF SaverEnd
  <2> QED
    BY Zenon, <1>0, <1>5, <2>1, StepType DEF SaverEnd, SaverLabels
<1>6. CASE SaverOpen(s)
  <2>1. CountsOK' /\ CallbackOK' /\ UNCHANGED <<crashes, interrupted>>
    BY Zenon, <1>0, <1>6 DEF SaverOpen, callback, history, CountsOK, CallbackOK
  <2>2. CASE Truncate /\ Step(s, "fill", 1) /\ UNCHANGED <<tot, iniLock>>
    <3>1. SaversOK'
      BY Zenon, <1>0, <2>2, StepType DEF SaverLabels
    <3> QED
      BY Zenon, <1>0, <2>1, <2>2, <3>1, TruncateProperties DEF RestOK
  <2>3. CASE SaverEnd(s) /\ UNCHANGED file
    BY Zenon, <1>0, <1>5, <2>1, <2>3 DEF FileOK, RestOK
  <2> QED
    BY Zenon, <1>6, <2>2, <2>3 DEF SaverOpen
<1>7. CASE SaverFill(s)
  <2>1. CountsOK' /\ CallbackOK' /\ UNCHANGED <<crashes, interrupted>>
    BY Zenon, <1>0, <1>7 DEF SaverFill, callback, history, CountsOK, CallbackOK
  <2>2. FileOK' /\ SaverEnd(s)
    BY Zenon, <1>0, <1>7, FillProperties DEF SaverFill
  <2> QED
    BY Zenon, <1>0, <1>5, <2>1, <2>2 DEF RestOK
<1> QED
  BY Zenon, <1>1, <1>2, <1>3, <1>4, <1>6, <1>7 DEF Saving

(* A step of the connect callback keeps the types.                         *)
LEMMA ReporterType ==
    ASSUME TypeOK, ConnectedCallback \/ Reporting
    PROVE  TypeOK'
<1>0. /\ CountsOK /\ FileOK /\ SaversOK /\ CallbackOK /\ RestOK
      /\ Keys[1] \in Counters
  BY TypeGroups, KeysAreCounters
<1> SUFFICES CountsOK' /\ FileOK' /\ SaversOK' /\ CallbackOK' /\ RestOK'
  BY ZenonT(60), TypeGroups DEF TypeOK, CountsOK, FileOK, SaversOK, CallbackOK, RestOK
<1>1. CASE ConnectedCallback
  <2>1. CallbackOK'
    BY <1>0, <1>1 DEF ConnectedCallback, CallbackOK, ReporterLabels
  <2> QED
    BY Zenon, <1>0, <1>1, <2>1 DEF ConnectedCallback, savers, history, CountsOK, FileOK, SaversOK, RestOK
<1>2. CASE get_total_msg_count
  <2>1. CountsOK' /\ CallbackOK'
    BY Zenon, <1>0, <1>2, Totals DEF get_total_msg_count, CountsOK, CallbackOK, ReporterLabels
  <2> QED
    BY Zenon, <1>0, <1>2, <2>1 DEF get_total_msg_count, savers, FileOK, SaversOK, RestOK
<1>3. CASE SendReport
  <2>1. CallbackOK'
    BY Zenon, <1>0, <1>3 DEF SendReport, CallbackOK, ReporterLabels
  <2>2. CountsOK'
    <3>1. CASE UNCHANGED <<mem, happened, reported>>
      BY Zenon, <1>0, <1>3, <3>1 DEF SendReport, CountsOK
    <3>2. CASE reported' = Plus(reported, rep) /\ Count(Keys[1])
      <4>1. reported' \in [Counters -> Nat]
        BY Zenon, <1>0, <3>2, Totals DEF CountsOK, CallbackOK
      <4> QED
        BY Zenon, <1>0, <1>3, <3>2, <4>1, CountType DEF SendReport
    <3> QED
      BY Zenon, <1>3, <3>1, <3>2 DEF SendReport
  <2> QED
    BY Zenon, <1>0, <1>3, <2>1, <2>2 DEF SendReport, savers, FileOK, SaversOK, RestOK
<1>4. CASE ClearLock
  BY Zenon, <1>0, <1>4 DEF ClearLock, savers, history, CountsOK, FileOK, SaversOK, CallbackOK,
     RestOK, ReporterLabels
<1>5. CASE ClearOpen
  <2>1. CountsOK'
    BY <1>0, <1>5, Totals DEF ClearOpen, CountsOK
  <2>2. FileOK'
    BY Zenon, <1>0, <1>5, TruncateProperties DEF ClearOpen, FileOK
  <2>3. CallbackOK' /\ SaversOK'
    BY Zenon, <1>0, <1>5 DEF ClearOpen, savers, CallbackOK, SaversOK, ReporterLabels
  <2>4. RestOK'
    BY ZenonT(60), <1>0, <1>5 DEF ClearOpen, RestOK
  <2> QED
    BY Zenon, <2>1, <2>2, <2>3, <2>4
<1>6. CASE ClearFill
  <2>1. FileOK'
    BY Zenon, <1>6, Totals, FillProperties DEF ClearFill
  <2> QED
    BY Zenon, <1>0, <1>6, <2>1 DEF ClearFill, savers, history, CountsOK, SaversOK, CallbackOK,
       RestOK, ReporterLabels
<1> QED
  BY Zenon, <1>1, <1>2, <1>3, <1>4, <1>5, <1>6 DEF Reporting

(* msgcounter.c keeps its types: no counter and no total goes negative.    *)
THEOREM CounterTypes == Spec => []TypeOK
<1>1. Init => TypeOK
  <2> SUFFICES ASSUME Init PROVE TypeOK
    BY Zenon
  <2>1. CountsOK /\ FileOK
    BY Zenon, Totals DEF Init, CountsOK, FileOK
  <2>2. SaversOK /\ CallbackOK
    BY Totals, KeysAreCounters DEF Init, SaversOK, CallbackOK, SaverLabels, ReporterLabels
  <2>3. RestOK
    BY ZenonT(60) DEF Init, RestOK
  <2> QED
    BY Zenon, <2>1, <2>2, <2>3, TypeGroups
<1>2. TypeOK /\ [Next]_vars => TypeOK'
  <2> SUFFICES ASSUME TypeOK, [Next]_vars PROVE TypeOK'
    BY Zenon
  <2>0. CountsOK /\ FileOK /\ SaversOK /\ CallbackOK /\ RestOK
    BY Zenon, TypeGroups
  <2>1. CASE increase_msg_count
    <3>1. CountsOK'
      BY Zenon, <2>0, <2>1, CountType DEF increase_msg_count, CountsOK
    <3>2. FileOK' /\ SaversOK' /\ CallbackOK' /\ RestOK'
      BY Zenon, <2>0, <2>1 DEF increase_msg_count, savers, callback, FileOK, SaversOK, CallbackOK, RestOK
    <3> QED
      BY Zenon, <3>1, <3>2 DEF TypeOK, CountsOK, FileOK, SaversOK, CallbackOK, RestOK
  <2>2. CASE Crash
    <3>1. CountsOK' /\ FileOK'
      BY Zenon, <2>0, <2>2, Totals DEF Crash, CountsOK, FileOK
    <3>2. SaversOK' /\ CallbackOK'
      BY <2>0, <2>2, Totals, KeysAreCounters DEF Crash, SaversOK, CallbackOK, SaverLabels, ReporterLabels
    <3>3. RestOK'
      BY <2>0, <2>2 DEF Crash, RestOK
    <3> QED
      BY Zenon, <3>1, <3>2, <3>3 DEF TypeOK, CountsOK, FileOK, SaversOK, CallbackOK, RestOK
  <2>3. CASE UNCHANGED vars
    BY Zenon, <2>3 DEF vars, TypeOK
  <2> QED
    BY Zenon, <2>1, <2>2, <2>3, SaverType, ReporterType DEF Next
<1> QED
  BY <1>1, <1>2, PTL DEF Spec

-----------------------------------------------------------------------------
(* Who holds the mutex.                                                    *)

Holding(s) == spc[s] \in {"drain", "open", "fill"}

(* g_ini_file_mutex is held exactly where the code holds it, what a timer  *)
(* thread has in its hand is no less than what is in the file, and the     *)
(* file is empty while it is being cleared.                                *)
LockInv ==
    /\ \A s \in Savers : Holding(s) <=> iniLock = s
    /\ rpc \in {"clearOpen", "clearFill"} <=> iniLock = Reporter
    /\ \A s \in Savers : Holding(s) => \A c \in Counters : InFile(c) <= tot[s][c]
    /\ rpc = "clearFill" => \A c \in Counters : InFile(c) = 0

(* What is stored, seen from the thread that holds the mutex.              *)
LEMMA StoredCases ==
    ASSUME TypeOK, LockInv
    PROVE  /\ \A s \in Savers : Holding(s) => \A c \in Counters : Stored(c) = tot[s][c]
           /\ iniLock \notin Savers => \A c \in Counters : Stored(c) = InFile(c)
           /\ \A c \in Counters : Stored(c) \in Nat /\ InFile(c) \in Nat /\ InFile(c) <= Stored(c)
<1>1. \A c \in Counters : InFile(c) \in Nat
  BY Zenon, TypeGroups, Totals
<1>2. tot \in [Savers -> [Counters -> Nat]]
  BY Zenon DEF TypeOK
<1> QED
  BY <1>1, <1>2 DEF LockInv, Stored

(* What one step does to one counter: to memory, to what is stored, and to *)
(* the history of a report under way.                                      *)
Moves(c) ==
    /\ mem'[c] <= mem[c] /\ mem'[c] + Stored(c)' <= mem[c] + Stored(c)
    /\ Faults = {} => /\ mem'[c] + Stored(c)' = mem[c] + Stored(c)
                      /\ since'[c] - since[c] = Stored(c)' - Stored(c)

(* A step of a timer thread moves counts from memory towards the file: it  *)
(* makes none, and loses none unless the file cannot be written.           *)
LEMMA SaverMoves ==
    ASSUME TypeOK, TypeOK', LockInv, NEW s \in Savers, SaverStart(s) \/ Saving(s)
    PROVE  LockInv' /\ \A c \in Counters : Moves(c)
<1>0. /\ spc \in [Savers -> SaverLabels] /\ tot \in [Savers -> [Counters -> Nat]]
      /\ tot' \in [Savers -> [Counters -> Nat]]
      /\ mem \in [Counters -> Nat] /\ since \in [Counters -> Nat] /\ Keys[idx[s]] \in Counters
  BY ZenonT(60), KeysAreCounters DEF TypeOK
<1>a. ThreadsAssumption
  BY Zenon, ThreadsAssumption
<1>1. CASE SaverStart(s) \/ SaverTest(s)
  <2>1. UNCHANGED <<mem, file, iniLock, tot, rpc, since>>
    BY Zenon, <1>1 DEF SaverStart, SaverTest, callback, history
  <2>2. \A t \in Savers : Holding(t)' <=> Holding(t)
    BY Zenon, <1>0, <1>1 DEF SaverStart, SaverTest, Step, AfterTest, Holding
  <2>3. \A c \in Counters : InFile(c)' = InFile(c) /\ Stored(c)' = Stored(c)
    BY Zenon, <2>1 DEF InFile, Stored
  <2>4. LockInv'
    BY Zenon, <2>1, <2>2, <2>3 DEF LockInv
  <2> QED
    BY <1>0, <2>1, <2>3, <2>4, StoredCases DEF Moves
<1>2. CASE SaverLock(s)
  <2>1. UNCHANGED <<mem, file, rpc, since>> /\ iniLock = NoThread /\ iniLock' = s
    BY Zenon, <1>2 DEF SaverLock, callback, history
  <2>2. \A t \in Savers : Holding(t)' <=> t = s
    BY Zenon, <1>0, <1>2, <1>a DEF SaverLock, Step, Holding, LockInv
  <2>3. \A c \in Counters : InFile(c)' = InFile(c) /\ tot'[s][c] = InFile(c)
    BY Zenon, <1>0, <1>2, <2>1 DEF SaverLock, TotalsRead, read_total_msg_count, InFile
  <2>4. \A c \in Counters : Stored(c)' = InFile(c) /\ Stored(c) = InFile(c)
    BY Zenon, <1>a, <2>1, <2>3 DEF Stored
  <2>5. LockInv'
    BY Zenon, <1>a, <2>1, <2>2, <2>3, StoredCases DEF LockInv
  <2> QED
    BY <1>0, <2>1, <2>4, <2>5, StoredCases DEF Moves
<1>3. CASE SaverDrain(s)
  <2> DEFINE k == Keys[idx[s]]
  <2>1. UNCHANGED <<file, iniLock, rpc>> /\ iniLock = s /\ Holding(s)
    BY Zenon, <1>3 DEF SaverDrain, callback, Holding, LockInv
  <2>2. \A t \in Savers : Holding(t)' <=> Holding(t)
    BY Zenon, <1>0, <1>3 DEF SaverDrain, Step, Holding
  <2>3. \A c \in Counters : /\ tot'[s][c] = IF c = k THEN tot[s][c] + mem[c] ELSE tot[s][c]
                            /\ mem'[c] = IF c = k THEN 0 ELSE mem[c]
                            /\ since'[c] = IF c = k THEN since[c] + mem[c] ELSE since[c]
    BY Zenon, <1>0, <1>3 DEF SaverDrain, ClearCounter
  <2>4. \A t \in Savers \ {s} : tot'[t] = tot[t]
    BY Zenon, <1>0, <1>3 DEF SaverDrain
  <2>5. \A c \in Counters : InFile(c)' = InFile(c) /\ Stored(c)' = tot'[s][c] /\ Stored(c) = tot[s][c]
    BY Zenon, <2>1 DEF InFile, Stored
  <2>6. \A c \in Counters : mem[c] \in Nat /\ since[c] \in Nat /\ tot[s][c] \in Nat /\ InFile(c) \in Nat
    BY Zenon, <1>0, StoredCases
  <2> HIDE DEF k
  <2>7. LockInv'
    BY SMTT(60), <2>1, <2>2, <2>3, <2>4, <2>5, <2>6 DEF LockInv
  <2>8. \A c \in Counters : Moves(c)
    BY <2>3, <2>5, <2>6 DEF Moves
  <2> QED
    BY Zenon, <2>7, <2>8
<1>4. ASSUME SaverEnd(s), Holding(s), UNCHANGED <<mem, rpc, since>>,
             \A c \in Counters : InFile(c)' \in Nat /\ InFile(c)' <= tot[s][c],
             Faults = {} => \A c \in Counters : InFile(c)' = tot[s][c]
      PROVE  LockInv' /\ \A c \in Counters : Moves(c)
  <2>1. iniLock = s /\ iniLock' = NoThread /\ \A t \in Savers : ~Holding(t)'
    BY Zenon, <1>0, <1>4 DEF SaverEnd, Step, Holding, LockInv
  <2>2. LockInv'
    BY Zenon, <1>a, <1>4, <2>1 DEF LockInv
  <2>3. \A c \in Counters : Stored(c)' = InFile(c)' /\ Stored(c) = tot[s][c]
    BY Zenon, <1>a, <2>1 DEF Stored
  <2>4. \A c \in Counters : mem[c] \in Nat /\ since[c] \in Nat /\ tot[s][c] \in Nat
    BY Zenon, <1>0
  <2>5. \A c \in Counters : Moves(c)
    BY <1>4, <2>3, <2>4 DEF Moves
  <2> QED
    BY Zenon, <2>2, <2>5
<1>5. CASE SaverOpen(s)
  <2>1. UNCHANGED <<mem, rpc, since>> /\ Holding(s)
    BY Zenon, <1>5 DEF SaverOpen, callback, history, Holding
  <2>2. CASE Truncate /\ Step(s, "fill", 1) /\ UNCHANGED <<tot, iniLock>>
    <3>1. iniLock = s /\ \A t \in Savers : Holding(t)' <=> Holding(t)
      BY Zenon, <1>0, <2>1, <2>2 DEF Step, Holding, LockInv
    <3>2. \A c \in Counters : InFile(c)' = 0 /\ Stored(c)' = tot[s][c] /\ Stored(c) = tot[s][c]
      BY Zenon, <2>2, <3>1, TruncateProperties DEF Stored
    <3>3. \A t \in Savers : \A c \in Counters : tot[t][c] \in Nat
      BY Zenon, <1>0
    <3>4. LockInv'
      BY SMTT(60), <2>1, <2>2, <3>1, <3>2, <3>3 DEF LockInv
    <3> QED
      BY <1>0, <2>1, <3>2, <3>3, <3>4 DEF Moves
  <2>3. CASE "open" \in Faults /\ SaverEnd(s) /\ UNCHANGED file
    <3>1. \A c \in Counters : InFile(c)' = InFile(c) /\ InFile(c) \in Nat /\ InFile(c) <= tot[s][c]
      BY Zenon, <2>1, <2>3, StoredCases DEF InFile, LockInv
    <3> QED
      BY Zenon, <1>4, <2>1, <2>3, <3>1
  <2> QED
    BY Zenon, <1>5, <2>2, <2>3 DEF SaverOpen
<1>6. CASE SaverFill(s)
  <2>1. UNCHANGED <<mem, rpc, since>> /\ Holding(s) /\ SaverEnd(s) /\ Fill(tot[s])
    BY Zenon, <1>6 DEF SaverFill, callback, history, Holding
  <2>2. \A c \in Counters : InFile(c)' \in Nat /\ InFile(c)' <= tot[s][c]
    BY Zenon, <1>0, <2>1, FillProperties, TypeGroups, Totals DEF FileOK, InFile
  <2>3. Faults = {} => \A c \in Counters : InFile(c)' = tot[s][c]
    BY Zenon, <1>0, <2>1 DEF Fill, InFile
  <2> QED
    BY Zenon, <1>4, <2>1, <2>2, <2>3
<1> QED
  BY Zenon, <1>1, <1>2, <1>3, <1>5, <1>6 DEF Saving

-----------------------------------------------------------------------------
(* Where the events are.                                                   *)

Excess(c) == IF Stored(c) > rep[c] THEN Stored(c) - rep[c] ELSE 0

(* NoOverReport, strengthened for a report that is being sent: its totals  *)
(* are still to be reported, and may be in the file no longer when a save  *)
(* has failed meanwhile.                                                   *)
OverInv ==
    ~interrupted => \A c \in Counters :
        IF rpc = "send" THEN reported[c] + rep[c] + mem[c] + Excess(c) <= happened[c]
                        ELSE reported[c] + mem[c] + Unreported(c) <= happened[c]

(* From the reading of the totals to the clear, the file holds the totals  *)
(* read and what was drained since.                                        *)
SinceInv ==
    Faults = {} /\ crashes = 0 /\ rpc \in {"send", "clear", "clearOpen"} =>
        \A c \in Counters : Stored(c) = rep[c] + since[c]

CountInv == LockInv /\ OverInv /\ SinceInv /\ OnlyClearLoses

(* The numbers of one counter.                                             *)
Numbers ==
    \A c \in Counters : /\ mem[c] \in Nat /\ happened[c] \in Nat /\ reported[c] \in Nat
                        /\ since[c] \in Nat /\ swallowed[c] \in Nat /\ rep[c] \in Nat
                        /\ Stored(c) \in Nat

LEMMA NumbersAreNumbers == TypeOK /\ LockInv => Numbers
<1> SUFFICES ASSUME TypeOK, LockInv PROVE Numbers
  BY Zenon
<1>1. \A c \in Counters : Stored(c) \in Nat
  BY Zenon, StoredCases
<1> QED
  BY Zenon, <1>1 DEF TypeOK, Numbers

(* A step of a timer thread keeps CountInv.                                *)
LEMMA SaverCounts ==
    ASSUME TypeOK, TypeOK', CountInv, NEW s \in Savers, SaverStart(s) \/ Saving(s)
    PROVE  CountInv'
<1>1. LockInv' /\ \A c \in Counters : Moves(c)
  BY Zenon, SaverMoves DEF CountInv
<1>2. UNCHANGED <<rpc, rep, reported, happened, swallowed, interrupted, crashes>>
  BY Zenon DEF Saving, SaverStart, SaverTest, SaverLock, SaverDrain, SaverOpen, SaverFill, callback, history
<1>3. Numbers /\ Numbers'
  <2>1. LockInv
    BY Zenon DEF CountInv
  <2> QED
    BY <1>1, <2>1, NumbersAreNumbers, PTL
<1>4. OverInv'
  BY <1>1, <1>2, <1>3 DEF CountInv, OverInv, Excess, Unreported, Moves, Numbers
<1>5. SinceInv'
  BY <1>1, <1>2, <1>3 DEF CountInv, SinceInv, Moves, Numbers
<1>6. OnlyClearLoses'
  BY <1>1, <1>2, <1>3 DEF CountInv, SinceInv, OnlyClearLoses, Unreported, Moves, Numbers
<1> QED
  BY Zenon, <1>1, <1>4, <1>5, <1>6 DEF CountInv

(* A step of the connect callback keeps CountInv.                          *)
LEMMA ReporterCounts ==
    ASSUME TypeOK, TypeOK', CountInv, ConnectedCallback \/ Reporting
    PROVE  CountInv'
<1>0. Numbers /\ LockInv /\ OverInv /\ SinceInv /\ OnlyClearLoses
  BY Zenon, NumbersAreNumbers DEF CountInv
<1>a. ThreadsAssumption
  BY Zenon, ThreadsAssumption
<1>b. UNCHANGED spc /\ UNCHANGED tot /\ \A s \in Savers : Holding(s)' <=> Holding(s)
  BY Zenon DEF ConnectedCallback, Reporting, get_total_msg_count, SendReport, ClearLock, ClearOpen,
     ClearFill, savers, Holding
<1>1. CASE ConnectedCallback
  <2>1. /\ UNCHANGED <<mem, file, iniLock, rep, crashes, happened, reported, since, swallowed, interrupted>>
        /\ rpc = "idle" /\ rpc' = "read"
    BY Zenon, <1>1 DEF ConnectedCallback, history
  <2>2. \A c \in Counters : InFile(c)' = InFile(c) /\ Stored(c)' = Stored(c)
    BY Zenon, <1>b, <2>1 DEF InFile, Stored
  <2>3. LockInv'
    BY Zenon, <1>0, <1>b, <2>1, <2>2 DEF LockInv
  <2> QED
    BY Zenon, <1>0, <2>1, <2>2, <2>3 DEF CountInv, OverInv, SinceInv, OnlyClearLoses, Unreported
<1>2. CASE get_total_msg_count
  <2>1. /\ UNCHANGED <<mem, file, iniLock, crashes, happened, reported, swallowed, interrupted>>
        /\ rpc = "read" /\ rpc' \in {"idle", "send"} /\ iniLock = NoThread
    BY Zenon, <1>2 DEF get_total_msg_count
  <2>2. \A c \in Counters : InFile(c)' = InFile(c) /\ Stored(c)' = Stored(c)
    BY Zenon, <1>b, <2>1 DEF InFile, Stored
  <2>3. \A c \in Counters : rep'[c] = Stored(c) /\ since'[c] = 0
    BY Zenon, <1>a, <1>2, <2>1 DEF get_total_msg_count, read_total_msg_count, Stored, Zero
  <2>4. LockInv'
    BY Zenon, <1>0, <1>b, <2>1, <2>2 DEF LockInv
  <2>5. OverInv'
    BY SMTT(60), <1>0, <2>1, <2>2, <2>3 DEF OverInv, Excess, Unreported, Numbers
  <2>6. SinceInv' /\ OnlyClearLoses'
    BY <1>0, <2>1, <2>2, <2>3 DEF SinceInv, OnlyClearLoses, Unreported, Numbers
  <2> QED
    BY Zenon, <2>4, <2>5, <2>6 DEF CountInv
<1>3. CASE SendReport
  <2>1. UNCHANGED <<file, iniLock, rep, crashes, since, swallowed, interrupted>> /\ rpc = "send"
    BY Zenon, <1>3 DEF SendReport
  <2>2. \A c \in Counters : InFile(c)' = InFile(c) /\ Stored(c)' = Stored(c)
    BY Zenon, <1>b, <2>1 DEF InFile, Stored
  <2>3. CASE rpc' = "idle" /\ UNCHANGED <<mem, happened, reported>>
    <3>1. LockInv'
      BY Zenon, <1>0, <1>b, <2>1, <2>2, <2>3 DEF LockInv
    <3>2. OverInv'
      BY SMTT(60), <1>0, <2>1, <2>2, <2>3 DEF OverInv, Excess, Unreported, Numbers
    <3>3. SinceInv' /\ OnlyClearLoses'
      BY Zenon, <1>0, <2>1, <2>2, <2>3 DEF SinceInv, OnlyClearLoses, Unreported, Numbers
    <3> QED
      BY Zenon, <3>1, <3>2, <3>3 DEF CountInv
  <2>4. CASE rpc' = "clear" /\ reported' = Plus(reported, rep) /\ Count(Keys[1])
    <3>1. LockInv'
      BY Zenon, <1>0, <1>b, <2>1, <2>2, <2>4 DEF LockInv
    <3>2. \A c \in Counters : /\ reported'[c] = reported[c] + rep[c]
                              /\ mem'[c] - mem[c] = happened'[c] - happened[c]
      <4>1. mem \in [Counters -> Nat] /\ happened \in [Counters -> Nat]
        BY Zenon DEF TypeOK
      <4>2. \A c \in Counters : mem'[c] - mem[c] = happened'[c] - happened[c]
        BY <2>4, <4>1 DEF Count
      <4> QED
        BY Zenon, <2>4, <4>2 DEF Plus
    <3>3. Numbers'
      BY <3>1, NumbersAreNumbers, PTL
    <3>4. OverInv'
      BY SMTT(60), <1>0, <2>1, <2>2, <2>4, <3>2, <3>3 DEF OverInv, Excess, Unreported, Numbers
    <3>5. SinceInv'
      BY Zenon, <1>0, <2>1, <2>2, <2>4 DEF SinceInv
    <3>6. OnlyClearLoses'
      BY SMTT(60), <1>0, <2>1, <2>2, <2>4, <3>2, <3>3 DEF SinceInv, OnlyClearLoses, Unreported, Numbers
    <3> QED
      BY Zenon, <3>1, <3>4, <3>5, <3>6 DEF CountInv
  <2> QED
    BY Zenon, <1>3, <2>3, <2>4 DEF SendReport
<1>4. CASE ClearLock
  <2>1. /\ UNCHANGED <<mem, file, rep, crashes, happened, reported, since, swallowed, interrupted>>
        /\ rpc = "clear" /\ rpc' = "clearOpen" /\ iniLock = NoThread /\ iniLock' = Reporter
    BY Zenon, <1>4 DEF ClearLock, history
  <2>2. \A c \in Counters : InFile(c)' = InFile(c) /\ Stored(c)' = Stored(c)
    BY Zenon, <1>a, <1>b, <2>1 DEF InFile, Stored
  <2>3. LockInv'
    BY ZenonT(60), <1>0, <1>a, <1>b, <2>1, <2>2 DEF LockInv
  <2> QED
    BY Zenon, <1>0, <2>1, <2>2, <2>3 DEF CountInv, OverInv, SinceInv, OnlyClearLoses, Unreported
<1>5. CASE ClearOpen
  <2>1. UNCHANGED <<mem, rep, crashes, happened, reported, since>> /\ rpc = "clearOpen"
    BY Zenon, <1>5 DEF ClearOpen
  <2>2. iniLock = Reporter /\ iniLock \notin Savers
    BY Zenon, <1>0, <1>a, <2>1 DEF LockInv
  <2>3. CASE /\ Truncate /\ rpc' = "clearFill" /\ swallowed' = Plus(swallowed, since)
             /\ UNCHANGED <<iniLock, interrupted>>
    <3>1. \A c \in Counters : InFile(c)' = 0 /\ Stored(c)' = 0
      BY Zenon, <2>2, <2>3, TruncateProperties DEF Stored
    <3>2. LockInv'
      BY Zenon, <1>0, <1>a, <1>b, <2>1, <2>2, <2>3, <3>1 DEF LockInv
    <3>3. \A c \in Counters : swallowed'[c] = swallowed[c] + since[c]
      BY Zenon, <2>3 DEF Plus
    <3>4. OverInv' /\ SinceInv'
      BY <1>0, <2>1, <2>3, <3>1 DEF OverInv, SinceInv, Unreported, Numbers
    <3>5. OnlyClearLoses'
      BY <1>0, <2>1, <2>3, <3>1, <3>3 DEF SinceInv, OnlyClearLoses, Unreported, Numbers
    <3> QED
      BY Zenon, <3>2, <3>4, <3>5 DEF CountInv
  <2>4. CASE /\ "open" \in Faults /\ rpc' = "idle" /\ iniLock' = NoThread
             /\ interrupted' = TRUE /\ UNCHANGED <<file, swallowed>>
    <3>1. \A c \in Counters : InFile(c)' = InFile(c)
      BY Zenon, <2>4 DEF InFile
    <3>2. LockInv'
      BY Zenon, <1>0, <1>a, <1>b, <2>1, <2>2, <2>4, <3>1 DEF LockInv
    <3> QED
      BY Zenon, <2>4, <3>2 DEF CountInv, OverInv, SinceInv, OnlyClearLoses
  <2> QED
    BY ZenonT(60), <1>5, <2>3, <2>4 DEF ClearOpen
<1>6. CASE ClearFill
  <2>1. /\ UNCHANGED <<mem, rep, crashes, happened, reported, since, swallowed, interrupted>>
        /\ rpc = "clearFill" /\ rpc' = "idle" /\ iniLock' = NoThread /\ Fill(Zero)
    BY Zenon, <1>6 DEF ClearFill, history
  <2>2. iniLock = Reporter
    BY Zenon, <1>0, <2>1 DEF LockInv
  <2>3. \A c \in Counters : InFile(c)' \in Nat /\ InFile(c)' <= 0
    <3>1. \A c \in Counters : InFile(c)' <= Zero[c]
      BY Zenon, <2>1, Totals, FillProperties
    <3>2. \A c \in Counters : InFile(c)' \in Nat
      BY Zenon, TypeGroups DEF TypeOK, InFile
    <3> QED
      BY Zenon, <3>1, <3>2 DEF Zero
  <2>4. \A c \in Counters : Stored(c)' = 0 /\ Stored(c) = 0 /\ InFile(c)' = 0
    BY SMTT(60), <1>0, <1>a, <2>1, <2>2, <2>3 DEF Stored, LockInv
  <2>5. LockInv'
    BY ZenonT(60), <1>0, <1>a, <1>b, <2>1, <2>2 DEF LockInv
  <2> QED
    BY Zenon, <1>0, <2>1, <2>4, <2>5 DEF CountInv, OverInv, SinceInv, OnlyClearLoses, Unreported
<1> QED
  BY Zenon, <1>1, <1>2, <1>3, <1>4, <1>5, <1>6 DEF Reporting

(* A crash keeps CountInv: memory is lost, and the file has no more than   *)
(* was stored.                                                             *)
LEMMA CrashCounts ==
    ASSUME TypeOK, CountInv, Crash
    PROVE  CountInv'
<1>0. Numbers /\ LockInv /\ OverInv
  BY Zenon, NumbersAreNumbers DEF CountInv
<1>a. ThreadsAssumption
  BY Zenon, ThreadsAssumption
<1>1. /\ iniLock' = NoThread /\ rpc' = "idle" /\ UNCHANGED <<file, happened, reported>>
      /\ \A c \in Counters : mem'[c] = 0
      /\ \A s \in Savers : ~Holding(s)'
  BY Zenon DEF Crash, Zero, Holding
<1>2. crashes' # 0
  BY DEF Crash, TypeOK
<1>3. \A c \in Counters : InFile(c)' = InFile(c)
  BY Zenon, <1>1 DEF InFile
<1>4. \A c \in Counters : Stored(c)' \in Nat /\ Stored(c)' <= Stored(c)
  BY Zenon, <1>0, <1>a, <1>1, <1>3, StoredCases DEF Stored
<1>5. LockInv'
  BY Zenon, <1>a, <1>1 DEF LockInv
<1>6. ~interrupted' => ~interrupted /\ rpc \notin {"clear", "clearOpen"}
  BY ZenonT(60) DEF Crash
<1>7. OverInv'
  BY <1>0, <1>1, <1>4, <1>6 DEF OverInv, Excess, Unreported, Numbers
<1> QED
  BY Zenon, <1>2, <1>1, <1>5, <1>7 DEF CountInv, SinceInv, OnlyClearLoses

(* CountInv is an invariant.                                               *)
LEMMA CountInvariant == Spec => []CountInv
<1>1. Init => CountInv
  <2> SUFFICES ASSUME Init PROVE CountInv
    BY Zenon
  <2>1. /\ iniLock = NoThread /\ rpc = "idle" /\ \A s \in Savers : ~Holding(s)
        /\ \A c \in Counters : /\ mem[c] = 0 /\ reported[c] = 0 /\ happened[c] = 0
                               /\ swallowed[c] = 0 /\ InFile(c) = 0
    BY Zenon DEF Init, Zero, Holding, InFile
  <2>2. \A c \in Counters : Unreported(c) = 0
    BY Zenon, <2>1, ThreadsAssumption DEF Unreported, Stored
  <2> QED
    BY <2>1, <2>2, ThreadsAssumption DEF CountInv, LockInv, OverInv, SinceInv, OnlyClearLoses
<1>2. TypeOK /\ TypeOK' /\ CountInv /\ [Next]_vars => CountInv'
  <2> SUFFICES ASSUME TypeOK, TypeOK', CountInv, [Next]_vars PROVE CountInv'
    BY Zenon
  <2>0. Numbers /\ LockInv
    BY Zenon, NumbersAreNumbers DEF CountInv
  <2>1. CASE increase_msg_count
    <3>1. UNCHANGED <<file, iniLock, spc, tot, rpc, rep, crashes, reported, since, swallowed, interrupted>>
      BY Zenon, <2>1 DEF increase_msg_count, savers, callback
    <3>2. \A c \in Counters : /\ InFile(c)' = InFile(c) /\ Stored(c)' = Stored(c)
                              /\ Unreported(c)' = Unreported(c) /\ Excess(c)' = Excess(c)
      BY Zenon, <3>1 DEF InFile, Stored, Unreported, Excess
    <3>3. \A s \in Savers : Holding(s)' <=> Holding(s)
      BY Zenon, <3>1 DEF Holding
    <3>4. LockInv'
      BY ZenonT(60), <2>0, <3>1, <3>2, <3>3 DEF LockInv
    <3>5. PICK e \in Counters : Count(e)
      BY Zenon, <2>1 DEF increase_msg_count
    <3>6. mem \in [Counters -> Nat] /\ happened \in [Counters -> Nat]
      BY ZenonT(60) DEF TypeOK
    <3>7. \A c \in Counters : /\ mem'[c] = IF c = e THEN mem[c] + 1 ELSE mem[c]
                              /\ happened'[c] = IF c = e THEN happened[c] + 1 ELSE happened[c]
      BY Zenon, <3>5, <3>6 DEF Count
    <3>8. \A c \in Counters : Unreported(c) \in Nat /\ Excess(c) \in Nat
      BY <2>0 DEF Unreported, Excess, Numbers
    <3>9. OverInv'
      BY <2>0, <3>1, <3>2, <3>7, <3>8 DEF CountInv, OverInv, Numbers
    <3>10. SinceInv'
      BY Zenon, <3>1, <3>2 DEF CountInv, SinceInv
    <3>11. OnlyClearLoses'
      <4> SUFFICES ASSUME Faults = {}, crashes' = 0, NEW c \in Counters
                   PROVE  happened'[c] = reported'[c] + mem'[c] + Unreported(c)' + swallowed'[c]
        BY Zenon DEF OnlyClearLoses
      <4>1. /\ happened[c] = reported[c] + mem[c] + Unreported(c) + swallowed[c]
            /\ reported'[c] = reported[c] /\ swallowed'[c] = swallowed[c]
            /\ Unreported(c)' = Unreported(c)
        BY Zenon, <3>1, <3>2 DEF CountInv, OnlyClearLoses
      <4>2. /\ mem[c] \in Nat /\ reported[c] \in Nat /\ swallowed[c] \in Nat
            /\ Unreported(c) \in Nat
        BY Zenon, <2>0, <3>8 DEF Numbers
      <4> HIDE DEF Unreported
      <4> QED
        BY <3>7, <4>1, <4>2
    <3> QED
      BY Zenon, <3>4, <3>9, <3>10, <3>11 DEF CountInv
  <2>2. CASE UNCHANGED vars
    BY Zenon, <2>2 DEF vars, CountInv, LockInv, OverInv, SinceInv, OnlyClearLoses, Holding, Unreported,
       Excess, Stored, InFile
  <2> QED
    BY Zenon, <2>1, <2>2, SaverCounts, ReporterCounts, CrashCounts DEF Next
<1> QED
  BY <1>1, <1>2, CounterTypes, PTL DEF Spec

(* No event is reported twice unless the clear after an accepted report    *)
(* was cut off: for any number of overlapping saves, under every fault and *)
(* any number of crashes.                                                  *)
THEOREM NoEventReportedTwice == Spec => []NoOverReport
<1>1. TypeOK /\ CountInv => NoOverReport
  BY NumbersAreNumbers DEF CountInv, OverInv, NoOverReport, Excess, Unreported, Numbers
<1> QED
  BY <1>1, CounterTypes, CountInvariant, PTL

(* Without faults and crashes an event is lost only when it is saved       *)
(* between a report's reading of the totals and its clear of the file.     *)
THEOREM LostOnlyAtClear == Spec => []OnlyClearLoses
<1>1. CountInv => OnlyClearLoses
  BY Zenon DEF CountInv
<1> QED
  BY <1>1, CountInvariant, PTL

-----------------------------------------------------------------------------
(* The launches of the hub.                                                *)

\* A process that lockf let pass has the lock until it is gone.
HasLock(p) == pc[p] \in {"start", "run", "ended"} /\ p \notin lockless => holder = p

LaunchInv ==
    /\ pc \in [Process -> {"gone", "open", "test", "lock", "start", "run", "ended"}]
    /\ lockless \subseteq Process /\ holder \in Process \cup {NoProcess}
    /\ \A p \in Process : HasLock(p)

LEMMA LaunchInvInit == ASSUME LaunchInit PROVE LaunchInv
  BY Zenon DEF LaunchInit, LaunchInv, HasLock

LEMMA LaunchInvStep ==
  ASSUME LaunchInv, [LaunchNext]_launchVars
  PROVE  LaunchInv'
<1>1. CASE UNCHANGED launchVars
  BY Zenon, <1>1 DEF LaunchInv, HasLock, launchVars
<1>2. ASSUME NEW p \in Process, Launch(p) PROVE LaunchInv'
  BY Zenon, <1>2 DEF Launch, Goto, LaunchInv, HasLock
<1>3. ASSUME NEW p \in Process, OpenLockFile(p) \/ OpenFails(p) PROVE LaunchInv'
  BY Zenon, <1>3 DEF OpenLockFile, OpenFails, Goto, LaunchInv, HasLock
<1>4. ASSUME NEW p \in Process, TestLock(p) PROVE LaunchInv'
  BY Zenon, <1>4 DEF TestLock, Goto, LaunchInv, HasLock
<1>5. ASSUME NEW p \in Process, TakeLock(p) PROVE LaunchInv'
  BY Zenon, <1>5, ProcessAssumption DEF TakeLock, Goto, LaunchInv, HasLock
<1>6. ASSUME NEW p \in Process, write_run_version(p) PROVE LaunchInv'
  BY Zenon, <1>6 DEF write_run_version, Goto, LaunchInv, HasLock
<1>7. ASSUME NEW p \in Process, clear_run_version(p) \/ ProcessCrash(p) PROVE LaunchInv'
  BY Zenon, <1>7, ProcessAssumption DEF clear_run_version, ProcessCrash, Goto, LaunchInv, HasLock
<1> QED
  BY Zenon, <1>1, <1>2, <1>3, <1>4, <1>5, <1>6, <1>7 DEF LaunchNext, LaunchStep

\* lockf F_TEST and F_LOCK of single_instance_app: of the launches that could open the
\* lock file at most one is past it, however many there are and whenever they crash.
THEOREM OneWithLock == LaunchSpec => []OnlyOneWithLock
<1>1. LaunchInit => LaunchInv
  BY Zenon, LaunchInvInit
<1>2. LaunchInv /\ [LaunchNext]_launchVars => LaunchInv'
  BY Zenon, LaunchInvStep
<1>3. LaunchInv => OnlyOneWithLock
  BY Zenon DEF LaunchInv, HasLock, OnlyOneWithLock, Past
<1> QED
  BY <1>1, <1>2, <1>3, PTL DEF LaunchSpec

-----------------------------------------------------------------------------

\* As long as every launch could open the lock file none runs without the lock, and the
\* one that has written the version file and not deleted it is the one that runs.
VersionInv == (~openFailed => lockless = {}) /\ VersionOfRunning

LEMMA VersionStep ==
  ASSUME LaunchInv, VersionInv, [LaunchNext]_launchVars
  PROVE  VersionInv'
<1>1. CASE UNCHANGED launchVars
  BY Zenon, <1>1 DEF VersionInv, VersionOfRunning, launchVars
<1>2. ASSUME NEW p \in Process, Launch(p) \/ OpenLockFile(p) \/ TestLock(p) \/ TakeLock(p)
      PROVE  VersionInv'
  BY Zenon, <1>2 DEF Launch, OpenLockFile, TestLock, TakeLock, Goto, LaunchInv, VersionInv,
              VersionOfRunning
<1>3. ASSUME NEW p \in Process, write_run_version(p) \/ clear_run_version(p)
      PROVE  VersionInv'
  <2>1. ~openFailed =>
           \A q \in Process : pc[q] = "run" /\ pc[p] \in {"start", "run", "ended"} => q = p
    BY Zenon DEF LaunchInv, HasLock, VersionInv
  <2>2. CASE write_run_version(p)
    <3>1. lockless' = lockless /\ openFailed' = openFailed
      BY Zenon, <2>2 DEF write_run_version
    <3>2. ASSUME ~openFailed', NEW q \in Process, pc'[q] = "run", q \notin versionless' PROVE version' = q
      <4>1. CASE q = p
        BY Zenon, <2>2, <3>2, <4>1 DEF write_run_version
      <4>2. CASE q # p
        <5>1. pc[p] = "start" /\ pc' = [pc EXCEPT ![p] = "run"]
          BY Zenon, <2>2 DEF write_run_version, Goto
        <5>2. pc[q] = "run"
          BY Zenon, <3>2, <4>2, <5>1 DEF LaunchInv
        <5> QED
          BY Zenon, <2>1, <3>1, <3>2, <4>2, <5>1, <5>2
      <4> QED
        BY Zenon, <4>1, <4>2
    <3> QED
      BY Zenon, <3>1, <3>2 DEF VersionInv, VersionOfRunning
  <2>3. CASE clear_run_version(p)
    BY Zenon, <2>1, <2>3 DEF clear_run_version, Goto, LaunchInv, VersionInv, VersionOfRunning
  <2> QED
    BY Zenon, <1>3, <2>2, <2>3
<1>4. ASSUME NEW p \in Process, ProcessCrash(p) PROVE VersionInv'
  BY Zenon, <1>4 DEF ProcessCrash, LaunchInv, VersionInv, VersionOfRunning
<1>5. ASSUME NEW p \in Process, OpenFails(p) PROVE VersionInv'
  BY Zenon, <1>5 DEF OpenFails, VersionInv, VersionOfRunning
<1> QED
  BY Zenon, <1>1, <1>2, <1>3, <1>4, <1>5 DEF LaunchNext, LaunchStep

\* clear_run_version runs before the lock goes: while an instance runs that could write
\* the version file, the file is its own, as long as every launch could open the lock file.
THEOREM VersionIsOfRunning == LaunchSpec => []VersionOfRunning
<1>1. LaunchInit => LaunchInv /\ VersionInv
  BY Zenon, LaunchInvInit DEF LaunchInit, VersionInv, VersionOfRunning
<1>2. LaunchInv /\ VersionInv /\ [LaunchNext]_launchVars => LaunchInv' /\ VersionInv'
  BY Zenon, LaunchInvStep, VersionStep
<1>3. VersionInv => VersionOfRunning
  BY Zenon DEF VersionInv
<1> QED
  BY <1>1, <1>2, <1>3, PTL DEF LaunchSpec

-----------------------------------------------------------------------------
(* The body of a request.                                                  *)

\* A payload that is an object has been completed: parsing it again adds nothing, at any
\* time, if the MAC is not known.
Settled(body) == Has(body.payload, "object") =>
    body.payload = [object |-> body.payload.object] /\ {"sn", "time"} \subseteq DOMAIN body.payload.object

\* The content of a text that is parsed again.
AsItIs(body) ==
    [topic |-> body.topic, payload |-> body.payload,
     qos |-> LET q == json_helper_get_int(body, "qos", 0) IN IF q \in 0 .. 2 THEN q ELSE 0,
     cache_priority |-> json_helper_get_int(body, "cache_priority", Default)]

\* The text in the cache says all of what the worker tried to send, and a worker tries once.
BodyInv ==
    /\ cached # Empty => Accepted(cached) /\ Settled(cached) /\ first = AsItIs(cached)
    /\ cached # Empty \/ second # Empty => first # Empty
    /\ second # Empty => second = first

LEMMA CompletedKeeps ==
  ASSUME NEW o, NEW mac
  PROVE  /\ {"sn", "time"} \subseteq DOMAIN Completed(o, mac)
         /\ {"sn", "time"} \subseteq DOMAIN o => Completed(o, Empty) = o
  BY Zenon DEF Completed, AddIfAbsent, Has

\* Parsing settles the payload and leaves the other members alone.
LEMMA ParsedIsSettled ==
  ASSUME NEW body, NEW mac, Accepted(body)
  PROVE  LET text == Parsed(body, mac) IN
         Accepted(text) /\ Settled(text) /\ Content(body, mac) = AsItIs(text)
<1> DEFINE text == Parsed(body, mac)
<1>1. CASE Has(body.payload, "object")
  <2> DEFINE o == Completed(body.payload.object, mac)
  <2>1. text = [body EXCEPT !.payload = [object |-> o]]
    BY Zenon, <1>1 DEF Parsed
  <2>2. {"sn", "time"} \subseteq DOMAIN o
    BY Zenon, CompletedKeeps
  <2> HIDE DEF o, text
  <2>3. /\ DOMAIN text = DOMAIN body /\ text.payload = [object |-> o]
        /\ text.topic = body.topic /\ text["qos"] = body["qos"]
        /\ text["cache_priority"] = body["cache_priority"]
    BY <2>1 DEF Accepted, Has
  <2>4. Accepted(text)
    BY Zenon, <2>3 DEF Accepted, Has
  <2>5. Settled(text)
    BY <2>2, <2>3 DEF Settled, Has
  <2>6. Content(body, mac) = AsItIs(text)
    BY Zenon, <2>3 DEF Content, AsItIs, json_helper_get_int, Has, text
  <2> QED
    BY Zenon, <2>4, <2>5, <2>6 DEF text
<1>2. CASE ~Has(body.payload, "object")
  BY Zenon, <1>2 DEF Parsed, Settled, Content, AsItIs
<1> QED
  BY Zenon, <1>1, <1>2

LEMMA SettledIsSent ==
  ASSUME NEW body, Settled(body), Accepted(body)
  PROVE  Content(body, Empty) = AsItIs(body)
<1>1. Parsed(body, Empty).payload = body.payload
  <2>1. CASE Has(body.payload, "object")
    <3>1. Completed(body.payload.object, Empty) = body.payload.object
      BY Zenon, <2>1, CompletedKeeps DEF Settled
    <3> QED
      BY Zenon, <2>1, <3>1 DEF Settled, Parsed, Accepted, Has
  <2> QED
    BY Zenon, <2>1 DEF Parsed
<1> QED
  BY Zenon, <1>1 DEF Content, AsItIs

\* parse_mqtt_send_request_body is run again by the drain, at any later time and without
\* the MAC: what it finds in the cached text is what it found in the request, for any
\* bodies with any members.
THEOREM DrainedIsTheSame ==
  ASSUME EmptyAssumption
  PROVE  BodySpec => []DrainSendsTheSame
<1>1. BodyInit => BodyInv
  BY Zenon DEF BodyInit, BodyInv
<1>2. BodyInv /\ [BodyNext]_bodyVars => BodyInv'
  <2> SUFFICES ASSUME BodyInv, [BodyNext]_bodyVars PROVE BodyInv'
    BY Zenon
  <2>1. CASE SendFails
    <3> DEFINE body == request.body
               text == Parsed(body, request.mac)
    <3>1. /\ first = Empty /\ Accepted(body) /\ second' = second
          /\ first' = Content(body, request.mac) /\ cached' = text
      BY Zenon, <2>1 DEF SendFails, CachedText
    <3>2. first' # Empty
      BY Zenon, <3>1 DEF EmptyAssumption, Content
    <3>3. Accepted(text) /\ Settled(text) /\ first' = AsItIs(text)
      BY Zenon, <3>1, ParsedIsSettled
    <3> HIDE DEF text
    <3> QED
      BY Zenon, <3>1, <3>2, <3>3 DEF BodyInv
  <2>2. CASE Drain
    <3>1. second' = first /\ first' = first /\ cached' = Empty /\ first # Empty
      BY Zenon, <2>2, SettledIsSent DEF Drain, BodyInv
    <3> QED
      BY Zenon, <3>1 DEF BodyInv
  <2>3. CASE UNCHANGED <<first, cached, second>>
    BY Zenon, <2>3 DEF BodyInv
  <2> QED
    BY Zenon, <2>1, <2>2, <2>3 DEF BodyNext, Refuse, Receive, TimePasses, bodyVars
<1>3. BodyInv => DrainSendsTheSame
  BY Zenon DEF BodyInv, DrainSendsTheSame
<1> QED
  BY <1>1, <1>2, <1>3, PTL DEF BodySpec

=============================================================================
