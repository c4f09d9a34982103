----------------------------- MODULE MsgCounter -----------------------------
(***************************************************************************)
(* The message counter of the hub (msgcounter.c): four counters in memory, *)
(* and the file that keeps their totals until they are reported.  Threads  *)
(* that send or discard messages count them; timer threads add the         *)
(* counters to the file (schedulejob.c); the MQTT connect callback reports *)
(* the totals and then clears the file (app.c).                            *)
(*                                                                         *)
(* A step is one critical section on a counter, one operation on the file, *)
(* or one call into the MQTT client.                                       *)
(***************************************************************************)
EXTENDS Integers, Sequences

CONSTANTS
    Savers,         \* timer threads (sig_alarm_handler) that can be alive
    Reporter,       \* the thread of the MQTT callback
    NoThread,
    MaxEvents,      \* bound: messages counted in a behaviour
    MaxReports,     \* bound: connections in a behaviour
    MaxCrashes,     \* bound: crashes of the process in a behaviour
    Faults          \* what may go wrong around the hub: see FaultKinds

FaultKinds == {"open",  \* fopen(file, "w") fails
               "fill"}  \* not all the bytes reach the file

ASSUME ThreadsAssumption == Reporter \notin Savers /\ NoThread \notin Savers \cup {Reporter}
ASSUME BoundsAssumption == MaxEvents \in Nat /\ MaxReports \in Nat /\ MaxCrashes \in Nat
ASSUME FaultsAssumption == Faults \subseteq FaultKinds

VARIABLES
    mem,            \* g_sent_msg_count, g_online_discarded_msg_count, ...
    file,           \* msgcounter.ini: the keys in it and their values
    iniLock,        \* who holds g_ini_file_mutex
    spc, idx, tot,  \* per saver: where it is, the counter it is at, its totals
    rpc, rep,       \* the callback: where it is, the totals it reports
    reports,        \* connections so far
    crashes,        \* crashes so far
    happened,       \* events counted
    reported,       \* events in the reports the MQTT client accepted
    since,          \* events drained since the totals in rep were read
    swallowed,      \* events drained between a report's reading and its clear
    interrupted     \* an accepted report was not followed by its clear

vars == <<mem, file, iniLock, spc, idx, tot, rpc, rep, reports, crashes, happened,
          reported, since, swallowed, interrupted>>

savers   == <<spc, idx, tot>>
callback == <<rpc, rep, reports>>
history  == <<happened, reported, since, swallowed, interrupted>>

(* The keys of the file, in the order the code goes through the counters.  *)
Keys == <<"sentcount", "onlinediscardcount", "offlinediscardcount", "offlinesentcount">>

Counters == {Keys[i] : i \in 1 .. Len(Keys)}

Zero == [c \in Counters |-> 0]

Plus(f, g) == [c \in Counters |-> f[c] + g[c]]

-----------------------------------------------------------------------------
(* The file.                                                               *)

InFile(c) == IF c \in DOMAIN file THEN file[c] ELSE 0

(* A file that is missing or empty, or a key that is not in it, reads as 0.*)
read_total_msg_count == [c \in Counters |-> InFile(c)]

(* fopen(file, "w") truncates the file.                                    *)
Truncate == file' = [c \in {} |-> 0]

(* The four lines reach the file together, when it is closed.  On a full   *)
(* disk a prefix of them does; a number that is cut short is a smaller one.*)
Fill(totals) ==
    \/ file' = totals
    \/ /\ "fill" \in Faults
       /\ \E n \in 1 .. Len(Keys) : \E cut \in 0 .. totals[Keys[n]] :
             file' = [c \in {Keys[i] : i \in 1 .. n} |->
                         IF c = Keys[n] THEN cut ELSE totals[c]]

-----------------------------------------------------------------------------
(* The threads that count.                                                 *)

Count(c) ==
    /\ mem' = [mem EXCEPT ![c] = @ + 1]
    /\ happened' = [happened EXCEPT ![c] = @ + 1]

Events == happened[Keys[1]] + happened[Keys[2]] + happened[Keys[3]] + happened[Keys[4]]

(* increase_sent_msg_count and its three siblings.                         *)
increase_msg_count ==
    /\ Events < MaxEvents
    /\ \E c \in Counters : Count(c)
    /\ UNCHANGED <<file, iniLock, savers, callback, crashes, reported, since, swallowed,
                   interrupted>>

-----------------------------------------------------------------------------
(* The timer threads: save_msg_count_to_file.                              *)

Step(s, label, i) ==
    /\ spc' = [spc EXCEPT ![s] = label]
    /\ idx' = [idx EXCEPT ![s] = i]

(* sync_msg_count_file: a tick of the timer starts a thread, whether or    *)
(* not that of the last tick has ended.                                    *)
SaverStart(s) ==
    /\ spc[s] = "none"
    /\ Step(s, "test", 1)
    /\ UNCHANGED <<mem, file, iniLock, tot, callback, crashes, history>>

(* Mutant: || in place of &&.                                              *)
AfterTestAnyZero(s) ==
    IF mem[Keys[idx[s]]] = 0 THEN "none" ELSE IF idx[s] = Len(Keys) THEN "lock" ELSE "test"

(* "g_sent_msg_count == 0 && ...", each counter read without its mutex.    *)
AfterTest(s) ==
    IF mem[Keys[idx[s]]] # 0 THEN "lock" ELSE IF idx[s] = Len(Keys) THEN "none" ELSE "test"

SaverTest(s) ==
    /\ spc[s] = "test"
    /\ Step(s, AfterTest(s), IF AfterTest(s) = "test" THEN idx[s] + 1 ELSE 1)
    /\ UNCHANGED <<mem, file, iniLock, tot, callback, crashes, history>>

(* Mutant: the totals in the file are not read first.                      *)
TotalsUnread == Zero

TotalsRead == read_total_msg_count

SaverLock(s) ==
    /\ spc[s] = "lock" /\ iniLock = NoThread
    /\ iniLock' = s
    /\ tot' = [tot EXCEPT ![s] = TotalsRead]
    /\ Step(s, "drain", 1)
    /\ UNCHANGED <<mem, file, callback, crashes, history>>

(* Mutant: the counter is not set back to 0.                               *)
LeaveCounter(c) == UNCHANGED mem

ClearCounter(c) == mem' = [mem EXCEPT ![c] = 0]

(* One counter, under its own mutex: added to the total and set to 0.      *)
SaverDrain(s) ==
    LET c == Keys[idx[s]] IN
    /\ spc[s] = "drain"
    /\ tot' = [tot EXCEPT ![s][c] = @ + mem[c]]
    /\ since' = [since EXCEPT ![c] = @ + mem[c]]
    /\ ClearCounter(c)
    /\ IF idx[s] = Len(Keys) THEN Step(s, "open", 1) ELSE Step(s, "drain", idx[s] + 1)
    /\ UNCHANGED <<file, iniLock, callback, crashes, happened, reported, swallowed, interrupted>>

SaverEnd(s) ==
    /\ Step(s, "none", 1)
    /\ tot' = [tot EXCEPT ![s] = Zero]
    /\ iniLock' = NoThread

(* save_to_file.  Nobody looks at its return code.                         *)
SaverOpen(s) ==
    /\ spc[s] = "open"
    /\ \/ Truncate /\ Step(s, "fill", 1) /\ UNCHANGED <<tot, iniLock>>
       \/ "open" \in Faults /\ SaverEnd(s) /\ UNCHANGED file
    /\ UNCHANGED <<mem, callback, crashes, history>>

SaverFill(s) ==
    /\ spc[s] = "fill"
    /\ Fill(tot[s])
    /\ SaverEnd(s)
    /\ UNCHANGED <<mem, callback, crashes, history>>

-----------------------------------------------------------------------------
(* The connect callback: the part of on_mqtt_client_connected that reports *)
(* the counts.                                                             *)

ConnectedCallback ==
    /\ rpc = "idle" /\ reports < MaxReports
    /\ rpc' = "read"
    /\ reports' = reports + 1
    /\ UNCHANGED <<mem, file, iniLock, savers, rep, crashes, history>>

get_total_msg_count ==
    /\ rpc = "read" /\ iniLock = NoThread
    /\ rep' = read_total_msg_count
    /\ since' = Zero
    /\ rpc' = IF rep' = Zero THEN "idle" ELSE "send"
    /\ UNCHANGED <<mem, file, iniLock, savers, reports, crashes, happened, reported, swallowed,
                   interrupted>>

(* sendMessage, which counts the report itself, or refuses it.             *)
SendReport ==
    /\ rpc = "send"
    /\ \/ /\ rpc' = "clear"
          /\ reported' = Plus(reported, rep)
          /\ Count(Keys[1])
       \/ rpc' = "idle" /\ UNCHANGED <<mem, happened, reported>>
    /\ UNCHANGED <<file, iniLock, savers, rep, reports, crashes, since, swallowed, interrupted>>

(* clear_msg_count_file.                                                   *)
ClearLock ==
    /\ rpc = "clear" /\ iniLock = NoThread
    /\ iniLock' = Reporter
    /\ rpc' = "clearOpen"
    /\ UNCHANGED <<mem, file, savers, rep, reports, crashes, history>>

ClearOpen ==
    /\ rpc = "clearOpen"
    /\ \/ /\ Truncate
          /\ rpc' = "clearFill"
          /\ swallowed' = Plus(swallowed, since)
          /\ UNCHANGED <<iniLock, interrupted>>
       \/ /\ "open" \in Faults
          /\ rpc' = "idle" /\ iniLock' = NoThread
          /\ interrupted' = TRUE
          /\ UNCHANGED <<file, swallowed>>
    /\ UNCHANGED <<mem, savers, rep, reports, crashes, happened, reported, since>>

ClearFill ==
    /\ rpc = "clearFill"
    /\ Fill(Zero)
    /\ rpc' = "idle" /\ iniLock' = NoThread
    /\ UNCHANGED <<mem, savers, rep, reports, crashes, history>>

-----------------------------------------------------------------------------
(* The process dies, or exits (run_app saves no counts), and is started    *)
(* again.                                                                  *)
Crash ==
    /\ crashes < MaxCrashes
    /\ crashes' = crashes + 1
    /\ mem' = Zero /\ iniLock' = NoThread
    /\ spc' = [s \in Savers |-> "none"] /\ idx' = [s \in Savers |-> 1]
    /\ tot' = [s \in Savers |-> Zero]
    /\ rpc' = "idle" /\ rep' = Zero
    /\ interrupted' = (interrupted \/ rpc \in {"clear", "clearOpen"})
    /\ UNCHANGED <<file, reports, happened, reported, since, swallowed>>

Init ==
    /\ mem = Zero /\ file = [c \in {} |-> 0] /\ iniLock = NoThread
    /\ spc = [s \in Savers |-> "none"] /\ idx = [s \in Savers |-> 1]
    /\ tot = [s \in Savers |-> Zero]
    /\ rpc = "idle" /\ rep = Zero /\ reports = 0 /\ crashes = 0
    /\ happened = Zero /\ reported = Zero /\ since = Zero /\ swallowed = Zero
    /\ interrupted = FALSE

Saving(s) ==
    SaverTest(s) \/ SaverLock(s) \/ SaverDrain(s) \/ SaverOpen(s) \/ SaverFill(s)

Reporting ==
    get_total_msg_count \/ SendReport \/ ClearLock \/ ClearOpen \/ ClearFill

Next ==
    \/ increase_msg_count
    \/ \E s \in Savers : SaverStart(s) \/ Saving(s)
    \/ ConnectedCallback \/ Reporting \/ Crash

Spec == Init /\ [][Next]_vars

(***************************************************************************)
(* A thread that can take a step does, the timer goes on ticking, and a    *)
(* thread that waits for a mutex which is released again and again gets it.*)
(***************************************************************************)
Fairness ==
    /\ WF_vars(\E s \in Savers : SaverStart(s))
    /\ \A s \in Savers : WF_vars(Saving(s)) /\ SF_vars(SaverLock(s))
    /\ WF_vars(Reporting)

LiveSpec == Spec /\ Fairness

-----------------------------------------------------------------------------
(* Properties.                                                             *)

SaverLabels == {"none", "test", "lock", "drain", "open", "fill"}

ReporterLabels == {"idle", "read", "send", "clear", "clearOpen", "clearFill"}

(* Type invariant: no counter and no total, in memory or in the file, is   *)
(* ever negative, and the keys of the file are those of msgcounter.c.      *)
TypeOK ==
    /\ mem \in [Counters -> Nat]
    /\ DOMAIN file \subseteq Counters /\ \A c \in DOMAIN file : file[c] \in Nat
    /\ iniLock \in Savers \cup {Reporter, NoThread}
    /\ spc \in [Savers -> SaverLabels] /\ idx \in [Savers -> 1 .. Len(Keys)]
    /\ tot \in [Savers -> [Counters -> Nat]]
    /\ rpc \in ReporterLabels /\ rep \in [Counters -> Nat]
    /\ reports \in Nat /\ crashes \in Nat
    /\ happened \in [Counters -> Nat] /\ reported \in [Counters -> Nat]
    /\ since \in [Counters -> Nat] /\ swallowed \in [Counters -> Nat]
    /\ interrupted \in BOOLEAN

(* The total of a counter on its way to the next report: in the hand of    *)
(* the thread that saves, or in the file.                                  *)
Stored(c) == IF iniLock \in Savers THEN tot[iniLock][c] ELSE InFile(c)

(* The part of it that no accepted report has.                             *)
Unreported(c) ==
    IF rpc \notin {"clear", "clearOpen"} THEN Stored(c)
    ELSE IF Stored(c) > rep[c] THEN Stored(c) - rep[c] ELSE 0

(* No event is reported twice, or will be, unless a clear was cut off      *)
(* after its report: saves that overlap count nothing twice, and a save    *)
(* between report and clear does not bring reported counts back.           *)
NoOverReport ==
    ~interrupted => \A c \in Counters : reported[c] + mem[c] + Unreported(c) <= happened[c]

(* Without faults and crashes, every event is reported, in memory or on    *)
(* its way to the next report; the only loss is that of events saved to    *)
(* the file between on_mqtt_client_connected's reading of the totals and   *)
(* its clear_msg_count_file.                                               *)
OnlyClearLoses ==
    Faults = {} /\ crashes = 0 =>
        \A c \in Counters : happened[c] = reported[c] + mem[c] + Unreported(c) + swallowed[c]

(* sync_msg_count_file: without faults and crashes, every event comes to   *)
(* be in the file or in a report, or is swallowed by a clear, however the  *)
(* saves overlap with each other and with the callback.                    *)
CountsAreSaved ==
    Faults = {} /\ MaxCrashes = 0 =>
        \A c \in Counters :
            []<>(rpc = "idle" /\ happened[c] = reported[c] + InFile(c) + swallowed[c])

=============================================================================
