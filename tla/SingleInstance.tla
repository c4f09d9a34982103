---------------------------- MODULE SingleInstance ----------------------------
(***************************************************************************)
(* Launches of the hub and the lock file that is to keep all but one from  *)
(* running (single_instance_app), with the file of the running version     *)
(* that an instance writes at its start and deletes at its end.            *)
(***************************************************************************)

CONSTANTS
    Process,        \* launches that may be alive at the same time
    NoProcess

ASSUME ProcessAssumption == NoProcess \notin Process

VARIABLES
    pc,             \* where each process is; "gone" when there is none
    lockless,       \* processes that could not open the lock file
    openFailed,     \* whether opening it has ever failed
    holder,         \* the process with the lock on the file
    version,        \* the process whose version the version file holds, if any
    versionless     \* processes that could not write the version file

launchVars == <<pc, lockless, openFailed, holder, version, versionless>>

Goto(p, from, to) == pc[p] = from /\ pc' = [pc EXCEPT ![p] = to]

Launch(p) ==
    /\ Goto(p, "gone", "open")
    /\ lockless' = lockless \ {p} /\ versionless' = versionless \ {p}
    /\ UNCHANGED <<openFailed, holder, version>>

OpenLockFile(p) ==
    /\ Goto(p, "open", "test")
    /\ UNCHANGED <<lockless, openFailed, holder, version, versionless>>

\* single_instance_app returns -1, which run_app does not look at.
OpenFails(p) ==
    /\ Goto(p, "open", "start")
    /\ lockless' = lockless \cup {p}
    /\ openFailed' = TRUE
    /\ UNCHANGED <<holder, version, versionless>>

\* lockf F_TEST: a file locked by another process ends this one.
TestLock(p) ==
    /\ Goto(p, "test", IF holder \in {NoProcess, p} THEN "lock" ELSE "gone")
    /\ UNCHANGED <<lockless, openFailed, holder, version, versionless>>

\* Mutant: a lock that does not wait, its result not looked at.
TakeLockAtOnce(p) ==
    /\ Goto(p, "lock", "start")
    /\ holder' = IF holder = NoProcess THEN p ELSE holder
    /\ UNCHANGED <<lockless, openFailed, version, versionless>>

\* lockf F_LOCK: waits until no other process has the lock.
TakeLock(p) ==
    /\ holder = NoProcess
    /\ Goto(p, "lock", "start")
    /\ holder' = p
    /\ UNCHANGED <<lockless, openFailed, version, versionless>>

\* The write may fail, with the file as it was or emptied; run_app does not look at the
\* result.
write_run_version(p) ==
    /\ Goto(p, "start", "run")
    /\ \/ version' = p /\ UNCHANGED versionless
       \/ version' \in {version, NoProcess} /\ versionless' = versionless \cup {p}
    /\ UNCHANGED <<lockless, openFailed, holder>>

\* Mutant: the process ends, and its lock with it, before it deletes the file.
clear_run_versionLate(p) ==
    /\ \/ Goto(p, "run", "ended") /\ UNCHANGED version
       \/ Goto(p, "ended", "gone") /\ version' = NoProcess
    /\ holder' = IF holder = p THEN NoProcess ELSE holder
    /\ UNCHANGED <<lockless, openFailed, versionless>>

\* The end of run_app deletes the file; the process and its lock go afterwards.
clear_run_version(p) ==
    /\ \/ Goto(p, "run", "ended") /\ version' = NoProcess /\ UNCHANGED holder
       \/ /\ Goto(p, "ended", "gone") /\ UNCHANGED version
          /\ holder' = IF holder = p THEN NoProcess ELSE holder
    /\ UNCHANGED <<lockless, openFailed, versionless>>

\* A crash, or segv_handler: the lock goes with the process, the version file stays.
ProcessCrash(p) ==
    /\ pc[p] # "gone" /\ pc' = [pc EXCEPT ![p] = "gone"]
    /\ holder' = IF holder = p THEN NoProcess ELSE holder
    /\ UNCHANGED <<lockless, openFailed, version, versionless>>

LaunchInit ==
    /\ pc = [p \in Process |-> "gone"] /\ lockless = {} /\ openFailed = FALSE
    /\ holder = NoProcess /\ version = NoProcess /\ versionless = {}

LaunchStep(p) ==
    \/ OpenLockFile(p) \/ OpenFails(p) \/ TestLock(p) \/ TakeLock(p)
    \/ write_run_version(p) \/ clear_run_version(p)

LaunchNext == \E p \in Process : Launch(p) \/ LaunchStep(p) \/ ProcessCrash(p)

LaunchSpec == LaunchInit /\ [][LaunchNext]_launchVars

-------------------------------------------------------------------------------

Past(p) == pc[p] \in {"start", "run"}

\* At most one process gets past single_instance_app, whatever the order in which
\* several test and take the lock and whenever the one that has it ends or crashes.
OnlyOne == \A p, q \in Process : Past(p) /\ Past(q) => p = q

\* The processes that could open the lock file still exclude each other when others,
\* for which opening it failed, run beside them.
OnlyOneWithLock == \A p, q \in Process \ lockless : Past(p) /\ Past(q) => p = q

\* Unless a launch could not open the lock file, the version file is that of the instance
\* that runs, if it could write it: the end of an earlier one never deletes the file of its
\* successor, which may have been waiting for the lock.
VersionOfRunning ==
    ~openFailed => \A p \in Process : pc[p] = "run" /\ p \notin versionless => version = p
===============================================================================
