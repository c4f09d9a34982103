------------------------------ MODULE TaskQueue ------------------------------
(***************************************************************************)
(* What a thread pool promises those who add tasks (threadpool.h): tasks,  *)
(* numbered as they are offered, wait in a bounded first-in first-out      *)
(* queue; each is accepted at most once, and taken once, in the order of   *)
(* the queue; after an immediate shutdown no task is taken any more, after *)
(* a graceful one no task is accepted but the waiting ones are taken; and  *)
(* when the pool is gone no task is running.                               *)
(***************************************************************************)
EXTENDS Integers, Sequences

CONSTANTS
    Size,       \* tasks that may wait
    Tasks       \* a set of numbers

VARIABLES
    waiting,    \* the queue
    taken,      \* the tasks taken so far, in the order they were
    running,    \* the tasks being run
    phase       \* "open", how it is being shut down, or "gone"

Init == waiting = <<>> /\ taken = <<>> /\ running = {} /\ phase = "open"

Accept ==
    /\ phase = "open" /\ Len(waiting) < Size
    /\ \E t \in Tasks : /\ \A i \in 1 .. Len(waiting) : waiting[i] < t
                        /\ \A i \in 1 .. Len(taken) : taken[i] < t
                        /\ waiting' = Append(waiting, t)
    /\ UNCHANGED <<taken, running, phase>>

Take ==
    /\ phase \in {"open", "graceful"} /\ waiting # <<>>
    /\ waiting' = Tail(waiting)
    /\ taken' = Append(taken, Head(waiting))
    /\ running' = running \cup {Head(waiting)}
    /\ UNCHANGED phase

Complete ==
    /\ \E t \in running : running' = running \ {t}
    /\ UNCHANGED <<waiting, taken, phase>>

Close ==
    /\ phase = "open"
    /\ phase' \in {"immediate", "graceful"}
    /\ UNCHANGED <<waiting, taken, running>>

Vanish ==
    /\ phase \in {"open", "immediate", "graceful"} /\ running = {}
    /\ phase \in {"open", "graceful"} => waiting = <<>>
    /\ phase' = "gone"
    /\ UNCHANGED <<waiting, taken, running>>

Next == Accept \/ Take \/ Complete \/ Close \/ Vanish

Spec == Init /\ [][Next]_<<waiting, taken, running, phase>>

=============================================================================
