SPECIFICATION Spec
CONSTANTS
    Workers = {w1, w2}
    Senders = {s1}
    MaxMsgs = 3
    MaxCrashes = 1
    Priorities = {1, 2}
    Capacities = {1, 2}
    DefaultPriority = 8
    Faults = {}
    NoThread = NoThread
    NoPriority = NoPriority
    Partial = Partial
SYMMETRY Symmetry
INVARIANTS TypeOK AckedKept QueueIsDirectory
