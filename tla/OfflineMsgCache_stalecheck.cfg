SPECIFICATION Spec
CONSTANTS
    Workers = {w1, w2}
    Senders = {s1}
    MaxMsgs = 3
    MaxCrashes = 0
    Priorities = {1, 2, 3}
    Capacities = {1}
    DefaultPriority = 8
    Faults = {}
    NoThread = NoThread
    NoPriority = NoPriority
    Partial = Partial
PROPERTY EvictsNoHigherPriority
