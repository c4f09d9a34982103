SPECIFICATION Spec
CONSTANTS
    Workers = {w1}
    Senders = {s1}
    MaxMsgs = 2
    MaxCrashes = 0
    Priorities = {1}
    Capacities = {1}
    DefaultPriority = 8
    Faults = {}
    NoThread = NoThread
    NoPriority = NoPriority
    Partial = Partial
INVARIANT DroppedIsDiscarded
