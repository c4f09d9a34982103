SPECIFICATION Spec
CONSTANTS
    Workers = {w1}
    Senders = {s1}
    MaxMsgs = 1
    MaxCrashes = 1
    Priorities <- NegativePriority
    Capacities = {1}
    DefaultPriority = 8
    Faults = {}
    NoThread = NoThread
    NoPriority = NoPriority
    Partial = Partial
INVARIANT NodeHasFile
