SPECIFICATION LiveSpec
CONSTANTS
    Workers = {w1}
    Senders = {s1}
    MaxMsgs = 1
    MaxCrashes = 0
    Priorities = {1}
    Capacities = {1}
    DefaultPriority = 8
    Faults = {}
    NoThread = NoThread
    NoPriority = NoPriority
    Partial = Partial
PROPERTY PendingIsSent
