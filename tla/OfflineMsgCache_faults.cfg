SPECIFICATION Spec
CONSTANTS
    Workers = {w1, w2}
    Senders = {s1, s2}
    MaxMsgs = 2
    MaxCrashes = 1
    Priorities <- MixedPriorities
    Capacities = {0, 2}
    DefaultPriority = 8
    Faults = {"write", "scandir", "clock", "thread"}
    NoThread = NoThread
    NoPriority = NoPriority
    Partial = Partial
SYMMETRY Symmetry
INVARIANTS SingleSender OncePerLife
PROPERTY GrowthWithinCapacity
