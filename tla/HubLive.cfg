SPECIFICATION HubLiveSpec
CONSTANTS
    Threads = {t1, t2}
    QueueSize = 2
    MaxTasks = 3
    Shutdowns = {"immediate", "graceful"}
    Faults = {"thread", "memory"}
    FifoSize = 2
    MaxFlaps = 2
    Pair = {a1, a2}
    TheReporter = reporter
    TheSender = a1
    TheWorker = w1
    NoThread = NoThread
    NoPriority = NoPriority
    Partial = Partial
INVARIANTS FreedUnused NoDescriptorLeak LinksAgree
PROPERTIES IsTaskQueue ListsAreSequences PendingIsTaken DestroyReturns ReaderIsServed CountsAreSaved EnqueueReturns ReconnectsDrain
CHECK_DEADLOCK FALSE
