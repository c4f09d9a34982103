SPECIFICATION PartsSpec
CONSTANTS
    Savers = {s1, s2}
    Reporter = reporter
    NoThread = NoThread
    MaxEvents = 1
    MaxReports = 2
    MaxCrashes = 1
    Faults = {"open", "fill"}
    Process = {"p1", "p2", "p3"}
    NoProcess = "none"
    Topics = {"topic"}
    Texts = {"text"}
    Ints = {1, 7}
    Default = 8
    Sn = "Sn"
    Mac = "Mac"
    MaxTime = 2
    Other = Other
    Empty = Empty
    NoPriority = NoPriority
    Partial = Partial
SYMMETRY SaverSymmetry
INVARIANTS NoOverReport LossOnlyByClear InOrder OnlyOneWithLock VersionOfRunning DrainSendsTheSame OrderedQueue
CHECK_DEADLOCK FALSE
