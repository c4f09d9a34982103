SPECIFICATION PahoFairSpec
CONSTANTS
    ConnectTimeout = 1
    MinRetryInterval = 1
    MaxRetryInterval = 1
    JobInterval = 2
    Handshake = 0
    Refusals = FALSE
    MaxFaults = 1
    MaxQueue = 2
    Parts = {"connection", "delivery", "keepalive", "write"}
    Scenarios <- OneScenario
    Window = 1
    MaxBreaks = 2
    MaxRetries = 0
    KeepAliveInterval = 4
    RetryLoopInterval = 1
    MaxDelay = 1
    MayBlock = TRUE
    Packets <- WrittenPackets
    Room = 3
    MaxPackets = 1
    MaxConnections = 2
    None = None
    Uninit = Uninit
    Garbage = Garbage
PROPERTIES ConnectsForGood AllPublished AllArrive DeadIsDetectedUnlessPending PendingEnds
CHECK_DEADLOCK FALSE
