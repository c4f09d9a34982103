SPECIFICATION PahoSpec
CONSTANTS
    ConnectTimeout = 2
    MinRetryInterval = 1
    MaxRetryInterval = 1
    JobInterval = 2
    Handshake = 0
    Refusals = FALSE
    MaxFaults = 2
    MaxQueue = 2
    Parts = {"connection", "delivery", "keepalive", "read", "write"}
    Scenarios <- AllScenarios
    Window = 2
    MaxBreaks = 2
    MaxRetries = 1
    KeepAliveInterval = 10
    RetryLoopInterval = 1
    MaxDelay = 1
    MayBlock = FALSE
    Packets <- WrittenPackets
    Room = 3
    MaxPackets = 4
    MaxConnections = 2
    None = None
    Uninit = Uninit
    Garbage = Garbage
INVARIANTS
    FlagsAreTrue RetryArmed
    CallbacksAreTrue OrderKept PublishedAsPromised ArrivesAsPromised
    KeepaliveInTime ReadsWhatWasSent StreamIsPackets WriteMemorySound
PROPERTIES AliveIsKept
CHECK_DEADLOCK FALSE
