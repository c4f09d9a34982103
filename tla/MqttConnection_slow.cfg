CONSTANTS
    ConnectTimeout = 3
    MinRetryInterval = 1
    MaxRetryInterval = 1
    JobInterval = 2
    Handshake = 2
    Refusals = FALSE
    MaxFaults = 1
    MaxQueue = 1
SPECIFICATION FairSpec
PROPERTY ReconnectsWhenLost
