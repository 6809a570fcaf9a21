SPECIFICATION FairSpec
CONSTANTS
    MaxBlock = 2
    L1Origin <- MCL1Origin
    VoltaBlock = 9
    FourierBlock = 9
    SeqWindowSize = 4
    ChannelTimeout = 2
    MaxChannelDuration = 0
    SubSafetyMargin = 1
    TargetNumFrames = 2
    MaxL1 = 2
    MaxChannels = 2
    MaxFrames = 2
    MaxPending = 1
    AutoSwitchDA = TRUE
    MaxEvents = 3
INVARIANTS
    TypeOK
    NoBlockSkipped
    PendingServed
PROPERTIES
    ManagerSpec
    WaitsEnd
CHECK_DEADLOCK FALSE
