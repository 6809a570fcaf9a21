SPECIFICATION Spec
CONSTANTS
    MaxBlock = 3
    L1Origin <- MCL1Origin
    VoltaBlock = 2
    FourierBlock = 3
    SeqWindowSize = 4
    ChannelTimeout = 1
    MaxChannelDuration = 2
    SubSafetyMargin = 1
    TargetNumFrames = 2
    MaxL1 = 2
    MaxChannels = 2
    MaxFrames = 3
INVARIANTS
    TypeOK
    FramesOnce
    NoBlockLost
    TimeoutEarliest
PROPERTIES
    RemovalJustified
    BlocksDelivered
