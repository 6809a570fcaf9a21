SPECIFICATION Spec
CONSTANTS
    MaxBlock = 3
    L1Origin <- MCL1Origin
    VoltaBlock = 2
    FourierBlock = 4
    SeqWindowSize = 4
    ChannelTimeout = 2
    MaxChannelDuration = 2
    SubSafetyMargin = 1
    TargetNumFrames = 2
    MaxL1 = 2
    MaxChannels = 3
    MaxFrames = 1
INVARIANT CloseDropsUnsubmitted
