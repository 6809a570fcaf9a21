SPECIFICATION Spec
CONSTANTS
    Sent <- MCSent
    Irregular <- MCIrregular
    OtherFrames <- MCOtherFrames
    ChannelTimeout = 1
    MaxChannelBankSize = 3
    CanyonBlock = 1
    MaxL1 = 4
    MaxFramesPerBlock = 2
    MaxIrregular = 3
    MaxFrames = 5
    MaxResets = 1
INVARIANTS
    TypeOK
    ReadsComplete
    ResetReproduces
CHECK_DEADLOCK FALSE
