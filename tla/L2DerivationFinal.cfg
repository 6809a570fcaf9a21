SPECIFICATION Spec
CONSTANTS
    SeqWindowSize = 1
    ChannelTimeout = 1
    FinalityLookback = 2
    FinalityDelay = 1
    MaxL1 = 4
    MaxDisruptions = 1
INVARIANT FinalReproducible
