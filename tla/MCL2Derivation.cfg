SPECIFICATION FairSpec
CONSTANTS
    SeqWindowSize = 1
    ChannelTimeout = 1
    FinalityLookback = 2
    FinalityDelay = 1
    MaxL1 = 4
    MaxDisruptions = 1
INVARIANTS
    TypeOK
    HeadsOrdered
    FinalizedOnFinalChain
    SteadyFinality
    SafeOnPipelineChain
    ResetHarmless
    FinalityWindow
PROPERTIES
    FinalizedGrows
    KeepsUp
