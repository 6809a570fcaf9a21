CONSTANTS
    Blocks <- MCBlocks
    NoBlock = NoBlock
    CombinedAPI = {TRUE, FALSE}
    MaxFaults = 2
    MaxResets = 1
SPECIFICATION FairSpec
INVARIANTS TypeOK HeadsAgree PublishedAccounted
PROPERTIES PublishedSettles
