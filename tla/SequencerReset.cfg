CONSTANTS
    Blocks <- MCBlocks
    NoBlock = NoBlock
    CombinedAPI = {FALSE}
    MaxFaults = 1
    MaxResets = 0
SPECIFICATION FairSpec
PROPERTIES ResetCarriedOut
