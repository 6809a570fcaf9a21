SPECIFICATION FairSpec
CONSTANTS
    Blocks <- MCBlocks
    Size <- MCSize
    MaxSize = 3
    Invalid <- MCInvalid
    MaxReceipts = 4
    NoBlock = NoBlock
    MaxFaults = 0
    MaxResets = 0
PROPERTIES InvalidDropped
