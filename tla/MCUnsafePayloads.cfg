SPECIFICATION FairSpec
CONSTANTS
    Blocks <- MCBlocks
    Size <- MCSize
    MaxSize = 3
    Invalid <- MCNoInvalid
    MaxReceipts = 5
    NoBlock = NoBlock
    MaxFaults = 1
    MaxResets = 2
INVARIANTS TypeOK NoDuplicates SizeAccounted HeadsOrdered
PROPERTIES PushKeepsOne FirstSeenKept GapRemains
