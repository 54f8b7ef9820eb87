SPECIFICATION Spec
CONSTANTS
    Block <- MCBlock
    Genesis = "g"
    Prev <- MCPrev
    Zero = "zero"
    Starts <- MCStarts
    PeerStarts <- MCPeerStarts
    MaxHeaders = 4
    MaxBlocks = 3
    StoreWindow = 3
    HeaderWindow = 3
    MaxOrphans = 1
    MaxReorg = 2
    MaxRewind = 1
    StallDelta = 2
INVARIANTS TypeOK HeightIndex 
 
CHECK_DEADLOCK FALSE
