CONSTANTS
    N = 3
    Graphs <- SomeGraphs
    ChunkFactor = 1
    MaxGraphs = 2
    MayPause = TRUE
    MayAbort = TRUE
SPECIFICATION FairSpec
INVARIANTS Quiet NodesInOrder
CHECK_DEADLOCK FALSE
PROPERTY EveryGraphReturns
