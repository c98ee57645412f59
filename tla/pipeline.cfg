SPECIFICATION FairSpec
CONSTANTS
    p1 = p1
    p2 = p2
    Pipelines = {p1, p2}
    NumFrames = 2
    QueueSize = 3
    MaxBlocks = 3
    InferenceMayFail = TRUE
    ClosesMidBlock = FALSE
INVARIANTS
    TypeOK
    BridgeKeepsFrames
PROPERTIES
    NoFrameAfterStop
    BlockCompletes
    PipelineStops
    WorkerFreed
CHECK_DEADLOCK FALSE
