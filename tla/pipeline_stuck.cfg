SPECIFICATION FairSpec
CONSTANTS
    p1 = p1
    p2 = p2
    Pipelines = {p1, p2}
    NumFrames = 3
    QueueSize = 2
    MaxBlocks = 2
    InferenceMayFail = FALSE
    ClosesMidBlock = FALSE
PROPERTIES
    WorkerFreed
CHECK_DEADLOCK FALSE
