SPECIFICATION FairSpec
CONSTANTS
    p1 = p1
    p2 = p2
    Pipelines = {p1, p2}
    NumFrames = 2
    QueueSize = 3
    MaxBlocks = 2
    InferenceMayFail = FALSE
    ClosesMidBlock = TRUE
PROPERTIES
    AcloseReturns
CHECK_DEADLOCK FALSE
