SPECIFICATION MediaSpec
CONSTANTS
    QueueSize = 2
    PtsStep = 3
    MaxPushed = 5
    MaxSent = 5
    NumFrames = 2
    BlockChunks = 2
    Capacity = 3
    AudioSource = "auto"
INVARIANTS
    TypeOK
    QueueIsLatest
    OldSpeakerLeavesAir
PROPERTIES
    PictureGoesOn
    AvatarKeepsMoving
CHECK_DEADLOCK FALSE
