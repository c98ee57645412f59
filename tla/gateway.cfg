SPECIFICATION FairSpec
CONSTANTS
    QueueSize = 2
    Retries = 2
    MaxEvents = 4
INVARIANTS
    TypeOK
    EventsAccountedFor
    LateOnlyAfterFailure
PROPERTIES
    OutboxDrains
CHECK_DEADLOCK FALSE
