SPECIFICATION FairSpec
CONSTANTS
    r1 = r1
    r2 = r2
    Readers = {r1, r2}
    Capacity = 3
    Chunks = {2}
    Counts = {4}
    MaxWritten = 6
INVARIANTS
    TypeOK
    RingHoldsLatest
    NoLostWakeup
    LockIsHeld
PROPERTIES
    ReadsTheStream
    WriteReturns
    CloseEndsReads
