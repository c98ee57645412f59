SPECIFICATION PeerFairSpec
CONSTANTS
    s1 = s1
    s2 = s2
    c1 = c1
    c2 = c2
    k1 = k1
    k2 = k2
    k3 = k3
    p1 = p1
    Grey = Grey
    NoSession = NoSession
    Sessions = {s1, s2}
    Clients = {c1, c2}
    SpeakerLoop = {}
    BringsPortrait = {s1}
    LegacySfu = {}
    StopsDuring = {}
    InferenceMayFail = FALSE
    SfuMayDie = {s1}
    Keys = {k1, k2, k3}
    KeyOf <- MCKeyOf
    Capacity = 2
    MaxMessages = 2
    Portraits = {s1, s2, p1, Grey}
    EarlierBanks <- MCEarlier
INVARIANTS
    TypeOK
    OneSessionPerPod
    StoppedSentOnce
    BankIsMostRecent
    FaceShared
PROPERTIES
    
    StartSettles
    ImplementsPod
    TokensImmutable
    StoppedIsLast
    FailureSurfaces
    MessagesForwarded
