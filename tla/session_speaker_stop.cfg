SPECIFICATION FairSpec
CONSTANTS
    s1 = s1
    s2 = s2
    c1 = c1
    c2 = c2
    NoSession = NoSession
    Sessions = {s1, s2}
    Clients = {c1}
    SpeakerLoop = {s1}
    BringsPortrait = {s1}
    LegacySfu = {}
    StopsDuring = {}
    InferenceMayFail = FALSE
    SfuMayDie = {}
PROPERTY
    DeleteFreesPod
