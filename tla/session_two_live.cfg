SPECIFICATION Spec
CONSTANTS
    s1 = s1
    s2 = s2
    c1 = c1
    c2 = c2
    NoSession = NoSession
    Sessions = {s1, s2}
    Clients = {c1}
    SpeakerLoop = {}
    BringsPortrait = {s1}
    LegacySfu = {}
    StopsDuring = {"sfu_join"}
    InferenceMayFail = FALSE
    SfuMayDie = {}
INVARIANT
    OneActiveSession
