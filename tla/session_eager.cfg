SPECIFICATION Spec
CONSTANTS
    s1 = s1
    s2 = s2
    c1 = c1
    c2 = c2
    NoSession = NoSession
    Sessions = {s1, s2}
    Clients = {c1, c2}
    SpeakerLoop = {s1}
    BringsPortrait = {s1}
    LegacySfu = {s2}
    StopsDuring = {"scheduled", "oai_connect", "oai_open", "load_image", "sfu_join",
                   "sfu_publish", "first_frame", "cleanup"}
    InferenceMayFail = TRUE
    SfuMayDie = {s2}
INVARIANTS
    NoRenderingWithoutSfu
    OpenAIReleased
    SfuLeaksOnlyByRace
    StuckOnlyByException
    TakeoverAfterStopped
SYMMETRY MCSymmetry
