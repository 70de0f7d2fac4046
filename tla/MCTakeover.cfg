CONSTANTS
    Players = {p1}
    Apps = {a1, a2}
    Methods = {"acquire", "track_begin", "buffer", "track_end"}
    None = None
    Live = Live
    Capacity = 2
    OutputSize = 1
    MaxExtra = 1
    MissLimit = 4
    MaxAcquires = 2
    MaxChunks = 3
    MaxFlushes = 0
    MaxControls = 0
    MaxChanges = 2
    MaxLosses = 0
    MayEmpty = TRUE
SPECIFICATION FairSpec
INVARIANTS
    TypeOK
    AudioIsInPlace
PROPERTIES
    AcquireAnswered
CHECK_DEADLOCK FALSE
