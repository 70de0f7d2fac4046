CONSTANTS
    Players = {p1, p2}
    Apps = {a1}
    Methods = {"acquire", "track_begin", "buffer", "track_end"}
    None = None
    Live = Live
    Capacity = 2
    OutputSize = 1
    MaxExtra = 1
    MissLimit = 4
    MaxAcquires = 1
    MaxChunks = 1
    MaxFlushes = 0
    MaxControls = 0
    MaxChanges = 2
    MaxLosses = 1
    MayEmpty = FALSE
SPECIFICATION FairSpec
INVARIANTS
    AudioIsInPlace
PROPERTIES
    RebufferEnds
