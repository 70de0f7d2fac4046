CONSTANTS
    Players = {p1, p2}
    Apps = {a1}
    Methods = {"acquire", "can"}
    None = None
    Live = Live
    Capacity = 2
    OutputSize = 1
    MaxExtra = 1
    MissLimit = 2
    MaxAcquires = 1
    MaxChunks = 1
    MaxFlushes = 0
    MaxControls = 0
    MaxChanges = 4
    MaxLosses = 0
    MayEmpty = TRUE
SPECIFICATION FairSpec
PROPERTIES
    RebufferEnds
CHECK_DEADLOCK FALSE
