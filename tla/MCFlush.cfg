CONSTANTS
    Players = {p1}
    Apps = {a1}
    Methods = {"acquire", "track_begin", "buffer", "track_end", "flush"}
    None = None
    Live = Live
    Capacity = 2
    OutputSize = 1
    MaxExtra = 1
    MissLimit = 2
    MaxAcquires = 1
    MaxChunks = 3
    MaxFlushes = 2
    MaxControls = 1
    MaxChanges = 1
    MaxLosses = 0
    MayEmpty = FALSE
SPECIFICATION Spec
INVARIANTS
    AudioIsInPlace
    
