CONSTANTS
    Players = {p1, p2}
    Apps = {a1}
    Methods = {"acquire", "can", "track_begin", "buffer"}
    None = None
    Live = Live
    Capacity = 2
    OutputSize = 1
    MaxExtra = 1
    MissLimit = 3
    MaxAcquires = 1
    MaxChunks = 2
    MaxFlushes = 0
    MaxControls = 2
    MaxChanges = 2
    MaxLosses = 0
    MayEmpty = FALSE
SPECIFICATION Spec
SYMMETRY PlayerSymmetry
INVARIANTS
    AudioIsInPlace
    RebufferKnowsItsPlayers
    
PROPERTIES
    PlayingIsAudible
