CONSTANTS
    Ids = {d1, d2}
    Instances = {p1, p2, p3}
    None = None
    MaxCommands = 3
SPECIFICATION Spec
INVARIANTS
    TypeOK
    PublishedOrPending
    FailedIsLeaving
PROPERTIES
    OnlyFailedPlayersAreDropped
    FailuresArePublished
    ConnectedIsPublished
CHECK_DEADLOCK FALSE
