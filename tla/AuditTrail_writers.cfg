\* Tables of one entry: the second request pushes the first one's hand-over out.
SPECIFICATION TrailSpec
CONSTANTS
    Requests = {"r1", "r2"}
    Callers <- MCCallers
    Cancellable = {"r1"}
    EmitOutcomes <- MCEmitOutcomes
    SinkErrors <- MCSinkErrors
    Cap = 1
CHECK_DEADLOCK FALSE
INVARIANTS
    OneTrail
    NothingLost
    StateFreed
