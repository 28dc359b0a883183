SPECIFICATION ArenaSpec
CONSTANTS
    Users = {u1}
    Requests <- OneLock
    Passes = {}
    Resolvers = {x1, x2}
    ResolveStamps = {}
    NoKey = "none"
    Unresolved = Unresolved
    Nobody = Nobody
    Model = "model"
    ModelKey = "autolock"
    CloseAt = 1
    Horizon = 1
    MaxTime = 2
    MaxSeq = 1
INVARIANTS
    ScoredBeforeResolution
