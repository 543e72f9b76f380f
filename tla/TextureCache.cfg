SPECIFICATION FairSpec
CONSTANTS
    HalfRange = 3
    MaxUnconfirmed = 3
    RingCapacity = 2
    MaxCommands = 2
    Baseline = 4
    Tables = 1
    ArenaPages = 1
    MaxSurfaces = 2
    MaxFenceAge = 2
    CacheSlots = 2
    Keys = {1, 2, 3}
    MaxUploads = 3
    MaxDraws = 2
INVARIANTS
    InUseKept
    CellsIntact
PROPERTIES
    EvictsLeastRecent
    EveryCallReturns
CHECK_DEADLOCK FALSE
