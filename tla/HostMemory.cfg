SPECIFICATION Spec
CONSTANTS
    HalfRange = 3
    MaxUnconfirmed = 3
    RingCapacity = 2
    MaxCommands = 3
    Baseline = 4
    Tables = 2
    ArenaPages = 3
    MaxSurfaces = 2
    MaxFenceAge = 2
    CacheSlots = 0
    Keys = {}
    MaxUploads = 0
    MaxDraws = 0
INVARIANTS
    TypeOK
    TableIntact
    FinishedBatchSeen
    ArenaPartition
    InUseKept
    CpuAccessExclusive
    FinishedUseSeen
CHECK_DEADLOCK FALSE
