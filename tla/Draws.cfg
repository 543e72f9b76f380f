SPECIFICATION FairSpec
CONSTANTS
    Surfaces <- LiveSurfaces
    BackBuffer <- Back
    Dram <- DramSpan
    Pool <- PoolSpan
    Arena <- ArenaSpan
    MaxDescriptors = 3
    Requests <- AllRequests
    Memory <- InitialMemory
    MaxCommands = 2
    Ahead = 2
    QueueDepth = 9
INVARIANTS
    TypeOK
    FinishedAsRequested
PROPERTIES
    EveryDrawFinishes
CHECK_DEADLOCK FALSE
