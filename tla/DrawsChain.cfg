SPECIFICATION Spec
CONSTANTS
    Surfaces <- LiveSurfaces
    BackBuffer <- Back
    Dram <- ChainSpan
    Pool <- ChainPool
    Arena <- ArenaSpan
    MaxDescriptors = 3
    Requests <- ChainedRequests
    Memory <- ChainMemory
    MaxCommands = 1
    Ahead = 16
    QueueDepth = 16
INVARIANTS
    DescriptorsInOrder
CHECK_DEADLOCK FALSE
