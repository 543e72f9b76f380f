SPECIFICATION FairSpec
CONSTANTS
    QueueCapacity = 2
    MaxCommands = 4
    MaxPaints = 1
    BarrierOnClose = TRUE
    RawPresents = FALSE
PROPERTIES
    EveryCommandFinishes
CHECK_DEADLOCK FALSE
