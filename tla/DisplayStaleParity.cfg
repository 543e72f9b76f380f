SPECIFICATION Spec
CONSTANTS
    QueueCapacity = 3
    MaxCommands = 6
    MaxPaints = 3
    BarrierOnClose = FALSE
    RawPresents = FALSE
INVARIANTS
    ScanoutUndisturbed
CHECK_DEADLOCK FALSE
