SPECIFICATION Spec
CONSTANTS
    QueueCapacity = 3
    MaxCommands = 6
    MaxPaints = 3
    BarrierOnClose = TRUE
    RawPresents = FALSE
INVARIANTS
    TypeOK
    ScanoutUndisturbed
    FrameIntact
    QueuedFlipRetired
CHECK_DEADLOCK FALSE
