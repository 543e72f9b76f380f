SPECIFICATION Spec
CONSTANTS
    RingSlots = 2
    SlotWords = 1
    HalfRange = 4
    QueueDepth = 2
    MaxUnconfirmed = 8
    MaxRetained = 0
    MaxCommands = 5
    Baselines <- MCBaselines
    Verified = TRUE
INVARIANT ReportedIsFinished
CHECK_DEADLOCK FALSE
