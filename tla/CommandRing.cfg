SPECIFICATION FairSpec
CONSTANTS
    RingSlots = 2
    SlotWords = 2
    HalfRange = 4
    QueueDepth = 2
    MaxUnconfirmed = 4
    MaxRetained = 2
    MaxCommands = 4
    Baselines <- MCBaselines
    Verified = TRUE
INVARIANTS
    TypeOK
    DispatchedWhole
    EqualPointersMeanEmpty
    ReportedIsFinished
    ReportedStaysReported
    WaitTargetSubmitted
PROPERTIES
    SlotKeptUntilFetched
    ImplementsQueue
    EveryCommandFinishes
    WaitReturns
