SPECIFICATION FairSpec
CONSTANTS
    Slots = 3
    FenceMod = 4
    MaxHandles = 2
    MaxCommands = 3
    MaxResets = 1
    MaxPings = 2
    RacingStores = FALSE
INVARIANTS
    TypeOK
    CheckMeansOwned
    ReportedIsFinished
    CountsAgree
    RunsOwnCommands
PROPERTIES
    RunsOnce
    EveryRequestAnswered
CHECK_DEADLOCK FALSE
