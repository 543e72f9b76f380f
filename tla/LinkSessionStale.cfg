SPECIFICATION Spec
CONSTANTS
    Slots = 3
    FenceMod = 4
    MaxHandles = 2
    MaxCommands = 3
    MaxResets = 1
    MaxPings = 2
    RacingStores = TRUE
INVARIANTS
    RunsOwnCommands
CHECK_DEADLOCK FALSE
