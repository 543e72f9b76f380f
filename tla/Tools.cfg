SPECIFICATION Spec
CONSTANTS
    Tool <- MCTool
    Files <- MCFiles
    MaxWidth = 4
    MaxHeight = 3
    Capacity = 2
    MaxFrames = 9
    Sprites = 2
    Tiles = 6
    Window = 3
    Cells = 4
INVARIANTS
    FrameShownWhole
    DataReady
PROPERTIES
    EveryToolEnds
CHECK_DEADLOCK FALSE
