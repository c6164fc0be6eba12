SPECIFICATION Spec
CONSTANTS
    Keys <- KeysUsed
    Buttons <- ButtonsUsed
    Positions <- PositionsUsed
    Width = 4
    Height = 3
    Somewhere = Somewhere
    Undefined = Undefined
    MaxEvents = 3
    MaxFrames = 2
    MaxWindows = 2
    MaxTasks = 2
INVARIANTS
    TypeOK
    ShownIsRecent
    KeysDistinct
    
    
CHECK_DEADLOCK FALSE
