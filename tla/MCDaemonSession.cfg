SPECIFICATION FairSpec
CONSTANTS
    MaxSessions = 2
    MaxFrames = 2
    MaxRequests = 1
    MaxQueued = 2
    MaxTasks = 2
INVARIANTS
    TypeOK
    QuietLobby
    
PROPERTY
    CloseCompletes
CHECK_DEADLOCK FALSE
