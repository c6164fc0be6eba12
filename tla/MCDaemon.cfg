SPECIFICATION FairSpec
CONSTANTS
    Others = {}
    MaxCommands = 2
    MaxLists = 2
INVARIANTS
    TypeOK
    HeartbeatConserved
    OneNamePerGreeting
    LatestList

    
    
CHECK_DEADLOCK FALSE
