SPECIFICATION FairSpec
CONSTANTS
    c1 = c1
    c2 = c2
    Channel = {c1, c2}
    NoChannel = NoChannel
    Name = {a, b}
    NoName = NoName
    Loop <- TwoLoops
INVARIANTS
    TypeOK
    EveryoneWasTold
    NameOwned
    

    
CHECK_DEADLOCK FALSE
