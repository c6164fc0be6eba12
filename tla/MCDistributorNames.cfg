SPECIFICATION Spec
CONSTANTS
    Channel = {c1, c2}
    NoChannel = NoChannel
    Name = {Anon, a, b}
    Wants <- AnyNames
    Anon = Anon
    Rogue = {c1, c2}
    Param = {p}
    NoParam = NoParam
    c1 = c1
    c2 = c2
    c3 = c3
    a = a
    b = b
    e = e
    MaxSessions = 2
    MaxClients = 2
SYMMETRY Symmetry
VIEW View

    
    
PROPERTY
    CloseIsAnnounced
CHECK_DEADLOCK FALSE
