SPECIFICATION Spec
CONSTANTS
    Channel = {c1, c2, c3}
    NoChannel = NoChannel
    Name = {Anon, a, b, e}
    Wants <- OwnNames
    Anon = Anon
    Rogue = {}
    Param = {p}
    NoParam = NoParam
    c1 = c1
    c2 = c2
    c3 = c3
    a = a
    b = b
    e = e
    MaxSessions = 2
    MaxClients = 2
SYMMETRY OwnerSymmetry
VIEW View
PROPERTY JoinerGetsParams
CHECK_DEADLOCK FALSE
