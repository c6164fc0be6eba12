SPECIFICATION FairSpec
CONSTANTS
    Others = {}
    MaxCommands = 2
    MaxLists = 1
PROPERTY ReceiveReturns
CHECK_DEADLOCK FALSE
