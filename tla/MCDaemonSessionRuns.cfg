SPECIFICATION FairSpec
CONSTANTS
    MaxSessions = 1
    MaxFrames = 1
    MaxRequests = 0
    MaxQueued = 0
    MaxTasks = 1
PROPERTY
    SessionRuns
CHECK_DEADLOCK FALSE
