CONSTANTS
    Frames <- ModeFrames
    QueueLength = 5
    MaxSessions = 2
    HeapSize = 55
    NetconnCost = 2
    QueueCost = 1
    TaskCost = 8
    MsgCost = 1
SPECIFICATION FairSpec
CHECK_DEADLOCK FALSE
PROPERTIES WatchdogRearmed
