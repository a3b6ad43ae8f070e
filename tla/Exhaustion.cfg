CONSTANTS
    Frames <- FewFrames
    QueueLength = 5
    MaxSessions = 3
    HeapSize = 55
    NetconnCost = 2
    QueueCost = 1
    TaskCost = 8
    MsgCost = 1
SPECIFICATION Spec
CHECK_DEADLOCK FALSE
PROPERTIES ImplementsInterlock
