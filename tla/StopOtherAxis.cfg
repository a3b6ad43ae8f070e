CONSTANTS
    Frames <- FewFrames
    QueueLength = 5
    MaxSessions = 1
    HeapSize = 40
    NetconnCost = 2
    QueueCost = 1
    TaskCost = 4
    MsgCost = 1
SPECIFICATION Spec
CHECK_DEADLOCK FALSE
INVARIANTS StopEndsFreeRun
