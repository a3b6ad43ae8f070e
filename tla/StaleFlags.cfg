CONSTANTS
    Frames <- MCFrames
    QueueLength = 5
    MaxSessions = 2
    HeapSize = 40
    NetconnCost = 2
    QueueCost = 1
    TaskCost = 4
    MsgCost = 1
    OpensWithStop = FALSE
SPECIFICATION HMISpec
CHECK_DEADLOCK FALSE
INVARIANTS MovesAsMode
