CONSTANTS
    Frames <- MCFrames
    QueueLength = 5
    MaxSessions = 2
    HeapSize = 40
    NetconnCost = 2
    QueueCost = 1
    TaskCost = 4
    MsgCost = 1
SPECIFICATION FairSpec
CHECK_DEADLOCK FALSE
INVARIANTS TypeOK AxesAlive NoBacklog LeakPerSession StoppedUnlessEnabled
PROPERTIES NothingStartsOffline ImplementsInterlock WatchdogRearmed LossStopsAll
