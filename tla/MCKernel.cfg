SPECIFICATION Spec
CONSTANTS
  t1 = t1
  t2 = t2
  idle = idle
  HeapTasks = {"t1", "t2"}
  HeapAddress = 4
  HeapSize = 125
  HeapRequests = {0, 1, 8, 9, 24, 40, 200}
  Users <- MCUsers
  Rank <- MCRank
  QueueJobs <- MCQueueJobs
  QueueSends = {"back"}
  QueueLength = 2
  MailboxJobs <- MCMailboxJobs
  MailboxSends = {"overwrite"}
  MaxLock = 2
  Owners = {"low", "mid", "high"}
  OwnerRank <- MCOwnerRank
  Mutexes = {"m", "r"}
  Recursive = {"r"}
  Semaphores = {"s"}
  SemaphoreMax = 2
  TakeWaits = {"poll", "timed", "forever"}
  TakeUses <- MCTakeUses
  MaxDepth = 2
  StreamSize = 3
  StreamSends = {1, 3}
  StreamReads = {2}
  StreamTriggers = {2}
  MessageSize = 8
  MessagePrefix = 2
  MessageSends = {2}
  MessageReads = {1, 2}
  MessageTriggers = {0}
INVARIANTS
  HeapSound
  QueueServesWaiters
  
  SchedulerSound
  WaitersServed
  StreamsIntact
PROPERTIES
  QueueIsFifo
  WaitsExact
