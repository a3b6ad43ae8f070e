------------------------------ MODULE MCKernel ------------------------------
(***************************************************************************)
(* The components of FreeRTOS, each on a small instance: two or three tasks, *)
(* interrupts, a tick counter that wraps after a few ticks.                *)
(***************************************************************************)
EXTENDS Units, TLAPS

CONSTANTS t1, t2, idle,   \* tasks of the scheduler's instance
          \* the heap: the tasks that use it, the array, the sizes asked for
          HeapTasks, HeapAddress, HeapSize, HeapRequests,
          \* the queue and the mailbox: the tasks that use them, their priorities,
          \* calls and interrupts, the places, and the bound of a lock's count
          Users, Rank, QueueJobs, QueueSends, QueueLength, MailboxJobs, MailboxSends, MaxLock,
          \* mutexes and semaphores: the tasks that use them, their base priorities, what
          \* there is, the count of a semaphore, the times to wait, who takes what, and the
          \* bound of nested calls
          Owners, OwnerRank, Mutexes, Recursive, Semaphores, SemaphoreMax, TakeWaits, TakeUses, MaxDepth,
          \* the stream of bytes: its size, the numbers of bytes sent and asked for, the
          \* trigger levels
          StreamSize, StreamSends, StreamReads, StreamTriggers,
          \* the stream of messages: its size, the bytes of a length, the sizes of a
          \* message and of the reader's buffer, the trigger levels
          MessageSize, MessagePrefix, MessageSends, MessageReads, MessageTriggers

\* Two readers and two writers of different priority on one queue
MCUsers == {"r1", "r2", "s1", "s2"}
MCRank == [t \in MCUsers |-> IF t \in {"r1", "s1"} THEN 2 ELSE 1]
MCQueueJobs == [r1 |-> {[op |-> "receive", wait |-> "timed"], [op |-> "peek", wait |-> "forever"]},
                r2 |-> {[op |-> "receive", wait |-> "forever"]},
                s1 |-> {[op |-> "front", wait |-> "timed"], [op |-> "reset", wait |-> "poll"]},
                s2 |-> {[op |-> "back", wait |-> "forever"]}]
MCMailboxJobs == [MCQueueJobs EXCEPT !.s1 = {[op |-> "overwrite", wait |-> "poll"],
                                             [op |-> "back", wait |-> "timed"]}]

\* A task that takes mutexes only, one that also takes a semaphore, one that takes all
MCOwnerRank == [low |-> 1, mid |-> 2, high |-> 3]
MCTakeUses == [low |-> {"m", "r"}, mid |-> {"r", "s"}, high |-> {"m", "r", "s"}]

\* A heap
Heap == INSTANCE Heap4Proofs WITH
  Tasks <- HeapTasks, ucHeap <- HeapAddress, configTOTAL_HEAP_SIZE <- HeapSize,
  Requests <- HeapRequests,
  inited <- v1, freeList <- v2, used <- v3, releasing <- v4, xFreeBytesRemaining <- v5,
  xMinimumEverFreeBytesRemaining <- v6

\* A queue
Q == INSTANCE KernelQueueProofs WITH
  Task <- Users, Priority <- Rank, Jobs <- QueueJobs, IsrSends <- QueueSends,
  uxLength <- QueueLength,
  q <- v1, xTasksWaitingToSend <- v2, xTasksWaitingToReceive <- v3, sched <- v4, job <- v5,
  at <- v6, after <- v7, expired <- v8

\* A mailbox of one item
Mailbox == INSTANCE KernelQueueProofs WITH
  Task <- Users, Priority <- Rank, Jobs <- MailboxJobs, IsrSends <- MailboxSends,
  uxLength <- 1,
  q <- v1, xTasksWaitingToSend <- v2, xTasksWaitingToReceive <- v3, sched <- v4, job <- v5,
  at <- v6, after <- v7, expired <- v8

\* Mutexes and semaphores, for tasks that hold nothing while they wait
Mutex == INSTANCE KernelMutexProofs WITH
  Task <- Owners, BasePriority <- OwnerRank, Mutexes <- Mutexes, Recursive <- Recursive,
  Semaphores <- Semaphores, uxMaxCount <- SemaphoreMax, Waits <- TakeWaits, Uses <- TakeUses,
  HoldAndWait <- {}, MaxDepth <- MaxDepth,
  uxPriority <- v1, uxMutexesHeld <- v2, count <- v3, pxMutexHolder <- v4, depth <- v5,
  cTxLock <- v6, xTasksWaitingToReceive <- v7, sched <- v8, at <- v9, want <- v10, wait <- v11,
  expired <- v12, inherited <- v13

\* Two tasks beside the idle task
Tasks == INSTANCE KernelTasks WITH
  Task <- {t1, t2}, Idle <- idle, TickRange <- 4, Delays <- {1, 2}, Priorities <- {1, 2},
  MaxPended <- 1,
  k <- v1, cur <- v2, pendSV <- v3, phase <- v4, arg <- v5

\* Notifications between two tasks and an interrupt
Notify == INSTANCE TaskNotify WITH
  Task <- {"t1", "t2"}, ValueRange <- 4, Values <- {1, 2},
  Actions <- {"eSetBits", "eSetValueWithOverwrite", "eSetValueWithoutOverwrite", "eNoAction"},
  ucNotifyState <- v1, ulNotifiedValue <- v2, list <- v3, pending <- v4, locked <- v5, at <- v6,
  asked <- v7

\* Three rounds of the tick counter
Tick == INSTANCE TickTime WITH
  TickRange <- 5, MaxTime <- 16, Start <- 3,
  xTickCount <- v1, xNumOfOverflows <- v2, timeOut <- v3, xTicksToWait <- v4, expired <- v5,
  xPreviousWake <- v6, delayed <- v7, now <- v8, deadline <- v9, checked <- v10, previous <- v11

\* A one-shot and a reloading timer with a short command queue
Timers == INSTANCE KernelTimers WITH
  Timer <- {"a", "b"}, AutoReload <- {"a"}, TickRange <- 6, Periods <- {1}, FirstPeriod <- 3,
  configTIMER_QUEUE_LENGTH <- 2, MaxTime <- 7, MaxLag <- 2,
  d <- v1, now <- v2, at <- v3, wake <- v4, lag <- v5

\* An event group that may be deleted
Events == INSTANCE EventGroups WITH
  Task <- {"t1", "t2"}, Bit <- {"b1", "b2"}, Timed <- TRUE, Deletes <- TRUE, Pends <- 1,
  Rounds <- 1,
  uxEventBits <- v1, waiters <- v2, item <- v3, at <- v4, pended <- v5, alive <- v6, met <- v7,
  ret <- v8

\* A stream of bytes
Stream == INSTANCE StreamBufferProofs WITH
  Size <- StreamSize, Prefix <- 0, SendSizes <- StreamSends, ReadSizes <- StreamReads,
  Triggers <- StreamTriggers, Timed <- TRUE,
  s <- v1, w <- v2, r <- v3, note <- v4, q <- v5

\* A stream of messages of one length
Message == INSTANCE StreamBufferProofs WITH
  Size <- MessageSize, Prefix <- MessagePrefix, SendSizes <- MessageSends,
  ReadSizes <- MessageReads, Triggers <- MessageTriggers, Timed <- TRUE,
  s <- v1, w <- v2, r <- v3, note <- v4, q <- v5

\* A set of two queues
Sets == INSTANCE QueueSets WITH
  Queue <- {"q1", "q2"}, Task <- {"t1", "t2"}, uxLength <- 2, SetLength <- 4, Slots <- 1,
  Overwrite <- FALSE, Leave <- FALSE,
  alive <- v1, uxMessagesWaiting <- v2, container <- v3, cTxLock <- v4, set <- v5, at <- v6,
  registry <- v7

\* Queues that come and go, with a registry of one slot
Registry == INSTANCE QueueSets WITH
  Queue <- {"q1", "q2"}, Task <- {"t1", "t2"}, uxLength <- 1, SetLength <- 2, Slots <- 1,
  Overwrite <- TRUE, Leave <- TRUE,
  alive <- v1, uxMessagesWaiting <- v2, container <- v3, cTxLock <- v4, set <- v5, at <- v6,
  registry <- v7

\* Three co-routines on one queue
Cor == INSTANCE CoRoutines WITH
  CoRoutine <- {"c1", "c2", "c3"}, High <- {"c1"}, uxLength <- 2, TickRange <- 4, Wait <- 2,
  Behind <- 2, Posts <- 1,
  ready <- v1, delayed <- v2, overflow <- v3, event <- v4, order <- v5, waiting <- v6, tick <- v7,
  cotick <- v8, top <- v9, phase <- v10, cur <- v11, pc <- v12, due <- v13

ASSUME MCKernelAssumption ==
  /\ Heap!HeapAssumption
  /\ Q!QueueAssumption
  /\ Mailbox!QueueAssumption
  /\ Mutex!MutexAssumption
  /\ Tasks!TasksAssumption
  /\ Notify!NotifyAssumption
  /\ Tick!TickAssumption
  /\ Timers!TimersAssumption
  /\ Stream!SizeAssumption
  /\ Message!SizeAssumption
  /\ Message!MessageAssumption
  /\ Sets!SetAssumption
  /\ Registry!SetAssumption

Init ==
  \/ On("heap") /\ Heap!Init /\ Off6
  \/ On("queue") /\ Q!Init /\ Off8
  \/ On("mailbox") /\ Mailbox!Init /\ Off8
  \/ On("mutex") /\ Mutex!Init /\ Off13
  \/ On("tasks") /\ Tasks!Init /\ Off5
  \/ On("notify") /\ Notify!Init /\ Off7
  \/ On("tick") /\ Tick!Init /\ Off11
  \/ On("timers") /\ Timers!Init /\ Off5
  \/ On("events") /\ Events!Init /\ Off8
  \/ On("stream") /\ Stream!Init /\ Off5
  \/ On("message") /\ Message!Init /\ Off5
  \/ On("sets") /\ Sets!Init /\ Off7
  \/ On("registry") /\ Registry!Init /\ Off7
  \/ On("coroutines") /\ Cor!Init /\ Off13

Next ==
  \/ On("heap") /\ Heap!Next /\ Same6
  \/ On("queue") /\ Q!Next /\ Same8
  \/ On("mailbox") /\ Mailbox!Next /\ Same8
  \/ On("mutex") /\ Mutex!Next /\ Same13
  \/ On("tasks") /\ Tasks!Next /\ Same5
  \/ On("notify") /\ Notify!Next /\ Same7
  \/ On("tick") /\ Tick!Next /\ Same11
  \/ On("timers") /\ Timers!Next /\ Same5
  \/ On("events") /\ Events!Next /\ Same8
  \/ On("stream") /\ Stream!Next /\ Same5
  \/ On("message") /\ Message!Next /\ Same5
  \/ On("sets") /\ Sets!Next /\ Same7
  \/ On("registry") /\ Registry!Next /\ Same7
  \/ On("coroutines") /\ Cor!Next /\ Same13
  \/ unit \in {"tick", "timers"} /\ UNCHANGED <<unit, pool>>   \* where the bound ends it

Spec == Init /\ [][Next]_<<unit, pool>>

\* heap_4.c: whichever task allocates or frees next, the heap stays whole.
\*  - heap_4.c: blocks in use, blocks being freed and free blocks tile the
\*    heap without a gap or an overlap, whichever task allocates or frees
\*    next.
\*  - prvInsertBlockIntoFreeList: no two free blocks are neighbours, so free
\*    bytes that lie together can be allocated together.
\*  - xFreeBytesRemaining is what the free list holds and
\*    xMinimumEverFreeBytesRemaining never above it.
HeapSound ==
  On("heap") => /\ Heap!Tiling
                /\ Heap!Merged
                /\ Heap!Accounting

\* queue.c: nobody sleeps on a queue that could serve him.
\*  - xQueueReceive: no reader sleeps while the queue holds an item, unless
\*    a task that will wake it or take the item is on its way, whatever
\*    interrupts send between its attempt and its sleep.
\*  - xQueueGenericSend: the same for a writer and a place in the queue.
QueueServesWaiters ==
  /\ On("queue") => /\ Q!NoLostReceiver
                    /\ Q!NoLostSender
  /\ On("mailbox") => Mailbox!NoLostReceiver

\* Priority inheritance and mutexes, for three tasks of different priority,
\* nested use, timeouts and a recursive mutex.
\*  - xTaskPriorityDisinherit: a task that holds no mutex runs at its own
\*    priority, also after nested mutexes, timeouts of waiters and changes
\*    of the scheduler's lock.
\*  - xTaskPriorityInherit, vTaskPriorityDisinheritAfterTimeout: the holder
\*    of a mutex is not below a task that waits for it.
\*  - xSemaphoreGive: no task sleeps on a free mutex or semaphore unless
\*    another that wants it is on its way.
MutexInheritance ==
  On("mutex") => /\ Mutex!PriorityRestored
                 /\ Mutex!HolderNotBelow
                 /\ Mutex!NoLostGive

\* tasks.c: the right task runs and nobody is forgotten or woken for
\* nothing, whatever ticks and interrupts come while the scheduler is
\* suspended.
\*  - tasks.c: whenever the scheduler is not suspended and no switch is
\*    pending, the running task has the highest priority of those that are
\*    ready.
\*  - No delay or timeout is missed across the wrap of the tick count and
\*    ticks pended while the scheduler is suspended (xTaskIncrementTick,
\*    xNextTaskUnblockTime).
\*  - A task that is ready waits for nothing: whichever of timeout, event,
\*    abort, suspension and deletion came first took it out of the event
\*    list.
\*  - xTaskNotify: a task that waits in ulTaskNotifyTake or xTaskNotifyWait
\*    and is not suspended has not been notified, or is about to be made
\*    ready.
\*  - A task suspended by vTaskSuspend stays so until vTaskResume, whatever
\*    notifications it is sent.
SchedulerSound ==
  /\ On("tasks") => /\ Tasks!RunsHighest
                    /\ Tasks!NeverLate
                    /\ Tasks!OneReason
  /\ On("notify") => /\ Notify!NoLostNotification
                     /\ Notify!StaysSuspended

\* What waits on an event group, a queue set or as a co-routine gets what
\* came for it, once.
\*  - xEventGroupSetBits: a task in the list of the group waits for bits
\*    that are not set, whoever set or cleared bits in which order.
\*  - xEventGroupWaitBits returns the value that ended the wait, even when
\*    other tasks have cleared bits since.
\*  - prvNotifyQueueSetContainer: handles in the set, handles taken and
\*    posts not yet announced are as many as the messages of a member (posts
\*    that do not overwrite; see README).
\*  - vQueueUnregisterQueue: the registry names only queues that exist.
\*  - croutine.c: a co-routine is in one list at a time, although interrupts
\*    move it to the pending list.
\*  - prvCheckDelayedList: a delay ends at its tick, across the wrap and
\*    ticks seen late.
\*  - xQueueCRReceive: a message never waits while a co-routine sleeps for
\*    it.
WaitersServed ==
  /\ On("events") => /\ Events!NoMissedEvent
                     /\ Events!ReturnsWhatWasMet
  /\ On("sets") => Sets!SetCountsMessages
  /\ On("registry") => Registry!NoStaleName
  /\ On("coroutines") => /\ Cor!OncePlaced
                         /\ Cor!ExactDelay
                         /\ Cor!MessagesClaimed

\* Stream and message buffers, whose ring is shared without a lock.
\*  - stream_buffer.c: what is between tail and head is what was written and
\*    not read, in order; the unlocked ring never loses, repeats or tears a
\*    byte or a message (messages of one size in a buffer that holds a
\*    multiple of it; otherwise a length that is put back breaks it, see
\*    README).
\*  - xStreamBufferSend: no writer sleeps while its data fits, unless the
\*    reader is about to notify it.
\*  - prvReadMessageFromBuffer: a reader that got the length of a message
\*    gets all of the message.
StreamsIntact ==
  /\ On("stream") => /\ Stream!Intact
                     /\ Stream!WriterNotForgotten
  /\ On("message") => /\ Message!Intact
                      /\ Message!WholeMessage

\* The ring of a queue or mailbox with its two indices implements a bounded
\* FIFO (BoundedFifo) through every wrap, write at the front, overwrite and
\* reset.
QueueIsFifo ==
  /\ On("queue") => Q!Fifo!Init
  /\ On("mailbox") => Mailbox!Fifo!Init
  /\ [][/\ On("queue") => Q!Fifo!Next \/ UNCHANGED Q!Content
        /\ On("mailbox") => Mailbox!Fifo!Next \/ UNCHANGED Mailbox!Content]_<<unit, pool>>

\* Times are kept although the tick count wraps and ticks are seen late.
\*  - xTaskIncrementTick readies a delayed task only when its time is over.
\*  - xTaskCheckForTimeOut says that the time is over from the deadline on
\*    and not before, however often a wait is resumed and wherever the tick
\*    count wraps.
\*  - vTaskDelayUntil sleeps exactly when the next wake time is still to
\*    come.
\*  - timers.c: no callback runs before its time, although commands are
\*    processed late and the two lists are switched at the wrap.
\*  - prvProcessTimerOrBlockTask: the daemon never sleeps past the expiry of
\*    an active timer.
\*  - An active timer is in one of the lists and at its time, through
\*    starts, stops, changes of period and the switch of the lists.
WaitsExact ==
  /\ [](On("timers") => /\ Timers!NeverEarly
                        /\ Timers!NeverOverslept
                        /\ Timers!Kept)
  /\ [][/\ On("tasks") => Tasks!NeverEarly
        /\ On("tick") => /\ Tick!TimeoutExact
                         /\ Tick!PeriodKept]_<<unit, pool>>

-----------------------------------------------------------------------------
(* Proved for every heap, queue, mailbox, mutex, semaphore and stream or   *)
(* message buffer that meets MCKernelAssumption, not only for the values   *)
(* of MCKernel.cfg.                                                        *)

\* The component a behaviour is about keeps its invariant.
KernelInv ==
    /\ On("heap") => Heap!Inv
    /\ On("queue") => Q!Inv
    /\ On("mailbox") => Mailbox!Inv
    /\ On("mutex") => Mutex!Inv
    /\ On("stream") => Stream!Inv
    /\ On("message") => Message!Inv

\* What the units need to know of the constants.
LEMMA KernelConstants ==
    /\ Heap!HeapAssumption /\ Q!QueueAssumption /\ Mailbox!QueueAssumption /\ Mutex!MutexAssumption
    /\ Stream!SizeAssumption /\ Stream!MessageAssumption
    /\ Message!SizeAssumption /\ Message!MessageAssumption
  <1>1. Stream!MessageAssumption
    BY DEF Stream!MessageAssumption
  <1> QED
    BY <1>1, MCKernelAssumption

LEMMA KernelInit ==
    Init => KernelInv
  <1> SUFFICES ASSUME Init PROVE KernelInv
    OBVIOUS
  <1>2. /\ On("heap") => Heap!Init
        /\ On("queue") => Q!Init
        /\ On("mailbox") => Mailbox!Init
        /\ On("mutex") => Mutex!Init
        /\ On("stream") => Stream!Init
        /\ On("message") => Message!Init
    BY DEF Init, On
  <1>3. On("heap") => Heap!Inv
    BY KernelConstants, <1>2, Heap!HeapInit
  <1>4. On("queue") => Q!Inv
    BY KernelConstants, <1>2, Q!QueueInit
  <1>5. On("mailbox") => Mailbox!Inv
    BY KernelConstants, <1>2, Mailbox!QueueInit
  <1>6. On("mutex") => Mutex!Inv
    BY KernelConstants, <1>2, Mutex!MutexInit
  <1>7. On("stream") => Stream!Inv
    BY KernelConstants, <1>2, Stream!StreamInit
  <1>8. On("message") => Message!Inv
    BY KernelConstants, <1>2, Message!StreamInit
  <1> QED
    BY <1>3, <1>4, <1>5, <1>6, <1>7, <1>8 DEF KernelInv

\* A step of one component leaves "unit" alone, so it is a step of this component
\* or no step of it at all.
LEMMA KernelStep ==
    ASSUME [Next]_<<unit, pool>>
    PROVE  /\ unit' = unit
           /\ On("heap") => [Heap!Next]_(Heap!vars)
           /\ On("queue") => [Q!Next]_(Q!vars)
           /\ On("mailbox") => [Mailbox!Next]_(Mailbox!vars)
           /\ On("mutex") => [Mutex!Next]_(Mutex!vars)
           /\ On("stream") => [Stream!Next]_(Stream!vars)
           /\ On("message") => [Message!Next]_(Message!vars)
  <1>1. CASE UNCHANGED <<unit, pool>>
    BY <1>1 DEF pool, Heap!vars, Q!vars, Mailbox!vars, Mutex!vars,
           Stream!vars, Message!vars
  <1>2. CASE Next
    <2>1. unit' = unit
      BY <1>2 DEF Next, Same5, Same6, Same7, Same8, Same9, Same10, Same11, Same12, Same13
    <2>2. /\ On("heap") => Heap!Next
          /\ On("queue") => Q!Next
          /\ On("mailbox") => Mailbox!Next
          /\ On("mutex") => Mutex!Next
          /\ On("stream") => Stream!Next
          /\ On("message") => Message!Next
      BY <1>2 DEF Next, On
    <2> QED
      BY <2>1, <2>2
  <1> QED
    BY <1>1, <1>2

LEMMA KernelNext ==
    KernelInv /\ [Next]_<<unit, pool>> => KernelInv'
  <1> SUFFICES ASSUME KernelInv, [Next]_<<unit, pool>> PROVE KernelInv'
    OBVIOUS
  <1>2. /\ unit' = unit
        /\ On("heap") => [Heap!Next]_(Heap!vars)
        /\ On("queue") => [Q!Next]_(Q!vars)
        /\ On("mailbox") => [Mailbox!Next]_(Mailbox!vars)
        /\ On("mutex") => [Mutex!Next]_(Mutex!vars)
        /\ On("stream") => [Stream!Next]_(Stream!vars)
        /\ On("message") => [Message!Next]_(Message!vars)
    BY KernelStep
  <1>3. On("heap")' => Heap!Inv'
    BY KernelConstants, <1>2, Heap!HeapNext DEF KernelInv, On
  <1>4. On("queue")' => Q!Inv'
    BY KernelConstants, <1>2, Q!QueueNext DEF KernelInv, On
  <1>5. On("mailbox")' => Mailbox!Inv'
    BY KernelConstants, <1>2, Mailbox!QueueNext DEF KernelInv, On
  <1>6. On("mutex")' => Mutex!Inv'
    BY KernelConstants, <1>2, Mutex!MutexNext DEF KernelInv, On
  <1>7. On("stream")' => Stream!Inv'
    BY KernelConstants, <1>2, Stream!StreamNext DEF KernelInv, On
  <1>8. On("message")' => Message!Inv'
    BY KernelConstants, <1>2, Message!StreamNext DEF KernelInv, On
  <1> QED
    BY <1>3, <1>4, <1>5, <1>6, <1>7, <1>8 DEF KernelInv

\* The invariants of the allocator, of the queues, of the mutexes and of the stream buffers hold
\* in every state of the run's specification.
THEOREM KernelInvariance ==
    Spec => []KernelInv
  BY KernelInit, KernelNext, PTL DEF Spec

\* heap_4.c: whatever the array, the tasks and the sizes they ask for, blocks tile
\* the heap, free neighbours are merged and the free bytes are counted exactly.
THEOREM HeapIsSound ==
    Spec => []HeapSound
  <1>1. KernelInv => HeapSound
    BY MCKernelAssumption, Heap!InvTiling, Heap!InvMerged, Heap!InvAccounting DEF KernelInv, HeapSound
  <1> QED
    BY <1>1, KernelInvariance, PTL

\* queue.c: whatever the length of the queue, the tasks, their calls and the
\* interrupts, no task sleeps on a queue that could serve it.
THEOREM QueueServesAll ==
    Spec => []QueueServesWaiters
  <1>1. KernelInv => QueueServesWaiters
    BY MCKernelAssumption, Q!InvImplies, Mailbox!InvImplies DEF KernelInv, QueueServesWaiters
  <1> QED
    BY <1>1, KernelInvariance, PTL

\* tasks.c and queue.c: whatever the tasks, their priorities and what they take, no
\* priority is left behind, the holder of a mutex is not below those that wait for
\* it, and nobody sleeps on what is free with nobody on the way to take it.
THEOREM MutexIsSound ==
    Spec => []MutexInheritance
  <1>1. KernelInv => MutexInheritance
    BY MCKernelAssumption, Mutex!MutexImplies DEF KernelInv, MutexInheritance
  <1> QED
    BY <1>1, KernelInvariance, PTL

\* stream_buffer.c: whatever the size of the buffer, the numbers of bytes and the trigger
\* levels, the ring without a lock holds what was written and not read, no writer of bytes
\* sleeps while they fit, and a message is read whole.
THEOREM StreamsAreIntact ==
    Spec => []StreamsIntact
  <1>1. KernelInv => StreamsIntact
    BY KernelConstants, Stream!InvImplies, Message!InvImplies DEF KernelInv, StreamsIntact
  <1> QED
    BY <1>1, KernelInvariance, PTL

\* queue.c: whatever its length, the ring with its two indices and its count is a
\* bounded FIFO.
THEOREM RingIsFifo ==
    Spec => QueueIsFifo
  <1>1. Q!QueueAssumption /\ Mailbox!QueueAssumption
    BY MCKernelAssumption
  <1>2. Init => (On("queue") => Q!Fifo!Init) /\ (On("mailbox") => Mailbox!Fifo!Init)
    <2> SUFFICES ASSUME Init PROVE (On("queue") => Q!Fifo!Init) /\ (On("mailbox") => Mailbox!Fifo!Init)
      OBVIOUS
    <2>1. (On("queue") => Q!Init) /\ (On("mailbox") => Mailbox!Init)
      BY DEF Init, On
    <2> QED
      BY <1>1, <2>1, Q!FifoInit, Mailbox!FifoInit
  <1>3. KernelInv /\ [Next]_<<unit, pool>>
          => [/\ On("queue") => Q!Fifo!Next \/ UNCHANGED Q!Content
              /\ On("mailbox") => Mailbox!Fifo!Next \/ UNCHANGED Mailbox!Content]_<<unit, pool>>
    <2> SUFFICES ASSUME KernelInv, [Next]_<<unit, pool>>
                 PROVE  /\ On("queue") => Q!Fifo!Next \/ UNCHANGED Q!Content
                        /\ On("mailbox") => Mailbox!Fifo!Next \/ UNCHANGED Mailbox!Content
      OBVIOUS
    <2>1. /\ On("queue") => [Q!Next]_(Q!vars)
          /\ On("mailbox") => [Mailbox!Next]_(Mailbox!vars)
      BY KernelStep
    <2>2. (On("queue") => Q!Base) /\ (On("mailbox") => Mailbox!Base)
      BY DEF KernelInv, Q!Inv, Q!Base, Mailbox!Inv, Mailbox!Base
    <2> QED
      BY <1>1, <2>1, <2>2, Q!FifoNext, Mailbox!FifoNext
  <1> QED
    BY <1>2, <1>3, KernelInvariance, PTL DEF Spec, QueueIsFifo
=============================================================================
