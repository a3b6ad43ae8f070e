----------------------------- MODULE KernelMutex -----------------------------
(***************************************************************************)
(* The queues of queue.c that carry no data: counting semaphores, mutexes  *)
(* and recursive mutexes, with the priority inheritance of tasks.c.  One   *)
(* processor runs a ready task of the highest priority; a task that is     *)
(* "idle" is blocked on something else and is woken by an interrupt.       *)
(***************************************************************************)
EXTENDS Integers, Sequences, FiniteSets, SequencesExt

CONSTANTS Task, BasePriority,
          Mutexes,      \* taken and given by the same task
          Recursive,    \* those of them used through the recursive calls
          Semaphores,   \* counting semaphores, also given by the interrupt
          uxMaxCount,   \* count of a semaphore
          Waits,        \* times to wait used: "poll", "timed", "forever"
          Uses,         \* Uses[t]: the objects task t takes
          HoldAndWait,  \* tasks that wait for a second object while they hold one
          MaxDepth      \* bound: nested calls of a recursive mutex

Objects == Mutexes \cup Semaphores
Nobody  == "nobody"

MutexAssumption ==
    /\ IsFiniteSet(Task) /\ IsFiniteSet(Mutexes) /\ Nobody \notin Task \cup Objects
    /\ Recursive \subseteq Mutexes /\ Mutexes \cap Semaphores = {}
    /\ uxMaxCount \in Nat \ {0} /\ MaxDepth \in Nat \ {0}
    /\ BasePriority \in [Task -> Nat] /\ Waits \subseteq {"poll", "timed", "forever"}
    /\ \A t \in Task : Uses[t] \subseteq Objects

VARIABLES uxPriority,       \* of each task
          uxMutexesHeld,    \* of each task
          count,            \* uxMessagesWaiting of each object
          pxMutexHolder,    \* of each mutex
          depth,            \* uxRecursiveCallCount of each recursive mutex
          cTxLock,          \* of each object
          xTasksWaitingToReceive,
          sched,            \* the task that suspended the scheduler
          at, want,         \* where each task is, and the object it takes
          wait,             \* its time to wait
          expired,          \* that time is over
          inherited         \* xInheritanceOccurred

vars == <<uxPriority, uxMutexesHeld, count, pxMutexHolder, depth, cTxLock,
          xTasksWaitingToReceive, sched, at, want, wait, expired, inherited>>
tcb  == <<uxPriority, uxMutexesHeld>>
obj  == <<count, pxMutexHolder, depth>>
call == <<want, wait, expired, inherited>>

queueUNLOCKED == -1

uxLength(o) == IF o \in Mutexes THEN 1 ELSE uxMaxCount

\* xQueueCreateCountingSemaphore (here with count 0) and xQueueCreateMutex, which
\* gives the new mutex once.
Init == /\ uxPriority = BasePriority
        /\ uxMutexesHeld = [t \in Task |-> 0]
        /\ count = [o \in Objects |-> IF o \in Mutexes THEN 1 ELSE 0]
        /\ pxMutexHolder = [o \in Mutexes |-> Nobody]
        /\ depth = [o \in Recursive |-> 0]
        /\ cTxLock = [o \in Objects |-> queueUNLOCKED]
        /\ xTasksWaitingToReceive = [o \in Objects |-> <<>>]
        /\ sched = Nobody
        /\ at = [t \in Task |-> "idle"]
        /\ want = [t \in Task |-> Nobody]
        /\ wait = [t \in Task |-> "poll"]
        /\ expired = [t \in Task |-> FALSE]
        /\ inherited = [t \in Task |-> FALSE]

Waiting == UNION {ToSet(xTasksWaitingToReceive[o]) : o \in Objects}
Ready(t) == at[t] # "idle" /\ t \notin Waiting

\* The scheduler runs t: nobody else suspended it and no ready task is above t.
Runs(t) == /\ sched = Nobody /\ Ready(t)
           /\ \A u \in Task : Ready(u) => uxPriority[u] <= uxPriority[t]

\* xTaskRemoveFromEventList: the first task of an event list becomes ready.
Wake(list) == IF list = <<>> THEN <<>> ELSE Tail(list)

\* vListInsert by item value: before the first entry of a lower priority.  A
\* priority changed since keeps the entry where it is.
PlaceOnEventList(list, t) ==
    LET below == {i \in 1 .. Len(list) : uxPriority[list[i]] < uxPriority[t]}
        i     == IF below = {} THEN Len(list) + 1 ELSE Min(below)
    IN InsertAt(list, i, t)

\* uxListRemove of the event list item of t, which may be in no list.
ListRemove(list, t) ==
    IF t \in ToSet(list) THEN RemoveAt(list, CHOOSE i \in 1 .. Len(list) : list[i] = t)
    ELSE list

Return(t) == /\ at' = [at EXCEPT ![t] = "work"]
             /\ want' = [want EXCEPT ![t] = Nobody]
             /\ wait' = [wait EXCEPT ![t] = "poll"]
             /\ expired' = [expired EXCEPT ![t] = FALSE]
             /\ inherited' = [inherited EXCEPT ![t] = FALSE]

-----------------------------------------------------------------------------
\* Mutant: the holder keeps its priority.
InheritNothing(h, t) == UNCHANGED uxPriority

\* xTaskPriorityInherit: holder h gets the priority of t if that is higher.
xTaskPriorityInherit(h, t) ==
    IF h # Nobody /\ uxPriority[h] < uxPriority[t]
    THEN uxPriority' = [uxPriority EXCEPT ![h] = uxPriority[t]]
    ELSE UNCHANGED uxPriority

\* Its result: h runs above its base priority because t waits.
Inherits(h, t) == h # Nobody /\ (uxPriority[h] < uxPriority[t] \/ BasePriority[h] < uxPriority[t])

\* Mutant: the priority goes back only if no other mutex was held from the start.
DisinheritNever(h) ==
    /\ uxMutexesHeld' = [uxMutexesHeld EXCEPT ![h] = @ - 1]
    /\ uxPriority' = [uxPriority EXCEPT ![h] = IF uxMutexesHeld[h] > 1 THEN BasePriority[h] ELSE @]

\* xTaskPriorityDisinherit: with the last mutex given the base priority returns.
xTaskPriorityDisinherit(h) ==
    /\ uxMutexesHeld' = [uxMutexesHeld EXCEPT ![h] = @ - 1]
    /\ uxPriority' = [uxPriority EXCEPT ![h] = IF uxMutexesHeld[h] = 1 THEN BasePriority[h] ELSE @]

\* prvGetDisinheritPriorityAfterTimeout: the priority of the first waiting task.
prvGetDisinheritPriorityAfterTimeout(o) ==
    LET list == xTasksWaitingToReceive[o] IN IF list = <<>> THEN 0 ELSE uxPriority[Head(list)]

\* vTaskPriorityDisinheritAfterTimeout: only a holder of one mutex is lowered.
vTaskPriorityDisinheritAfterTimeout(h, p) ==
    IF h # Nobody /\ uxMutexesHeld[h] = 1
    THEN uxPriority' = [uxPriority EXCEPT ![h] = IF BasePriority[h] < p THEN p ELSE BasePriority[h]]
    ELSE UNCHANGED uxPriority

-----------------------------------------------------------------------------
\* The environment of a task: something it waits for outside this module.
WakeUp(t) == /\ at[t] = "idle" /\ sched = Nobody
             /\ at' = [at EXCEPT ![t] = "work"]
             /\ UNCHANGED <<tcb, obj, cTxLock, xTasksWaitingToReceive, sched, call>>

Sleep(t)  == /\ at[t] = "work" /\ Runs(t)
             /\ at' = [at EXCEPT ![t] = "idle"]
             /\ UNCHANGED <<tcb, obj, cTxLock, xTasksWaitingToReceive, sched, call>>

\* Task t calls xSemaphoreTake or, when it does not hold the recursive mutex yet,
\* xQueueTakeMutexRecursive.
CallTake(t) ==
    /\ at[t] = "work" /\ Runs(t)
    /\ \E o \in Uses[t], w \in Waits :
          /\ o \in Mutexes => pxMutexHolder[o] # t
          /\ uxMutexesHeld[t] > 0 /\ t \notin HoldAndWait => w = "poll"
          /\ want' = [want EXCEPT ![t] = o]
          /\ wait' = [wait EXCEPT ![t] = w]
    /\ at' = [at EXCEPT ![t] = "try"]
    /\ UNCHANGED <<tcb, obj, cTxLock, xTasksWaitingToReceive, sched, expired, inherited>>

\* xQueueTakeMutexRecursive by the holder only counts.
xQueueTakeMutexRecursive(t, o) ==
    /\ at[t] = "work" /\ Runs(t) /\ pxMutexHolder[o] = t
    /\ depth[o] < MaxDepth
    /\ depth' = [depth EXCEPT ![o] = @ + 1]
    /\ UNCHANGED <<tcb, count, pxMutexHolder, cTxLock, xTasksWaitingToReceive, sched, at, call>>

\* First critical section of xQueueSemaphoreTake, with the count of calls that
\* xQueueTakeMutexRecursive adds.
xQueueSemaphoreTake(t) ==
    LET o == want[t] IN
    /\ at[t] = "try" /\ Runs(t)
    /\ \/ /\ count[o] > 0
          /\ count' = [count EXCEPT ![o] = @ - 1]
          /\ IF o \in Mutexes
             THEN /\ pxMutexHolder' = [pxMutexHolder EXCEPT ![o] = t]
                  /\ uxMutexesHeld' = [uxMutexesHeld EXCEPT ![t] = @ + 1]
             ELSE UNCHANGED <<pxMutexHolder, uxMutexesHeld>>
          /\ depth' = IF o \in Recursive THEN [depth EXCEPT ![o] = @ + 1] ELSE depth
          /\ Return(t)
          /\ UNCHANGED uxPriority
       \/ /\ count[o] = 0 /\ wait[t] = "poll"
          /\ Return(t) /\ UNCHANGED <<tcb, obj>>
       \/ /\ count[o] = 0 /\ wait[t] # "poll"
          /\ at' = [at EXCEPT ![t] = "lock"]
          /\ UNCHANGED <<tcb, obj, call>>
    /\ UNCHANGED <<cTxLock, xTasksWaitingToReceive, sched>>

\* vTaskSuspendAll, prvLockQueue.
LockQueue(t) == /\ at[t] = "lock" /\ Runs(t)
                /\ sched' = t
                /\ cTxLock' = [cTxLock EXCEPT ![want[t]] = 0]
                /\ at' = [at EXCEPT ![t] = "check"]
                /\ UNCHANGED <<tcb, obj, xTasksWaitingToReceive, call>>

\* The task blocks on an object that is still taken; the holder of a mutex
\* inherits its priority first.
TakeOrBlock(t) ==
    LET o == want[t] IN
    /\ at[t] = "check"
    /\ at' = [at EXCEPT ![t] = "unlock"]
    /\ IF ~expired[t] /\ count[o] = 0
       THEN /\ xTasksWaitingToReceive' = [xTasksWaitingToReceive EXCEPT ![o] = PlaceOnEventList(@, t)]
            /\ IF o \in Mutexes
               THEN /\ xTaskPriorityInherit(pxMutexHolder[o], t)
                    /\ inherited' = [inherited EXCEPT ![t] = Inherits(pxMutexHolder[o], t)]
               ELSE UNCHANGED <<uxPriority, inherited>>
       ELSE UNCHANGED <<xTasksWaitingToReceive, uxPriority, inherited>>
    /\ UNCHANGED <<uxMutexesHeld, obj, cTxLock, sched, want, wait, expired>>

\* Mutant: what the interrupt gave while the object was locked wakes nobody.
UnlockSilent(t) ==
    LET o == want[t] IN
    /\ at[t] = "unlock"
    /\ cTxLock' = [cTxLock EXCEPT ![o] = queueUNLOCKED]
    /\ sched' = Nobody
    /\ at' = [at EXCEPT ![t] = IF expired[t] THEN "last" ELSE "try"]
    /\ UNCHANGED <<tcb, obj, xTasksWaitingToReceive, call>>

\* prvUnlockQueue and xTaskResumeAll.
UnlockQueue(t) ==
    LET o == want[t] IN
    /\ at[t] = "unlock"
    /\ xTasksWaitingToReceive' =
          [xTasksWaitingToReceive EXCEPT ![o] = SubSeq(@, cTxLock[o] + 1, Len(@))]
    /\ cTxLock' = [cTxLock EXCEPT ![o] = queueUNLOCKED]
    /\ sched' = Nobody
    /\ at' = [at EXCEPT ![t] = IF expired[t] THEN "last" ELSE "try"]
    /\ UNCHANGED <<tcb, obj, call>>

\* Time out: the object is looked at once more.
LastLook(t) ==
    /\ at[t] = "last" /\ Runs(t)
    /\ \/ /\ count[want[t]] > 0
          /\ at' = [at EXCEPT ![t] = "try"] /\ UNCHANGED call
       \/ /\ count[want[t]] = 0 /\ inherited[t]
          /\ at' = [at EXCEPT ![t] = "disinherit"] /\ UNCHANGED call
       \/ count[want[t]] = 0 /\ ~inherited[t] /\ Return(t)
    /\ UNCHANGED <<tcb, obj, cTxLock, xTasksWaitingToReceive, sched>>

\* Mutant: the holder falls back to its base priority at once.
DisinheritToBase(t) ==
    /\ at[t] = "disinherit" /\ Runs(t)
    /\ vTaskPriorityDisinheritAfterTimeout(pxMutexHolder[want[t]], 0)
    /\ Return(t)
    /\ UNCHANGED <<uxMutexesHeld, obj, cTxLock, xTasksWaitingToReceive, sched>>

\* The critical section at the end of xQueueSemaphoreTake: whoever holds the
\* mutex now no longer runs on behalf of t.
DisinheritAfterTimeout(t) ==
    /\ at[t] = "disinherit" /\ Runs(t)
    /\ vTaskPriorityDisinheritAfterTimeout(pxMutexHolder[want[t]],
                                           prvGetDisinheritPriorityAfterTimeout(want[t]))
    /\ Return(t)
    /\ UNCHANGED <<uxMutexesHeld, obj, cTxLock, xTasksWaitingToReceive, sched>>

\* xQueueGenericSend on an object without data: prvCopyDataToQueue gives the
\* mutex up, then one waiting task is woken.
xSemaphoreGive(t, o) ==
    /\ at[t] = "work" /\ Runs(t)
    /\ o \in Mutexes => pxMutexHolder[o] = t /\ (o \in Recursive => depth[o] = 1)
    /\ count[o] < uxLength(o)
    /\ count' = [count EXCEPT ![o] = @ + 1]
    /\ IF o \in Mutexes
       THEN xTaskPriorityDisinherit(t) /\ pxMutexHolder' = [pxMutexHolder EXCEPT ![o] = Nobody]
       ELSE UNCHANGED <<tcb, pxMutexHolder>>
    /\ depth' = IF o \in Recursive THEN [depth EXCEPT ![o] = 0] ELSE depth
    /\ xTasksWaitingToReceive' = [xTasksWaitingToReceive EXCEPT ![o] = Wake(@)]
    /\ UNCHANGED <<cTxLock, sched, at, call>>

\* xQueueGiveMutexRecursive while calls are still open.
xQueueGiveMutexRecursive(t, o) ==
    /\ at[t] = "work" /\ Runs(t) /\ pxMutexHolder[o] = t
    /\ depth[o] > 1
    /\ depth' = [depth EXCEPT ![o] = @ - 1]
    /\ UNCHANGED <<tcb, count, pxMutexHolder, cTxLock, xTasksWaitingToReceive, sched, at, call>>

\* The interrupt gives a semaphore; it only counts on a locked one.
xQueueGiveFromISR(o) ==
    /\ count[o] < uxLength(o)
    /\ count' = [count EXCEPT ![o] = @ + 1]
    /\ IF cTxLock[o] = queueUNLOCKED
       THEN /\ xTasksWaitingToReceive' = [xTasksWaitingToReceive EXCEPT ![o] = Wake(@)]
            /\ UNCHANGED cTxLock
       ELSE /\ cTxLock' = [cTxLock EXCEPT ![o] = @ + 1]
            /\ UNCHANGED xTasksWaitingToReceive
    /\ UNCHANGED <<tcb, pxMutexHolder, depth, sched, at, call>>

\* The tick interrupt.
Expire(t) ==
    /\ sched = Nobody /\ ~expired[t]
    /\ wait[t] = "timed" /\ at[t] \in {"try", "lock"}
    /\ expired' = [expired EXCEPT ![t] = TRUE]
    /\ xTasksWaitingToReceive' =
          [o \in Objects |-> ListRemove(xTasksWaitingToReceive[o], t)]
    /\ UNCHANGED <<tcb, obj, cTxLock, sched, at, want, wait, inherited>>

\* What task t does by itself once it is inside a call.
Proceed(t) == \/ xQueueSemaphoreTake(t) \/ LockQueue(t) \/ TakeOrBlock(t)
              \/ UnlockQueue(t) \/ LastLook(t) \/ DisinheritAfterTimeout(t)

GiveBack(t) == \/ \E o \in Uses[t] : xSemaphoreGive(t, o)
               \/ \E o \in Uses[t] \cap Recursive : xQueueGiveMutexRecursive(t, o)

Next == \/ \E t \in Task :
              \/ WakeUp(t) \/ Sleep(t) \/ CallTake(t) \/ Proceed(t) \/ GiveBack(t) \/ Expire(t)
              \/ \E o \in Uses[t] \cap Recursive : xQueueTakeMutexRecursive(t, o)
        \/ \E o \in Semaphores : xQueueGiveFromISR(o)

Spec == Init /\ [][Next]_vars

-----------------------------------------------------------------------------
\* A task without a mutex runs at its base priority: no order of nested gives,
\* recursive calls and timeouts of other tasks leaves a priority behind.
PriorityRestored == \A t \in Task : uxMutexesHeld[t] = 0 => uxPriority[t] = BasePriority[t]

\* No priority inversion through a mutex: its holder is never below a task that
\* waits for it, also after others that waited have timed out.
HolderNotBelow ==
    \A m \in Mutexes : pxMutexHolder[m] # Nobody =>
        \A t \in ToSet(xTasksWaitingToReceive[m]) : uxPriority[t] <= uxPriority[pxMutexHolder[m]]

\* A mutex or semaphore that is free has no sleeping waiter unless a task is on
\* its way to take it, whatever an interrupt gave while it was locked.
NoLostGive ==
    sched = Nobody =>
        \A o \in Objects : count[o] > 0 /\ xTasksWaitingToReceive[o] # <<>>
            => \E t \in Task : want[t] = o /\ Ready(t)

\* The comment before prvGetDisinheritPriorityAfterTimeout: after a timeout the
\* holder goes down "but only down to the highest priority of any other tasks that
\* are waiting for the same mutex".
LoweredToHighestWaiter ==
    [][\A m \in Mutexes :
          LET h == pxMutexHolder[m] IN
          h # Nobody /\ pxMutexHolder'[m] = h /\ uxPriority'[h] < uxPriority[h]
              => \A u \in ToSet(xTasksWaitingToReceive'[m]) : uxPriority'[u] <= uxPriority'[h]]_vars

-----------------------------------------------------------------------------
\* Every call is carried on when the scheduler runs its task, and a task that
\* runs while it holds something gives it back.
Fairness == \A t \in Task : WF_vars(Proceed(t)) /\ WF_vars(GiveBack(t))

\* Tasks that take nothing compute and never sleep: the processor is taken from
\* them only for a higher priority.  No task sleeps while it holds a mutex.
HogNext == Next /\ \A t \in Task : at[t] = "work" /\ at'[t] = "idle"
                                    => Uses[t] # {} /\ uxMutexesHeld[t] = 0

HogSpec == Init /\ [][HogNext]_vars /\ Fairness

\* The highest task that waits for a mutex is served although tasks of a middle
\* priority compute forever: the holder runs at the priority of the waiting task.
Top == {t \in Task : \A u \in Task : BasePriority[u] <= BasePriority[t]}
Wants(t) == want[t] # Nobody
NoStarvation == \A t \in Top : Wants(t) ~> ~Wants(t)
=============================================================================
