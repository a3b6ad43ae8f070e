----------------------------- MODULE KernelQueue -----------------------------
(***************************************************************************)
(* A queue of queue.c that carries items (uxItemSize > 0), used by tasks   *)
(* and by interrupt handlers.                                              *)
(*                                                                         *)
(* A critical section is one step.  A task that has to block suspends the  *)
(* scheduler, so no other task runs, and locks the queue, so an interrupt  *)
(* only counts what it did in cTxLock or cRxLock and leaves the two event  *)
(* lists alone; prvUnlockQueue then wakes as many tasks as were counted.   *)
(* Tasks are interleaved freely otherwise, which includes what preemption  *)
(* by priority allows.                                                     *)
(***************************************************************************)
EXTENDS Integers, Sequences, FiniteSets, SequencesExt

CONSTANTS Task,            \* the tasks that use the queue
          Priority,        \* Priority[t], the task's priority
          Jobs,            \* Jobs[t], the calls task t makes: [op, wait]
          IsrSends,        \* the copy positions the interrupt sends with
          uxLength,        \* number of items the queue holds
          MaxLock          \* bound: interrupts counted during one lock


VARIABLES q,                        \* the Queue_t: storage, indices, count, locks
          xTasksWaitingToSend,      \* event lists, highest priority first
          xTasksWaitingToReceive,
          sched,                    \* the task that suspended the scheduler
          job,                      \* the call each task is in
          at,                       \* where in it the task is
          after,                    \* where it goes once the queue is unlocked
          expired                   \* its time to wait is over

vars == <<q, xTasksWaitingToSend, xTasksWaitingToReceive, sched, job, at, after, expired>>

queueUNLOCKED == -1
Nobody == "nobody"
Isr    == "isr"
Item   == Task \cup {Isr}
NoJob  == [op |-> "none", wait |-> "poll"]

SendOps == {"back", "front", "overwrite"}
ReadOps == {"receive", "peek"}
Waits   == {"poll", "timed", "forever"}

\* Only a queue of one item may be overwritten (configASSERT of the send
\* functions).
QueueAssumption ==
    /\ uxLength \in Nat \ {0} /\ MaxLock \in Nat
    /\ IsFiniteSet(Task) /\ Nobody \notin Task
    /\ \A t \in Task : Jobs[t] \subseteq [op : SendOps \cup ReadOps \cup {"reset"}, wait : Waits]
    /\ IsrSends \subseteq SendOps
    /\ uxLength = 1 \/ "overwrite" \notin IsrSends \cup {j.op : j \in UNION {Jobs[t] : t \in Task}}

Slots == 0 .. uxLength - 1

\* Mutant: the read index starts on the first slot, as the write index does.
ResetReadFirst(c) == [c EXCEPT !.count = 0, !.pcWriteTo = 0, !.pcReadFrom = 0,
                               !.cRxLock = queueUNLOCKED, !.cTxLock = queueUNLOCKED]

\* xQueueGenericReset: pcReadFrom is left one slot before the first item.
ResetQueue(c) == [c EXCEPT !.count = 0, !.pcWriteTo = 0, !.pcReadFrom = uxLength - 1,
                           !.cRxLock = queueUNLOCKED, !.cTxLock = queueUNLOCKED]

\* xQueueGenericCreate and prvInitialiseNewQueue; the storage is not cleared,
\* what it holds is never read.
prvInitialiseNewQueue ==
    ResetQueue([buf |-> [i \in Slots |-> Isr], pcWriteTo |-> 0, pcReadFrom |-> 0,
                count |-> 0, cRxLock |-> queueUNLOCKED, cTxLock |-> queueUNLOCKED])

Init == /\ q = prvInitialiseNewQueue
        /\ xTasksWaitingToSend = <<>> /\ xTasksWaitingToReceive = <<>>
        /\ sched = Nobody
        /\ job = [t \in Task |-> NoJob]
        /\ at = [t \in Task |-> "idle"]
        /\ after = [t \in Task |-> "idle"]
        /\ expired = [t \in Task |-> FALSE]

prvIsQueueFull(c)  == c.count = uxLength
prvIsQueueEmpty(c) == c.count = 0

\* Mutant: an item that overwrites another is counted as well.
CopyCountsOverwrite(c, v, pos) ==
    IF pos = "back"
    THEN [c EXCEPT !.buf[c.pcWriteTo] = v, !.pcWriteTo = (@ + 1) % uxLength, !.count = @ + 1]
    ELSE [c EXCEPT !.buf[c.pcReadFrom] = v,
                   !.pcReadFrom = IF @ = 0 THEN uxLength - 1 ELSE @ - 1, !.count = @ + 1]

\* Overwriting keeps the count of a queue that is not empty.
prvCopyDataToQueue(c, v, pos) ==
    IF pos = "back"
    THEN [c EXCEPT !.buf[c.pcWriteTo] = v, !.pcWriteTo = (@ + 1) % uxLength, !.count = @ + 1]
    ELSE [c EXCEPT !.buf[c.pcReadFrom] = v,
                   !.pcReadFrom = IF @ = 0 THEN uxLength - 1 ELSE @ - 1,
                   !.count = IF pos = "overwrite" /\ @ > 0 THEN @ ELSE @ + 1]

\* prvCopyDataFromQueue and the decrement that follows it.
prvCopyDataFromQueue(c) == [c EXCEPT !.pcReadFrom = (@ + 1) % uxLength, !.count = @ - 1]

\* xTaskRemoveFromEventList: the first task of an event list becomes ready.
Wake(list) == IF list = <<>> THEN <<>> ELSE Tail(list)

\* vTaskPlaceOnEventList: behind every task of the same or a higher priority.
PlaceOnEventList(list, t) ==
    LET n == Cardinality({i \in 1 .. Len(list) : Priority[list[i]] >= Priority[t]})
    IN InsertAt(list, n + 1, t)

\* uxListRemove of the event list item of t, which may be in no list.
ListRemove(list, t) ==
    IF t \in ToSet(list) THEN RemoveAt(list, CHOOSE i \in 1 .. Len(list) : list[i] = t)
    ELSE list

Waiting == ToSet(xTasksWaitingToSend) \cup ToSet(xTasksWaitingToReceive)

\* Task t executes: it is on no event list and no other task holds the scheduler.
Runs(t) == t \notin Waiting /\ sched = Nobody

Return(t) == /\ at' = [at EXCEPT ![t] = "idle"]
             /\ job' = [job EXCEPT ![t] = NoJob]
             /\ expired' = [expired EXCEPT ![t] = FALSE]

-----------------------------------------------------------------------------
\* Task t calls one of the API functions.
Call(t) == /\ at[t] = "idle" /\ Runs(t)
           /\ \E j \in Jobs[t] : job' = [job EXCEPT ![t] = j]
           /\ at' = [at EXCEPT ![t] = "try"]
           /\ UNCHANGED <<q, xTasksWaitingToSend, xTasksWaitingToReceive, sched, after, expired>>

\* The call cannot be served: without time to wait it returns, else it goes on
\* to the part that blocks.
Refuse(t) == /\ IF job[t].wait = "poll" THEN Return(t)
                ELSE at' = [at EXCEPT ![t] = "lock"] /\ UNCHANGED <<job, expired>>
             /\ UNCHANGED <<q, xTasksWaitingToSend, xTasksWaitingToReceive, sched, after>>

\* First critical section of xQueueGenericSend.
xQueueGenericSend(t) ==
    /\ at[t] = "try" /\ job[t].op \in SendOps /\ Runs(t)
    /\ IF ~prvIsQueueFull(q) \/ job[t].op = "overwrite"
       THEN /\ q' = prvCopyDataToQueue(q, t, job[t].op)
            /\ xTasksWaitingToReceive' = Wake(xTasksWaitingToReceive)
            /\ Return(t)
            /\ UNCHANGED <<xTasksWaitingToSend, sched, after>>
       ELSE Refuse(t)

\* First critical section of xQueueReceive.
xQueueReceive(t) ==
    /\ at[t] = "try" /\ job[t].op = "receive" /\ Runs(t)
    /\ IF ~prvIsQueueEmpty(q)
       THEN /\ q' = prvCopyDataFromQueue(q)
            /\ xTasksWaitingToSend' = Wake(xTasksWaitingToSend)
            /\ Return(t)
            /\ UNCHANGED <<xTasksWaitingToReceive, sched, after>>
       ELSE Refuse(t)

\* Mutant: the item that stays is offered to nobody else.
PeekSilent(t) ==
    /\ at[t] = "try" /\ job[t].op = "peek" /\ Runs(t)
    /\ IF ~prvIsQueueEmpty(q)
       THEN /\ Return(t)
            /\ UNCHANGED <<q, xTasksWaitingToSend, xTasksWaitingToReceive, sched, after>>
       ELSE Refuse(t)

\* First critical section of xQueuePeek: the read index is put back, and the
\* item that stays may serve another reader.
xQueuePeek(t) ==
    /\ at[t] = "try" /\ job[t].op = "peek" /\ Runs(t)
    /\ IF ~prvIsQueueEmpty(q)
       THEN /\ xTasksWaitingToReceive' = Wake(xTasksWaitingToReceive)
            /\ Return(t)
            /\ UNCHANGED <<q, xTasksWaitingToSend, sched, after>>
       ELSE Refuse(t)

\* vTaskSuspendAll, prvLockQueue: counters that an interrupt already moved on
\* are left as they are.
prvLockQueue(t) ==
    /\ at[t] = "lock" /\ Runs(t)
    /\ sched' = t
    /\ q' = [q EXCEPT !.cRxLock = IF @ = queueUNLOCKED THEN 0 ELSE @,
                      !.cTxLock = IF @ = queueUNLOCKED THEN 0 ELSE @]
    /\ at' = [at EXCEPT ![t] = "check"]
    /\ UNCHANGED <<xTasksWaitingToSend, xTasksWaitingToReceive, job, after, expired>>

\* The rest of xQueueGenericSend: time out, block while the queue is still
\* full, or try again.
SendOrBlock(t) ==
    /\ at[t] = "check" /\ job[t].op \in SendOps
    /\ after' = [after EXCEPT ![t] = IF expired[t] THEN "fail" ELSE "try"]
    /\ xTasksWaitingToSend' = IF ~expired[t] /\ prvIsQueueFull(q)
                              THEN PlaceOnEventList(xTasksWaitingToSend, t)
                              ELSE xTasksWaitingToSend
    /\ at' = [at EXCEPT ![t] = "unlockTx"]
    /\ UNCHANGED <<q, xTasksWaitingToReceive, sched, job, expired>>

\* The same for xQueueReceive and xQueuePeek, which look at the queue once more
\* after their time is over.
ReceiveOrBlock(t) ==
    /\ at[t] = "check" /\ job[t].op \in ReadOps
    /\ after' = [after EXCEPT ![t] = IF expired[t] THEN "last" ELSE "try"]
    /\ xTasksWaitingToReceive' = IF ~expired[t] /\ prvIsQueueEmpty(q)
                                 THEN PlaceOnEventList(xTasksWaitingToReceive, t)
                                 ELSE xTasksWaitingToReceive
    /\ at' = [at EXCEPT ![t] = "unlockTx"]
    /\ UNCHANGED <<q, xTasksWaitingToSend, sched, job, expired>>

\* Mutant: one task is woken however many items arrived during the lock.
UnlockTxWakesOne(t) ==
    /\ at[t] = "unlockTx"
    /\ q' = [q EXCEPT !.cTxLock = queueUNLOCKED]
    /\ xTasksWaitingToReceive' = IF q.cTxLock > 0 THEN Wake(xTasksWaitingToReceive)
                                 ELSE xTasksWaitingToReceive
    /\ at' = [at EXCEPT ![t] = "unlockRx"]
    /\ UNCHANGED <<xTasksWaitingToSend, sched, job, after, expired>>

\* prvUnlockQueue, first critical section: a receiver for each item counted.
prvUnlockTx(t) ==
    /\ at[t] = "unlockTx"
    /\ q' = [q EXCEPT !.cTxLock = queueUNLOCKED]
    /\ xTasksWaitingToReceive' =
          SubSeq(xTasksWaitingToReceive, q.cTxLock + 1, Len(xTasksWaitingToReceive))
    /\ at' = [at EXCEPT ![t] = "unlockRx"]
    /\ UNCHANGED <<xTasksWaitingToSend, sched, job, after, expired>>

\* Mutant: the senders are not woken.
UnlockRxSilent(t) ==
    /\ at[t] = "unlockRx"
    /\ q' = [q EXCEPT !.cRxLock = queueUNLOCKED]
    /\ at' = [at EXCEPT ![t] = "resume"]
    /\ UNCHANGED <<xTasksWaitingToSend, xTasksWaitingToReceive, sched, job, after, expired>>

\* prvUnlockQueue, second critical section: a sender for each place counted.
prvUnlockRx(t) ==
    /\ at[t] = "unlockRx"
    /\ q' = [q EXCEPT !.cRxLock = queueUNLOCKED]
    /\ xTasksWaitingToSend' =
          SubSeq(xTasksWaitingToSend, q.cRxLock + 1, Len(xTasksWaitingToSend))
    /\ at' = [at EXCEPT ![t] = "resume"]
    /\ UNCHANGED <<xTasksWaitingToReceive, sched, job, after, expired>>

\* xTaskResumeAll.
ResumeAll(t) ==
    /\ at[t] = "resume"
    /\ sched' = Nobody
    /\ IF after[t] = "fail" THEN Return(t)
       ELSE at' = [at EXCEPT ![t] = after[t]] /\ UNCHANGED <<job, expired>>
    /\ after' = [after EXCEPT ![t] = "idle"]
    /\ UNCHANGED <<q, xTasksWaitingToSend, xTasksWaitingToReceive>>

\* After a timeout a reader gives up only if the queue is still empty.
LastLook(t) ==
    /\ at[t] = "last" /\ Runs(t)
    /\ IF prvIsQueueEmpty(q) THEN Return(t)
       ELSE at' = [at EXCEPT ![t] = "try"] /\ UNCHANGED <<job, expired>>
    /\ UNCHANGED <<q, xTasksWaitingToSend, xTasksWaitingToReceive, sched, after>>

\* The tick interrupt: the time of t is over; it leaves its event list.  No tick
\* is counted while the scheduler is suspended.
Expire(t) ==
    /\ sched = Nobody /\ ~expired[t]
    /\ job[t].wait = "timed" /\ at[t] \in {"try", "lock"}
    /\ expired' = [expired EXCEPT ![t] = TRUE]
    /\ xTasksWaitingToSend' = ListRemove(xTasksWaitingToSend, t)
    /\ xTasksWaitingToReceive' = ListRemove(xTasksWaitingToReceive, t)
    /\ UNCHANGED <<q, sched, job, at, after>>

\* An interrupt may come between any two of the steps above.
xQueueGenericSendFromISR(pos) ==
    LET c == prvCopyDataToQueue(q, Isr, pos) IN
    /\ ~prvIsQueueFull(q) \/ pos = "overwrite"
    /\ IF q.cTxLock = queueUNLOCKED
       THEN q' = c /\ xTasksWaitingToReceive' = Wake(xTasksWaitingToReceive)
       ELSE /\ q.cTxLock < MaxLock
            /\ q' = [c EXCEPT !.cTxLock = @ + 1]
            /\ UNCHANGED xTasksWaitingToReceive
    /\ UNCHANGED <<xTasksWaitingToSend, sched, job, at, after, expired>>

xQueueReceiveFromISR ==
    LET c == prvCopyDataFromQueue(q) IN
    /\ ~prvIsQueueEmpty(q)
    /\ IF q.cRxLock = queueUNLOCKED
       THEN q' = c /\ xTasksWaitingToSend' = Wake(xTasksWaitingToSend)
       ELSE /\ q.cRxLock < MaxLock
            /\ q' = [c EXCEPT !.cRxLock = @ + 1]
            /\ UNCHANGED xTasksWaitingToSend
    /\ UNCHANGED <<xTasksWaitingToReceive, sched, job, at, after, expired>>

\* xQueueReset by a task: one blocked sender is made ready.
xQueueGenericReset(t) ==
    /\ at[t] = "try" /\ job[t].op = "reset" /\ Runs(t)
    /\ q' = ResetQueue(q)
    /\ xTasksWaitingToSend' = Wake(xTasksWaitingToSend)
    /\ Return(t)
    /\ UNCHANGED <<xTasksWaitingToReceive, sched, after>>

Next == \/ \E t \in Task : \/ Call(t) \/ xQueueGenericSend(t) \/ xQueueReceive(t)
                           \/ xQueuePeek(t) \/ prvLockQueue(t) \/ SendOrBlock(t)
                           \/ ReceiveOrBlock(t) \/ prvUnlockTx(t) \/ prvUnlockRx(t)
                           \/ ResumeAll(t) \/ LastLook(t) \/ Expire(t)
                           \/ xQueueGenericReset(t)
        \/ \E pos \in IsrSends : xQueueGenericSendFromISR(pos)
        \/ xQueueReceiveFromISR

Spec == Init /\ [][Next]_vars

-----------------------------------------------------------------------------
\* The items in the queue, in the order they will be received.
Content == [i \in 1 .. q.count |-> q.buf[(q.pcReadFrom + i) % uxLength]]

Fifo == INSTANCE BoundedFifo WITH Item <- Item, Length <- uxLength, content <- Content

\* The ring buffer with its two indices, through every wrap, write at the front,
\* overwrite and reset by tasks and interrupts, is a bounded FIFO.
ImplementsFifo == Fifo!Spec

\* Tasks inside a call of one of these kinds that are not blocked.
Active(ops) == {t \in Task : job[t].op \in ops /\ t \notin Waiting}

\* No receiver is left sleeping beside items nobody comes for: whatever the
\* interrupt did while the queue was locked, while a reader waits, a task inside a
\* receive is on its way for the items, as many as there are items.
NoLostReceiver ==
    xTasksWaitingToReceive # <<>> /\ sched = Nobody
        => q.count <= Cardinality(Active(ReadOps))

\* No sender is left sleeping in front of an empty queue without another sender
\* on its way (a reset of a longer queue wakes one sender only, so places may
\* stay unused while a sender sleeps, but not all of them).
NoLostSender ==
    xTasksWaitingToSend # <<>> /\ sched = Nobody /\ prvIsQueueEmpty(q)
        => Active(SendOps) # {}
=============================================================================
