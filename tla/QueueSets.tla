------------------------------ MODULE QueueSets ------------------------------
(***************************************************************************)
(* The queue sets and the queue registry of queue.c.  Members hold messages*)
(* (only how many matters), the set holds their handles, a task selects a  *)
(* handle and then receives from that member.  Interrupts post to a member *)
(* whether or not a task has locked it.                                    *)
(***************************************************************************)
EXTENDS Integers, Sequences, FiniteSets

CONSTANTS Queue, Task, uxLength,   \* of every member
          SetLength,               \* uxEventQueueLength
          Slots,                   \* configQUEUE_REGISTRY_SIZE
          Overwrite,               \* whether xQueueOverwrite is used on members
          Leave                    \* whether members leave the set

SetAssumption == uxLength \in Nat \ {0} /\ SetLength >= uxLength * Cardinality(Queue)

VARIABLES alive,              \* the queue exists
          uxMessagesWaiting,
          container,          \* pxQueueSetContainer # NULL
          cTxLock,            \* -1 when unlocked, else the posts made while locked
          set,                \* handles in the set's queue
          at,                 \* <<"out">>, <<"waiting">>, <<"leaving", q>> or the <<q>> a task has selected
          registry            \* slot -> the queue named in it, or "none"

vars == <<alive, uxMessagesWaiting, container, cTxLock, set, at, registry>>

Init == /\ alive = [q \in Queue |-> FALSE]
        /\ uxMessagesWaiting = [q \in Queue |-> 0]
        /\ container = [q \in Queue |-> FALSE]
        /\ cTxLock = [q \in Queue |-> -1]
        /\ set = <<>>                       \* xQueueCreateSet
        /\ at = [t \in Task |-> <<"out">>]
        /\ registry = [i \in 1 .. Slots |-> <<>>]

\* A task locks a queue with the scheduler suspended, so that no task runs until it
\* is unlocked.
TaskRuns == \A q \in Queue : cTxLock[q] = -1

xQueueCreate(q) ==
    /\ TaskRuns /\ ~alive[q] /\ alive' = [alive EXCEPT ![q] = TRUE]
    /\ UNCHANGED <<uxMessagesWaiting, container, cTxLock, set, at, registry>>

\* Refused for a member of a set and for a queue that holds messages.
xQueueAddToSet(q) ==
    /\ TaskRuns /\ alive[q] /\ ~container[q] /\ uxMessagesWaiting[q] = 0
    /\ container' = [container EXCEPT ![q] = TRUE]
    /\ UNCHANGED <<alive, uxMessagesWaiting, cTxLock, set, at, registry>>

\* xQueueRemoveFromSet tests the member before its critical section ...
RemoveTest(t, q) ==
    /\ Leave /\ TaskRuns /\ at[t] = <<"out">>
    /\ alive[q] /\ container[q] /\ uxMessagesWaiting[q] = 0
    /\ at' = [at EXCEPT ![t] = <<"leaving", q>>]
    /\ UNCHANGED <<alive, uxMessagesWaiting, container, cTxLock, set, registry>>

\* ... and clears its container inside.
xQueueRemoveFromSet(t) ==
    /\ TaskRuns /\ at[t][1] = "leaving"
    /\ container' = [container EXCEPT ![at[t][2]] = FALSE]
    /\ at' = [at EXCEPT ![t] = <<"out">>]
    /\ UNCHANGED <<alive, uxMessagesWaiting, cTxLock, set, registry>>

\* The set's queue after prvNotifyQueueSetContainer has copied the handle with the
\* position of the post: an overwrite replaces the handle at the front.
prvNotifyQueueSetContainer(q, position) ==
    IF Len(set) >= SetLength THEN set
    ELSE CASE position = "back" -> Append(set, q)
           [] position = "front" -> <<q>> \o set
           [] OTHER -> <<q>> \o (IF set = <<>> THEN <<>> ELSE Tail(set))

\* A task posts: to a member, the set is told at once.
xQueueGenericSend(q, position) ==
    /\ TaskRuns /\ alive[q] /\ (uxMessagesWaiting[q] < uxLength \/ position = "overwrite")
    /\ uxMessagesWaiting' = [uxMessagesWaiting EXCEPT ![q] = IF @ < uxLength THEN @ + 1 ELSE @]
    /\ set' = IF container[q] THEN prvNotifyQueueSetContainer(q, position) ELSE set
    /\ UNCHANGED <<alive, container, cTxLock, at, registry>>

\* Mutant: a post to a locked member is not counted.
PostLockedUncounted(q) ==
    /\ alive[q] /\ uxMessagesWaiting[q] < uxLength
    /\ uxMessagesWaiting' = [uxMessagesWaiting EXCEPT ![q] = @ + 1]
    /\ set' = IF container[q] /\ cTxLock[q] = -1 THEN prvNotifyQueueSetContainer(q, "back") ELSE set
    /\ UNCHANGED <<alive, container, cTxLock, at, registry>>

\* An interrupt posts: to a locked member, the set is told when it is unlocked.
xQueueGenericSendFromISR(q) ==
    /\ alive[q] /\ uxMessagesWaiting[q] < uxLength
    /\ uxMessagesWaiting' = [uxMessagesWaiting EXCEPT ![q] = @ + 1]
    /\ IF cTxLock[q] # -1
       THEN cTxLock' = [cTxLock EXCEPT ![q] = @ + 1] /\ UNCHANGED set
       ELSE /\ set' = IF container[q] THEN prvNotifyQueueSetContainer(q, "back") ELSE set
            /\ UNCHANGED cTxLock
    /\ UNCHANGED <<alive, container, at, registry>>

\* A task that finds the queue full, or empty, locks it before it blocks.
prvLockQueue(q) ==
    /\ TaskRuns /\ alive[q]
    /\ cTxLock' = [cTxLock EXCEPT ![q] = 0]
    /\ UNCHANGED <<alive, uxMessagesWaiting, container, set, at, registry>>

\* The loop of prvUnlockQueue, interrupts masked: one handle for every post.
Told(q, n) == set \o [i \in 1 .. (IF n < SetLength - Len(set) THEN n ELSE SetLength - Len(set)) |-> q]

prvUnlockQueue(q) ==
    /\ alive[q] /\ cTxLock[q] # -1
    /\ set' = IF container[q] THEN Told(q, cTxLock[q]) ELSE set
    /\ cTxLock' = [cTxLock EXCEPT ![q] = -1]
    /\ UNCHANGED <<alive, uxMessagesWaiting, container, at, registry>>

\* xQueueReceive on the set: the task waits while the set is empty.
xQueueSelectFromSet(t) ==
    /\ TaskRuns /\ at[t] \in {<<"out">>, <<"waiting">>}
    /\ IF set = <<>> THEN at[t] = <<"out">> /\ at' = [at EXCEPT ![t] = <<"waiting">>] /\ UNCHANGED set
       ELSE at' = [at EXCEPT ![t] = <<Head(set)>>] /\ set' = Tail(set)
    /\ UNCHANGED <<alive, uxMessagesWaiting, container, cTxLock, registry>>

\* queue.h: a member is only read after the set has returned its handle.
Receive(t) ==
    /\ TaskRuns /\ at[t][1] \in Queue
    /\ LET q == at[t][1]
       IN uxMessagesWaiting' = [uxMessagesWaiting EXCEPT ![q] = IF @ > 0 THEN @ - 1 ELSE @]
    /\ at' = [at EXCEPT ![t] = <<"out">>]
    /\ UNCHANGED <<alive, container, cTxLock, set, registry>>

\* A queue outside the set is read as any other.
ReceiveAlone(q) ==
    /\ TaskRuns /\ alive[q] /\ ~container[q] /\ uxMessagesWaiting[q] > 0
    /\ uxMessagesWaiting' = [uxMessagesWaiting EXCEPT ![q] = @ - 1]
    /\ UNCHANGED <<alive, container, cTxLock, set, at, registry>>

-----------------------------------------------------------------------------
\* The first free slot takes the queue; with none free it stays unnamed.
vQueueAddToRegistry(q) ==
    /\ TaskRuns /\ alive[q] /\ \A i \in 1 .. Slots : registry[i] # <<q>>
    /\ \E i \in 1 .. Slots :
          /\ registry[i] = <<>> /\ \A j \in 1 .. i - 1 : registry[j] # <<>>
          /\ registry' = [registry EXCEPT ![i] = <<q>>]
    /\ UNCHANGED <<alive, uxMessagesWaiting, container, cTxLock, set, at>>

\* pcQueueGetName: the slot a lookup finds, 0 when there is none.
pcQueueGetName(q) ==
    LET found == {i \in 1 .. Slots : registry[i] = <<q>>}
    IN IF found = {} THEN 0 ELSE CHOOSE i \in found : \A j \in found : i <= j

\* Mutant: the handle stays in the slot whose name is taken away.
UnregisterNothing(q) == registry

\* The first slot that holds the queue is cleared, name and handle.
vQueueUnregisterQueue(q) ==
    IF pcQueueGetName(q) = 0 THEN registry ELSE [registry EXCEPT ![pcQueueGetName(q)] = <<>>]

\* vQueueDelete frees the memory; the application only deletes queues that are
\* empty, unlocked, in no set and not being read.
vQueueDelete(q) ==
    /\ TaskRuns /\ alive[q] /\ ~container[q] /\ uxMessagesWaiting[q] = 0
    /\ \A t \in Task : at[t] \notin {<<q>>, <<"leaving", q>>}
    /\ alive' = [alive EXCEPT ![q] = FALSE]
    /\ registry' = vQueueUnregisterQueue(q)
    /\ UNCHANGED <<uxMessagesWaiting, container, cTxLock, set, at>>

Next == \/ \E q \in Queue : \/ xQueueCreate(q) \/ vQueueDelete(q) \/ vQueueAddToRegistry(q)
                            \/ xQueueAddToSet(q)
                            \/ xQueueGenericSend(q, "back") \/ xQueueGenericSend(q, "front")
                            \/ Overwrite /\ xQueueGenericSend(q, "overwrite")
                            \/ xQueueGenericSendFromISR(q)
                            \/ prvLockQueue(q) \/ prvUnlockQueue(q) \/ ReceiveAlone(q)
        \/ \E t \in Task : \/ xQueueSelectFromSet(t) \/ Receive(t) \/ xQueueRemoveFromSet(t)
                           \/ \E q \in Queue : RemoveTest(t, q)

Spec == Init /\ [][Next]_vars

-----------------------------------------------------------------------------
Handles(q) == Cardinality({i \in 1 .. Len(set) : set[i] = q})
Selected(q) == Cardinality({t \in Task : at[t] = <<q>>})
Deferred(q) == IF cTxLock[q] = -1 THEN 0 ELSE cTxLock[q]

\* A set returns handles of members that hold data, and every message of a member
\* is announced: handles in the set, handles taken and posts not yet announced are
\* as many as the messages, across locks, interrupts and changes of membership.
SetCountsMessages ==
    \A q \in Queue : container[q] /\ alive[q]
        => Handles(q) + Selected(q) + Deferred(q) = uxMessagesWaiting[q]

\* queue.h: "A queue or semaphore can only be removed from a set if the queue or
\* semaphore is empty."
RemovedEmpty == [][\A q \in Queue : container[q] /\ ~container'[q] => uxMessagesWaiting[q] = 0]_vars

\* The registry names only queues that exist: a handle allocated again at the
\* address of a deleted queue does not inherit its name.
NoStaleName == \A i \in 1 .. Slots, q \in Queue : registry[i] = <<q>> => alive[q]
=============================================================================
