----------------------------- MODULE CoRoutines ------------------------------
(***************************************************************************)
(* The co-routines of croutine.c and their queue functions of queue.c.     *)
(* Co-routines of two priorities delay, send and receive on one queue of   *)
(* messages (only how many matters); interrupts post and take messages     *)
(* between any two sections that are not protected.  Co-routines are not   *)
(* compiled into this application (configUSE_CO_ROUTINES is 0).            *)
(***************************************************************************)
EXTENDS Integers, Sequences, FiniteSets

CONSTANTS CoRoutine, High,     \* all of them, and those of the higher priority
          uxLength,            \* of the queue
          TickRange,           \* ticks wrap
          Wait,                \* ticks a co-routine waits or delays
          Behind,              \* ticks the scheduling may be late
          Posts                \* messages one interrupt may post

VARIABLES ready,       \* pxReadyCoRoutineLists: priority -> sequence
          delayed,     \* the two delayed lists: co-routine -> wake time
          overflow,    \* those of them in the overflow list
          event,       \* "none", "send", "receive" or "pending": list of the event item
          order,       \* xPendingReadyCoRoutineList, in order
          waiting,     \* uxMessagesWaiting
          tick,        \* xTaskGetTickCount()
          cotick,      \* xCoRoutineTickCount (and xLastTickCount between calls)
          top,         \* uxTopCoRoutineReadyPriority
          phase,       \* part of vCoRoutineSchedule being executed
          cur,         \* pxCurrentCoRoutine
          pc,          \* what each co-routine does when it runs next
          due          \* ticks until each delay is over; not in the code

vars == <<ready, delayed, overflow, event, order, waiting, tick, cotick, top, phase, cur, pc, due>>

Prio(c) == IF c \in High THEN 1 ELSE 0

\* xCoRoutineCreate for each of them: all are ready.
Init == /\ \E s \in [1 .. Cardinality(CoRoutine) -> CoRoutine] :
              /\ \A i, j \in DOMAIN s : s[i] = s[j] => i = j
              /\ ready = [p \in {0, 1} |-> SelectSeq(s, LAMBDA c : Prio(c) = p)]
              /\ cur = s[1]
        /\ delayed = [c \in CoRoutine |-> -1] /\ overflow = {}
        /\ event = [c \in CoRoutine |-> "none"] /\ order = <<>>
        /\ waiting = 0 /\ tick = 0 /\ cotick = 0
        /\ top = (IF High = {} THEN 0 ELSE 1) /\ phase = "pending"
        /\ pc = [c \in CoRoutine |-> "start"] /\ due = [c \in CoRoutine |-> 0]

Without(s, c) == SelectSeq(s, LAMBDA d : d # c)

\* prvAddCoRoutineToReadyQueue.
AddReady(r, c) == [r EXCEPT ![Prio(c)] = Append(@, c)]
Top(c) == IF Prio(c) > top THEN Prio(c) ELSE top

Late == (tick - cotick) % TickRange

\* Mutant: a wake time past the wrap stays in the current list.
DelayIgnoresWrap(list) ==
    /\ ready' = [ready EXCEPT ![Prio(cur)] = Without(@, cur)]
    /\ delayed' = [delayed EXCEPT ![cur] = (cotick + Wait) % TickRange]
    /\ event' = [event EXCEPT ![cur] = list]
    /\ due' = [due EXCEPT ![cur] = Wait] /\ UNCHANGED overflow

\* vCoRoutineAddToDelayedList of the current co-routine.
vCoRoutineAddToDelayedList(list) ==
    LET wake == (cotick + Wait) % TickRange
    IN /\ ready' = [ready EXCEPT ![Prio(cur)] = Without(@, cur)]
       /\ delayed' = [delayed EXCEPT ![cur] = wake]
       /\ overflow' = IF wake < cotick THEN overflow \cup {cur} ELSE overflow
       /\ event' = [event EXCEPT ![cur] = list]
       /\ due' = [due EXCEPT ![cur] = Wait]

\* xCoRoutineRemoveFromEventList: the first of the highest priority goes to the
\* pending list; it stays in its delayed list until the scheduler looks.
Waiters(list) == {c \in CoRoutine : event[c] = list}
First(list) == CHOOSE c \in Waiters(list) : \A d \in Waiters(list) : Prio(d) <= Prio(c)
xCoRoutineRemoveFromEventList(list) ==
    IF Waiters(list) = {} THEN UNCHANGED <<event, order>>
    ELSE /\ event' = [event EXCEPT ![First(list)] = "pending"]
         /\ order' = Append(order, First(list))

-----------------------------------------------------------------------------
\* One turn of prvCheckPendingReadyList.
prvCheckPendingReadyList ==
    /\ phase = "pending"
    /\ IF order = <<>> THEN phase' = "delayed" /\ UNCHANGED <<order, event, delayed, overflow, ready, top, due>>
       ELSE LET c == Head(order)
            IN /\ order' = Tail(order) /\ event' = [event EXCEPT ![c] = "none"]
               /\ delayed' = [delayed EXCEPT ![c] = -1] /\ overflow' = overflow \ {c}
               /\ ready' = AddReady(ready, c) /\ top' = Top(c)
               /\ due' = [due EXCEPT ![c] = 0] /\ UNCHANGED phase
    /\ UNCHANGED <<waiting, tick, cotick, cur, pc>>

Expired == {c \in CoRoutine : delayed[c] # -1 /\ c \notin overflow /\ delayed[c] <= cotick}

\* Mutant: the event item of a co-routine whose time is over stays where it is.
ExpireLeavesEvent(c) == UNCHANGED <<event, order>>

\* The event item of a co-routine whose time is over leaves the queue's list or
\* the pending list: it could have been woken by an interrupt just before.
LeaveEvent(c) == event' = [event EXCEPT ![c] = "none"] /\ order' = Without(order, c)

\* One turn of prvCheckDelayedList: the co-routines whose time is over, then the
\* next tick.
prvCheckDelayedList ==
    /\ phase = "delayed"
    /\ \/ /\ Expired # {}
          /\ LET c == CHOOSE c \in Expired : \A d \in Expired : delayed[c] <= delayed[d]
             IN /\ delayed' = [delayed EXCEPT ![c] = -1]
                /\ LeaveEvent(c)
                /\ ready' = AddReady(ready, c) /\ top' = Top(c)
          /\ UNCHANGED <<phase, cotick, overflow, due>>
       \/ /\ Expired = {} /\ Late # 0
          /\ cotick' = (cotick + 1) % TickRange
          /\ overflow' = IF cotick' = 0
                         THEN {c \in CoRoutine : delayed[c] # -1} \ overflow ELSE overflow
          /\ due' = [c \in CoRoutine |-> IF due[c] > 0 THEN due[c] - 1 ELSE 0]
          /\ UNCHANGED <<phase, delayed, event, order, ready, top>>
       \/ /\ Expired = {} /\ Late = 0 /\ phase' = "pick"
          /\ UNCHANGED <<cotick, overflow, due, delayed, event, order, ready, top>>
    /\ UNCHANGED <<waiting, tick, cur, pc>>

\* The rest of vCoRoutineSchedule: the next co-routine of the highest priority that
\* has one runs until it blocks or yields.
vCoRoutineSchedule ==
    /\ phase = "pick"
    /\ IF ready[top] # <<>>
       THEN /\ cur' = Head(ready[top]) /\ ready' = [ready EXCEPT ![top] = Append(Tail(@), Head(@))]
            /\ phase' = "run" /\ UNCHANGED top
       ELSE IF top = 0 THEN phase' = "pending" /\ UNCHANGED <<cur, ready, top>>
       ELSE top' = top - 1 /\ UNCHANGED <<cur, ready, phase>>
    /\ UNCHANGED <<delayed, overflow, event, order, waiting, tick, cotick, pc, due>>

\* The co-routine's function returns to the scheduler.
Yield(next) == phase' = "pending" /\ pc' = [pc EXCEPT ![cur] = next]

\* crDELAY.
Delay == /\ phase = "run" /\ pc[cur] = "start"
         /\ vCoRoutineAddToDelayedList("none") /\ Yield("start")
         /\ UNCHANGED <<order, waiting, tick, cotick, top, cur>>

\* The first protected section of xQueueCRSend; after a wait the call is made again
\* without a time to wait.
CRSendTest ==
    /\ phase = "run" /\ pc[cur] \in {"start", "send"}
    /\ IF waiting < uxLength
       THEN phase' = "sending" /\ UNCHANGED <<ready, delayed, overflow, event, due, pc>>
       ELSE IF pc[cur] = "start" THEN vCoRoutineAddToDelayedList("send") /\ Yield("send")
       ELSE Yield("start") /\ UNCHANGED <<ready, delayed, overflow, event, due>>
    /\ UNCHANGED <<order, waiting, tick, cotick, top, cur>>

\* The second one; an interrupt may have filled the queue in between.
xQueueCRSend ==
    /\ phase = "sending"
    /\ IF waiting < uxLength
       THEN waiting' = waiting + 1 /\ xCoRoutineRemoveFromEventList("receive")
       ELSE UNCHANGED <<waiting, event, order>>
    /\ Yield("start")
    /\ UNCHANGED <<ready, delayed, overflow, tick, cotick, top, cur, due>>

CRReceiveTest ==
    /\ phase = "run" /\ pc[cur] \in {"start", "receive"}
    /\ IF waiting > 0
       THEN phase' = "receiving" /\ UNCHANGED <<ready, delayed, overflow, event, due, pc>>
       ELSE IF pc[cur] = "start" THEN vCoRoutineAddToDelayedList("receive") /\ Yield("receive")
       ELSE Yield("start") /\ UNCHANGED <<ready, delayed, overflow, event, due>>
    /\ UNCHANGED <<order, waiting, tick, cotick, top, cur>>

xQueueCRReceive ==
    /\ phase = "receiving"
    /\ IF waiting > 0
       THEN waiting' = waiting - 1 /\ xCoRoutineRemoveFromEventList("send")
       ELSE UNCHANGED <<waiting, event, order>>
    /\ Yield("start")
    /\ UNCHANGED <<ready, delayed, overflow, tick, cotick, top, cur, due>>

\* Mutant: a message posted by an interrupt wakes nobody.
SendFromISRSilent(n) ==
    /\ waiting + n <= uxLength /\ waiting' = waiting + n
    /\ UNCHANGED <<event, order, ready, delayed, overflow, tick, cotick, top, phase, cur, pc, due>>

\* An interrupt posts n messages, passing on xCoRoutinePreviouslyWoken: only the
\* first wakes a co-routine.
xQueueCRSendFromISR(n) ==
    /\ waiting + n <= uxLength /\ waiting' = waiting + n
    /\ xCoRoutineRemoveFromEventList("receive")
    /\ UNCHANGED <<ready, delayed, overflow, tick, cotick, top, phase, cur, pc, due>>

xQueueCRReceiveFromISR ==
    /\ waiting > 0 /\ waiting' = waiting - 1
    /\ xCoRoutineRemoveFromEventList("send")
    /\ UNCHANGED <<ready, delayed, overflow, tick, cotick, top, phase, cur, pc, due>>

Tick == /\ Late < Behind /\ tick' = (tick + 1) % TickRange
        /\ UNCHANGED <<ready, delayed, overflow, event, order, waiting, cotick, top, phase, cur, pc, due>>

Next == \/ prvCheckPendingReadyList \/ prvCheckDelayedList \/ vCoRoutineSchedule
        \/ Delay \/ CRSendTest \/ xQueueCRSend \/ CRReceiveTest \/ xQueueCRReceive
        \/ \E n \in 1 .. Posts : xQueueCRSendFromISR(n)
        \/ xQueueCRReceiveFromISR \/ Tick

Spec == Init /\ [][Next]_vars

-----------------------------------------------------------------------------
Occurs(c) == Cardinality({i \in 1 .. Len(ready[Prio(c)]) : ready[Prio(c)][i] = c})

\* A co-routine is ready once or delayed, never both and never lost, though its
\* time can end while an interrupt has already moved it to the pending list.
OncePlaced == \A c \in CoRoutine : Occurs(c) = (IF delayed[c] = -1 THEN 1 ELSE 0)

\* A delay that ends by time ends neither early nor late, also across a wrap of
\* the tick count.
ExactDelay ==
    \A c \in CoRoutine : /\ delayed[c] # -1 => (delayed[c] - cotick) % TickRange = due[c]
                         /\ delayed[c] = -1 => due[c] = 0

\* No co-routine waits for a message that nobody is about to take: the messages
\* there are belong to co-routines that have been woken.
MessagesClaimed ==
    Waiters("receive") # {} =>
        waiting <= Cardinality({c \in CoRoutine : pc[c] = "receive" /\ event[c] # "receive"})
=============================================================================
