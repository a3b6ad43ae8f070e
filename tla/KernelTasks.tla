----------------------------- MODULE KernelTasks -----------------------------
(***************************************************************************)
(* The scheduler of tasks.c: ready, delayed, suspended and pending-ready   *)
(* lists, the tick, and the choice of the running task.                    *)
(*                                                                         *)
(* k holds the kernel's data; every function of tasks.c that changes them  *)
(* inside one critical section is an operator from k to k.  Ticks wrap at  *)
(* TickRange.  One event list stands for the queue or semaphore tasks      *)
(* block on.  A yield raises PendSV, which is taken before the running     *)
(* task goes on; interrupts may come first.                                *)
(***************************************************************************)
EXTENDS Integers, Sequences, FiniteSets, SequencesExt

CONSTANTS Task,         \* the application's tasks
          Idle,         \* the idle task
          TickRange,    \* number of values of TickType_t
          Delays,       \* times to wait
          Priorities,   \* of the application's tasks; the idle task has 0
          MaxPended     \* bound: ticks during one suspension of the scheduler

TasksAssumption ==
    /\ Idle \notin Task /\ TickRange \in Nat \ {0, 1} /\ MaxPended \in Nat
    /\ Priorities \subseteq Nat /\ Delays \subseteq 1 .. TickRange - 1

VARIABLES k,          \* lists, tick and flags of the kernel
          cur,        \* pxCurrentTCB
          pendSV,     \* a context switch is requested
          phase,      \* what the running task does with the scheduler suspended
          arg         \* the time or the task it does it with

vars == <<k, cur, pendSV, phase, arg>>

All == Task \cup {Idle}
portMAX_DELAY == TickRange - 1
NoArg == "none"

\* prvInitialiseTaskLists and vTaskStartScheduler; left counts the ticks until a
\* delayed task is due and asked remembers vTaskSuspend, neither is in the code.
NewTCB(p) == [list |-> "ready", ev |-> "none", prio |-> p, wake |-> 0,
              left |-> 0, aborted |-> FALSE, asked |-> FALSE]
prvInitialiseTaskLists ==
    [tcb |-> [t \in All |-> IF t = Idle THEN NewTCB(0) ELSE [NewTCB(0) EXCEPT !.list = "none"]],
     events |-> <<>>, pending |-> <<>>, tick |-> 0, next |-> portMAX_DELAY,
     pended |-> 0, suspended |-> 0, yield |-> FALSE]

Init == k = prvInitialiseTaskLists /\ cur = Idle /\ pendSV = FALSE /\ phase = "run" /\ arg = NoArg

On(c, list) == {t \in All : c.tcb[t].list = list}
Prio(t) == k.tcb[t].prio

\* Mutant: the event item stays where it is.
LeaveNothing(c, t) == c

\* uxListRemove of the event item, from whichever list it is in.
LeaveEvent(c, t) == [c EXCEPT !.tcb[t].ev = "none",
                              !.events = SelectSeq(@, LAMBDA u : u # t),
                              !.pending = SelectSeq(@, LAMBDA u : u # t)]

prvAddTaskToReadyList(c, t) == [c EXCEPT !.tcb[t].list = "ready", !.tcb[t].asked = FALSE]

\* Mutant: the time of the next unblocking is left as it was.
ResetNextKeeps(c) == c

prvResetNextTaskUnblockTime(c) ==
    [c EXCEPT !.next = IF On(c, "delayed") = {} THEN portMAX_DELAY
                       ELSE Min({c.tcb[t].wake : t \in On(c, "delayed")})]

\* Mutant: a wake time beyond the wrap goes to the list of this round.
DelayNoOverflow(c, n, indefinite) ==
    LET w == (c.tick + n) % TickRange IN
    IF n = portMAX_DELAY /\ indefinite
    THEN [c EXCEPT !.tcb[cur].list = "suspended", !.tcb[cur].aborted = FALSE]
    ELSE [c EXCEPT !.tcb[cur].list = "delayed", !.tcb[cur].wake = w, !.tcb[cur].left = n,
                   !.tcb[cur].aborted = FALSE, !.next = IF w < @ THEN w ELSE @]

prvAddCurrentTaskToDelayedList(c, n, indefinite) ==
    LET w == (c.tick + n) % TickRange
        d == [c EXCEPT !.tcb[cur].aborted = FALSE]
    IN IF n = portMAX_DELAY /\ indefinite
       THEN [d EXCEPT !.tcb[cur].list = "suspended"]
       ELSE IF w < c.tick
            THEN [d EXCEPT !.tcb[cur].list = "overflow", !.tcb[cur].wake = w, !.tcb[cur].left = n]
            ELSE [d EXCEPT !.tcb[cur].list = "delayed", !.tcb[cur].wake = w, !.tcb[cur].left = n,
                           !.next = IF w < @ THEN w ELSE @]

\* taskSWITCH_DELAYED_LISTS
SwitchDelayedLists(c) ==
    prvResetNextTaskUnblockTime(
        [c EXCEPT !.tcb = [t \in All |-> IF c.tcb[t].list = "overflow"
                                         THEN [c.tcb[t] EXCEPT !.list = "delayed"] ELSE c.tcb[t]]])

\* xTaskIncrementTick with the scheduler running: the result, and whether a
\* switch is required.
DueTasks(c) == IF c.tick >= c.next THEN {t \in On(c, "delayed") : c.tcb[t].wake <= c.tick} ELSE {}
Tick(c) ==
    LET one == [c EXCEPT !.tick = (@ + 1) % TickRange,
                         !.tcb = [t \in All |-> [c.tcb[t] EXCEPT !.left = IF @ > 0 THEN @ - 1 ELSE 0]]]
        two == IF one.tick = 0 THEN SwitchDelayedLists(one) ELSE one
        due == DueTasks(two)
        out == [two EXCEPT !.tcb = [t \in All |-> IF t \in due
                                                  THEN [two.tcb[t] EXCEPT !.list = "ready", !.ev = "none"]
                                                  ELSE two.tcb[t]],
                           !.events = SelectSeq(@, LAMBDA t : t \notin due)]
    IN [k |-> IF two.tick >= two.next THEN prvResetNextTaskUnblockTime(out) ELSE two,
        switch |-> \/ \E t \in due : c.tcb[t].prio >= c.tcb[cur].prio
                   \/ \E t \in On(c, "ready") \ {cur} : c.tcb[t].prio = c.tcb[cur].prio
                   \/ c.yield]

\* eTaskGetState
eTaskGetState(c, t) ==
    CASE t = cur -> "eRunning"
      [] t # cur /\ c.tcb[t].list \in {"delayed", "overflow"} -> "eBlocked"
      [] t # cur /\ c.tcb[t].list = "suspended" ->
            IF c.tcb[t].ev = "none" THEN "eSuspended" ELSE "eBlocked"
      [] t # cur /\ c.tcb[t].list \in {"terminating", "none"} -> "eDeleted"
      [] OTHER -> "eReady"

prvTaskIsTaskSuspended(c, t) == c.tcb[t].list = "suspended" /\ c.tcb[t].ev = "none"

-----------------------------------------------------------------------------
\* The running task may call the kernel.
Runs == ~pendSV /\ phase = "run"
Same == UNCHANGED <<cur, phase, arg>>
Yield(b) == pendSV' = (pendSV \/ b)

\* xTaskCreate: prvInitialiseNewTask and prvAddNewTaskToReadyList.
xTaskCreate(t, p) ==
    /\ Runs /\ k.tcb[t].list = "none"
    /\ k' = [k EXCEPT !.tcb[t] = NewTCB(p)]
    /\ Yield(Prio(cur) < p) /\ Same

\* A task deletes itself or another one; the memory of one that deletes itself
\* is freed by the idle task.
vTaskDelete(t) ==
    /\ Runs /\ k.tcb[t].list \notin {"none", "terminating"} /\ t # Idle /\ (t = cur \/ cur # Idle)
    /\ LET c == LeaveEvent(k, t) IN
       k' = IF t = cur THEN [c EXCEPT !.tcb[t].list = "terminating"]
            ELSE prvResetNextTaskUnblockTime([c EXCEPT !.tcb[t].list = "none"])
    /\ Yield(t = cur) /\ Same

\* prvCheckTasksWaitingTermination, run by the idle task.
prvCheckTasksWaitingTermination ==
    /\ Runs /\ cur = Idle /\ On(k, "terminating") # {}
    /\ \E t \in On(k, "terminating") : k' = [k EXCEPT !.tcb[t].list = "none"]
    /\ UNCHANGED pendSV /\ Same

\* Mutant: raising another task to the priority of this one and above is not
\* followed by a yield.
PrioritySetNoYield(t, p) ==
    /\ Runs /\ cur # Idle /\ k.tcb[t].list \notin {"none", "terminating"} /\ t # Idle
    /\ p # Prio(t)
    /\ k' = [k EXCEPT !.tcb[t].prio = p]
    /\ Yield(p < Prio(t) /\ t = cur) /\ Same

\* vTaskPrioritySet (no mutex is held here).  The event item is not moved.
vTaskPrioritySet(t, p) ==
    /\ Runs /\ cur # Idle /\ k.tcb[t].list \notin {"none", "terminating"} /\ t # Idle
    /\ p # Prio(t)
    /\ k' = [k EXCEPT !.tcb[t].prio = p]
    /\ Yield(IF p > Prio(t) THEN t # cur /\ p >= Prio(cur) ELSE t = cur) /\ Same

\* vTaskSuspend, also of a task that is blocked.
vTaskSuspend(t) ==
    /\ Runs /\ cur # Idle /\ k.tcb[t].list \notin {"none", "terminating"} /\ t # Idle
    /\ k' = prvResetNextTaskUnblockTime(
               [LeaveEvent(k, t) EXCEPT !.tcb[t].list = "suspended", !.tcb[t].asked = TRUE])
    /\ Yield(t = cur) /\ Same

vTaskResume(t) ==
    /\ Runs /\ t # cur /\ prvTaskIsTaskSuspended(k, t)
    /\ k' = prvAddTaskToReadyList(k, t)
    /\ Yield(Prio(t) >= Prio(cur)) /\ Same

\* A task gives what others wait for: xTaskRemoveFromEventList by a task.
Signal == /\ Runs /\ k.events # <<>>
          /\ LET t == Head(k.events)
                 c == [prvAddTaskToReadyList(LeaveEvent(k, t), t) EXCEPT !.yield = @ \/ Prio(t) > Prio(cur)]
             IN k' = c /\ Yield(Prio(t) > Prio(cur))
          /\ Same

\* vTaskSuspendAll, before one of the calls below.
vTaskSuspendAll ==
    /\ Runs /\ cur # Idle
    /\ k' = [k EXCEPT !.suspended = @ + 1]
    /\ \/ phase' \in {"delay", "block"} /\ arg' \in Delays
       \/ phase' = "abort" /\ arg' \in Task \ {cur}
    /\ UNCHANGED <<cur, pendSV>>

\* vTaskDelay, and vTaskDelayUntil when the time is not past yet.
vTaskDelay == /\ phase = "delay"
              /\ k' = prvAddCurrentTaskToDelayedList(k, arg, FALSE)
              /\ phase' = "resume" /\ UNCHANGED <<cur, pendSV, arg>>

\* vTaskPlaceOnEventList: behind the tasks of the same or a higher priority.
vTaskPlaceOnEventList ==
    /\ phase = "block"
    /\ LET n == Cardinality({i \in 1 .. Len(k.events) : Prio(k.events[i]) >= Prio(cur)}) IN
       k' = prvAddCurrentTaskToDelayedList(
               [k EXCEPT !.events = InsertAt(@, n + 1, cur), !.tcb[cur].ev = "event"], arg, TRUE)
    /\ phase' = "resume" /\ UNCHANGED <<cur, pendSV, arg>>

\* xTaskAbortDelay: the task leaves the delayed and the event list; the wait it
\* was in must report a timeout.
xTaskAbortDelay ==
    /\ phase = "abort"
    /\ k' = IF eTaskGetState(k, arg) = "eBlocked"
            THEN LET c == LeaveEvent(k, arg) IN
                 [prvAddTaskToReadyList(c, arg) EXCEPT
                     !.tcb[arg].aborted = k.tcb[arg].ev # "none",
                     !.yield = @ \/ Prio(arg) > Prio(cur)]
            ELSE k
    /\ phase' = "resume" /\ UNCHANGED <<cur, pendSV, arg>>

\* xTaskResumeAll: tasks made ready meanwhile, then the ticks that were pended.
\* A caller that blocked yields, unless the kernel already did.
xTaskResumeAll ==
    /\ phase = "resume"
    /\ LET c == [k EXCEPT !.suspended = 0, !.pending = <<>>,
                          !.tcb = [t \in All |-> IF k.tcb[t].ev = "pending"
                                                 THEN [k.tcb[t] EXCEPT !.list = "ready", !.ev = "none",
                                                                       !.asked = FALSE]
                                                 ELSE k.tcb[t]]]
           d == IF k.pending = <<>> THEN c ELSE prvResetNextTaskUnblockTime(c)
           Ticks[n \in 0 .. k.pended] == 
              IF n = 0 THEN [k |-> d, switch |-> FALSE]
              ELSE LET r == Tick(Ticks[n - 1].k)
                   IN [k |-> r.k, switch |-> r.switch \/ Ticks[n - 1].switch]
       IN /\ k' = [Ticks[k.pended].k EXCEPT !.pended = 0]
          /\ pendSV' = \/ pendSV \/ arg \in Delays \/ k.yield \/ Ticks[k.pended].switch
                       \/ \E t \in ToSet(k.pending) : Prio(t) >= Prio(cur)
    /\ phase' = "run" /\ arg' = NoArg /\ UNCHANGED cur

\* vTaskSwitchContext in PendSV.  Tasks of the same priority take turns; here any
\* of them may be next.
vTaskSwitchContext ==
    /\ pendSV /\ pendSV' = FALSE
    /\ IF k.suspended > 0 THEN k' = [k EXCEPT !.yield = TRUE] /\ UNCHANGED cur
       ELSE /\ k' = [k EXCEPT !.yield = FALSE]
            /\ cur' \in {t \in On(k, "ready") : \A u \in On(k, "ready") : Prio(u) <= Prio(t)}
    /\ UNCHANGED <<phase, arg>>

-----------------------------------------------------------------------------
\* SysTick.
xTaskIncrementTick ==
    /\ IF k.suspended > 0
       THEN k.pended < MaxPended /\ k' = [k EXCEPT !.pended = @ + 1] /\ Yield(k.yield)
       ELSE k' = Tick(k).k /\ Yield(Tick(k).switch)
    /\ Same

\* An interrupt signals the event: with the scheduler suspended the task goes to
\* the pending-ready list.
xTaskRemoveFromEventList ==
    /\ k.events # <<>>
    /\ LET t == Head(k.events)
           c == [LeaveEvent(k, t) EXCEPT !.yield = @ \/ Prio(t) > Prio(cur)]
       IN k' = IF k.suspended = 0 THEN prvAddTaskToReadyList(c, t)
               ELSE [c EXCEPT !.pending = Append(@, t), !.tcb[t].ev = "pending"]
    /\ Yield(Prio(Head(k.events)) > Prio(cur)) /\ Same

xTaskResumeFromISR(t) ==
    /\ prvTaskIsTaskSuspended(k, t)
    /\ IF k.suspended = 0
       THEN k' = prvAddTaskToReadyList(k, t) /\ Yield(Prio(t) >= Prio(cur))
       ELSE /\ k' = [k EXCEPT !.pending = Append(@, t), !.tcb[t].ev = "pending"]
            /\ UNCHANGED pendSV
    /\ Same

Next == \/ \E t \in Task : \/ vTaskDelete(t) \/ vTaskSuspend(t) \/ vTaskResume(t)
                           \/ xTaskResumeFromISR(t)
                           \/ \E p \in Priorities : xTaskCreate(t, p) \/ vTaskPrioritySet(t, p)
        \/ prvCheckTasksWaitingTermination \/ Signal \/ vTaskSuspendAll \/ vTaskDelay
        \/ vTaskPlaceOnEventList \/ xTaskAbortDelay \/ xTaskResumeAll
        \/ vTaskSwitchContext \/ xTaskIncrementTick \/ xTaskRemoveFromEventList

Spec == Init /\ [][Next]_vars

-----------------------------------------------------------------------------
\* Unless a switch is on its way, the running task is ready and no ready task is
\* above it: every call and interrupt that readies or raises a task asks for the
\* switch it needs.
RunsHighest ==
    ~pendSV /\ k.suspended = 0 /\ ~k.yield =>
        /\ k.tcb[cur].list = "ready"
        /\ \A t \in On(k, "ready") : Prio(t) <= Prio(cur)

\* No delay or timeout is missed or late, across the wrap of the tick count and
\* ticks pended while the scheduler is suspended: a task in a delayed list is not
\* due yet, and xNextTaskUnblockTime makes the tick look at the list in time.
NeverLate ==
    \A t \in All :
        /\ k.tcb[t].list \in {"delayed", "overflow"} => k.tcb[t].left > 0
        /\ k.tcb[t].list = "delayed" => k.next <= k.tcb[t].wake

\* A tick readies a delayed task only when its time is over.
NeverEarly ==
    xTaskIncrementTick /\ k.suspended = 0 =>
          \A t \in All : k.tcb[t].list \in {"delayed", "overflow"} /\ k'.tcb[t].list = "ready"
                          => k'.tcb[t].left = 0

\* A task that is ready waits for nothing: whichever of timeout, event, abort,
\* suspension and deletion came first took it out of the event list, and only an
\* interrupt during a suspension of the scheduler leaves it pending.
OneReason ==
    /\ \A t \in All : k.tcb[t].ev = "event" <=> t \in ToSet(k.events)
    /\ \A t \in All : k.tcb[t].ev = "event" => k.tcb[t].list \in {"delayed", "overflow", "suspended"}
    /\ k.pending # <<>> => k.suspended > 0
=============================================================================
