------------------------------ MODULE TickTime -------------------------------
(***************************************************************************)
(* Time that wraps: the TimeOut_t of a call that waits (a receive that is  *)
(* woken and goes back to sleep, several times) and the wake times of      *)
(* vTaskDelayUntil, against a clock that does not wrap.                    *)
(***************************************************************************)
EXTENDS Integers

CONSTANTS TickRange,   \* values of TickType_t
          MaxTime,     \* bound of the ideal clock
          Start        \* first value of xTickCount

TickAssumption == TickRange \in Nat \ {0, 1} /\ MaxTime \in Nat /\ Start \in 0 .. TickRange - 1

VARIABLES xTickCount, xNumOfOverflows,
          timeOut,         \* the TimeOut_t: xOverflowCount, xTimeOnEntering
          xTicksToWait,    \* what is left to wait
          expired,         \* last result of xTaskCheckForTimeOut
          xPreviousWake,   \* *pxPreviousWakeTime of a periodic task
          delayed,         \* last decision of vTaskDelayUntil
          now, deadline, checked, previous   \* ideal times; not in the code

vars == <<xTickCount, xNumOfOverflows, timeOut, xTicksToWait, expired, xPreviousWake,
          delayed, now, deadline, checked, previous>>

portMAX_DELAY == TickRange - 1
Sub(a, b) == (a - b) % TickRange

\* vTaskInternalSetTimeOutState
TimeOutState == [ovf |-> xNumOfOverflows, entry |-> xTickCount]

Init == /\ xTickCount = Start /\ xNumOfOverflows = 0 /\ now = 0
        /\ timeOut = [ovf |-> 0, entry |-> Start]
        /\ xTicksToWait = 0 /\ expired = TRUE /\ deadline = 0 /\ checked = 0
        /\ xPreviousWake = Start /\ previous = 0 /\ delayed = FALSE

\* xTaskIncrementTick; no wait is left unchecked for a whole round, since the
\* task is woken when its time is over.
Tick == /\ now < MaxTime
        /\ now' = now + 1
        /\ expired \/ now - checked < TickRange - 1
        /\ now < previous + TickRange - 1
        /\ xTickCount' = (xTickCount + 1) % TickRange
        /\ xNumOfOverflows' = IF xTickCount' = 0 THEN xNumOfOverflows + 1 ELSE xNumOfOverflows
        /\ UNCHANGED <<timeOut, xTicksToWait, expired, xPreviousWake, delayed, deadline, checked, previous>>

\* A call that waits begins.
vTaskSetTimeOutState(n) ==
    /\ expired
    /\ timeOut' = TimeOutState
    /\ xTicksToWait' = n
    /\ expired' = FALSE
    /\ deadline' = now + n /\ checked' = now
    /\ UNCHANGED <<xTickCount, xNumOfOverflows, xPreviousWake, delayed, now, previous>>

\* Mutant: the time already waited is not taken off.
CheckRestarts ==
    LET elapsed == Sub(xTickCount, timeOut.entry) IN
    /\ ~expired
    /\ IF elapsed < xTicksToWait
       THEN timeOut' = TimeOutState /\ expired' = FALSE
       ELSE expired' = TRUE /\ UNCHANGED timeOut
    /\ checked' = now
    /\ UNCHANGED <<xTickCount, xNumOfOverflows, xTicksToWait, xPreviousWake, delayed, now, deadline, previous>>

\* After a wake-up that brought nothing: is the time over?
xTaskCheckForTimeOut ==
    LET elapsed == Sub(xTickCount, timeOut.entry) IN
    /\ ~expired
    /\ IF xTicksToWait = portMAX_DELAY
       THEN expired' = FALSE /\ UNCHANGED <<timeOut, xTicksToWait>>
       ELSE IF xNumOfOverflows # timeOut.ovf /\ xTickCount >= timeOut.entry
       THEN expired' = TRUE /\ UNCHANGED <<timeOut, xTicksToWait>>
       ELSE IF elapsed < xTicksToWait
       THEN /\ xTicksToWait' = xTicksToWait - elapsed
            /\ timeOut' = TimeOutState
            /\ expired' = FALSE
       ELSE xTicksToWait' = 0 /\ expired' = TRUE /\ UNCHANGED timeOut
    /\ checked' = now
    /\ UNCHANGED <<xTickCount, xNumOfOverflows, xPreviousWake, delayed, now, deadline, previous>>

\* Mutant: the wrap of the wake time alone is not seen.
DelayUntilNoWrap(n) ==
    LET wake == (xPreviousWake + n) % TickRange IN
    /\ delayed' = (IF xTickCount < xPreviousWake
                   THEN wake < xPreviousWake /\ wake > xTickCount
                   ELSE wake > xTickCount)
    /\ xPreviousWake' = wake /\ previous' = previous + n
    /\ UNCHANGED <<xTickCount, xNumOfOverflows, timeOut, xTicksToWait, expired, now, deadline, checked>>

\* vTaskDelayUntil: sleep unless the wake time is past.  A task that sleeps calls
\* again when it woke up.
vTaskDelayUntil(n) ==
    LET wake == (xPreviousWake + n) % TickRange IN
    /\ previous <= now
    /\ delayed' = (IF xTickCount < xPreviousWake
                   THEN wake < xPreviousWake /\ wake > xTickCount
                   ELSE wake < xPreviousWake \/ wake > xTickCount)
    /\ xPreviousWake' = wake /\ previous' = previous + n
    /\ UNCHANGED <<xTickCount, xNumOfOverflows, timeOut, xTicksToWait, expired, now, deadline, checked>>

Next == \/ Tick \/ xTaskCheckForTimeOut
        \/ \E n \in 1 .. TickRange - 1 : vTaskSetTimeOutState(n) \/ vTaskDelayUntil(n)

Spec == Init /\ [][Next]_vars

-----------------------------------------------------------------------------
\* However often a wait is interrupted and resumed, and wherever the tick count
\* wraps, xTaskCheckForTimeOut says the time is over from the deadline of the call
\* on and not before; a wait of portMAX_DELAY never ends.
TimeoutExact ==
    xTaskCheckForTimeOut => (expired' <=> xTicksToWait # portMAX_DELAY /\ now >= deadline)

\* vTaskDelayUntil sleeps exactly when the next wake time is still to come, so a
\* periodic task neither skips a period nor sleeps a whole round of the counter.
PeriodKept ==
    \A n \in 1 .. TickRange - 1 : vTaskDelayUntil(n) => (delayed' <=> previous + n > now)
=============================================================================
