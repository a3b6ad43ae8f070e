---------------------------- MODULE KernelTimers -----------------------------
(***************************************************************************)
(* The software timers of timers.c: the daemon task, its command queue and *)
(* the two lists of active timers, with a tick count that wraps.  d is the *)
(* daemon's state, passed through the functions it calls; the fields due   *)
(* (ideal time of a timer's next expiry), early and lost, and the ideal    *)
(* clock now, are not in the code.                                         *)
(***************************************************************************)
EXTENDS Integers, Sequences, FiniteSets, SequencesExt

CONSTANTS Timer, AutoReload,
          TickRange,                  \* values of TickType_t
          Periods,                    \* periods set by xTimerChangePeriod
          FirstPeriod,                \* period at creation
          configTIMER_QUEUE_LENGTH,
          MaxTime,                    \* bound of the ideal clock
          MaxLag                      \* bound: ticks the daemon is kept from running

TimersAssumption ==
    /\ AutoReload \subseteq Timer /\ TickRange \in Nat \ {0, 1}
    /\ Periods \subseteq 1 .. TickRange - 1 /\ FirstPeriod \in 1 .. TickRange - 1
    \* no period and delay of the daemon together last a round of the counter
    /\ \A p \in Periods \cup {FirstPeriod} : p + MaxLag < TickRange
    /\ configTIMER_QUEUE_LENGTH \in Nat \ {0} /\ MaxTime \in Nat /\ MaxLag \in Nat

VARIABLES d, now, at, wake, lag

vars == <<d, now, at, wake, lag>>

xTickCount == now % TickRange
Never == MaxTime + 2 * TickRange

\* xTimerCreateTimerTask, prvCheckForValidListAndQueue and prvInitialiseNewTimer.
Init == /\ d = [current |-> {}, overflow |-> {}, queue |-> <<>>, xLastTime |-> 0,
                period |-> [t \in Timer |-> FirstPeriod], due |-> [t \in Timer |-> 0],
                deleted |-> {}, wanted |-> {}, early |-> FALSE, lost |-> FALSE]
        /\ now = 0 /\ at = "top" /\ wake = Never /\ lag = 0

Entry(t, v) == [timer |-> t, value |-> v]
Active(c) == {e.timer : e \in c.current \cup c.overflow}
HeadOf(list) == CHOOSE e \in list : \A f \in list : e.value <= f.value

\* Mutant: a reload that comes too late is not sent on.
SendNothing(c, t, v, ideal) == c

\* The daemon's own commands are sent without waiting.
SendToSelf(c, t, v, ideal) ==
    IF Len(c.queue) < configTIMER_QUEUE_LENGTH
    THEN [c EXCEPT !.queue = Append(@, [id |-> "start", timer |-> t, value |-> v, ideal |-> ideal])]
    ELSE [c EXCEPT !.lost = TRUE]

\* pxCallbackFunction: the timer has expired; a one-shot timer is done.
Callback(c, t) == [c EXCEPT !.early = @ \/ now < c.due[t],
                            !.due[t] = IF t \in AutoReload THEN @ + c.period[t] ELSE 0,
                            !.wanted = IF t \in AutoReload THEN @ ELSE @ \ {t}]

\* prvInsertTimerInActiveList: the time is over already, so the timer is not
\* inserted but processed at once.
ExpiredMeanwhile(c, t, next, time, command) ==
    IF next <= time THEN (time - command) % TickRange >= c.period[t]
    ELSE time < command /\ next >= command

\* Mutant: an expiry beyond the wrap goes to the current list.
InsertInCurrent(c, t, next, time) == [c EXCEPT !.current = @ \cup {Entry(t, next)}]

prvInsertTimerInActiveList(c, t, next, time) ==
    IF next <= time THEN [c EXCEPT !.overflow = @ \cup {Entry(t, next)}]
    ELSE [c EXCEPT !.current = @ \cup {Entry(t, next)}]

\* prvProcessExpiredTimer
prvProcessExpiredTimer(c, time) ==
    LET e == HeadOf(c.current)
        t == e.timer
        next == (e.value + c.period[t]) % TickRange
        out == [c EXCEPT !.current = @ \ {e}]
        again == IF t \notin AutoReload THEN out
                 ELSE IF ExpiredMeanwhile(c, t, next, time, e.value)
                 THEN SendToSelf(out, t, e.value, c.due[t])
                 ELSE prvInsertTimerInActiveList(out, t, next, time)
    IN Callback(again, t)

\* The body of the loop of prvSwitchTimerLists.
ExpireBeforeSwitch(c) ==
    LET e == HeadOf(c.current)
        t == e.timer
        reload == (e.value + c.period[t]) % TickRange
        out == [c EXCEPT !.current = @ \ {e}]
        again == IF t \notin AutoReload THEN out
                 ELSE IF reload > e.value
                 THEN [out EXCEPT !.current = @ \cup {Entry(t, reload)}]
                 ELSE SendToSelf(out, t, e.value, c.due[t])
    IN Callback(again, t)

\* prvSwitchTimerLists: what is left in the current list expired before the wrap.
\* A turn of the loop takes a timer out of the list or moves it to a later tick
\* of the round, so the list is empty after TickRange turns for each timer in it.
prvSwitchTimerLists(c) ==
    LET after[n \in Nat] == IF n = 0 THEN c
                            ELSE IF after[n - 1].current = {} THEN after[n - 1]
                            ELSE ExpireBeforeSwitch(after[n - 1])
        done == after[TickRange * Cardinality(c.current)]
    IN [done EXCEPT !.current = done.overflow, !.overflow = {}]

\* prvSampleTimeNow: the lists are switched when the count has wrapped.
prvSampleTimeNow(c) ==
    [IF xTickCount < c.xLastTime THEN prvSwitchTimerLists(c) ELSE c EXCEPT !.xLastTime = xTickCount]

-----------------------------------------------------------------------------
\* xTimerGenericCommand, by a task or an interrupt; the tick count is sampled by
\* the caller.
xTimerGenericCommand(id, t, v) ==
    /\ t \notin d.deleted
    /\ Len(d.queue) < configTIMER_QUEUE_LENGTH
    /\ d' = [d EXCEPT !.queue = Append(@, [id |-> id, timer |-> t, value |-> v,
                                             ideal |-> IF id = "start" THEN now ELSE 0]),
                      !.deleted = IF id = "delete" THEN @ \cup {t} ELSE @]
    /\ at' = IF at = "blocked" THEN "commands" ELSE at
    /\ wake' = IF at = "blocked" THEN Never ELSE wake
    /\ UNCHANGED <<now, lag>>

\* Mutant: the overflow list is not asked, the daemon waits for a command.
BlockForCommand(c, time) == Never

\* When the daemon goes to sleep: at the next expiry, at the wrap when only the
\* overflow list has timers, or until a command comes.
BlockUntil(c, time) ==
    IF c.current # {} THEN now + ((HeadOf(c.current).value - time) % TickRange)
    ELSE IF c.overflow # {} THEN now + ((0 - time) % TickRange)
    ELSE Never

\* prvProcessTimerOrBlockTask and, for the sleep, vQueueWaitForMessageRestricted.
prvProcessTimerOrBlockTask ==
    LET c == prvSampleTimeNow(d) IN
    /\ at = "top"
    /\ \/ /\ xTickCount < d.xLastTime
          /\ d' = c /\ at' = "commands" /\ UNCHANGED wake
       \/ /\ xTickCount >= d.xLastTime
          /\ c.current # {} /\ HeadOf(c.current).value <= xTickCount
          /\ d' = prvProcessExpiredTimer(c, xTickCount) /\ at' = "commands" /\ UNCHANGED wake
       \/ /\ xTickCount >= d.xLastTime
          /\ c.current # {} => HeadOf(c.current).value > xTickCount
          /\ d' = c
          /\ IF d.queue = <<>> THEN at' = "blocked" /\ wake' = BlockUntil(c, xTickCount)
             ELSE at' = "commands" /\ UNCHANGED wake
    /\ lag' = IF at' = "blocked" THEN 0 ELSE lag
    /\ UNCHANGED now

\* One turn of prvProcessReceivedCommands: the timer leaves its list, then the
\* time is sampled.
prvProcessReceivedCommands ==
    /\ at = "commands" /\ d.queue # <<>>
    /\ LET m == Head(d.queue)
           t == m.timer
           c == prvSampleTimeNow([d EXCEPT !.queue = Tail(@),
                   !.current = {e \in @ : e.timer # t}, !.overflow = {e \in @ : e.timer # t}])
           next == (m.value + c.period[t]) % TickRange
           started == [c EXCEPT !.due[t] = m.ideal + c.period[t], !.wanted = @ \cup {t}]
           changed == [c EXCEPT !.period[t] = m.value, !.due[t] = now + m.value, !.wanted = @ \cup {t}]
       IN d' = CASE m.id = "start" ->
                      IF ExpiredMeanwhile(c, t, next, xTickCount, m.value)
                      THEN LET done == Callback(started, t) IN
                           IF t \in AutoReload
                           THEN SendToSelf(done, t, next, m.ideal + c.period[t])
                           ELSE done
                      ELSE prvInsertTimerInActiveList(started, t, next, xTickCount)
                 [] m.id = "period" ->
                      prvInsertTimerInActiveList(changed, t, (xTickCount + m.value) % TickRange, xTickCount)
                 [] OTHER -> [c EXCEPT !.wanted = @ \ {t}, !.due[t] = 0]
    /\ UNCHANGED <<now, at, wake, lag>>

\* The queue is empty: back to prvGetNextExpireTime.
prvTimerTask == /\ at = "commands" /\ d.queue = <<>>
                /\ at' = "top"
                /\ UNCHANGED <<d, now, wake, lag>>

\* The tick; the daemon has the highest priority but may be kept waiting for
\* MaxLag ticks.
Tick == /\ now < MaxTime
        /\ now' = now + 1
        /\ IF at = "blocked" THEN lag' = 0 /\ at' = (IF now' >= wake THEN "commands" ELSE at)
           ELSE lag < MaxLag /\ lag' = lag + 1 /\ UNCHANGED at
        /\ wake' = IF at' = "blocked" THEN wake ELSE Never
        /\ UNCHANGED d

Next == \/ prvProcessTimerOrBlockTask \/ prvProcessReceivedCommands \/ prvTimerTask \/ Tick
        \/ \E t \in Timer :
              \/ xTimerGenericCommand("start", t, xTickCount)
              \/ xTimerGenericCommand("stop", t, 0)
              \/ xTimerGenericCommand("delete", t, 0)
              \/ \E p \in Periods : xTimerGenericCommand("period", t, p)

Spec == Init /\ [][Next]_vars

-----------------------------------------------------------------------------
\* No callback runs before its time or twice in one period, wherever the count
\* wraps and however long commands waited in the queue.
NeverEarly == ~d.early

\* While the daemon sleeps no active timer can be missed: it wakes up no later
\* than the first expiry.
NeverOverslept == at = "blocked" => \A t \in Active(d) : wake <= d.due[t]

\* A timer that was started is in exactly one list, or its restart is in the
\* queue: no wrap, reload or change of period loses or duplicates it.
Kept == \A t \in d.wanted :
            \/ Cardinality({e \in d.current \cup d.overflow : e.timer = t}) = 1
            \/ \E i \in 1 .. Len(d.queue) : d.queue[i].timer = t
            \/ d.lost

\* The assertion after each command the daemon sends to itself,
\* configASSERT( xResult ): the command was queued.
ReloadQueued == ~d.lost
=============================================================================
