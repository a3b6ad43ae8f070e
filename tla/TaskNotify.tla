----------------------------- MODULE TaskNotify ------------------------------
(***************************************************************************)
(* Direct-to-task notifications of tasks.c, from tasks and interrupts, with*)
(* timeouts, vTaskSuspend and vTaskResume.  Notification values wrap at    *)
(* ValueRange.  Which task runs is left open.                              *)
(***************************************************************************)
EXTENDS Integers

CONSTANTS Task, ValueRange,
          Values,        \* values notified with
          Actions        \* the eNotifyAction values used

NotifyAssumption == /\ ValueRange \in Nat /\ \E n \in 1 .. ValueRange : ValueRange = 2 ^ n
                    /\ Values \subseteq 0 .. ValueRange - 1

VARIABLES ucNotifyState, ulNotifiedValue,
          list,       \* list of the state item: "ready", "delayed", "suspended"
          pending,    \* tasks whose event item is in xPendingReadyList
          locked,     \* the scheduler is suspended by a task
          at,         \* "out", "take" or "wait": the call each task is in
          asked       \* tasks suspended by vTaskSuspend; not in the code

vars == <<ucNotifyState, ulNotifiedValue, list, pending, locked, at, asked>>

Init == /\ ucNotifyState = [t \in Task |-> "not_waiting"]
        /\ ulNotifiedValue = [t \in Task |-> 0]
        /\ list = [t \in Task |-> "ready"]
        /\ pending = {} /\ locked = FALSE
        /\ at = [t \in Task |-> "out"]
        /\ asked = {}

Runs(t) == list[t] = "ready" /\ ~locked

\* prvAddCurrentTaskToDelayedList: a wait without end is in the suspended list.
Block(t, forever) == list' = [list EXCEPT ![t] = IF forever THEN "suspended" ELSE "delayed"]

\* ulTaskNotifyTake up to the yield.
TakeEntry(t, forever) ==
    /\ Runs(t) /\ at[t] = "out"
    /\ at' = [at EXCEPT ![t] = "take"]
    /\ IF ulNotifiedValue[t] = 0
       THEN ucNotifyState' = [ucNotifyState EXCEPT ![t] = "waiting"] /\ Block(t, forever)
       ELSE UNCHANGED <<ucNotifyState, list>>
    /\ UNCHANGED <<ulNotifiedValue, pending, locked, asked>>

\* The rest of it, with the value cleared or counted down.
ulTaskNotifyTake(t, clear) ==
    /\ Runs(t) /\ at[t] = "take"
    /\ ulNotifiedValue' = [ulNotifiedValue EXCEPT ![t] =
                              IF @ = 0 THEN 0 ELSE IF clear THEN 0 ELSE @ - 1]
    /\ ucNotifyState' = [ucNotifyState EXCEPT ![t] = "not_waiting"]
    /\ at' = [at EXCEPT ![t] = "out"]
    /\ UNCHANGED <<list, pending, locked, asked>>

\* The bits that are set in a notification value, and the value with these bits.
Bits(v)  == {p \in {2 ^ i : i \in 0 .. ValueRange} : p < ValueRange /\ (v \div p) % 2 = 1}
Value(b) == CHOOSE v \in 0 .. ValueRange - 1 : Bits(v) = b

Clear(v, bits) == Value(Bits(v) \ Bits(bits))

\* xTaskNotifyWait up to the yield.
WaitEntry(t, forever, bits) ==
    /\ Runs(t) /\ at[t] = "out"
    /\ at' = [at EXCEPT ![t] = "wait"]
    /\ IF ucNotifyState[t] # "received"
       THEN /\ ulNotifiedValue' = [ulNotifiedValue EXCEPT ![t] = Clear(@, bits)]
            /\ ucNotifyState' = [ucNotifyState EXCEPT ![t] = "waiting"]
            /\ Block(t, forever)
       ELSE UNCHANGED <<ulNotifiedValue, ucNotifyState, list>>
    /\ UNCHANGED <<pending, locked, asked>>

\* The rest of it.
xTaskNotifyWait(t, bits) ==
    /\ Runs(t) /\ at[t] = "wait"
    /\ ulNotifiedValue' = [ulNotifiedValue EXCEPT ![t] =
                              IF ucNotifyState[t] = "received" THEN Clear(@, bits) ELSE @]
    /\ ucNotifyState' = [ucNotifyState EXCEPT ![t] = "not_waiting"]
    /\ at' = [at EXCEPT ![t] = "out"]
    /\ UNCHANGED <<list, pending, locked, asked>>

\* The switch of xTaskGenericNotify.
Notified(t, action, v) ==
    CASE action = "eSetBits" -> Value(Bits(ulNotifiedValue[t]) \cup Bits(v))
      [] action = "eIncrement" -> (ulNotifiedValue[t] + 1) % ValueRange
      [] action = "eSetValueWithOverwrite" -> v
      [] action = "eSetValueWithoutOverwrite" ->
            IF ucNotifyState[t] # "received" THEN v ELSE ulNotifiedValue[t]
      [] OTHER -> ulNotifiedValue[t]

\* By a task, the scheduler not suspended.
xTaskGenericNotify(t, action, v) ==
    /\ ~locked
    /\ ulNotifiedValue' = [ulNotifiedValue EXCEPT ![t] = Notified(t, action, v)]
    /\ ucNotifyState' = [ucNotifyState EXCEPT ![t] = "received"]
    /\ list' = IF ucNotifyState[t] = "waiting" THEN [list EXCEPT ![t] = "ready"] ELSE list
    /\ UNCHANGED <<pending, locked, at, asked>>

\* By an interrupt; vTaskNotifyGiveFromISR is the same with eIncrement.
xTaskGenericNotifyFromISR(t, action, v) ==
    /\ ulNotifiedValue' = [ulNotifiedValue EXCEPT ![t] = Notified(t, action, v)]
    /\ ucNotifyState' = [ucNotifyState EXCEPT ![t] = "received"]
    /\ IF ucNotifyState[t] # "waiting" THEN UNCHANGED <<list, pending>>
       ELSE IF locked THEN pending' = pending \cup {t} /\ UNCHANGED list
       ELSE list' = [list EXCEPT ![t] = "ready"] /\ UNCHANGED pending
    /\ UNCHANGED <<locked, at, asked>>

vTaskNotifyGiveFromISR(t) == xTaskGenericNotifyFromISR(t, "eIncrement", 0)

xTaskNotifyStateClear(t) ==
    /\ ~locked /\ ucNotifyState[t] = "received"
    /\ ucNotifyState' = [ucNotifyState EXCEPT ![t] = "not_waiting"]
    /\ UNCHANGED <<ulNotifiedValue, list, pending, locked, at, asked>>

\* Mutant: the task is still taken for one that waits.
SuspendKeepsWaiting(t) ==
    /\ ~locked
    /\ list' = [list EXCEPT ![t] = "suspended"]
    /\ asked' = asked \cup {t}
    /\ UNCHANGED <<ucNotifyState, ulNotifiedValue, pending, locked, at>>

\* vTaskSuspend ends a wait for a notification.
vTaskSuspend(t) ==
    /\ ~locked
    /\ list' = [list EXCEPT ![t] = "suspended"]
    /\ ucNotifyState' = [ucNotifyState EXCEPT ![t] = IF @ = "waiting" THEN "not_waiting" ELSE @]
    /\ asked' = asked \cup {t}
    /\ UNCHANGED <<ulNotifiedValue, pending, locked, at>>

\* prvTaskIsTaskSuspended: the state item is in the suspended list and the event
\* item in no list.
vTaskResume(t) ==
    /\ ~locked /\ list[t] = "suspended" /\ t \notin pending
    /\ list' = [list EXCEPT ![t] = "ready"]
    /\ asked' = asked \ {t}
    /\ UNCHANGED <<ucNotifyState, ulNotifiedValue, pending, locked, at>>

\* The tick interrupt ends a wait.
Timeout(t) == /\ ~locked /\ list[t] = "delayed"
              /\ list' = [list EXCEPT ![t] = "ready"]
              /\ UNCHANGED <<ucNotifyState, ulNotifiedValue, pending, locked, at, asked>>

vTaskSuspendAll == /\ ~locked /\ \E t \in Task : list[t] = "ready"
                   /\ locked' = TRUE
                   /\ UNCHANGED <<ucNotifyState, ulNotifiedValue, list, pending, at, asked>>

\* Mutant: the tasks notified meanwhile are not made ready.
ResumeAllSilent == /\ locked /\ locked' = FALSE
                   /\ pending' = {}
                   /\ UNCHANGED <<ucNotifyState, ulNotifiedValue, list, at, asked>>

xTaskResumeAll == /\ locked /\ locked' = FALSE
                  /\ pending' = {}
                  /\ list' = [t \in Task |-> IF t \in pending THEN "ready" ELSE list[t]]
                  /\ UNCHANGED <<ucNotifyState, ulNotifiedValue, at, asked>>

Next == \/ vTaskSuspendAll \/ xTaskResumeAll
        \/ \E t \in Task :
              \/ \E b \in BOOLEAN : TakeEntry(t, b) \/ ulTaskNotifyTake(t, b)
              \/ \E b \in BOOLEAN, v \in Values : WaitEntry(t, b, v)
              \/ \E v \in Values : xTaskNotifyWait(t, v)
              \/ \E a \in Actions, v \in Values :
                    xTaskGenericNotify(t, a, v) \/ xTaskGenericNotifyFromISR(t, a, v)
              \/ vTaskNotifyGiveFromISR(t) \/ xTaskNotifyStateClear(t)
              \/ vTaskSuspend(t) \/ vTaskResume(t) \/ Timeout(t)

Spec == Init /\ [][Next]_vars

-----------------------------------------------------------------------------
\* No notification is slept through: a task blocked in a wait that nobody
\* suspended has not been notified, or is about to be made ready.
NoLostNotification ==
    \A t \in Task : at[t] # "out" /\ list[t] # "ready" /\ t \notin asked
        => ucNotifyState[t] = "waiting" \/ t \in pending

\* A task suspended by vTaskSuspend stays suspended until vTaskResume, whatever
\* notifications it is sent.
StaysSuspended == \A t \in asked : list[t] = "suspended"

\* prvTaskIsTaskSuspended asks whether the task is in the suspended list "because
\* it is in the Suspended state, or because is is blocked with no timeout": only a
\* task that was suspended is resumed.
ResumesOnlySuspended ==
    [][\A t \in Task : vTaskResume(t) => t \in asked]_vars
=============================================================================
