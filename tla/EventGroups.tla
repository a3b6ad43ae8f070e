----------------------------- MODULE EventGroups -----------------------------
(***************************************************************************)
(* One event group of event_groups.c.  Tasks wait for bits or meet in      *)
(* xEventGroupSync, other tasks and, through the timer daemon's queue,     *)
(* interrupts set and clear bits, waits time out and the group is deleted. *)
(* A call is one step up to its yield, because the scheduler is suspended  *)
(* there, and one step after it.                                           *)
(***************************************************************************)
EXTENDS Sequences, Naturals, FiniteSets

CONSTANTS Task, Bit,
          Timed,      \* whether waits may have a timeout
          Deletes,    \* whether the group is deleted and created again
          Pends,      \* capacity left in the timer queue
          Rounds      \* rendezvous counted per task

VARIABLES uxEventBits,
          waiters,    \* xTasksWaitingForBits, in order
          item,       \* each task's event item value
          at,         \* "out", "blocked", "woken" (UNBLOCKED_DUE_TO_BIT_SET), "late"
          pended,     \* function calls queued for the timer daemon
          alive,      \* the group is allocated
          met,        \* rendezvous each task has passed; not in the code
          ret         \* whether the last value returned keeps its promise; not in the code

vars == <<uxEventBits, waiters, item, at, pended, alive, met, ret>>

\* What a task waits for: uxBitsToWaitFor with its control bits.
Wants == [bits : SUBSET Bit \ {{}}, all : BOOLEAN, clear : BOOLEAN, sync : {FALSE}]
None == [bits |-> {}, all |-> FALSE, clear |-> FALSE, sync |-> FALSE]

Reset == [want |-> None, bits |-> {}]

Free == {t \in Task : at[t] = "out"}

\* xEventGroupCreate.
Fresh == uxEventBits = {} /\ waiters = <<>> /\ alive = TRUE

Init == /\ Fresh
        /\ item = [t \in Task |-> Reset]
        /\ at = [t \in Task |-> "out"]
        /\ pended = <<>> /\ ret = TRUE
        /\ met = [t \in Task |-> 0]

prvTestWaitCondition(bits, want) ==
    IF want.all THEN want.bits \subseteq bits ELSE want.bits \cap bits # {}

\* Mutant: only the first waiter is looked at.
MatchedFirst(bits) ==
    {t \in Task : waiters # <<>> /\ t = Head(waiters) /\ prvTestWaitCondition(bits, item[t].want)}

\* The waiters xEventGroupSetBits finds satisfied: all of them are tested against
\* the bits before any is cleared.
Matched(bits) ==
    {t \in Task : (\E i \in 1 .. Len(waiters) : waiters[i] = t)
                    /\ prvTestWaitCondition(bits, item[t].want)}

\* vTaskRemoveFromUnorderedEventList for every task of set ts.
Remove(ts, bits) ==
    /\ waiters' = SelectSeq(waiters, LAMBDA t : t \notin ts)
    /\ item' = [t \in Task |-> IF t \in ts THEN [item[t] EXCEPT !.bits = bits] ELSE item[t]]

\* The group after xEventGroupSetBits: the satisfied tasks take the bits in their
\* item and leave the list, then the bits they asked to clear are cleared.
SetBits(set) ==
    LET bits == uxEventBits \cup set
        ts == Matched(bits)
    IN /\ Remove(ts, bits)
       /\ uxEventBits' = bits \ UNION {item[t].want.bits : t \in {u \in ts : item[u].want.clear}}
       /\ at' = [t \in Task |-> IF t \in ts THEN "woken" ELSE at[t]]

\* Called by a task that is in no wait.
xEventGroupSetBits(set) ==
    alive /\ SetBits(set) /\ UNCHANGED <<pended, alive, met, ret>>

xEventGroupClearBits(clear) ==
    /\ alive /\ uxEventBits' = uxEventBits \ clear
    /\ UNCHANGED <<waiters, item, at, pended, alive, met, ret>>

\* xTimerPendFunctionCallFromISR fails when the timer queue is full.
xEventGroupSetBitsFromISR(set) ==
    /\ alive /\ Len(pended) < Pends
    /\ pended' = Append(pended, [op |-> "set", bits |-> set])
    /\ UNCHANGED <<uxEventBits, waiters, item, at, alive, met, ret>>

xEventGroupClearBitsFromISR(clear) ==
    /\ alive /\ Len(pended) < Pends
    /\ pended' = Append(pended, [op |-> "clear", bits |-> clear])
    /\ UNCHANGED <<uxEventBits, waiters, item, at, alive, met, ret>>

vEventGroupSetBitsCallback ==
    /\ pended # <<>> /\ Head(pended).op = "set"
    /\ SetBits(Head(pended).bits)
    /\ pended' = Tail(pended) /\ UNCHANGED <<alive, met, ret>>

vEventGroupClearBitsCallback ==
    /\ pended # <<>> /\ Head(pended).op = "clear"
    /\ uxEventBits' = uxEventBits \ Head(pended).bits
    /\ pended' = Tail(pended) /\ UNCHANGED <<waiters, item, at, alive, met, ret>>

\* vTaskPlaceOnUnorderedEventList.
Place(t, want, others) ==
    /\ waiters' = Append(others, t)
    /\ item' = [item EXCEPT ![t] = [want |-> want, bits |-> {}]]
    /\ at' = [at EXCEPT ![t] = "blocked"]

\* A call returns these bits because of a timeout or because its bits were set; a
\* group deleted under it reports no bits.
Returned(why, bits, want) == ret' = (why = "set" => prvTestWaitCondition(bits, want) \/ (~alive /\ bits = {}))

\* xEventGroupWaitBits up to the yield; the wait ends here when the condition
\* holds already or no time is given.
xEventGroupWaitBits(t, want, ticks) ==
    /\ alive /\ at[t] = "out"
    /\ IF prvTestWaitCondition(uxEventBits, want)
       THEN /\ uxEventBits' = IF want.clear THEN uxEventBits \ want.bits ELSE uxEventBits
            /\ Returned("set", uxEventBits, want) /\ UNCHANGED <<waiters, item, at>>
       ELSE IF ticks = 0
       THEN Returned("timeout", uxEventBits, want) /\ UNCHANGED <<uxEventBits, waiters, item, at>>
       ELSE Place(t, want, waiters) /\ UNCHANGED <<uxEventBits, ret>>
    /\ UNCHANGED <<pended, alive, met>>

\* Mutant: the bits returned are read again after the yield.
WaitReadsAgain(t) == /\ ~item[t].want.sync /\ at[t] \in {"woken", "late"} /\ alive
                     /\ Returned(IF at[t] = "woken" THEN "set" ELSE "timeout", uxEventBits, item[t].want)
                     /\ at' = [at EXCEPT ![t] = "out"] /\ item' = [item EXCEPT ![t] = Reset]
                     /\ UNCHANGED <<uxEventBits, waiters, pended, alive, met>>

\* After the yield: the item holds the bits that ended the wait, or the wait timed
\* out and the condition is tested once more, inside a critical section.
WaitReturns(t) ==
    LET want == item[t].want
        holds == prvTestWaitCondition(uxEventBits, want)
    IN /\ ~want.sync
       /\ \/ /\ at[t] = "woken" /\ Returned("set", item[t].bits, want)
             /\ UNCHANGED uxEventBits
          \/ /\ at[t] = "late" /\ alive
             /\ Returned(IF holds THEN "set" ELSE "timeout", uxEventBits, want)
             /\ uxEventBits' = IF holds /\ want.clear THEN uxEventBits \ want.bits ELSE uxEventBits
       /\ at' = [at EXCEPT ![t] = "out"] /\ item' = [item EXCEPT ![t] = Reset]
       /\ UNCHANGED <<waiters, pended, alive, met>>

\* Mutant: a task is woken by the first bit of the meeting.
MeetingAny(bits) == [bits |-> bits, all |-> FALSE, clear |-> TRUE, sync |-> TRUE]

\* The control bits of a task in xEventGroupSync.
Meeting(bits) == [bits |-> bits, all |-> TRUE, clear |-> TRUE, sync |-> TRUE]

\* xEventGroupSync up to the yield: it sets its own bits, which may end the waits
\* of others, and passes when with them all the bits of the meeting were set.
xEventGroupSync(t, mine, wait, ticks) ==
    LET bits == uxEventBits \cup mine
        ts == Matched(bits)
        left == bits \ UNION {item[u].want.bits : u \in {v \in ts : item[v].want.clear}}
        woken == [u \in Task |-> IF u \in ts THEN "woken" ELSE at[u]]
        others == SelectSeq(waiters, LAMBDA u : u \notin ts)
    IN /\ alive /\ at[t] = "out" /\ met[t] < Rounds
       /\ UNCHANGED <<pended, alive>>
       /\ \/ /\ wait \subseteq bits
             /\ uxEventBits' = left \ wait /\ at' = woken
             /\ Remove(ts, bits) /\ met' = [met EXCEPT ![t] = @ + 1]
             /\ Returned("set", bits, Meeting(wait))
          \/ /\ ~(wait \subseteq bits) /\ ticks # 0
             /\ uxEventBits' = left
             /\ waiters' = Append(others, t)
             /\ item' = [u \in Task |-> IF u = t THEN [want |-> Meeting(wait), bits |-> {}]
                                        ELSE IF u \in ts THEN [item[u] EXCEPT !.bits = bits]
                                        ELSE item[u]]
             /\ at' = [woken EXCEPT ![t] = "blocked"] /\ UNCHANGED <<ret, met>>
          \/ /\ ~(wait \subseteq bits) /\ ticks = 0
             /\ uxEventBits' = left /\ at' = woken /\ Remove(ts, bits)
             /\ Returned("timeout", left, Meeting(wait)) /\ UNCHANGED met

\* xEventGroupSync after the yield.
SyncReturns(t) ==
    LET want == item[t].want
        holds == want.bits \subseteq uxEventBits
    IN /\ want.sync
       /\ \/ /\ at[t] = "woken" /\ Returned("set", item[t].bits, want)
             /\ met' = [met EXCEPT ![t] = @ + 1] /\ UNCHANGED uxEventBits
          \/ /\ at[t] = "late" /\ alive
             /\ Returned(IF holds THEN "set" ELSE "timeout", uxEventBits, want)
             /\ uxEventBits' = IF holds THEN uxEventBits \ want.bits ELSE uxEventBits
             /\ met' = IF holds THEN [met EXCEPT ![t] = @ + 1] ELSE met
       /\ at' = [at EXCEPT ![t] = "out"] /\ item' = [item EXCEPT ![t] = Reset]
       /\ UNCHANGED <<waiters, pended, alive>>

\* The tick interrupt ends a wait: both list items of the task are removed.
Timeout(t) == /\ Timed /\ at[t] = "blocked"
              /\ at' = [at EXCEPT ![t] = "late"]
              /\ waiters' = SelectSeq(waiters, LAMBDA u : u # t)
              /\ UNCHANGED <<uxEventBits, item, pended, alive, met, ret>>

\* Every waiter is woken with no bits and the memory is freed.  The group is only
\* deleted when no task still has to look at it after a timeout, and no pended
\* call refers to it: the code has no protection against either.
vEventGroupDelete ==
    /\ Deletes /\ alive /\ pended = <<>> /\ \A t \in Task : at[t] # "late"
    /\ Remove({t \in Task : at[t] = "blocked"}, {})
    /\ at' = [t \in Task |-> IF at[t] = "blocked" THEN "woken" ELSE at[t]]
    /\ alive' = FALSE /\ UNCHANGED <<uxEventBits, pended, met, ret>>

xEventGroupCreate == /\ ~alive /\ Free = Task /\ alive' = TRUE /\ uxEventBits' = {} /\ waiters' = <<>>
                     /\ UNCHANGED <<item, at, pended, met, ret>>

\* A rendezvous: every task sets a bit of its own and waits for all of them.
Own == CHOOSE f \in [Task -> Bit] : \A t, u \in Task : f[t] = f[u] => t = u

Meet == \E t \in Task : \/ \E n \in IF Timed THEN {0, 1} ELSE {1} : xEventGroupSync(t, {Own[t]}, {Own[u] : u \in Task}, n)
                        \/ SyncReturns(t) \/ Timeout(t)
Done == \A t \in Task : met[t] = Rounds /\ at[t] = "out"
\* Any mix of waits, meetings, sets and clears.
Next == \/ Free # {} /\ \E s \in SUBSET Bit \ {{}} : xEventGroupSetBits(s) \/ xEventGroupClearBits(s)
        \/ \E b \in Bit : xEventGroupSetBitsFromISR({b}) \/ xEventGroupClearBitsFromISR({b})
        \/ vEventGroupSetBitsCallback \/ vEventGroupClearBitsCallback
        \/ \E t \in Task : \/ \E w \in Wants, n \in {0, 1} : xEventGroupWaitBits(t, w, n)
                           \/ WaitReturns(t)
        \/ Meet
        \/ vEventGroupDelete \/ xEventGroupCreate

Spec == Init /\ [][Next]_vars

MeetSpec == Init /\ [][Meet]_vars /\ WF_vars(Meet)

-----------------------------------------------------------------------------
\* No task sleeps through its event: a task in the list of the group waits for
\* bits that are not set, whoever set or cleared bits in which order.
NoMissedEvent == \A i \in 1 .. Len(waiters) : ~prvTestWaitCondition(uxEventBits, item[waiters[i]].want)

\* event_groups.h, xEventGroupWaitBits: the value returned because the bits were
\* set is the value before any were cleared, so it satisfies the wait even when
\* other tasks have cleared the bits since; a deleted group reports 0.
ReturnsWhatWasMet == ret

\* Nobody passes a rendezvous before everybody has reached it: without timeouts
\* the tasks are at most one meeting apart.
MeetTogether == \A t, u \in Task : met[t] <= met[u] + 1

\* Every task gets through all its meetings: setting the last bit and clearing
\* all of them in one suspended section loses nobody.
AllMeet == <>Done
=============================================================================
