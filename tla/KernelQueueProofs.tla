-------------------------- MODULE KernelQueueProofs --------------------------
(***************************************************************************)
(* Proofs about KernelQueue, for every length of the queue, every set of   *)
(* tasks and calls and any number of interrupts during a lock.             *)
(***************************************************************************)
EXTENDS KernelQueue, SequenceFacts, FunctionTheorems, FiniteSetTheorems, TLAPS

Places == {"idle", "try", "lock", "check", "unlockTx", "unlockRx", "resume", "last"}

\* Where a task that suspended the scheduler is.
Inside == {"check", "unlockTx", "unlockRx", "resume"}

JobType == [op : SendOps \cup ReadOps \cup {"reset", "none"}, wait : Waits]

QueueType == [buf : [Slots -> Item], pcWriteTo : Slots, pcReadFrom : Slots, count : 0 .. uxLength,
              cRxLock : Nat \cup {queueUNLOCKED}, cTxLock : Nat \cup {queueUNLOCKED}]

TypeOK ==
    /\ q \in QueueType
    /\ xTasksWaitingToSend \in Seq(Task) /\ xTasksWaitingToReceive \in Seq(Task)
    /\ sched \in Task \cup {Nobody}
    /\ job \in [Task -> JobType]
    /\ at \in [Task -> Places]
    /\ after \in [Task -> {"idle", "try", "fail", "last"}]
    /\ expired \in [Task -> BOOLEAN]

\* The write index is the slot behind the last item.
Ring(c) == c.pcWriteTo = (c.pcReadFrom + 1 + c.count) % uxLength

\* A call that overwrites is made on a queue of one item only; a task outside any
\* call wants nothing; a task that unlocks the queue knows how it goes on, and only
\* a sender gives up there.
JobInv ==
    \A t \in Task : /\ job[t].op = "overwrite" => uxLength = 1
                    /\ at[t] = "idle" => job[t] = NoJob
                    /\ at[t] \in {"unlockTx", "unlockRx", "resume"} =>
                          after[t] # "idle" /\ (after[t] = "fail" => job[t].op \in SendOps)

\* One task at most is inside, and the queue is locked while it is between
\* prvLockQueue and the two halves of prvUnlockQueue.
LockInv ==
    /\ \A t \in Task : at[t] \in Inside <=> sched = t
    /\ sched = Nobody => q.cTxLock = queueUNLOCKED /\ q.cRxLock = queueUNLOCKED
    /\ \A t \in Task :
          /\ at[t] \in {"check", "unlockTx"} => q.cTxLock # queueUNLOCKED
          /\ at[t] \in {"check", "unlockTx", "unlockRx"} => q.cRxLock # queueUNLOCKED
          /\ at[t] \in {"unlockRx", "resume"} => q.cTxLock = queueUNLOCKED
          /\ at[t] = "resume" => q.cRxLock = queueUNLOCKED

\* A task on an event list is there once, wants what the list is for and will try
\* again.
Blocked(list, ops) ==
    /\ Distinct(list)
    /\ \A t \in ToSet(list) : /\ job[t].op \in ops
                              /\ at[t] \in {"try", "unlockTx", "unlockRx", "resume"}
                              /\ at[t] # "try" => after[t] = "try"

WaitInv == /\ Blocked(xTasksWaitingToSend, SendOps)
           /\ Blocked(xTasksWaitingToReceive, ReadOps)

Counted(lock) == IF lock = queueUNLOCKED THEN 0 ELSE lock

\* The readers that are not asleep.
Readers == {t \in Task : job[t].op \in ReadOps /\ t \notin ToSet(xTasksWaitingToReceive)}

\* While a reader sleeps, each item has a reader on its way or a wake-up counted.
ReceiverInv ==
    xTasksWaitingToReceive # <<>> => q.count <= Cardinality(Readers) + Counted(q.cTxLock)

\* Task t is about to try to send, awake.
WillSend(t) == /\ job[t].op \in SendOps
               /\ t \notin ToSet(xTasksWaitingToSend)
               /\ at[t] = "try" \/ (at[t] = "resume" /\ after[t] = "try")

\* While a sender sleeps beside an empty queue, another is about to send or a
\* wake-up is counted.
SenderInv ==
    xTasksWaitingToSend # <<>> /\ q.count = 0 =>
        q.cRxLock \in Nat \ {0} \/ \E t \in Task : WillSend(t)

Inv == /\ TypeOK
       /\ Ring(q)
       /\ JobInv
       /\ LockInv
       /\ WaitInv
       /\ ReceiverInv
       /\ SenderInv
-----------------------------------------------------------------------------
(* The ring.                                                               *)

\* A slot number brought back into the ring.
Turn(k) == IF k < uxLength THEN k ELSE IF k < 2 * uxLength THEN k - uxLength ELSE k - 2 * uxLength

\* The remainder of an index that is not more than a full turn ahead.
LEMMA TurnFacts ==
    ASSUME QueueAssumption, NEW k \in 0 .. 2 * uxLength
    PROVE  k % uxLength = Turn(k) /\ Turn(k) \in 0 .. uxLength - 1
  <1>1. uxLength \in Nat \ {0}
    BY DEF QueueAssumption
  <1>2. CASE k < 2 * uxLength
    BY <1>1, <1>2 DEF Turn
  <1>3. CASE k = 2 * uxLength
    BY <1>1, <1>3 DEF Turn
  <1> QED
    BY <1>1, <1>2, <1>3

\* The parts of a queue.
LEMMA QueueParts ==
    ASSUME QueueAssumption, NEW c \in QueueType
    PROVE  /\ uxLength \in Nat \ {0}
           /\ c.count \in 0 .. uxLength
           /\ c.pcReadFrom \in 0 .. uxLength - 1 /\ c.pcWriteTo \in 0 .. uxLength - 1
           /\ c.buf \in [0 .. uxLength - 1 -> Item]
           /\ c.pcReadFrom + 1 + c.count \in 0 .. 2 * uxLength
           /\ c.pcWriteTo + 1 \in 0 .. 2 * uxLength
           /\ c.pcReadFrom + 1 \in 0 .. 2 * uxLength
           /\ \A i \in 1 .. c.count : c.pcReadFrom + i \in 0 .. 2 * uxLength
  <1>1. /\ uxLength \in Nat \ {0}
        /\ c.count \in 0 .. uxLength
        /\ c.pcReadFrom \in 0 .. uxLength - 1 /\ c.pcWriteTo \in 0 .. uxLength - 1
        /\ c.buf \in [0 .. uxLength - 1 -> Item]
    BY DEF QueueAssumption, QueueType, Slots
  <1>2. ASSUME NEW n \in 0 .. uxLength, NEW r \in 0 .. uxLength - 1
        PROVE  r + 1 + n \in 0 .. 2 * uxLength /\ \A i \in 1 .. n : r + i \in 0 .. 2 * uxLength
    BY <1>1
  <1> QED
    BY <1>1, <1>2, SMTT(30)

\* The items of a queue, in the order in which they are received.
ItemsOf(c) == [i \in 1 .. c.count |-> c.buf[(c.pcReadFrom + i) % uxLength]]

\* Where the items of a queue are.
LEMMA ItemsPlace ==
    ASSUME QueueAssumption, NEW c \in QueueType
    PROVE  /\ ItemsOf(c) \in Seq(Item)
           /\ Len(ItemsOf(c)) = c.count
           /\ \A i \in 1 .. c.count : ItemsOf(c)[i] = c.buf[Turn(c.pcReadFrom + i)]
  <1>1. ASSUME NEW i \in 1 .. c.count
        PROVE  /\ (c.pcReadFrom + i) % uxLength = Turn(c.pcReadFrom + i)
               /\ Turn(c.pcReadFrom + i) \in 0 .. uxLength - 1
    BY QueueParts, TurnFacts
  <1>2. ASSUME NEW i \in 1 .. c.count
        PROVE  c.buf[(c.pcReadFrom + i) % uxLength] \in Item
    BY <1>1, QueueParts
  <1>3. ItemsOf(c) \in [1 .. c.count -> Item]
    BY <1>2 DEF ItemsOf
  <1>4. ItemsOf(c) \in Seq(Item) /\ Len(ItemsOf(c)) = c.count
    <2>1. c.count \in Nat
      BY QueueParts
    <2> QED
      BY <2>1, <1>3
  <1> QED
    BY <1>1, <1>4 DEF ItemsOf

\* prvCopyDataToQueue at the back of a queue with a free slot.
LEMMA CopyBack ==
    ASSUME QueueAssumption, NEW c \in QueueType, Ring(c), NEW v \in Item, c.count < uxLength
    PROVE  LET d == prvCopyDataToQueue(c, v, "back")
           IN  /\ d \in QueueType /\ Ring(d)
               /\ d.count = c.count + 1 /\ d.cTxLock = c.cTxLock /\ d.cRxLock = c.cRxLock
               /\ ItemsOf(d) = Append(ItemsOf(c), v)
  <1> DEFINE d == prvCopyDataToQueue(c, v, "back")
             r == c.pcReadFrom
             w == c.pcWriteTo
             n == c.count
  <1>1. /\ d.buf = [c.buf EXCEPT ![w] = v]
        /\ d.pcWriteTo = (w + 1) % uxLength /\ d.pcReadFrom = r
        /\ d.count = n + 1 /\ d.cTxLock = c.cTxLock /\ d.cRxLock = c.cRxLock
        /\ d = [buf |-> d.buf, pcWriteTo |-> d.pcWriteTo, pcReadFrom |-> d.pcReadFrom,
                count |-> d.count, cRxLock |-> d.cRxLock, cTxLock |-> d.cTxLock]
    BY DEF prvCopyDataToQueue, QueueType
  <1>2. d.pcWriteTo = Turn(w + 1) /\ w = Turn(r + 1 + n)
    BY <1>1, QueueParts, TurnFacts DEF Ring
  <1>3. /\ uxLength \in Nat \ {0} /\ n \in 0 .. uxLength - 1 /\ r \in 0 .. uxLength - 1
        /\ w \in 0 .. uxLength - 1 /\ c.buf \in [0 .. uxLength - 1 -> Item]
    BY QueueParts
  <1> HIDE DEF d
  <1>4. d \in QueueType
    <2>1. d.pcWriteTo \in Slots
      BY <1>2, <1>3, SMTT(30) DEF Turn, Slots
    <2>2. d.buf \in [Slots -> Item] /\ d.pcReadFrom \in Slots /\ d.count \in 0 .. uxLength
      BY <1>1, <1>3 DEF Slots
    <2> QED
      BY <2>1, <2>2, <1>1 DEF QueueType
  <1> HIDE DEF r, w, n
  <1>5. Ring(d)
    <2>1. (r + 1 + (n + 1)) % uxLength = Turn(r + 1 + (n + 1))
      BY <1>3, TurnFacts
    <2>2. Turn(w + 1) = Turn(r + 1 + (n + 1))
      BY <1>2, <1>3 DEF Turn
    <2> QED
      BY <2>1, <2>2, <1>1, <1>2 DEF Ring
  <1>6. /\ ItemsOf(c) \in Seq(Item) /\ Len(ItemsOf(c)) = n
        /\ ItemsOf(d) \in Seq(Item) /\ Len(ItemsOf(d)) = n + 1
        /\ \A i \in 1 .. n : ItemsOf(c)[i] = c.buf[Turn(r + i)]
        /\ \A i \in 1 .. n + 1 : ItemsOf(d)[i] = d.buf[Turn(r + i)]
    BY <1>1, <1>4, ItemsPlace, ZenonT(30) DEF r, n
  <1>7. \A i \in 1 .. n : Turn(r + i) \in 0 .. uxLength - 1 /\ Turn(r + i) # w
    BY <1>2, <1>3 DEF Turn
  <1>8. Turn(r + (n + 1)) = w
    BY <1>2, <1>3 DEF Turn
  <1>9. \A i \in 1 .. n + 1 : ItemsOf(d)[i] = IF i <= n THEN ItemsOf(c)[i] ELSE v
    BY <1>1, <1>3, <1>6, <1>7, <1>8, SMTT(30)
  <1>10. /\ Append(ItemsOf(c), v) \in Seq(Item) /\ Len(Append(ItemsOf(c), v)) = n + 1
         /\ \A i \in 1 .. n + 1 : Append(ItemsOf(c), v)[i] = IF i <= n THEN ItemsOf(c)[i] ELSE v
    BY <1>3, <1>6, AppendProperties
  <1>11. \A i \in 1 .. n + 1 : ItemsOf(d)[i] = Append(ItemsOf(c), v)[i]
    BY <1>9, <1>10
  <1>12. ItemsOf(d) = Append(ItemsOf(c), v)
    BY <1>6, <1>10, <1>11, SeqEqual
  <1> QED
    BY <1>1, <1>4, <1>5, <1>12 DEF d, n

\* prvCopyDataToQueue at the front of a queue with a free slot.
LEMMA CopyFront ==
    ASSUME QueueAssumption, NEW c \in QueueType, Ring(c), NEW v \in Item, c.count < uxLength
    PROVE  LET d == prvCopyDataToQueue(c, v, "front")
           IN  /\ d \in QueueType /\ Ring(d)
               /\ d.count = c.count + 1 /\ d.cTxLock = c.cTxLock /\ d.cRxLock = c.cRxLock
               /\ ItemsOf(d) = <<v>> \o ItemsOf(c)
  <1> DEFINE d == prvCopyDataToQueue(c, v, "front")
             r == c.pcReadFrom
             w == c.pcWriteTo
             n == c.count
             p == IF r = 0 THEN uxLength - 1 ELSE r - 1
  <1>1. /\ d.buf = [c.buf EXCEPT ![r] = v]
        /\ d.pcWriteTo = w /\ d.pcReadFrom = p
        /\ d.count = n + 1 /\ d.cTxLock = c.cTxLock /\ d.cRxLock = c.cRxLock
        /\ d = [buf |-> d.buf, pcWriteTo |-> d.pcWriteTo, pcReadFrom |-> d.pcReadFrom,
                count |-> d.count, cRxLock |-> d.cRxLock, cTxLock |-> d.cTxLock]
    BY DEF prvCopyDataToQueue, QueueType
  <1>2. w = Turn(r + 1 + n)
    BY QueueParts, TurnFacts DEF Ring
  <1>3. /\ uxLength \in Nat \ {0} /\ n \in 0 .. uxLength - 1 /\ r \in 0 .. uxLength - 1
        /\ w \in 0 .. uxLength - 1 /\ c.buf \in [0 .. uxLength - 1 -> Item]
    BY QueueParts
  <1>4. p \in 0 .. uxLength - 1
    BY <1>3
  <1> HIDE DEF d
  <1>5. d \in QueueType
    <2>1. /\ d.buf \in [Slots -> Item] /\ d.pcReadFrom \in Slots /\ d.count \in 0 .. uxLength
          /\ d.pcWriteTo \in Slots
      BY <1>1, <1>3, <1>4 DEF Slots
    <2> QED
      BY <2>1, <1>1 DEF QueueType
  <1>41. p = IF r = 0 THEN uxLength - 1 ELSE r - 1
    OBVIOUS
  <1> HIDE DEF r, w, n, p
  <1>6. Ring(d)
    <2>1. (p + 1 + (n + 1)) % uxLength = Turn(p + 1 + (n + 1))
      BY <1>3, <1>4, TurnFacts
    <2>2. w = Turn(p + 1 + (n + 1))
      BY <1>2, <1>3, <1>41 DEF Turn
    <2> QED
      BY <2>1, <2>2, <1>1 DEF Ring
  <1>7. /\ ItemsOf(c) \in Seq(Item) /\ Len(ItemsOf(c)) = n
        /\ ItemsOf(d) \in Seq(Item) /\ Len(ItemsOf(d)) = n + 1
        /\ \A i \in 1 .. n : ItemsOf(c)[i] = c.buf[Turn(r + i)]
        /\ \A i \in 1 .. n + 1 : ItemsOf(d)[i] = d.buf[Turn(p + i)]
    BY <1>1, <1>5, ItemsPlace DEF r, n
  <1>8. \A i \in 2 .. n + 1 : /\ Turn(p + i) = Turn(r + (i - 1)) /\ Turn(p + i) # r
                              /\ Turn(p + i) \in 0 .. uxLength - 1
    BY <1>3, <1>41 DEF Turn
  <1>9. Turn(p + 1) = r
    BY <1>3, <1>41 DEF Turn
  <1>10. \A i \in 1 .. n + 1 : ItemsOf(d)[i] = IF i = 1 THEN v ELSE ItemsOf(c)[i - 1]
    <2> TAKE i \in 1 .. n + 1
    <2>1. CASE i = 1
      BY <2>1, <1>1, <1>3, <1>7, <1>9
    <2>2. CASE i # 1
      <3>1. i \in 2 .. n + 1 /\ i - 1 \in 1 .. n
        BY <2>2, <1>3
      <3>2. ItemsOf(d)[i] = c.buf[Turn(r + (i - 1))]
        BY <3>1, <1>1, <1>3, <1>7, <1>8
      <3>3. ItemsOf(c)[i - 1] = c.buf[Turn(r + (i - 1))]
        BY <3>1, <1>7
      <3> QED
        BY <3>2, <3>3, <2>2
    <2> QED
      BY <2>1, <2>2
  <1> DEFINE e == <<v>> \o ItemsOf(c)
  <1>11. /\ e \in Seq(Item) /\ Len(e) = n + 1
         /\ \A i \in 1 .. n + 1 : e[i] = IF i = 1 THEN v ELSE ItemsOf(c)[i - 1]
    <2>1. <<v>> \in Seq(Item) /\ Len(<<v>>) = 1 /\ <<v>>[1] = v
      OBVIOUS
    <2>2. /\ e \in Seq(Item) /\ Len(e) = n + 1
          /\ \A i \in 1 .. n + 1 : e[i] = IF i <= 1 THEN <<v>>[i] ELSE ItemsOf(c)[i - 1]
      BY <2>1, <1>3, <1>7, ConcatProperties
    <2> HIDE DEF e
    <2> QED
      BY <2>1, <2>2, <1>3
  <1> HIDE DEF e
  <1>12. \A i \in 1 .. n + 1 : ItemsOf(d)[i] = e[i]
    BY <1>10, <1>11
  <1>13. ItemsOf(d) = e
    BY <1>7, <1>11, <1>12, SeqEqual
  <1> QED
    BY <1>1, <1>5, <1>6, <1>13 DEF d, n, e

\* prvCopyDataToQueue over the item of a queue of one.
LEMMA CopyOver ==
    ASSUME QueueAssumption, NEW c \in QueueType, Ring(c), NEW v \in Item, uxLength = 1
    PROVE  LET d == prvCopyDataToQueue(c, v, "overwrite")
           IN  /\ d \in QueueType /\ Ring(d)
               /\ d.count = 1 /\ d.cTxLock = c.cTxLock /\ d.cRxLock = c.cRxLock
               /\ ItemsOf(d) = <<v>>
  <1> DEFINE d == prvCopyDataToQueue(c, v, "overwrite")
  <1>1. /\ c.count \in 0 .. 1 /\ c.pcReadFrom = 0 /\ c.pcWriteTo = 0
        /\ c.buf \in [0 .. 0 -> Item]
    BY QueueParts
  <1>2. /\ d.buf = [c.buf EXCEPT ![0] = v]
        /\ d.pcWriteTo = 0 /\ d.pcReadFrom = 0
        /\ d.count = 1 /\ d.cTxLock = c.cTxLock /\ d.cRxLock = c.cRxLock
    BY <1>1 DEF prvCopyDataToQueue, QueueType
  <1>3. d \in QueueType
    <2>1. /\ [c.buf EXCEPT ![0] = v] \in [Slots -> Item] /\ 0 \in Slots
          /\ 0 \in 0 .. uxLength /\ 1 \in 0 .. uxLength
      BY <1>1 DEF Slots
    <2>2. d = [c EXCEPT !.buf = [c.buf EXCEPT ![0] = v], !.pcReadFrom = 0, !.count = 1]
      <3>1. 0 = (IF c.pcReadFrom = 0 THEN uxLength - 1 ELSE c.pcReadFrom - 1)
        BY <1>1
      <3>2. 1 = (IF "overwrite" = "overwrite" /\ c.count > 0 THEN c.count ELSE c.count + 1)
        BY <1>1
      <3>3. "overwrite" # "back"
        OBVIOUS
      <3> QED
        BY <1>1, <3>1, <3>2, <3>3, Zenon DEF prvCopyDataToQueue
    <2> QED
      BY <2>1, <2>2 DEF QueueType
  <1> HIDE DEF d
  <1>4. Ring(d)
    BY <1>2 DEF Ring
  <1>5. /\ ItemsOf(d) \in Seq(Item) /\ Len(ItemsOf(d)) = 1
        /\ \A i \in 1 .. 1 : ItemsOf(d)[i] = d.buf[Turn(0 + i)]
    BY <1>2, <1>3, ItemsPlace
  <1>6. Turn(0 + 1) = 0
    BY DEF Turn
  <1>7. ItemsOf(d)[1] = v
    BY <1>1, <1>2, <1>5, <1>6
  <1>8. ItemsOf(d) = <<v>>
    BY <1>5, <1>7
  <1> QED
    BY <1>2, <1>3, <1>4, <1>8 DEF d

\* prvCopyDataFromQueue on a queue that is not empty.
LEMMA CopyFrom ==
    ASSUME QueueAssumption, NEW c \in QueueType, Ring(c), c.count # 0
    PROVE  LET d == prvCopyDataFromQueue(c)
           IN  /\ d \in QueueType /\ Ring(d)
               /\ d.count = c.count - 1 /\ d.cTxLock = c.cTxLock /\ d.cRxLock = c.cRxLock
               /\ ItemsOf(c) # <<>> /\ ItemsOf(d) = Tail(ItemsOf(c))
  <1> DEFINE d == prvCopyDataFromQueue(c)
             r == c.pcReadFrom
             w == c.pcWriteTo
             n == c.count
  <1>1. /\ d.buf = c.buf
        /\ d.pcWriteTo = w /\ d.pcReadFrom = (r + 1) % uxLength
        /\ d.count = n - 1 /\ d.cTxLock = c.cTxLock /\ d.cRxLock = c.cRxLock
    BY DEF prvCopyDataFromQueue, QueueType
  <1>2. w = Turn(r + 1 + n) /\ d.pcReadFrom = Turn(r + 1) /\ Turn(r + 1) \in 0 .. uxLength - 1
    BY <1>1, QueueParts, TurnFacts DEF Ring
  <1>3. /\ uxLength \in Nat \ {0} /\ n \in 1 .. uxLength /\ r \in 0 .. uxLength - 1
        /\ w \in 0 .. uxLength - 1 /\ c.buf \in [0 .. uxLength - 1 -> Item]
    BY QueueParts
  <1>4. d \in QueueType
    <2>1. (r + 1) % uxLength \in Slots /\ n - 1 \in 0 .. uxLength
      BY <1>1, <1>2, <1>3 DEF Slots
    <2> QED
      BY <2>1 DEF prvCopyDataFromQueue, QueueType
  <1> HIDE DEF d, r, w, n
  <1>5. Ring(d)
    <2> DEFINE k == Turn(r + 1) + 1 + (n - 1)
    <2>1. k \in 0 .. 2 * uxLength /\ w = Turn(k)
      BY <1>2, <1>3 DEF Turn
    <2>2. k % uxLength = Turn(k)
      BY <2>1, TurnFacts
    <2> QED
      BY <2>1, <2>2, <1>1, <1>2 DEF Ring
  <1>6. /\ ItemsOf(c) \in Seq(Item) /\ Len(ItemsOf(c)) = n
        /\ ItemsOf(d) \in Seq(Item) /\ Len(ItemsOf(d)) = n - 1
        /\ \A i \in 1 .. n : ItemsOf(c)[i] = c.buf[Turn(r + i)]
        /\ \A i \in 1 .. n - 1 : ItemsOf(d)[i] = d.buf[Turn(Turn(r + 1) + i)]
    BY <1>1, <1>2, <1>4, ItemsPlace DEF r, n
  <1>7. \A i \in 1 .. n - 1 : Turn(Turn(r + 1) + i) = Turn(r + (i + 1))
    BY <1>3 DEF Turn
  <1>8. \A i \in 1 .. n - 1 : ItemsOf(d)[i] = ItemsOf(c)[i + 1]
    <2> TAKE i \in 1 .. n - 1
    <2>1. i + 1 \in 1 .. n
      BY <1>3
    <2> QED
      BY <2>1, <1>1, <1>6, <1>7
  <1>9. ItemsOf(c) # <<>>
    BY <1>3, <1>6
  <1>10. /\ Tail(ItemsOf(c)) \in Seq(Item) /\ Len(Tail(ItemsOf(c))) = n - 1
         /\ \A i \in 1 .. n - 1 : Tail(ItemsOf(c))[i] = ItemsOf(c)[i + 1]
    BY <1>3, <1>6, <1>9, HeadTailProperties
  <1>11. \A i \in 1 .. n - 1 : ItemsOf(d)[i] = Tail(ItemsOf(c))[i]
    BY <1>8, <1>10
  <1>12. ItemsOf(d) = Tail(ItemsOf(c))
    BY <1>6, <1>10, <1>11, SeqEqual
  <1> QED
    BY <1>1, <1>4, <1>5, <1>9, <1>12 DEF d, n

\* xQueueGenericReset.
LEMMA ResetFacts ==
    ASSUME QueueAssumption, NEW c \in QueueType
    PROVE  LET d == ResetQueue(c)
           IN  /\ d \in QueueType /\ Ring(d)
               /\ d.count = 0 /\ d.cTxLock = queueUNLOCKED /\ d.cRxLock = queueUNLOCKED
               /\ ItemsOf(d) = <<>>
  <1> DEFINE d == ResetQueue(c)
  <1>1. /\ uxLength \in Nat \ {0}
        /\ d \in QueueType /\ d.count = 0 /\ d.pcWriteTo = 0 /\ d.pcReadFrom = uxLength - 1
        /\ d.cTxLock = queueUNLOCKED /\ d.cRxLock = queueUNLOCKED
    <2>1. /\ uxLength \in Nat \ {0} /\ 0 \in 0 .. uxLength
          /\ 0 \in Slots /\ uxLength - 1 \in Slots
      BY DEF QueueAssumption, Slots
    <2> QED
      BY <2>1 DEF ResetQueue, QueueType
  <1> HIDE DEF d
  <1>2. (uxLength - 1 + 1 + 0) % uxLength = Turn(uxLength - 1 + 1 + 0)
    BY <1>1, TurnFacts
  <1>3. Turn(uxLength - 1 + 1 + 0) = 0
    BY <1>1 DEF Turn
  <1>4. Ring(d)
    BY <1>1, <1>2, <1>3 DEF Ring
  <1>5. ItemsOf(d) \in Seq(Item) /\ Len(ItemsOf(d)) = 0
    BY <1>1, ItemsPlace
  <1>6. ItemsOf(d) = <<>>
    BY <1>5
  <1> QED
    BY <1>1, <1>4, <1>6 DEF d
-----------------------------------------------------------------------------
(* The event lists.                                                        *)

\* xTaskRemoveFromEventList.
LEMMA WakeFacts ==
    ASSUME NEW list \in Seq(Task), Distinct(list)
    PROVE  /\ Wake(list) \in Seq(Task) /\ Distinct(Wake(list))
           /\ ToSet(Wake(list)) \subseteq ToSet(list)
           /\ Wake(list) # <<>> => list # <<>>
           /\ list # <<>> => /\ list[1] \in ToSet(list) /\ list[1] \in Task
                             /\ ToSet(Wake(list)) = ToSet(list) \ {list[1]}
  <1>1. CASE list = <<>>
    BY <1>1 DEF Wake
  <1>2. CASE list # <<>>
    <2>1. Wake(list) = SubSeq(list, 1 + 1, Len(list)) /\ Len(list) \in Nat \ {0}
      BY <1>2, TailIsSubSeq DEF Wake
    <2>2. /\ Wake(list) \in Seq(Task) /\ Distinct(Wake(list))
          /\ ToSet(Wake(list)) = {list[i] : i \in 1 + 1 .. Len(list)}
      <3>1. /\ SubSeq(list, 1 + 1, Len(list)) \in Seq(Task)
            /\ Distinct(SubSeq(list, 1 + 1, Len(list)))
            /\ ToSet(SubSeq(list, 1 + 1, Len(list))) = {list[i] : i \in 1 + 1 .. Len(list)}
        BY SuffixElements
      <3> QED
        BY <2>1, <3>1, Zenon
    <2>3. ToSet(list) = {list[i] : i \in 1 .. Len(list)}
      BY DEF ToSet
    <2>4. list[1] \in ToSet(list) /\ list[1] \in Task
      BY <2>1, <2>3
    <2>5. {list[i] : i \in 1 + 1 .. Len(list)} = {list[i] : i \in 1 .. Len(list)} \ {list[1]}
      BY <2>1 DEF Distinct
    <2> QED
      BY <1>2, <2>2, <2>3, <2>4, <2>5
  <1> QED
    BY <1>1, <1>2

\* vTaskPlaceOnEventList.
LEMMA PlaceFacts ==
    ASSUME NEW list \in Seq(Task), NEW t \in Task
    PROVE  /\ PlaceOnEventList(list, t) \in Seq(Task)
           /\ PlaceOnEventList(list, t) # <<>>
           /\ ToSet(PlaceOnEventList(list, t)) = ToSet(list) \cup {t}
           /\ Distinct(list) /\ t \notin ToSet(list) => Distinct(PlaceOnEventList(list, t))
  <1> DEFINE D == {i \in 1 .. Len(list) : Priority[list[i]] >= Priority[t]}
             n == Cardinality(D)
  <1>1. Len(list) \in Nat /\ IsFiniteSet(1 .. Len(list)) /\ Cardinality(1 .. Len(list)) = Len(list)
    <2>1. Len(list) \in Nat /\ Len(list) \in Int /\ 1 \in Int
      OBVIOUS
    <2> QED
      BY <2>1, FS_Interval
  <1>2. D \in SUBSET (1 .. Len(list))
    OBVIOUS
  <1>3. n \in Nat /\ n <= Len(list)
    BY <1>1, <1>2, FS_Subset, FS_CardinalityType
  <1> HIDE DEF D
  <1>4. n + 1 \in 1 .. Len(list) + 1
    BY <1>1, <1>3
  <1>5. PlaceOnEventList(list, t) = InsertAt(list, n + 1, t)
    BY Zenon DEF PlaceOnEventList, n, D
  <1> QED
    BY <1>4, <1>5, InsertElements

\* uxListRemove.
LEMMA ListRemoveFacts ==
    ASSUME NEW list \in Seq(Task), NEW t \in Task, Distinct(list)
    PROVE  /\ ListRemove(list, t) \in Seq(Task) /\ Distinct(ListRemove(list, t))
           /\ ToSet(ListRemove(list, t)) = ToSet(list) \ {t}
           /\ ListRemove(list, t) # <<>> => list # <<>>
  <1>1. CASE t \notin ToSet(list)
    BY <1>1 DEF ListRemove
  <1>2. CASE t \in ToSet(list)
    <2> DEFINE i == CHOOSE k \in 1 .. Len(list) : list[k] = t
    <2>1. \E k \in 1 .. Len(list) : list[k] = t
      BY <1>2 DEF ToSet
    <2>2. i \in 1 .. Len(list) /\ list[i] = t
      BY <2>1
    <2>3. ListRemove(list, t) = RemoveAt(list, i)
      BY <1>2 DEF ListRemove
    <2>4. list # <<>>
      BY <2>2
    <2> HIDE DEF i
    <2> QED
      BY <2>2, <2>3, <2>4, RemoveElements
  <1> QED
    BY <1>1, <1>2

\* Only an empty list has no elements.
LEMMA EmptyList ==
    ASSUME NEW list \in Seq(Task)
    PROVE  ToSet(list) = {} <=> list = <<>>
  BY DEF ToSet
-----------------------------------------------------------------------------
(* Types, locks and event lists.                                           *)

Base == TypeOK /\ Ring(q) /\ JobInv /\ LockInv /\ WaitInv

\* A send or receive with room or an item, by a task or an interrupt.
LEMMA CopyTo ==
    ASSUME QueueAssumption, NEW c \in QueueType, Ring(c), NEW v \in Item, NEW op \in SendOps,
           c.count # uxLength \/ op = "overwrite", op = "overwrite" => uxLength = 1
    PROVE  LET d == prvCopyDataToQueue(c, v, op)
           IN  /\ d \in QueueType /\ Ring(d)
               /\ d.cTxLock = c.cTxLock /\ d.cRxLock = c.cRxLock
               /\ d.count # 0 /\ d.count <= c.count + 1
               /\ \/ op = "back" /\ c.count < uxLength /\ ItemsOf(d) = Append(ItemsOf(c), v)
                  \/ op = "front" /\ c.count < uxLength /\ ItemsOf(d) = <<v>> \o ItemsOf(c)
                  \/ op = "overwrite" /\ uxLength = 1 /\ ItemsOf(d) = <<v>>
  <1>1. uxLength \in Nat \ {0} /\ c.count \in 0 .. uxLength
    BY QueueParts
  <1>2. CASE op = "back"
    <2>1. c.count < uxLength
      BY <1>1, <1>2
    <2> QED
      BY <1>1, <1>2, <2>1, CopyBack
  <1>3. CASE op = "front"
    <2>1. c.count < uxLength
      BY <1>1, <1>3
    <2> QED
      BY <1>1, <1>3, <2>1, CopyFront
  <1>4. CASE op = "overwrite"
    BY <1>1, <1>4, CopyOver
  <1> QED
    BY <1>2, <1>3, <1>4 DEF SendOps

\* Items may be tasks or Isr.
LEMMA SendTypes ==
    ASSUME QueueAssumption, TypeOK, NEW t \in Task
    PROVE  /\ t \in Item /\ Isr \in Item /\ t # Nobody
           /\ job[t].op \in SendOps \cup ReadOps \cup {"reset", "none"}
           /\ job[t].wait \in Waits
  BY DEF QueueAssumption, TypeOK, Item, JobType

\* Return ends a call.
LEMMA ReturnTypes ==
    ASSUME TypeOK, NEW t \in Task, Return(t)
    PROVE  /\ job' \in [Task -> JobType] /\ at' \in [Task -> Places] /\ expired' \in [Task -> BOOLEAN]
           /\ job'[t] = NoJob /\ at'[t] = "idle"
           /\ \A u \in Task \ {t} : job'[u] = job[u] /\ at'[u] = at[u]
  <1>1. NoJob \in JobType
    BY DEF NoJob, JobType, Waits
  <1> QED
    BY <1>1 DEF Return, TypeOK, Places

\* What a task that runs by itself does to the base: it ends its call or moves
\* outside the part that blocks, and wakes at most.
LEMMA OutsideStep ==
    ASSUME QueueAssumption, Base, NEW t \in Task, at[t] \notin Inside, t \notin Waiting,
           q' \in QueueType, Ring(q'), q'.cTxLock = q.cTxLock, q'.cRxLock = q.cRxLock,
           Return(t) \/ (/\ at' = [at EXCEPT ![t] = at'[t]] /\ at'[t] \in {"try", "lock"}
                         /\ UNCHANGED <<job, expired>>),
           UNCHANGED <<sched, after>>,
           xTasksWaitingToSend' \in {xTasksWaitingToSend, Wake(xTasksWaitingToSend)},
           xTasksWaitingToReceive' \in {xTasksWaitingToReceive, Wake(xTasksWaitingToReceive)}
    PROVE  Base'
  <1> USE DEF Base
  <1>1. /\ Distinct(xTasksWaitingToSend) /\ Distinct(xTasksWaitingToReceive)
        /\ xTasksWaitingToSend \in Seq(Task) /\ xTasksWaitingToReceive \in Seq(Task)
    BY DEF WaitInv, Blocked, TypeOK
  <1>2. /\ Distinct(xTasksWaitingToSend') /\ Distinct(xTasksWaitingToReceive')
        /\ xTasksWaitingToSend' \in Seq(Task) /\ xTasksWaitingToReceive' \in Seq(Task)
        /\ ToSet(xTasksWaitingToSend') \subseteq ToSet(xTasksWaitingToSend)
        /\ ToSet(xTasksWaitingToReceive') \subseteq ToSet(xTasksWaitingToReceive)
    BY <1>1, WakeFacts
  <1>3. /\ job' \in [Task -> JobType] /\ at' \in [Task -> Places] /\ expired' \in [Task -> BOOLEAN]
        /\ \A u \in Task \ {t} : job'[u] = job[u] /\ at'[u] = at[u]
        /\ \/ job'[t] = NoJob /\ at'[t] = "idle"
           \/ job'[t] = job[t] /\ at'[t] \in {"try", "lock"}
    <2>1. CASE Return(t)
      BY <2>1, ReturnTypes
    <2>2. CASE ~Return(t)
      BY <2>2 DEF TypeOK, Places
    <2> QED
      BY <2>1, <2>2
  <1>4. TypeOK'
    BY <1>2, <1>3 DEF TypeOK
  <1>5. JobInv'
    BY <1>3 DEF JobInv, NoJob
  <1>6. LockInv'
    <2>1. \A u \in Task : at'[u] = at[u] \/ (u = t /\ at[u] \notin Inside /\ at'[u] \notin Inside)
      BY <1>3 DEF Inside
    <2> QED
      BY <2>1 DEF LockInv, Inside
  <1>7. WaitInv'
    <2>1. /\ ToSet(xTasksWaitingToSend) \subseteq Task \ {t}
          /\ ToSet(xTasksWaitingToReceive) \subseteq Task \ {t}
      BY <1>1 DEF Waiting, ToSet
    <2>2. \A u \in Task \ {t} : job'[u] = job[u] /\ at'[u] = at[u] /\ after'[u] = after[u]
      BY <1>3
    <2> QED
      BY <1>2, <2>1, <2>2 DEF WaitInv, Blocked
  <1>8. Ring(q)'
    BY DEF Ring
  <1> QED
    BY <1>4, <1>5, <1>6, <1>7, <1>8

\* A task that runs is outside the part that blocks.
LEMMA RunsOutside ==
    ASSUME QueueAssumption, Base, NEW t \in Task, Runs(t)
    PROVE  /\ at[t] \notin Inside /\ t \notin Waiting
           /\ q.cTxLock = queueUNLOCKED /\ q.cRxLock = queueUNLOCKED
           /\ \A u \in Task : at[u] \notin Inside
  BY DEF QueueAssumption, Base, Runs, LockInv

\* Each step keeps the types, the ring, the locks and the event lists.
LEMMA BaseNext ==
    ASSUME QueueAssumption, Base, [Next]_vars
    PROVE  Base'
  <1>0. /\ q \in QueueType /\ Ring(q) /\ uxLength \in Nat \ {0} /\ q.count \in 0 .. uxLength
        /\ Distinct(xTasksWaitingToSend) /\ Distinct(xTasksWaitingToReceive)
        /\ xTasksWaitingToSend \in Seq(Task) /\ xTasksWaitingToReceive \in Seq(Task)
    BY QueueParts DEF Base, TypeOK, WaitInv, Blocked
  <1>1. ASSUME NEW t \in Task, Call(t) PROVE Base'
    <2>1. /\ job[t] = NoJob /\ at[t] = "idle" /\ at'[t] = "try" /\ job'[t] \in JobType
          /\ job'[t].op = "overwrite" => uxLength = 1
          /\ \A u \in Task \ {t} : job'[u] = job[u] /\ at'[u] = at[u]
          /\ job' \in [Task -> JobType] /\ at' \in [Task -> Places]
      <3> PICK j \in Jobs[t] : job' = [job EXCEPT ![t] = j]
        BY <1>1 DEF Call
      <3>1. j \in JobType
        BY DEF QueueAssumption, JobType
      <3>2. j.op = "overwrite" => uxLength = 1
        BY DEF QueueAssumption
      <3> QED
        BY <1>1, <3>1, <3>2 DEF Call, Base, TypeOK, JobInv, Places
    <2>2. TypeOK'
      BY <1>1, <2>1 DEF Call, Base, TypeOK
    <2>3. JobInv'
      BY <1>1, <2>1 DEF Call, Base, JobInv
    <2>4. LockInv'
      <3>1. \A u \in Task : at'[u] = at[u] \/ (u = t /\ at[u] \notin Inside /\ at'[u] \notin Inside)
        BY <2>1 DEF Inside
      <3> QED
        BY <1>1, <3>1 DEF Call, Base, LockInv, Inside
    <2>5. WaitInv'
      <3>1. /\ t \notin ToSet(xTasksWaitingToSend) /\ t \notin ToSet(xTasksWaitingToReceive)
            /\ ToSet(xTasksWaitingToSend) \subseteq Task /\ ToSet(xTasksWaitingToReceive) \subseteq Task
        BY <1>0, <1>1 DEF Call, Runs, Waiting, ToSet
      <3> QED
        BY <1>1, <2>1, <3>1 DEF Call, Base, WaitInv, Blocked
    <2> QED
      BY <1>1, <2>2, <2>3, <2>4, <2>5 DEF Call, Base, Ring
  <1>2. ASSUME NEW t \in Task, Refuse(t), at[t] = "try", Runs(t) PROVE Base'
    <2>1. Return(t) \/ (/\ at' = [at EXCEPT ![t] = at'[t]] /\ at'[t] \in {"try", "lock"}
                        /\ UNCHANGED <<job, expired>>)
      <3>1. CASE job[t].wait = "poll"
        BY <1>2, <3>1 DEF Refuse
      <3>2. CASE job[t].wait # "poll"
        BY <1>2, <3>2 DEF Refuse, Base, TypeOK
      <3> QED
        BY <3>1, <3>2
    <2>2. UNCHANGED <<q, xTasksWaitingToSend, xTasksWaitingToReceive, sched, after>>
      BY <1>2 DEF Refuse
    <2> QED
      BY <1>0, <1>2, <2>1, <2>2, RunsOutside, OutsideStep
  <1>3. ASSUME NEW t \in Task, xQueueGenericSend(t) PROVE Base'
    <2>1. CASE ~prvIsQueueFull(q) \/ job[t].op = "overwrite"
      <3> DEFINE d == prvCopyDataToQueue(q, t, job[t].op)
      <3>1. q' = d /\ Return(t) /\ Runs(t) /\ job[t].op \in SendOps
        BY <1>3, <2>1 DEF xQueueGenericSend
      <3>2. d \in QueueType /\ Ring(d) /\ d.cTxLock = q.cTxLock /\ d.cRxLock = q.cRxLock
        <4>1. q.count # uxLength \/ job[t].op = "overwrite"
          BY <2>1 DEF prvIsQueueFull
        <4>2. t \in Item /\ (job[t].op = "overwrite" => uxLength = 1)
          BY DEF Item, Base, JobInv
        <4> DEFINE op == job[t].op
        <4> HIDE DEF op
        <4> SUFFICES LET e == prvCopyDataToQueue(q, t, op)
                     IN  e \in QueueType /\ Ring(e) /\ e.cTxLock = q.cTxLock /\ e.cRxLock = q.cRxLock
          BY DEF op
        <4>3. op \in SendOps /\ (q.count # uxLength \/ op = "overwrite") /\ (op = "overwrite" => uxLength = 1)
          BY <3>1, <4>1, <4>2 DEF op
        <4> QED
          BY <1>0, <4>2, <4>3, CopyTo
      <3>3. /\ xTasksWaitingToReceive' = Wake(xTasksWaitingToReceive)
            /\ UNCHANGED <<xTasksWaitingToSend, sched, after>>
        BY <1>3, <2>1 DEF xQueueGenericSend
      <3> HIDE DEF d
      <3> QED
        BY <3>1, <3>2, <3>3, RunsOutside, OutsideStep
    <2>2. CASE ~(~prvIsQueueFull(q) \/ job[t].op = "overwrite")
      BY <1>2, <1>3, <2>2 DEF xQueueGenericSend
    <2> QED
      BY <2>1, <2>2
  <1>4. ASSUME NEW t \in Task, xQueueReceive(t) PROVE Base'
    <2>1. CASE ~prvIsQueueEmpty(q)
      <3> DEFINE d == prvCopyDataFromQueue(q)
      <3>1. q' = d /\ Return(t) /\ Runs(t)
        BY <1>4, <2>1 DEF xQueueReceive
      <3>2. d \in QueueType /\ Ring(d) /\ d.cTxLock = q.cTxLock /\ d.cRxLock = q.cRxLock
        BY <1>0, <2>1, CopyFrom DEF prvIsQueueEmpty
      <3>3. /\ xTasksWaitingToSend' = Wake(xTasksWaitingToSend)
            /\ UNCHANGED <<xTasksWaitingToReceive, sched, after>>
        BY <1>4, <2>1 DEF xQueueReceive
      <3> HIDE DEF d
      <3> QED
        BY <3>1, <3>2, <3>3, RunsOutside, OutsideStep
    <2>2. CASE prvIsQueueEmpty(q)
      BY <1>2, <1>4, <2>2 DEF xQueueReceive
    <2> QED
      BY <2>1, <2>2
  <1>5. ASSUME NEW t \in Task, xQueuePeek(t) PROVE Base'
    <2>1. CASE ~prvIsQueueEmpty(q)
      <3>1. /\ q' = q /\ Return(t) /\ Runs(t)
            /\ xTasksWaitingToReceive' = Wake(xTasksWaitingToReceive)
            /\ UNCHANGED <<xTasksWaitingToSend, sched, after>>
        BY <1>5, <2>1 DEF xQueuePeek
      <3> QED
        BY <1>0, <3>1, RunsOutside, OutsideStep
    <2>2. CASE prvIsQueueEmpty(q)
      BY <1>2, <1>5, <2>2 DEF xQueuePeek
    <2> QED
      BY <2>1, <2>2
  <1>6. ASSUME NEW t \in Task, xQueueGenericReset(t) PROVE Base'
    <2> DEFINE d == ResetQueue(q)
    <2>1. /\ q' = d /\ Return(t) /\ Runs(t)
          /\ xTasksWaitingToSend' = Wake(xTasksWaitingToSend)
          /\ UNCHANGED <<xTasksWaitingToReceive, sched, after>>
      BY <1>6 DEF xQueueGenericReset
    <2>2. d \in QueueType /\ Ring(d) /\ d.cTxLock = q.cTxLock /\ d.cRxLock = q.cRxLock
      BY <1>0, <2>1, ResetFacts, RunsOutside
    <2> HIDE DEF d
    <2> QED
      BY <2>1, <2>2, RunsOutside, OutsideStep
  <1>7. ASSUME NEW t \in Task, LastLook(t) PROVE Base'
    <2>1. Return(t) \/ (/\ at' = [at EXCEPT ![t] = at'[t]] /\ at'[t] \in {"try", "lock"}
                        /\ UNCHANGED <<job, expired>>)
      <3>1. CASE prvIsQueueEmpty(q)
        BY <1>7, <3>1 DEF LastLook
      <3>2. CASE ~prvIsQueueEmpty(q)
        BY <1>7, <3>2 DEF LastLook, Base, TypeOK
      <3> QED
        BY <3>1, <3>2
    <2>2. Runs(t) /\ UNCHANGED <<q, xTasksWaitingToSend, xTasksWaitingToReceive, sched, after>>
      BY <1>7 DEF LastLook
    <2> QED
      BY <1>0, <1>7, <2>1, <2>2, RunsOutside, OutsideStep
  <1>8. ASSUME NEW t \in Task, prvLockQueue(t) PROVE Base'
    <2>1. /\ q' \in QueueType /\ Ring(q') /\ q'.cRxLock = 0 /\ q'.cTxLock = 0
      <3>1. q.cRxLock = queueUNLOCKED /\ q.cTxLock = queueUNLOCKED
        BY <1>8, RunsOutside DEF prvLockQueue
      <3>2. q' = [q EXCEPT !.cRxLock = 0, !.cTxLock = 0]
        BY <1>8, <3>1 DEF prvLockQueue
      <3> QED
        BY <1>0, <3>2 DEF QueueType, Ring
    <2>2. /\ at' \in [Task -> Places] /\ at'[t] = "check" /\ at[t] = "lock"
          /\ \A u \in Task \ {t} : at'[u] = at[u]
      BY <1>8 DEF prvLockQueue, Base, TypeOK, Places
    <2>3. sched' = t /\ UNCHANGED <<xTasksWaitingToSend, xTasksWaitingToReceive, job, after, expired>>
      BY <1>8 DEF prvLockQueue
    <2>4. TypeOK'
      BY <2>1, <2>2, <2>3 DEF Base, TypeOK
    <2>5. JobInv'
      BY <2>2, <2>3 DEF Base, JobInv
    <2>6. LockInv'
      <3>1. t # Nobody /\ \A u \in Task : at[u] \notin Inside
        BY <1>8, RunsOutside DEF prvLockQueue, QueueAssumption
      <3> QED
        BY <2>1, <2>2, <2>3, <3>1 DEF LockInv, Inside, queueUNLOCKED
    <2>7. WaitInv'
      <3>1. /\ t \notin ToSet(xTasksWaitingToSend) /\ t \notin ToSet(xTasksWaitingToReceive)
            /\ ToSet(xTasksWaitingToSend) \subseteq Task /\ ToSet(xTasksWaitingToReceive) \subseteq Task
        BY <1>0, <1>8 DEF prvLockQueue, Runs, Waiting, ToSet
      <3> QED
        BY <2>2, <2>3, <3>1 DEF Base, WaitInv, Blocked
    <2> QED
      BY <2>1, <2>4, <2>5, <2>6, <2>7 DEF Base, Ring
  <1>9. ASSUME NEW t \in Task, SendOrBlock(t) \/ ReceiveOrBlock(t) PROVE Base'
    <2>1. /\ at' = [at EXCEPT ![t] = "unlockTx"] /\ at[t] = "check"
          /\ UNCHANGED <<q, sched, job, expired>>
          /\ after' = [after EXCEPT ![t] = after'[t]] /\ after'[t] \in {"fail", "last", "try"}
          /\ after'[t] = "fail" => job[t].op \in SendOps
      BY <1>9 DEF SendOrBlock, ReceiveOrBlock, Base, TypeOK
    <2>2. t \notin ToSet(xTasksWaitingToSend) /\ t \notin ToSet(xTasksWaitingToReceive)
      BY <2>1 DEF Base, WaitInv, Blocked
    <2>3. /\ xTasksWaitingToSend' \in Seq(Task) /\ Distinct(xTasksWaitingToSend')
          /\ xTasksWaitingToReceive' \in Seq(Task) /\ Distinct(xTasksWaitingToReceive')
          /\ \A u \in ToSet(xTasksWaitingToSend') :
                \/ u \in ToSet(xTasksWaitingToSend)
                \/ u = t /\ job[t].op \in SendOps /\ after'[t] = "try"
          /\ \A u \in ToSet(xTasksWaitingToReceive') :
                \/ u \in ToSet(xTasksWaitingToReceive)
                \/ u = t /\ job[t].op \in ReadOps /\ after'[t] = "try"
      <3>1. CASE SendOrBlock(t)
        <4>1. CASE ~expired[t] /\ prvIsQueueFull(q)
          <5>1. /\ xTasksWaitingToSend' = PlaceOnEventList(xTasksWaitingToSend, t)
                /\ xTasksWaitingToReceive' = xTasksWaitingToReceive
                /\ after'[t] = "try" /\ job[t].op \in SendOps
            BY <3>1, <4>1 DEF SendOrBlock, Base, TypeOK
          <5> QED
            BY <1>0, <2>2, <5>1, PlaceFacts
        <4>2. CASE ~(~expired[t] /\ prvIsQueueFull(q))
          BY <1>0, <3>1, <4>2 DEF SendOrBlock
        <4> QED
          BY <4>1, <4>2
      <3>2. CASE ReceiveOrBlock(t)
        <4>1. CASE ~expired[t] /\ prvIsQueueEmpty(q)
          <5>1. /\ xTasksWaitingToReceive' = PlaceOnEventList(xTasksWaitingToReceive, t)
                /\ xTasksWaitingToSend' = xTasksWaitingToSend
                /\ after'[t] = "try" /\ job[t].op \in ReadOps
            BY <3>2, <4>1 DEF ReceiveOrBlock, Base, TypeOK
          <5> QED
            BY <1>0, <2>2, <5>1, PlaceFacts
        <4>2. CASE ~(~expired[t] /\ prvIsQueueEmpty(q))
          BY <1>0, <3>2, <4>2 DEF ReceiveOrBlock
        <4> QED
          BY <4>1, <4>2
      <3> QED
        BY <1>9, <3>1, <3>2
    <2>4. TypeOK'
      BY <2>1, <2>3 DEF Base, TypeOK, Places
    <2>5. JobInv'
      BY <2>1 DEF Base, JobInv, TypeOK
    <2>6. LockInv'
      BY <2>1 DEF Base, LockInv, TypeOK, Inside
    <2>7. WaitInv'
      <3>1. /\ ToSet(xTasksWaitingToSend) \subseteq Task /\ ToSet(xTasksWaitingToReceive) \subseteq Task
        BY <1>0 DEF ToSet
      <3>2. at'[t] = "unlockTx" /\ \A u \in Task \ {t} : at'[u] = at[u] /\ after'[u] = after[u]
        BY <2>1 DEF Base, TypeOK
      <3> QED
        BY <2>1, <2>2, <2>3, <3>1, <3>2 DEF Base, WaitInv, Blocked
    <2> QED
      BY <2>1, <2>4, <2>5, <2>6, <2>7 DEF Base, Ring
  <1>10. ASSUME NEW t \in Task, prvUnlockTx(t) \/ prvUnlockRx(t) PROVE Base'
    <2>1. /\ at' \in [Task -> Places]
          /\ \/ at[t] = "unlockTx" /\ at'[t] = "unlockRx"
             \/ at[t] = "unlockRx" /\ at'[t] = "resume"
          /\ \A u \in Task \ {t} : at'[u] = at[u]
          /\ UNCHANGED <<sched, job, after, expired>>
      BY <1>10 DEF prvUnlockTx, prvUnlockRx, Base, TypeOK, Places
    <2>2. q.cTxLock \in Nat \/ at[t] = "unlockRx"
      BY <1>0, <2>1 DEF Base, LockInv, QueueType
    <2>3. q.cRxLock \in Nat
      BY <1>0, <2>1 DEF Base, LockInv, QueueType
    <2>4. /\ xTasksWaitingToSend' \in Seq(Task) /\ Distinct(xTasksWaitingToSend')
          /\ xTasksWaitingToReceive' \in Seq(Task) /\ Distinct(xTasksWaitingToReceive')
          /\ ToSet(xTasksWaitingToSend') \subseteq ToSet(xTasksWaitingToSend)
          /\ ToSet(xTasksWaitingToReceive') \subseteq ToSet(xTasksWaitingToReceive)
      <3>1. ASSUME NEW list \in Seq(Task), NEW n \in Nat, Distinct(list)
            PROVE  /\ SubSeq(list, n + 1, Len(list)) \in Seq(Task)
                   /\ Distinct(SubSeq(list, n + 1, Len(list)))
                   /\ ToSet(SubSeq(list, n + 1, Len(list))) \subseteq ToSet(list)
        <4>1. /\ SubSeq(list, n + 1, Len(list)) \in Seq(Task)
              /\ Distinct(SubSeq(list, n + 1, Len(list)))
              /\ ToSet(SubSeq(list, n + 1, Len(list))) = {list[i] : i \in n + 1 .. Len(list)}
          BY <3>1, SuffixElements
        <4>2. {list[i] : i \in n + 1 .. Len(list)} \subseteq ToSet(list)
          BY DEF ToSet
        <4> QED
          BY <4>1, <4>2, Zenon
      <3>2. CASE prvUnlockTx(t)
        <4>1. /\ xTasksWaitingToReceive'
                    = SubSeq(xTasksWaitingToReceive, q.cTxLock + 1, Len(xTasksWaitingToReceive))
              /\ xTasksWaitingToSend' = xTasksWaitingToSend /\ q.cTxLock \in Nat
          BY <2>2, <3>2 DEF prvUnlockTx
        <4> QED
          BY <1>0, <3>1, <4>1
      <3>3. CASE prvUnlockRx(t)
        <4>1. /\ xTasksWaitingToSend'
                    = SubSeq(xTasksWaitingToSend, q.cRxLock + 1, Len(xTasksWaitingToSend))
              /\ xTasksWaitingToReceive' = xTasksWaitingToReceive
          BY <3>3 DEF prvUnlockRx
        <4> QED
          BY <1>0, <2>3, <3>1, <4>1
      <3> QED
        BY <1>10, <3>2, <3>3
    <2>5. /\ q' \in QueueType /\ Ring(q')
          /\ \/ at[t] = "unlockTx" /\ q'.cTxLock = queueUNLOCKED /\ q'.cRxLock = q.cRxLock
             \/ at[t] = "unlockRx" /\ q'.cTxLock = q.cTxLock /\ q'.cRxLock = queueUNLOCKED
      <3>1. CASE prvUnlockTx(t)
        BY <1>0, <3>1 DEF prvUnlockTx, QueueType, Ring
      <3>2. CASE prvUnlockRx(t)
        BY <1>0, <3>2 DEF prvUnlockRx, QueueType, Ring
      <3> QED
        BY <1>10, <3>1, <3>2
    <2>6. TypeOK'
      BY <2>1, <2>4, <2>5 DEF Base, TypeOK
    <2>7. JobInv'
      BY <2>1 DEF Base, JobInv
    <2>8. LockInv'
      <3>1. sched = t /\ t # Nobody /\ \A u \in Task \ {t} : at[u] \notin Inside
        BY <2>1 DEF Base, LockInv, Inside, QueueAssumption
      <3> QED
        BY <2>1, <2>5, <3>1 DEF Base, LockInv, Inside
    <2>9. WaitInv'
      <3>1. /\ ToSet(xTasksWaitingToSend) \subseteq Task /\ ToSet(xTasksWaitingToReceive) \subseteq Task
        BY <1>0 DEF ToSet
      <3> QED
        BY <2>1, <2>4, <3>1 DEF Base, WaitInv, Blocked
    <2> QED
      BY <2>5, <2>6, <2>7, <2>8, <2>9 DEF Base, Ring
  <1>11. ASSUME NEW t \in Task, ResumeAll(t) PROVE Base'
    <2>0. NoJob \in JobType
      BY DEF NoJob, JobType, Waits
    <2>1. /\ at' \in [Task -> Places] /\ job' \in [Task -> JobType] /\ expired' \in [Task -> BOOLEAN]
          /\ after' = [after EXCEPT ![t] = "idle"] /\ at[t] = "resume" /\ sched' = Nobody
          /\ UNCHANGED <<q, xTasksWaitingToSend, xTasksWaitingToReceive>>
          /\ \A u \in Task \ {t} : at'[u] = at[u] /\ job'[u] = job[u] /\ after'[u] = after[u]
          /\ \/ after[t] = "fail" /\ at'[t] = "idle" /\ job'[t] = NoJob
             \/ after[t] # "fail" /\ at'[t] = after[t] /\ job'[t] = job[t]
      <3>1. CASE after[t] = "fail"
        BY <1>11, <2>0, <3>1 DEF ResumeAll, Return, Base, TypeOK, Places
      <3>2. CASE after[t] # "fail"
        BY <1>11, <3>2 DEF ResumeAll, Base, TypeOK, Places
      <3> QED
        BY <3>1, <3>2
    <2>2. sched = t /\ \A u \in Task \ {t} : at[u] \notin Inside
      BY <2>1 DEF Base, LockInv, Inside
    <2>3. q.cTxLock = queueUNLOCKED /\ q.cRxLock = queueUNLOCKED
      BY <2>1 DEF Base, LockInv
    <2>4. TypeOK'
      BY <2>1 DEF Base, TypeOK
    <2>5. JobInv'
      BY <2>1 DEF Base, JobInv, NoJob, TypeOK
    <2>6. LockInv'
      <3>1. \A u \in Task : at'[u] \notin Inside /\ u # Nobody
        BY <2>1, <2>2 DEF Base, TypeOK, Inside, QueueAssumption
      <3> QED
        BY <2>1, <2>3, <3>1 DEF LockInv, Inside
    <2>7. WaitInv'
      <3>1. /\ ToSet(xTasksWaitingToSend) \subseteq Task /\ ToSet(xTasksWaitingToReceive) \subseteq Task
        BY <1>0 DEF ToSet
      <3> QED
        BY <2>1, <3>1 DEF Base, WaitInv, Blocked
    <2> QED
      BY <2>1, <2>4, <2>5, <2>6, <2>7 DEF Base, Ring
  <1>12. ASSUME NEW t \in Task, Expire(t) PROVE Base'
    <2>1. /\ UNCHANGED <<q, sched, job, at, after>> /\ expired' \in [Task -> BOOLEAN]
      BY <1>12 DEF Expire, Base, TypeOK
    <2>2. /\ xTasksWaitingToSend' \in Seq(Task) /\ Distinct(xTasksWaitingToSend')
          /\ xTasksWaitingToReceive' \in Seq(Task) /\ Distinct(xTasksWaitingToReceive')
          /\ ToSet(xTasksWaitingToSend') \subseteq ToSet(xTasksWaitingToSend)
          /\ ToSet(xTasksWaitingToReceive') \subseteq ToSet(xTasksWaitingToReceive)
      BY <1>0, <1>12, ListRemoveFacts DEF Expire
    <2> QED
      BY <2>1, <2>2 DEF Base, TypeOK, JobInv, LockInv, WaitInv, Blocked, Ring
  <1>13. ASSUME q' \in QueueType, Ring(q'),
                q.cTxLock = queueUNLOCKED <=> q'.cTxLock = queueUNLOCKED,
                q.cRxLock = queueUNLOCKED <=> q'.cRxLock = queueUNLOCKED,
                xTasksWaitingToSend' \in {xTasksWaitingToSend, Wake(xTasksWaitingToSend)},
                xTasksWaitingToReceive' \in {xTasksWaitingToReceive, Wake(xTasksWaitingToReceive)},
                UNCHANGED <<sched, job, at, after, expired>>
         PROVE  Base'
    <2>1. /\ xTasksWaitingToSend' \in Seq(Task) /\ Distinct(xTasksWaitingToSend')
          /\ xTasksWaitingToReceive' \in Seq(Task) /\ Distinct(xTasksWaitingToReceive')
          /\ ToSet(xTasksWaitingToSend') \subseteq ToSet(xTasksWaitingToSend)
          /\ ToSet(xTasksWaitingToReceive') \subseteq ToSet(xTasksWaitingToReceive)
      BY <1>0, <1>13, WakeFacts
    <2>2. TypeOK' /\ JobInv'
      BY <1>13, <2>1 DEF Base, TypeOK, JobInv
    <2>3. LockInv'
      BY <1>13 DEF Base, LockInv
    <2>4. WaitInv'
      BY <1>13, <2>1 DEF Base, WaitInv, Blocked
    <2> QED
      BY <1>13, <2>2, <2>3, <2>4 DEF Base, Ring
  <1>14. ASSUME NEW pos \in IsrSends, xQueueGenericSendFromISR(pos) PROVE Base'
    <2> DEFINE d == prvCopyDataToQueue(q, Isr, pos)
    <2>1. d \in QueueType /\ Ring(d) /\ d.cTxLock = q.cTxLock /\ d.cRxLock = q.cRxLock
      <3>1. Isr \in Item /\ pos \in SendOps /\ (pos = "overwrite" => uxLength = 1)
        BY DEF Item, QueueAssumption
      <3>2. q.count # uxLength \/ pos = "overwrite"
        BY <1>14 DEF xQueueGenericSendFromISR, prvIsQueueFull
      <3> QED
        BY <1>0, <3>1, <3>2, CopyTo
    <2>2. /\ \/ q.cTxLock = queueUNLOCKED /\ q' = d
             \/ q.cTxLock # queueUNLOCKED /\ q' = [d EXCEPT !.cTxLock = @ + 1]
          /\ UNCHANGED <<xTasksWaitingToSend, sched, job, at, after, expired>>
          /\ xTasksWaitingToReceive' \in {xTasksWaitingToReceive, Wake(xTasksWaitingToReceive)}
      BY <1>14 DEF xQueueGenericSendFromISR
    <2> HIDE DEF d
    <2>3. q.cTxLock \in Nat \cup {queueUNLOCKED}
      BY <1>0 DEF QueueType
    <2>4. /\ q' \in QueueType /\ Ring(q') /\ q'.cRxLock = q.cRxLock
          /\ q.cTxLock = queueUNLOCKED <=> q'.cTxLock = queueUNLOCKED
      BY <2>1, <2>2, <2>3 DEF QueueType, Ring, queueUNLOCKED
    <2> QED
      BY <1>13, <2>2, <2>4
  <1>15. ASSUME xQueueReceiveFromISR PROVE Base'
    <2> DEFINE d == prvCopyDataFromQueue(q)
    <2>1. d \in QueueType /\ Ring(d) /\ d.cTxLock = q.cTxLock /\ d.cRxLock = q.cRxLock
      BY <1>0, <1>15, CopyFrom DEF xQueueReceiveFromISR, prvIsQueueEmpty
    <2>2. /\ \/ q.cRxLock = queueUNLOCKED /\ q' = d
             \/ q.cRxLock # queueUNLOCKED /\ q' = [d EXCEPT !.cRxLock = @ + 1]
          /\ UNCHANGED <<xTasksWaitingToReceive, sched, job, at, after, expired>>
          /\ xTasksWaitingToSend' \in {xTasksWaitingToSend, Wake(xTasksWaitingToSend)}
      BY <1>15 DEF xQueueReceiveFromISR
    <2> HIDE DEF d
    <2>3. q.cRxLock \in Nat \cup {queueUNLOCKED}
      BY <1>0 DEF QueueType
    <2>4. /\ q' \in QueueType /\ Ring(q') /\ q'.cTxLock = q.cTxLock
          /\ q.cRxLock = queueUNLOCKED <=> q'.cRxLock = queueUNLOCKED
      BY <2>1, <2>2, <2>3 DEF QueueType, Ring, queueUNLOCKED
    <2> QED
      BY <1>13, <2>2, <2>4
  <1>16. CASE UNCHANGED vars
    BY <1>16 DEF vars, Base, TypeOK, Ring, JobInv, LockInv, WaitInv, Blocked
  <1> QED
    BY <1>1, <1>3, <1>4, <1>5, <1>6, <1>7, <1>8, <1>9, <1>10, <1>11, <1>12, <1>14, <1>15, <1>16
    DEF Next
-----------------------------------------------------------------------------
(* Nobody sleeps beside what he waits for.                                 *)

\* The readers that are awake can be counted.
LEMMA ReadersFinite ==
    ASSUME QueueAssumption, NEW R \in SUBSET Task
    PROVE  IsFiniteSet(R) /\ Cardinality(R) \in Nat
  BY FS_Subset, FS_CardinalityType DEF QueueAssumption

\* Waking the first reader makes one more reader that is awake.
LEMMA OneWoken ==
    ASSUME QueueAssumption, Base, xTasksWaitingToReceive # <<>>,
           xTasksWaitingToReceive' = Wake(xTasksWaitingToReceive),
           \A u \in Task : job'[u].op \in ReadOps <=> job[u].op \in ReadOps
    PROVE  Cardinality(Readers') = Cardinality(Readers) + 1
  <1> DEFINE h == xTasksWaitingToReceive[1]
  <1>1. /\ h \in ToSet(xTasksWaitingToReceive) /\ h \in Task
        /\ ToSet(xTasksWaitingToReceive') = ToSet(xTasksWaitingToReceive) \ {h}
    BY WakeFacts DEF Base, TypeOK, WaitInv, Blocked
  <1>2. job[h].op \in ReadOps
    BY <1>1 DEF Base, WaitInv, Blocked
  <1> HIDE DEF h
  <1>3. Readers' = Readers \cup {h} /\ h \notin Readers
    BY <1>1, <1>2 DEF Readers
  <1>4. IsFiniteSet(Readers)
    BY ReadersFinite DEF Readers
  <1> QED
    BY <1>3, <1>4, FS_AddElement

\* A step that wakes no reader, adds no item and lets no reader go.
LEMMA ReceiverKept ==
    ASSUME QueueAssumption, ReceiverInv, TypeOK, TypeOK',
           q'.count <= q.count, Counted(q.cTxLock) <= Counted(q'.cTxLock),
           xTasksWaitingToReceive' # <<>> => xTasksWaitingToReceive # <<>>,
           Readers \subseteq Readers'
    PROVE  ReceiverInv'
  <1>1. /\ q.count \in Nat /\ q'.count \in Nat
        /\ Counted(q.cTxLock) \in Nat /\ Counted(q'.cTxLock) \in Nat
    BY DEF QueueAssumption, TypeOK, QueueType, Counted
  <1>2. Readers' \in SUBSET Task /\ Readers \in SUBSET Readers'
    BY DEF Readers
  <1>3. Cardinality(Readers) <= Cardinality(Readers') /\ Cardinality(Readers) \in Nat
        /\ Cardinality(Readers') \in Nat
    BY <1>2, ReadersFinite, FS_Subset
  <1> QED
    BY <1>1, <1>3 DEF ReceiverInv

\* With no item left there is nothing to count.
LEMMA ReceiverEmpty ==
    ASSUME QueueAssumption, TypeOK', q'.count = 0
    PROVE  ReceiverInv'
  <1>1. Counted(q'.cTxLock) \in Nat
    BY DEF TypeOK, QueueType, Counted
  <1>2. Cardinality(Readers') \in Nat
    BY ReadersFinite DEF Readers
  <1> QED
    BY <1>1, <1>2 DEF ReceiverInv

\* An item that comes wakes a reader.
LEMMA ReceiverItem ==
    ASSUME QueueAssumption, Base, ReceiverInv, TypeOK', q'.count <= q.count + 1,
           q'.cTxLock = q.cTxLock,
           xTasksWaitingToReceive' = Wake(xTasksWaitingToReceive),
           \A u \in Task : job'[u].op \in ReadOps <=> job[u].op \in ReadOps
    PROVE  ReceiverInv'
  <1> SUFFICES ASSUME xTasksWaitingToReceive' # <<>>
               PROVE  q'.count <= Cardinality(Readers') + Counted(q'.cTxLock)
    BY DEF ReceiverInv
  <1>1. xTasksWaitingToReceive # <<>>
    BY WakeFacts DEF Base, TypeOK, WaitInv, Blocked
  <1>2. Cardinality(Readers') = Cardinality(Readers) + 1
    BY <1>1, OneWoken
  <1>3. Cardinality(Readers) \in Nat
    BY ReadersFinite DEF Readers
  <1>4. q.count \in Nat /\ q'.count \in Nat /\ Counted(q.cTxLock) \in Nat
    BY DEF Base, TypeOK, QueueType, Counted, QueueAssumption
  <1> QED
    BY <1>1, <1>2, <1>3, <1>4 DEF ReceiverInv

\* While a reader sleeps, each item keeps a reader on its way.
LEMMA ReceiverNext ==
    ASSUME QueueAssumption, Base, ReceiverInv, Base', [Next]_vars
    PROVE  ReceiverInv'
  <1>0. /\ TypeOK /\ TypeOK' /\ q \in QueueType /\ Ring(q)
        /\ q.count \in Nat /\ q'.count \in Nat /\ uxLength \in Nat \ {0}
        /\ Counted(q.cTxLock) \in Nat /\ Counted(q'.cTxLock) \in Nat
    BY DEF Base, TypeOK, QueueType, Counted, QueueAssumption
  <1>00. Readers \in SUBSET Task /\ IsFiniteSet(Readers) /\ Cardinality(Readers) \in Nat
    BY ReadersFinite DEF Readers
  <1>01. ReadOps = {"receive", "peek"} /\ SendOps = {"back", "front", "overwrite"}
         /\ NoJob.op = "none"
    BY DEF ReadOps, SendOps, NoJob
  <1>1. ASSUME NEW t \in Task, Call(t) PROVE ReceiverInv'
    <2>1. job[t] = NoJob
      BY <1>1 DEF Call, Base, JobInv
    <2>2. UNCHANGED <<q, xTasksWaitingToReceive>> /\ \A u \in Task \ {t} : job'[u] = job[u]
      BY <1>1 DEF Call, Base, TypeOK
    <2>3. Readers \subseteq Readers'
      BY <1>01, <2>1, <2>2 DEF Readers
    <2> QED
      BY <1>0, <2>2, <2>3, ReceiverKept
  <1>2. ASSUME NEW t \in Task, Refuse(t), job[t].op \notin ReadOps PROVE ReceiverInv'
    <2>1. /\ UNCHANGED <<q, xTasksWaitingToReceive>> /\ \A u \in Task \ {t} : job'[u] = job[u]
      BY <1>2 DEF Refuse, Return, Base, TypeOK
    <2>2. Readers \subseteq Readers'
      BY <1>2, <2>1 DEF Readers
    <2> QED
      BY <1>0, <2>1, <2>2, ReceiverKept
  <1>3. ASSUME NEW t \in Task, xQueueGenericSend(t) PROVE ReceiverInv'
    <2>1. CASE ~prvIsQueueFull(q) \/ job[t].op = "overwrite"
      <3> DEFINE op == job[t].op
                 d == prvCopyDataToQueue(q, t, op)
      <3>1. q' = d /\ xTasksWaitingToReceive' = Wake(xTasksWaitingToReceive) /\ Return(t)
            /\ op \in SendOps
        BY <1>3, <2>1 DEF xQueueGenericSend
      <3>2. t \in Item /\ (op = "overwrite" => uxLength = 1)
            /\ (q.count # uxLength \/ op = "overwrite")
        BY <2>1 DEF Item, Base, JobInv, prvIsQueueFull
      <3> HIDE DEF op
      <3>3. q'.count <= q.count + 1 /\ q'.cTxLock = q.cTxLock
        BY <1>0, <3>1, <3>2, CopyTo
      <3>4. \A u \in Task : job'[u].op \in ReadOps <=> job[u].op \in ReadOps
        BY <1>0, <1>01, <3>1, ReturnTypes DEF op
      <3> QED
        BY <1>0, <3>1, <3>3, <3>4, ReceiverItem
    <2>2. CASE ~(~prvIsQueueFull(q) \/ job[t].op = "overwrite")
      BY <1>01, <1>2, <1>3, <2>2 DEF xQueueGenericSend
    <2> QED
      BY <2>1, <2>2
  <1>4. ASSUME NEW t \in Task, xQueueReceive(t) PROVE ReceiverInv'
    <2>1. CASE ~prvIsQueueEmpty(q)
      <3>1. /\ q' = prvCopyDataFromQueue(q) /\ Return(t) /\ job[t].op \in ReadOps
            /\ xTasksWaitingToReceive' = xTasksWaitingToReceive
            /\ t \notin ToSet(xTasksWaitingToReceive)
        BY <1>01, <1>4, <2>1 DEF xQueueReceive, Runs, Waiting
      <3>2. q'.count = q.count - 1 /\ q'.cTxLock = q.cTxLock
        BY <1>0, <2>1, <3>1, CopyFrom DEF prvIsQueueEmpty
      <3>3. Readers' = Readers \ {t} /\ t \in Readers
        <4>1. job'[t] = NoJob /\ \A u \in Task \ {t} : job'[u] = job[u]
          BY <1>0, <3>1, ReturnTypes
        <4> QED
          BY <1>01, <3>1, <4>1 DEF Readers
      <3>4. Cardinality(Readers') = Cardinality(Readers) - 1
        BY <1>00, <3>3, FS_RemoveElement
      <3> QED
        BY <1>0, <1>00, <3>1, <3>2, <3>4 DEF ReceiverInv
    <2>2. CASE prvIsQueueEmpty(q)
      BY <1>0, <1>4, <2>2, ReceiverEmpty DEF xQueueReceive, Refuse, prvIsQueueEmpty
    <2> QED
      BY <2>1, <2>2
  <1>5. ASSUME NEW t \in Task, xQueuePeek(t) PROVE ReceiverInv'
    <2>1. CASE ~prvIsQueueEmpty(q)
      <3>1. /\ q' = q /\ Return(t) /\ job[t].op \in ReadOps
            /\ xTasksWaitingToReceive' = Wake(xTasksWaitingToReceive)
            /\ t \notin ToSet(xTasksWaitingToReceive)
        BY <1>01, <1>5, <2>1 DEF xQueuePeek, Runs, Waiting
      <3> SUFFICES ASSUME xTasksWaitingToReceive' # <<>>
                   PROVE  Cardinality(Readers') = Cardinality(Readers)
                          /\ xTasksWaitingToReceive # <<>>
        BY <1>0, <3>1 DEF ReceiverInv
      <3> DEFINE h == xTasksWaitingToReceive[1]
      <3>2. /\ xTasksWaitingToReceive # <<>>
            /\ h \in ToSet(xTasksWaitingToReceive) /\ h \in Task
            /\ ToSet(xTasksWaitingToReceive') = ToSet(xTasksWaitingToReceive) \ {h}
        BY <3>1, WakeFacts DEF Base, TypeOK, WaitInv, Blocked
      <3>3. job[h].op \in ReadOps
        BY <3>2 DEF Base, WaitInv, Blocked
      <3>4. job'[t] = NoJob /\ \A u \in Task \ {t} : job'[u] = job[u]
        BY <1>0, <3>1, ReturnTypes
      <3> HIDE DEF h
      <3>5. Readers' = (Readers \ {t}) \cup {h} /\ t \in Readers /\ h \notin Readers
        BY <1>01, <3>1, <3>2, <3>3, <3>4 DEF Readers
      <3>6. /\ IsFiniteSet(Readers \ {t}) /\ Cardinality(Readers \ {t}) = Cardinality(Readers) - 1
        BY <1>00, <3>5, FS_RemoveElement
      <3>7. Cardinality(Readers') = Cardinality(Readers \ {t}) + 1
        BY <3>5, <3>6, FS_AddElement
      <3> QED
        BY <1>00, <3>2, <3>6, <3>7
    <2>2. CASE prvIsQueueEmpty(q)
      BY <1>0, <1>5, <2>2, ReceiverEmpty DEF xQueuePeek, Refuse, prvIsQueueEmpty
    <2> QED
      BY <2>1, <2>2
  <1>6. ASSUME NEW t \in Task, xQueueGenericReset(t) PROVE ReceiverInv'
    <2>1. q'.count = 0
      BY <1>0, <1>6, ResetFacts DEF xQueueGenericReset
    <2> QED
      BY <1>0, <2>1, ReceiverEmpty
  <1>7. ASSUME NEW t \in Task, LastLook(t) PROVE ReceiverInv'
    <2>1. CASE q.count = 0
      BY <1>0, <1>7, <2>1, ReceiverEmpty DEF LastLook
    <2>2. CASE q.count # 0
      <3>1. UNCHANGED <<q, xTasksWaitingToReceive, job>>
        BY <1>7, <2>2 DEF LastLook, prvIsQueueEmpty
      <3> QED
        BY <1>0, <3>1, ReceiverKept DEF Readers
    <2> QED
      BY <2>1, <2>2
  <1>8. ASSUME NEW t \in Task, prvLockQueue(t) PROVE ReceiverInv'
    <2>1. UNCHANGED <<xTasksWaitingToReceive, job>>
      BY <1>8 DEF prvLockQueue
    <2>2. q'.count = q.count /\ Counted(q'.cTxLock) = Counted(q.cTxLock)
      BY <1>0, <1>8 DEF prvLockQueue, QueueType, Counted, queueUNLOCKED
    <2> QED
      BY <1>0, <2>1, <2>2, ReceiverKept DEF Readers
  <1>9. ASSUME NEW t \in Task, SendOrBlock(t) PROVE ReceiverInv'
    <2>1. UNCHANGED <<q, xTasksWaitingToReceive, job>>
      BY <1>9 DEF SendOrBlock
    <2> QED
      BY <1>0, <2>1, ReceiverKept DEF Readers
  <1>10. ASSUME NEW t \in Task, ReceiveOrBlock(t) PROVE ReceiverInv'
    <2>1. CASE q.count = 0
      BY <1>0, <1>10, <2>1, ReceiverEmpty DEF ReceiveOrBlock
    <2>2. CASE q.count # 0
      <3>1. UNCHANGED <<q, xTasksWaitingToReceive, job>>
        BY <1>10, <2>2 DEF ReceiveOrBlock, prvIsQueueEmpty
      <3> QED
        BY <1>0, <3>1, ReceiverKept DEF Readers
    <2> QED
      BY <2>1, <2>2
  <1>11. ASSUME NEW t \in Task, prvUnlockRx(t) PROVE ReceiverInv'
    <2>1. UNCHANGED <<xTasksWaitingToReceive, job>>
      BY <1>11 DEF prvUnlockRx
    <2>2. q'.count = q.count /\ q'.cTxLock = q.cTxLock
      BY <1>0, <1>11 DEF prvUnlockRx, QueueType
    <2> QED
      BY <1>0, <2>1, <2>2, ReceiverKept DEF Readers
  <1>12. ASSUME NEW t \in Task, ResumeAll(t) PROVE ReceiverInv'
    <2>1. UNCHANGED <<q, xTasksWaitingToReceive>>
      BY <1>12 DEF ResumeAll
    <2>2. Readers \subseteq Readers'
      <3>1. CASE after[t] = "fail"
        <4>1. job[t].op \in SendOps
          BY <1>12, <3>1 DEF ResumeAll, Base, JobInv
        <4>2. \A u \in Task \ {t} : job'[u] = job[u]
          BY <1>12, <3>1 DEF ResumeAll, Return, Base, TypeOK
        <4> QED
          BY <1>01, <2>1, <4>1, <4>2 DEF Readers
      <3>2. CASE after[t] # "fail"
        BY <1>12, <2>1, <3>2 DEF ResumeAll, Readers
      <3> QED
        BY <3>1, <3>2
    <2> QED
      BY <1>0, <2>1, <2>2, ReceiverKept
  <1>13. ASSUME NEW t \in Task, Expire(t) PROVE ReceiverInv'
    <2>1. UNCHANGED <<q, job>>
          /\ xTasksWaitingToReceive' = ListRemove(xTasksWaitingToReceive, t)
      BY <1>13 DEF Expire
    <2>2. /\ ToSet(xTasksWaitingToReceive') \subseteq ToSet(xTasksWaitingToReceive)
          /\ xTasksWaitingToReceive' # <<>> => xTasksWaitingToReceive # <<>>
      BY <2>1, ListRemoveFacts, ZenonT(30) DEF Base, TypeOK, WaitInv, Blocked
    <2> QED
      BY <1>0, <2>1, <2>2, ReceiverKept DEF Readers
  <1>14. ASSUME NEW t \in Task, prvUnlockTx(t) PROVE ReceiverInv'
    <2> DEFINE list == xTasksWaitingToReceive
               n == q.cTxLock
               W == {list[i] : i \in 1 .. n}
    <2>1. /\ n \in Nat /\ Counted(n) = n
          /\ list \in Seq(Task) /\ Distinct(list)
      BY <1>14 DEF prvUnlockTx, Base, LockInv, TypeOK, QueueType, WaitInv, Blocked, Counted
    <2>2. /\ xTasksWaitingToReceive' = SubSeq(list, n + 1, Len(list))
          /\ q'.count = q.count /\ q'.cTxLock = queueUNLOCKED /\ job' = job
      BY <1>0, <1>14 DEF prvUnlockTx, QueueType
    <2> HIDE DEF n
    <2> SUFFICES ASSUME xTasksWaitingToReceive' # <<>>
                 PROVE  /\ list # <<>>
                        /\ Cardinality(Readers') = Cardinality(Readers) + n
      BY <1>0, <1>00, <2>1, <2>2 DEF ReceiverInv, Counted, n
    <2>3. /\ ToSet(xTasksWaitingToReceive') = {list[i] : i \in n + 1 .. Len(list)}
          /\ Len(xTasksWaitingToReceive') = IF n < Len(list) THEN Len(list) - n ELSE 0
          /\ xTasksWaitingToReceive' \in Seq(Task)
      BY <2>1, <2>2, SuffixElements
    <2>4. n < Len(list) /\ list # <<>> /\ n \in 0 .. Len(list)
      BY <2>1, <2>3
    <2>5. IsFiniteSet(W) /\ Cardinality(W) = n
      BY <2>1, <2>4, PrefixCount
    <2>6. ToSet(list) = W \cup ToSet(xTasksWaitingToReceive') /\ W \subseteq Task
      <3>1. ToSet(list) = {list[i] : i \in 1 .. Len(list)}
        BY <2>1 DEF ToSet
      <3>2. \A i \in 1 .. Len(list) : i \in 1 .. n \/ i \in n + 1 .. Len(list)
        BY <2>1
      <3> QED
        BY <2>1, <2>3, <2>4, <3>1, <3>2
    <2>7. W \cap ToSet(xTasksWaitingToReceive') = {}
      <3> SUFFICES ASSUME NEW i \in 1 .. n, NEW j \in n + 1 .. Len(list) PROVE list[i] # list[j]
        BY <2>3
      <3> QED
        BY <2>1, <2>4 DEF Distinct
    <2>8. \A u \in W : job[u].op \in ReadOps
      BY <2>6 DEF Base, WaitInv, Blocked
    <2> HIDE DEF W
    <2>9. Readers' = Readers \cup W /\ Readers \cap W = {}
      BY <2>2, <2>6, <2>7, <2>8 DEF Readers
    <2>10. Cardinality(Readers') = Cardinality(Readers) + Cardinality(W) - Cardinality({})
      BY <1>00, <2>5, <2>9, FS_Union
    <2> QED
      BY <1>00, <2>1, <2>4, <2>5, <2>10, FS_EmptySet
  <1>15. ASSUME NEW pos \in IsrSends, xQueueGenericSendFromISR(pos) PROVE ReceiverInv'
    <2> DEFINE d == prvCopyDataToQueue(q, Isr, pos)
    <2>1. d \in QueueType /\ d.cTxLock = q.cTxLock /\ d.count <= q.count + 1 /\ d.count \in Nat
      <3>1. Isr \in Item /\ pos \in SendOps /\ (pos = "overwrite" => uxLength = 1)
        BY DEF Item, QueueAssumption
      <3>2. q.count # uxLength \/ pos = "overwrite"
        BY <1>15 DEF xQueueGenericSendFromISR, prvIsQueueFull
      <3>3. d \in QueueType /\ d.cTxLock = q.cTxLock /\ d.count <= q.count + 1
        BY <1>0, <3>1, <3>2, CopyTo
      <3> QED
        BY <3>3, QueueParts
    <2>2. /\ \/ /\ q' = d
                /\ xTasksWaitingToReceive' = Wake(xTasksWaitingToReceive)
             \/ /\ q.cTxLock # queueUNLOCKED /\ q' = [d EXCEPT !.cTxLock = @ + 1]
                /\ xTasksWaitingToReceive' = xTasksWaitingToReceive
          /\ UNCHANGED job
      BY <1>15 DEF xQueueGenericSendFromISR
    <2> HIDE DEF d
    <2>3. CASE q' = d /\ xTasksWaitingToReceive' = Wake(xTasksWaitingToReceive)
      BY <1>0, <2>1, <2>2, <2>3, ReceiverItem
    <2>4. CASE /\ q.cTxLock # queueUNLOCKED /\ q' = [d EXCEPT !.cTxLock = @ + 1]
               /\ xTasksWaitingToReceive' = xTasksWaitingToReceive
      <3>1. q'.count <= q.count + 1 /\ Counted(q'.cTxLock) = Counted(q.cTxLock) + 1
        BY <1>0, <2>1, <2>4 DEF QueueType, Counted, queueUNLOCKED
      <3>2. Readers' = Readers
        BY <2>2, <2>4 DEF Readers
      <3> QED
        BY <1>0, <1>00, <2>4, <3>1, <3>2 DEF ReceiverInv
    <2> QED
      BY <2>2, <2>3, <2>4
  <1>16. ASSUME xQueueReceiveFromISR PROVE ReceiverInv'
    <2> DEFINE d == prvCopyDataFromQueue(q)
    <2>1. d \in QueueType /\ d.cTxLock = q.cTxLock /\ d.count = q.count - 1
      BY <1>0, <1>16, CopyFrom DEF xQueueReceiveFromISR, prvIsQueueEmpty
    <2>2. /\ q' = d \/ q' = [d EXCEPT !.cRxLock = @ + 1]
          /\ UNCHANGED <<xTasksWaitingToReceive, job>>
      BY <1>16 DEF xQueueReceiveFromISR
    <2> HIDE DEF d
    <2>3. q'.cTxLock = q.cTxLock /\ q'.count <= q.count
      BY <1>0, <2>1, <2>2 DEF QueueType
    <2> QED
      BY <1>0, <2>2, <2>3, ReceiverKept DEF Readers
  <1>17. CASE UNCHANGED vars
    BY <1>17 DEF vars, ReceiverInv, Readers
  <1> QED
    BY <1>1, <1>3, <1>4, <1>5, <1>6, <1>7, <1>8, <1>9, <1>10, <1>11, <1>12, <1>13, <1>14, <1>15,
       <1>16, <1>17
    DEF Next

\* Somebody who was about to send still is, if the list of the senders only
\* shrinks and nobody's way changes but that of a task that was not sending.
LEMMA SenderKept ==
    ASSUME QueueAssumption, TypeOK, SenderInv, NEW t \in Task, ~WillSend(t),
           q.count = 0 \/ xTasksWaitingToSend' = <<>> \/ q'.count # 0,
           q'.cRxLock = q.cRxLock \/ q.cRxLock \notin Nat \ {0},
           xTasksWaitingToSend' # <<>> => xTasksWaitingToSend # <<>>,
           ToSet(xTasksWaitingToSend') \subseteq ToSet(xTasksWaitingToSend),
           \A u \in Task \ {t} : job'[u] = job[u] /\ at'[u] = at[u] /\ after'[u] = after[u]
    PROVE  SenderInv'
  <1>1. \A u \in Task \ {t} : WillSend(u) => WillSend(u)'
    BY DEF WillSend
  <1> SUFFICES ASSUME xTasksWaitingToSend' # <<>>, q'.count = 0
               PROVE  q'.cRxLock \in Nat \ {0} \/ \E u \in Task : WillSend(u)'
    BY DEF SenderInv
  <1>2. q.cRxLock \in Nat \ {0} \/ \E u \in Task : WillSend(u)
    BY DEF SenderInv
  <1> QED
    BY <1>1, <1>2

\* With an item in the queue there is nothing to say.
LEMMA SenderItem ==
    ASSUME q'.count # 0
    PROVE  SenderInv'
  BY DEF SenderInv

\* The sender that is woken is about to send.
LEMMA SenderWoken ==
    ASSUME QueueAssumption, Base, q.cTxLock = queueUNLOCKED \/ q.cRxLock = queueUNLOCKED,
           NEW h \in Task, h \in ToSet(xTasksWaitingToSend), h \notin ToSet(xTasksWaitingToSend'),
           job'[h] = job[h], after'[h] = after[h],
           at'[h] = at[h] \/ (at[h] = "unlockRx" /\ at'[h] = "resume"),
           at[h] = "unlockRx" => at'[h] = "resume"
    PROVE  WillSend(h)'
  <1>1. /\ job[h].op \in SendOps /\ at[h] \in {"try", "unlockTx", "unlockRx", "resume"}
        /\ at[h] # "try" => after[h] = "try"
    BY DEF Base, WaitInv, Blocked
  <1>2. at[h] # "unlockTx"
    BY DEF Base, LockInv
  <1> QED
    BY <1>1, <1>2 DEF WillSend

\* While a sender sleeps beside an empty queue, another is about to send.
LEMMA SenderNext ==
    ASSUME QueueAssumption, Base, SenderInv, Base', [Next]_vars
    PROVE  SenderInv'
  <1>0. /\ TypeOK /\ TypeOK' /\ q \in QueueType /\ Ring(q) /\ uxLength \in Nat \ {0}
        /\ Distinct(xTasksWaitingToSend) /\ xTasksWaitingToSend \in Seq(Task)
    BY DEF Base, TypeOK, WaitInv, Blocked, QueueAssumption
  <1>01. ReadOps = {"receive", "peek"} /\ SendOps = {"back", "front", "overwrite"}
    BY DEF ReadOps, SendOps
  <1>1. ASSUME NEW t \in Task, Call(t) PROVE SenderInv'
    <2>1. ~WillSend(t)
      BY <1>1 DEF Call, WillSend
    <2>2. /\ UNCHANGED <<q, xTasksWaitingToSend, after>>
          /\ \A u \in Task \ {t} : job'[u] = job[u] /\ at'[u] = at[u]
      BY <1>1 DEF Call, Base, TypeOK
    <2> QED
      BY <1>0, <2>1, <2>2, SenderKept
  <1>2. ASSUME NEW t \in Task, Refuse(t), job[t].op \notin SendOps PROVE SenderInv'
    <2>1. ~WillSend(t)
      BY <1>2 DEF WillSend
    <2>2. /\ UNCHANGED <<q, xTasksWaitingToSend, after>>
          /\ \A u \in Task \ {t} : job'[u] = job[u] /\ at'[u] = at[u]
      BY <1>2 DEF Refuse, Return, Base, TypeOK
    <2> QED
      BY <1>0, <2>1, <2>2, SenderKept
  <1>3. ASSUME NEW t \in Task, xQueueGenericSend(t) PROVE SenderInv'
    <2>1. CASE ~prvIsQueueFull(q) \/ job[t].op = "overwrite"
      <3> DEFINE op == job[t].op
      <3>1. q' = prvCopyDataToQueue(q, t, op) /\ op \in SendOps
        BY <1>3, <2>1 DEF xQueueGenericSend
      <3>2. t \in Item /\ (op = "overwrite" => uxLength = 1)
            /\ (q.count # uxLength \/ op = "overwrite")
        BY <2>1 DEF Item, Base, JobInv, prvIsQueueFull
      <3> HIDE DEF op
      <3>3. q'.count # 0
        BY <1>0, <3>1, <3>2, CopyTo
      <3> QED
        BY <3>3, SenderItem
    <2>2. CASE ~(~prvIsQueueFull(q) \/ job[t].op = "overwrite")
      BY <1>0, <1>3, <2>2, SenderItem DEF xQueueGenericSend, Refuse, prvIsQueueFull
    <2> QED
      BY <2>1, <2>2
  <1>4. ASSUME NEW t \in Task, Runs(t), xTasksWaitingToSend' = Wake(xTasksWaitingToSend),
               Return(t), after' = after
        PROVE  SenderInv'
    <2> SUFFICES ASSUME xTasksWaitingToSend' # <<>> PROVE \E u \in Task : WillSend(u)'
      BY DEF SenderInv
    <2> DEFINE h == xTasksWaitingToSend[1]
    <2>1. /\ h \in Task /\ h \in ToSet(xTasksWaitingToSend)
          /\ h \notin ToSet(xTasksWaitingToSend')
      BY <1>0, <1>4, WakeFacts
    <2> HIDE DEF h
    <2>2. h # t
      BY <1>4, <2>1 DEF Runs, Waiting
    <2>3. job'[h] = job[h] /\ at'[h] = at[h] /\ after'[h] = after[h]
      BY <1>0, <1>4, <2>1, <2>2, ReturnTypes
    <2>4. /\ q.cTxLock = queueUNLOCKED /\ at[h] # "unlockRx"
      BY <1>4, <2>1, RunsOutside DEF Inside
    <2> QED
      BY <2>1, <2>3, <2>4, SenderWoken
  <1>5. ASSUME NEW t \in Task, xQueueReceive(t) PROVE SenderInv'
    <2>1. CASE ~prvIsQueueEmpty(q)
      BY <1>4, <1>5, <2>1 DEF xQueueReceive
    <2>2. CASE prvIsQueueEmpty(q)
      BY <1>01, <1>2, <1>5, <2>2 DEF xQueueReceive
    <2> QED
      BY <2>1, <2>2
  <1>6. ASSUME NEW t \in Task, xQueuePeek(t) PROVE SenderInv'
    <2>1. CASE ~prvIsQueueEmpty(q)
      <3>1. ~WillSend(t)
        BY <1>01, <1>6 DEF xQueuePeek, WillSend
      <3>2. /\ UNCHANGED <<q, xTasksWaitingToSend, after>> /\ Return(t)
        BY <1>6, <2>1 DEF xQueuePeek
      <3>3. \A u \in Task \ {t} : job'[u] = job[u] /\ at'[u] = at[u]
        BY <1>0, <3>2, ReturnTypes
      <3> QED
        BY <1>0, <3>1, <3>2, <3>3, SenderKept
    <2>2. CASE prvIsQueueEmpty(q)
      BY <1>01, <1>2, <1>6, <2>2 DEF xQueuePeek
    <2> QED
      BY <2>1, <2>2
  <1>7. ASSUME NEW t \in Task, xQueueGenericReset(t) PROVE SenderInv'
    BY <1>4, <1>7 DEF xQueueGenericReset
  <1>8. ASSUME NEW t \in Task, LastLook(t) PROVE SenderInv'
    <2>1. ~WillSend(t)
      BY <1>8 DEF LastLook, WillSend
    <2>2. /\ UNCHANGED <<q, xTasksWaitingToSend, after>>
          /\ \A u \in Task \ {t} : job'[u] = job[u] /\ at'[u] = at[u]
      BY <1>8 DEF LastLook, Return, Base, TypeOK
    <2> QED
      BY <1>0, <2>1, <2>2, SenderKept
  <1>9. ASSUME NEW t \in Task, prvLockQueue(t) PROVE SenderInv'
    <2>1. ~WillSend(t)
      BY <1>9 DEF prvLockQueue, WillSend
    <2>2. /\ UNCHANGED <<xTasksWaitingToSend, after, job>>
          /\ \A u \in Task \ {t} : at'[u] = at[u]
      BY <1>9 DEF prvLockQueue, Base, TypeOK
    <2>3. q'.count = q.count /\ q.cRxLock \notin Nat \ {0}
      BY <1>0, <1>9, RunsOutside DEF prvLockQueue, QueueType, queueUNLOCKED
    <2> QED
      BY <1>0, <2>1, <2>2, <2>3, SenderKept
  <1>10. ASSUME NEW t \in Task, SendOrBlock(t) \/ ReceiveOrBlock(t) PROVE SenderInv'
    <2>1. ~WillSend(t)
      BY <1>10 DEF SendOrBlock, ReceiveOrBlock, WillSend
    <2>2. /\ UNCHANGED <<q, job>>
          /\ \A u \in Task \ {t} : at'[u] = at[u] /\ after'[u] = after[u]
      BY <1>10 DEF SendOrBlock, ReceiveOrBlock, Base, TypeOK
    <2>3. q'.count # 0 \/ xTasksWaitingToSend' = xTasksWaitingToSend
      BY <1>0, <1>10 DEF SendOrBlock, ReceiveOrBlock, prvIsQueueFull
    <2> QED
      BY <1>0, <2>1, <2>2, <2>3, SenderKept, SenderItem
  <1>11. ASSUME NEW t \in Task, prvUnlockTx(t) PROVE SenderInv'
    <2>1. ~WillSend(t)
      BY <1>11 DEF prvUnlockTx, WillSend
    <2>2. /\ UNCHANGED <<xTasksWaitingToSend, after, job>>
          /\ \A u \in Task \ {t} : at'[u] = at[u]
      BY <1>11 DEF prvUnlockTx, Base, TypeOK
    <2>3. q'.count = q.count /\ q'.cRxLock = q.cRxLock
      BY <1>0, <1>11 DEF prvUnlockTx, QueueType
    <2> QED
      BY <1>0, <2>1, <2>2, <2>3, SenderKept
  <1>12. ASSUME NEW t \in Task, prvUnlockRx(t) PROVE SenderInv'
    <2> DEFINE list == xTasksWaitingToSend
               n == q.cRxLock
    <2>1. n \in Nat /\ q.cTxLock = queueUNLOCKED
      BY <1>12 DEF prvUnlockRx, Base, LockInv, TypeOK, QueueType
    <2>2. /\ xTasksWaitingToSend' = SubSeq(list, n + 1, Len(list))
          /\ UNCHANGED <<after, job>> /\ at[t] = "unlockRx" /\ at'[t] = "resume"
          /\ \A u \in Task \ {t} : at'[u] = at[u] /\ at[u] # "unlockRx"
          /\ q'.count = q.count
      <3>1. \A u \in Task \ {t} : at[u] \notin Inside
        BY <1>12 DEF prvUnlockRx, Base, LockInv, Inside
      <3> QED
        BY <1>0, <1>12, <3>1 DEF prvUnlockRx, Base, TypeOK, QueueType, Inside
    <2> HIDE DEF n
    <2>3. CASE n = 0
      <3>1. xTasksWaitingToSend' = list
        BY <1>0, <2>2, <2>3, SubSeqFull
      <3>2. ~WillSend(t)
        BY <2>2 DEF WillSend
      <3> QED
        BY <1>0, <2>2, <2>3, <3>1, <3>2, SenderKept DEF n
    <2>4. CASE n # 0
      <3> SUFFICES ASSUME xTasksWaitingToSend' # <<>> PROVE \E u \in Task : WillSend(u)'
        BY DEF SenderInv
      <3> DEFINE h == list[1]
      <3>1. /\ ToSet(xTasksWaitingToSend') = {list[i] : i \in n + 1 .. Len(list)}
            /\ Len(xTasksWaitingToSend') = IF n < Len(list) THEN Len(list) - n ELSE 0
            /\ xTasksWaitingToSend' \in Seq(Task)
        BY <1>0, <2>1, <2>2, SuffixElements, ZenonT(30)
      <3>2. 1 \in 1 .. Len(list)
        BY <1>0, <2>1, <3>1
      <3>3. h \in Task /\ h \in ToSet(list)
        BY <1>0, <3>2 DEF ToSet
      <3>4. h \notin ToSet(xTasksWaitingToSend')
        <4>1. \A i \in n + 1 .. Len(list) : list[i] # list[1]
          BY <1>0, <2>1, <2>4, <3>2 DEF Distinct
        <4> QED
          BY <3>1, <4>1
      <3> HIDE DEF h
      <3>5. /\ job'[h] = job[h] /\ after'[h] = after[h]
            /\ at'[h] = at[h] \/ (at[h] = "unlockRx" /\ at'[h] = "resume")
            /\ at[h] = "unlockRx" => at'[h] = "resume"
        BY <2>2, <3>3
      <3> QED
        BY <2>1, <3>3, <3>4, <3>5, SenderWoken
    <2> QED
      BY <2>3, <2>4
  <1>13. ASSUME NEW t \in Task, ResumeAll(t) PROVE SenderInv'
    <2>1. UNCHANGED <<q, xTasksWaitingToSend>> /\ at[t] = "resume"
      BY <1>13 DEF ResumeAll
    <2>2. \A u \in Task \ {t} : job'[u] = job[u] /\ at'[u] = at[u] /\ after'[u] = after[u]
      BY <1>13 DEF ResumeAll, Return, Base, TypeOK
    <2>3. CASE WillSend(t)
      <3>1. after[t] = "try" /\ at'[t] = "try" /\ job' = job
        BY <1>13, <2>1, <2>3 DEF ResumeAll, WillSend, Base, TypeOK
      <3>2. WillSend(t)'
        BY <2>1, <2>3, <3>1 DEF WillSend
      <3> QED
        BY <3>2 DEF SenderInv
    <2>4. CASE ~WillSend(t)
      BY <1>0, <2>1, <2>2, <2>4, SenderKept
    <2> QED
      BY <2>3, <2>4
  <1>14. ASSUME NEW t \in Task, Expire(t) PROVE SenderInv'
    <2>1. /\ UNCHANGED <<q, job, at, after>>
          /\ xTasksWaitingToSend' = ListRemove(xTasksWaitingToSend, t)
      BY <1>14 DEF Expire
    <2>2. /\ ToSet(xTasksWaitingToSend') \subseteq ToSet(xTasksWaitingToSend)
          /\ xTasksWaitingToSend' # <<>> => xTasksWaitingToSend # <<>>
      BY <1>0, <2>1, ListRemoveFacts
    <2>3. \A u \in Task : WillSend(u) => WillSend(u)'
      BY <2>1, <2>2 DEF WillSend
    <2> QED
      BY <2>1, <2>2, <2>3 DEF SenderInv
  <1>15. ASSUME NEW pos \in IsrSends, xQueueGenericSendFromISR(pos) PROVE SenderInv'
    <2> DEFINE d == prvCopyDataToQueue(q, Isr, pos)
    <2>1. d \in QueueType /\ d.count # 0
      <3>1. Isr \in Item /\ pos \in SendOps /\ (pos = "overwrite" => uxLength = 1)
        BY DEF Item, QueueAssumption
      <3>2. q.count # uxLength \/ pos = "overwrite"
        BY <1>15 DEF xQueueGenericSendFromISR, prvIsQueueFull
      <3> QED
        BY <1>0, <3>1, <3>2, CopyTo
    <2>2. q' = d \/ q' = [d EXCEPT !.cTxLock = @ + 1]
      BY <1>15 DEF xQueueGenericSendFromISR
    <2> HIDE DEF d
    <2>3. q'.count # 0
      BY <2>1, <2>2 DEF QueueType
    <2> QED
      BY <2>3, SenderItem
  <1>16. ASSUME xQueueReceiveFromISR PROVE SenderInv'
    <2> DEFINE d == prvCopyDataFromQueue(q)
    <2>1. d \in QueueType /\ d.cRxLock = q.cRxLock
      BY <1>0, <1>16, CopyFrom DEF xQueueReceiveFromISR, prvIsQueueEmpty
    <2>2. /\ \/ /\ q.cRxLock = queueUNLOCKED
                /\ xTasksWaitingToSend' = Wake(xTasksWaitingToSend)
             \/ /\ q.cRxLock # queueUNLOCKED
                /\ q' = [d EXCEPT !.cRxLock = @ + 1]
          /\ UNCHANGED <<job, at, after>>
      BY <1>16 DEF xQueueReceiveFromISR
    <2> HIDE DEF d
    <2>3. CASE q.cRxLock # queueUNLOCKED /\ q' = [d EXCEPT !.cRxLock = @ + 1]
      <3>1. q'.cRxLock \in Nat \ {0}
        BY <2>1, <2>3 DEF QueueType
      <3> QED
        BY <3>1 DEF SenderInv
    <2>4. CASE q.cRxLock = queueUNLOCKED /\ xTasksWaitingToSend' = Wake(xTasksWaitingToSend)
      <3> SUFFICES ASSUME xTasksWaitingToSend' # <<>> PROVE \E u \in Task : WillSend(u)'
        BY DEF SenderInv
      <3> DEFINE h == xTasksWaitingToSend[1]
      <3>1. /\ h \in Task /\ h \in ToSet(xTasksWaitingToSend)
            /\ h \notin ToSet(xTasksWaitingToSend')
        BY <1>0, <2>4, WakeFacts
      <3> HIDE DEF h
      <3>2. at[h] # "unlockRx"
        BY <2>4, <3>1 DEF Base, LockInv
      <3> QED
        BY <2>2, <2>4, <3>1, <3>2, SenderWoken
    <2> QED
      BY <2>2, <2>3, <2>4
  <1>17. CASE UNCHANGED vars
    BY <1>17 DEF vars, SenderInv, WillSend
  <1> QED
    BY <1>1, <1>3, <1>5, <1>6, <1>7, <1>8, <1>9, <1>10, <1>11, <1>12, <1>13, <1>14, <1>15, <1>16,
       <1>17
    DEF Next

\* A new queue satisfies the invariant.
LEMMA QueueInit == ASSUME QueueAssumption, Init PROVE Inv
  <1> DEFINE c == [buf |-> [i \in Slots |-> Isr], pcWriteTo |-> 0, pcReadFrom |-> 0, count |-> 0,
                   cRxLock |-> queueUNLOCKED, cTxLock |-> queueUNLOCKED]
  <1>1. c \in QueueType
    BY DEF QueueType, QueueAssumption, Slots, Item
  <1>2. q = ResetQueue(c)
    BY DEF Init, prvInitialiseNewQueue
  <1> HIDE DEF c
  <1>3. /\ q \in QueueType /\ Ring(q) /\ q.count = 0
        /\ q.cTxLock = queueUNLOCKED /\ q.cRxLock = queueUNLOCKED
    BY <1>1, <1>2, ResetFacts
  <1>4. /\ xTasksWaitingToSend = <<>> /\ xTasksWaitingToReceive = <<>> /\ sched = Nobody
        /\ job = [t \in Task |-> NoJob] /\ at = [t \in Task |-> "idle"]
        /\ after = [t \in Task |-> "idle"] /\ expired = [t \in Task |-> FALSE]
    BY DEF Init
  <1>5. TypeOK
    BY <1>3, <1>4 DEF TypeOK, JobType, NoJob, Waits, Places
  <1>6. JobInv
    BY <1>4 DEF JobInv, NoJob
  <1>7. LockInv
    BY <1>3, <1>4 DEF LockInv, Inside, QueueAssumption
  <1>8. WaitInv
    BY <1>4 DEF WaitInv, Blocked, Distinct, ToSet
  <1>9. ReceiverInv /\ SenderInv
    BY <1>4 DEF ReceiverInv, SenderInv
  <1> QED
    BY <1>3, <1>5, <1>6, <1>7, <1>8, <1>9 DEF Inv

\* Every step keeps the invariant.
LEMMA QueueNext == ASSUME QueueAssumption, Inv, [Next]_vars PROVE Inv'
  BY BaseNext, ReceiverNext, SenderNext DEF Inv, Base

\* The invariant implies the properties the runs check.
LEMMA InvImplies == ASSUME QueueAssumption, Inv PROVE NoLostReceiver /\ NoLostSender
  <1>1. Active(ReadOps) = Readers
    <2>1. \A t \in ToSet(xTasksWaitingToSend) : job[t].op \notin ReadOps
      BY DEF Inv, WaitInv, Blocked, SendOps, ReadOps
    <2> QED
      BY <2>1 DEF Active, Readers, Waiting
  <1>2. NoLostReceiver
    <2>1. sched = Nobody => Counted(q.cTxLock) = 0
      BY DEF Inv, LockInv, Counted
    <2>2. Cardinality(Readers) \in Nat
      BY ReadersFinite DEF Readers
    <2> QED
      BY <1>1, <2>1, <2>2 DEF Inv, ReceiverInv, NoLostReceiver
  <1>3. NoLostSender
    <2>1. sched = Nobody => q.cRxLock \notin Nat
      BY DEF Inv, LockInv, queueUNLOCKED
    <2>2. \A t \in ToSet(xTasksWaitingToReceive) : job[t].op \notin SendOps
      BY DEF Inv, WaitInv, Blocked, SendOps, ReadOps
    <2> QED
      BY <2>1, <2>2 DEF Inv, SenderInv, NoLostSender, prvIsQueueEmpty, WillSend, Active, Waiting
  <1> QED
    BY <1>2, <1>3

\* The invariant holds in every state, whatever tasks and interrupts do.
THEOREM QueueInvariance == ASSUME QueueAssumption PROVE Spec => []Inv
  BY QueueInit, QueueNext, PTL DEF Spec

\* xQueueReceive, xQueuePeek: no reader is left sleeping beside an item, whatever
\* interrupts send between its attempt and its sleep.
THEOREM NoLostReceiverSafe == ASSUME QueueAssumption PROVE Spec => []NoLostReceiver
  BY QueueInvariance, InvImplies, PTL

\* xQueueGenericSend: no sender is left sleeping beside an empty queue.
THEOREM NoLostSenderSafe == ASSUME QueueAssumption PROVE Spec => []NoLostSender
  BY QueueInvariance, InvImplies, PTL
-----------------------------------------------------------------------------
(* The queue is a bounded FIFO.                                            *)

\* A new queue is empty.
LEMMA FifoInit == ASSUME QueueAssumption, Init PROVE Fifo!Init
  <1>1. q \in QueueType /\ q.count = 0
    <2> DEFINE c == [buf |-> [i \in Slots |-> Isr], pcWriteTo |-> 0, pcReadFrom |-> 0,
                     count |-> 0, cRxLock |-> queueUNLOCKED, cTxLock |-> queueUNLOCKED]
    <2>1. c \in QueueType
      BY DEF QueueType, QueueAssumption, Slots, Item
    <2>2. q = ResetQueue(c)
      BY DEF Init, prvInitialiseNewQueue
    <2> HIDE DEF c
    <2> QED
      BY <2>1, <2>2, ResetFacts
  <1>2. Content \in Seq(Item) /\ Len(Content) = 0
    BY <1>1, ItemsPlace DEF Content, ItemsOf
  <1> QED
    BY <1>2 DEF Fifo!Init

\* Each step is a step of the FIFO or leaves its content alone.
LEMMA FifoNext ==
    ASSUME QueueAssumption, Base, [Next]_vars
    PROVE  Fifo!Next \/ UNCHANGED Content
  <1>0. /\ q \in QueueType /\ Ring(q) /\ Content = ItemsOf(q) /\ Content' = ItemsOf(q')
        /\ ItemsOf(q) \in Seq(Item) /\ Len(ItemsOf(q)) = q.count
    BY ItemsPlace DEF Base, TypeOK, Content, ItemsOf
  <1>1. ASSUME NEW v \in Item, NEW op \in SendOps, op = "overwrite" => uxLength = 1,
               ~prvIsQueueFull(q) \/ op = "overwrite",
               ItemsOf(q') = ItemsOf(prvCopyDataToQueue(q, v, op))
        PROVE  Fifo!Next
    <2> DEFINE d == prvCopyDataToQueue(q, v, op)
    <2>1. \/ q.count < uxLength /\ ItemsOf(d) = Append(ItemsOf(q), v)
          \/ q.count < uxLength /\ ItemsOf(d) = <<v>> \o ItemsOf(q)
          \/ uxLength = 1 /\ ItemsOf(d) = <<v>>
      BY <1>0, <1>1, CopyTo DEF prvIsQueueFull
    <2> HIDE DEF d
    <2>2. Fifo!SendToBack(v) \/ Fifo!SendToFront(v) \/ Fifo!Overwrite(v)
      BY <1>0, <1>1, <2>1, Zenon DEF Fifo!SendToBack, Fifo!SendToFront, Fifo!Overwrite, d
    <2> QED
      BY <2>2 DEF Fifo!Next
  <1>2. ASSUME ~prvIsQueueEmpty(q), ItemsOf(q') = ItemsOf(prvCopyDataFromQueue(q))
        PROVE  Fifo!Next
    <2>1. ItemsOf(q) # <<>> /\ ItemsOf(prvCopyDataFromQueue(q)) = Tail(ItemsOf(q))
      BY <1>0, <1>2, CopyFrom DEF prvIsQueueEmpty
    <2>2. Fifo!Receive
      BY <1>0, <1>2, <2>1, Zenon DEF Fifo!Receive
    <2> QED
      BY <2>2 DEF Fifo!Next
  <1>3. ASSUME NEW t \in Task, xQueueGenericSend(t), ~prvIsQueueFull(q) \/ job[t].op = "overwrite"
        PROVE  Fifo!Next
    <2>1. /\ job[t].op \in SendOps /\ t \in Item /\ (job[t].op = "overwrite" => uxLength = 1)
          /\ q' = prvCopyDataToQueue(q, t, job[t].op)
      BY <1>3 DEF xQueueGenericSend, Item, Base, JobInv
    <2> QED
      BY <1>1, <1>3, <2>1
  <1>4. ASSUME NEW t \in Task, xQueueReceive(t), ~prvIsQueueEmpty(q) PROVE Fifo!Next
    BY <1>2, <1>4 DEF xQueueReceive
  <1>5. ASSUME NEW t \in Task, xQueueGenericReset(t) PROVE Fifo!Next
    <2>1. Content' = <<>>
      BY <1>0, <1>5, ResetFacts DEF xQueueGenericReset
    <2> QED
      BY <2>1 DEF Fifo!Next, Fifo!Reset
  <1>6. ASSUME NEW d \in QueueType, NEW n
        PROVE  /\ ItemsOf([d EXCEPT !.cTxLock = n]) = ItemsOf(d)
               /\ ItemsOf([d EXCEPT !.cRxLock = n]) = ItemsOf(d)
    BY DEF ItemsOf, QueueType
  <1>7. ASSUME NEW pos \in IsrSends, xQueueGenericSendFromISR(pos) PROVE Fifo!Next
    <2> DEFINE d == prvCopyDataToQueue(q, Isr, pos)
    <2>1. /\ Isr \in Item /\ pos \in SendOps /\ (pos = "overwrite" => uxLength = 1)
          /\ ~prvIsQueueFull(q) \/ pos = "overwrite"
      BY <1>7 DEF Item, QueueAssumption, xQueueGenericSendFromISR
    <2>2. d \in QueueType
      BY <1>0, <2>1, CopyTo DEF prvIsQueueFull
    <2>3. q' = d \/ q' = [d EXCEPT !.cTxLock = d.cTxLock + 1]
      BY <1>7 DEF xQueueGenericSendFromISR
    <2> HIDE DEF d
    <2>4. ItemsOf(q') = ItemsOf(d)
      BY <1>6, <2>2, <2>3
    <2> QED
      BY <1>1, <2>1, <2>4 DEF d
  <1>8. ASSUME xQueueReceiveFromISR PROVE Fifo!Next
    <2> DEFINE d == prvCopyDataFromQueue(q)
    <2>1. d \in QueueType /\ ~prvIsQueueEmpty(q)
      BY <1>0, <1>8, CopyFrom DEF prvIsQueueEmpty, xQueueReceiveFromISR
    <2>2. q' = d \/ q' = [d EXCEPT !.cRxLock = d.cRxLock + 1]
      BY <1>8 DEF xQueueReceiveFromISR
    <2> HIDE DEF d
    <2>3. ItemsOf(q') = ItemsOf(d)
      BY <1>6, <2>1, <2>2
    <2> QED
      BY <1>2, <2>1, <2>3 DEF d
  <1>9. ASSUME NEW t \in Task, prvLockQueue(t) \/ prvUnlockTx(t) \/ prvUnlockRx(t)
        PROVE  UNCHANGED Content
    <2>1. q'.count = q.count /\ q'.buf = q.buf /\ q'.pcReadFrom = q.pcReadFrom
      BY <1>0, <1>9 DEF prvLockQueue, prvUnlockTx, prvUnlockRx, QueueType
    <2> QED
      BY <1>0, <2>1 DEF ItemsOf
  <1>10. CASE UNCHANGED q
    BY <1>0, <1>10
  <1>11. ASSUME NEW t \in Task,
                \/ Call(t) \/ xQueuePeek(t) \/ SendOrBlock(t) \/ ReceiveOrBlock(t) \/ ResumeAll(t)
                \/ LastLook(t) \/ Expire(t)
                \/ xQueueGenericSend(t) /\ ~(~prvIsQueueFull(q) \/ job[t].op = "overwrite")
                \/ xQueueReceive(t) /\ prvIsQueueEmpty(q)
         PROVE  UNCHANGED q
    BY <1>11 DEF Call, xQueuePeek, SendOrBlock, ReceiveOrBlock, ResumeAll, LastLook, Expire,
                 xQueueGenericSend, xQueueReceive, Refuse
  <1>12. CASE UNCHANGED vars
    BY <1>10, <1>12 DEF vars
  <1> QED
    BY <1>3, <1>4, <1>5, <1>7, <1>8, <1>9, <1>10, <1>11, <1>12 DEF Next

\* The ring buffer with its two indices implements BoundedFifo, whatever its length
\* and whoever writes, reads, overwrites and resets it.
THEOREM QueueImplementsFifo == ASSUME QueueAssumption PROVE Spec => ImplementsFifo
  <1>1. Init => Fifo!Init
    BY FifoInit
  <1>2. Inv /\ [Next]_vars => [Fifo!Next]_Content
    BY FifoNext DEF Inv, Base
  <1> QED
    BY <1>1, <1>2, QueueInvariance, PTL DEF Spec, ImplementsFifo, Fifo!Spec
=============================================================================
