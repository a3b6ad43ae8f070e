-------------------------- MODULE KernelMutexProofs --------------------------
(***************************************************************************)
(* Proofs about KernelMutex, for every set of tasks, mutexes and           *)
(* semaphores, all priorities and all times to wait.                       *)
(***************************************************************************)
EXTENDS KernelMutex, SequenceFacts, FiniteSetTheorems, TLAPS

\* A task in one of these places has suspended the scheduler.
Inside == {"check", "unlock"}
Places == {"idle", "work", "try", "lock", "last", "disinherit"} \cup Inside

TypeOK ==
    /\ uxPriority \in [Task -> Nat] /\ uxMutexesHeld \in [Task -> Int]
    /\ count \in [Objects -> Int]
    /\ pxMutexHolder \in [Mutexes -> Task \cup {Nobody}]
    /\ cTxLock \in [Objects -> Nat \cup {queueUNLOCKED}]
    /\ xTasksWaitingToReceive \in [Objects -> Seq(Task)]
    /\ sched \in Task \cup {Nobody}
    /\ at \in [Task -> Places]
    /\ want \in [Task -> Objects \cup {Nobody}]
    /\ wait \in [Task -> {"poll", "timed", "forever"}]
    /\ expired \in [Task -> BOOLEAN] /\ inherited \in [Task -> BOOLEAN]

\* The mutexes t holds.
Held(t) == {m \in Mutexes : pxMutexHolder[m] = t}

\* uxMutexesHeld is exact, and a mutex is free when nobody holds it.
HoldInv ==
    /\ \A t \in Task : uxMutexesHeld[t] = Cardinality(Held(t))
    /\ \A m \in Mutexes : count[m] = IF pxMutexHolder[m] = Nobody THEN 1 ELSE 0

\* A task wants something exactly while it is inside a call, goes beyond the first
\* attempt only if it may wait, and inherits through mutexes only.
CallOf(t) == /\ at[t] \in {"idle", "work"} <=> want[t] = Nobody
             /\ at[t] \notin {"idle", "work", "try"} => wait[t] # "poll"
             /\ inherited[t] => want[t] \in Mutexes
             /\ at[t] = "disinherit" => inherited[t]
CallInv   == \A t \in Task : CallOf(t)

\* A task that may wait holds nothing.
PatienceInv == \A t \in Task : wait[t] # "poll" => Held(t) = {}

\* The task that suspended the scheduler is the one inside, and what it wants is
\* locked, nothing else; interrupts give no mutex.
LockInv ==
    /\ \A t \in Task : at[t] \in Inside <=> sched = t
    /\ \A o \in Objects : cTxLock[o] # queueUNLOCKED <=> sched # Nobody /\ o = want[sched]
    /\ \A m \in Mutexes : cTxLock[m] \in {queueUNLOCKED, 0}

Sorted(list) ==
    \A i, j \in 1 .. Len(list) : i < j => BasePriority[list[j]] <= BasePriority[list[i]]

\* A waiting task is in the list of what it wants, once, by priority; it may wait,
\* its time is not over and it will try again.
WaitInv ==
    \A o \in Objects :
        LET list == xTasksWaitingToReceive[o] IN
        /\ Distinct(list) /\ Sorted(list)
        /\ \A t \in ToSet(list) : /\ want[t] = o /\ at[t] \in {"try", "unlock"}
                                  /\ wait[t] # "poll" /\ ~expired[t]

\* The tasks that will try to take o, or look at it once more.
Comers(o) == {t \in Task : /\ want[t] = o /\ at[t] # "disinherit"
                           /\ t \notin ToSet(xTasksWaitingToReceive[o])}

Counted(lock) == IF lock = queueUNLOCKED THEN 0 ELSE lock

\* While a task waits, whatever can be taken has a comer or a wake-up counted.
ComerOf(o) == xTasksWaitingToReceive[o] # <<>> =>
                  count[o] <= Cardinality(Comers(o)) + Counted(cTxLock[o])
ComerInv   == \A o \in Objects : ComerOf(o)

\* A free mutex that has waiting tasks has a comer of a priority not below theirs.
HeirOf(m) == pxMutexHolder[m] = Nobody /\ xTasksWaitingToReceive[m] # <<>> =>
                 \E u \in Comers(m) : /\ wait[u] # "poll"
                                      /\ \A t \in ToSet(xTasksWaitingToReceive[m]) :
                                            BasePriority[t] <= BasePriority[u]
HeirInv   == \A m \in Mutexes : HeirOf(m)

\* The holder of a mutex is not below the base priority of a task that waits for it.
HolderOf(m) == pxMutexHolder[m] # Nobody =>
                   \A t \in ToSet(xTasksWaitingToReceive[m]) :
                       BasePriority[t] <= uxPriority[pxMutexHolder[m]]
HolderInv   == \A m \in Mutexes : HolderOf(m)

Base == TypeOK /\ HoldInv /\ CallInv /\ PatienceInv /\ LockInv /\ WaitInv /\ PriorityRestored
Rest == ComerInv /\ HeirInv /\ HolderInv
Inv  == Base /\ Rest
-----------------------------------------------------------------------------
(* The event lists.                                                        *)

\* A list without its first n entries, which are n tasks not below the others.
LEMMA DropFacts ==
    ASSUME MutexAssumption, NEW list \in Seq(Task), Distinct(list), Sorted(list), NEW n \in Nat
    PROVE  LET r == SubSeq(list, n + 1, Len(list))
           IN  /\ r \in Seq(Task) /\ Distinct(r) /\ Sorted(r)
               /\ ToSet(r) = {list[i] : i \in n + 1 .. Len(list)}
               /\ ToSet(r) \subseteq ToSet(list)
               /\ r # <<>> => n < Len(list)
  <1> DEFINE r == SubSeq(list, n + 1, Len(list))
  <1>1. /\ r \in Seq(Task) /\ Len(r) = IF n < Len(list) THEN Len(list) - n ELSE 0
        /\ \A k \in 1 .. Len(r) : r[k] = list[n + k]
    BY SMT
  <1>2. /\ r \in Seq(Task) /\ Distinct(r) /\ ToSet(r) = {list[i] : i \in n + 1 .. Len(list)}
    BY SuffixElements
  <1> HIDE DEF r
  <1>3. Len(list) \in Nat
    OBVIOUS
  <1>4. Sorted(r)
    <2> SUFFICES ASSUME NEW i \in 1 .. Len(r), NEW j \in 1 .. Len(r), i < j
                 PROVE  BasePriority[r[j]] <= BasePriority[r[i]]
      BY DEF Sorted
    <2>1. /\ n + i \in 1 .. Len(list) /\ n + j \in 1 .. Len(list) /\ n + i < n + j
          /\ r[i] = list[n + i] /\ r[j] = list[n + j]
      BY <1>1, <1>3
    <2> QED
      BY <2>1 DEF Sorted
  <1>5. ToSet(r) \subseteq ToSet(list)
    <2>1. ToSet(list) = {list[i] : i \in 1 .. Len(list)}
      BY DEF ToSet
    <2>2. n + 1 .. Len(list) \subseteq 1 .. Len(list)
      BY <1>3
    <2> QED
      BY <1>2, <2>1, <2>2
  <1>6. r # <<>> => n < Len(list)
    BY <1>1
  <1> QED
    BY <1>2, <1>4, <1>5, <1>6 DEF r

\* The first task of a list is not below any other.
LEMMA HeadFacts ==
    ASSUME MutexAssumption, NEW list \in Seq(Task), Sorted(list), list # <<>>
    PROVE  /\ Head(list) = list[1] /\ list[1] \in ToSet(list) /\ list[1] \in Task
           /\ \A t \in ToSet(list) : BasePriority[t] <= BasePriority[list[1]]
  <1>1. Len(list) \in Nat \ {0} /\ 1 \in 1 .. Len(list) /\ Head(list) = list[1] /\ list[1] \in Task
    OBVIOUS
  <1>2. ToSet(list) = {list[i] : i \in 1 .. Len(list)}
    BY DEF ToSet
  <1>3. BasePriority[list[1]] \in Nat
    BY <1>1 DEF MutexAssumption
  <1>4. ASSUME NEW t \in ToSet(list) PROVE BasePriority[t] <= BasePriority[list[1]]
    <2>1. PICK i \in 1 .. Len(list) : t = list[i]
      BY <1>2
    <2>2. CASE i = 1
      BY <1>3, <2>1, <2>2
    <2>3. CASE i # 1
      BY <1>1, <2>1, <2>3 DEF Sorted
    <2> QED
      BY <2>2, <2>3
  <1> QED
    BY <1>1, <1>2, <1>4

\* xTaskRemoveFromEventList.
LEMMA WakeFacts ==
    ASSUME MutexAssumption, NEW list \in Seq(Task), Distinct(list), Sorted(list)
    PROVE  /\ Wake(list) \in Seq(Task) /\ Distinct(Wake(list)) /\ Sorted(Wake(list))
           /\ ToSet(Wake(list)) \subseteq ToSet(list)
           /\ Wake(list) # <<>> => list # <<>>
           /\ list # <<>> => ToSet(Wake(list)) = ToSet(list) \ {list[1]}
  <1>1. CASE list = <<>>
    BY <1>1 DEF Wake
  <1>2. CASE list # <<>>
    <2>1. Wake(list) = SubSeq(list, 1 + 1, Len(list)) /\ Len(list) \in Nat \ {0}
      BY <1>2, TailIsSubSeq DEF Wake
    <2> DEFINE r == SubSeq(list, 1 + 1, Len(list))
    <2>2. /\ r \in Seq(Task) /\ Distinct(r) /\ Sorted(r)
          /\ ToSet(r) = {list[i] : i \in 1 + 1 .. Len(list)} /\ ToSet(r) \subseteq ToSet(list)
      BY DropFacts
    <2>3. ToSet(list) = {list[i] : i \in 1 .. Len(list)}
      BY DEF ToSet
    <2>4. {list[i] : i \in 1 + 1 .. Len(list)} = {list[i] : i \in 1 .. Len(list)} \ {list[1]}
      BY <2>1 DEF Distinct
    <2> HIDE DEF r
    <2>5. Wake(list) = r
      BY <2>1 DEF r
    <2> QED
      BY <1>2, <2>2, <2>3, <2>4, <2>5
  <1> QED
    BY <1>1, <1>2

\* uxListRemove keeps the order of the other tasks.
LEMMA ListRemoveFacts ==
    ASSUME MutexAssumption, NEW list \in Seq(Task), NEW t \in Task, Distinct(list), Sorted(list)
    PROVE  /\ ListRemove(list, t) \in Seq(Task)
           /\ Distinct(ListRemove(list, t)) /\ Sorted(ListRemove(list, t))
           /\ ToSet(ListRemove(list, t)) = ToSet(list) \ {t}
           /\ ListRemove(list, t) # <<>> => list # <<>>
  <1>1. CASE t \notin ToSet(list)
    BY <1>1 DEF ListRemove
  <1>2. CASE t \in ToSet(list)
    <2> DEFINE i == CHOOSE k \in 1 .. Len(list) : list[k] = t
               r == RemoveAt(list, i)
    <2>1. \E k \in 1 .. Len(list) : list[k] = t
      BY <1>2 DEF ToSet
    <2>2. i \in 1 .. Len(list) /\ list[i] = t
      BY <2>1
    <2>3. ListRemove(list, t) = r
      BY <1>2 DEF ListRemove
    <2>4. list # <<>>
      BY <2>2
    <2> HIDE DEF i
    <2>5. r \in Seq(Task) /\ Distinct(r) /\ ToSet(r) = ToSet(list) \ {t}
      BY <2>2, RemoveElements
    <2>6. /\ Len(r) = Len(list) - 1
          /\ \A k \in 1 .. Len(list) - 1 : r[k] = IF k < i THEN list[k] ELSE list[k + 1]
      BY <2>2, RemoveFacts
    <2> HIDE DEF r
    <2>7. Sorted(r)
      <3> SUFFICES ASSUME NEW j \in 1 .. Len(r), NEW k \in 1 .. Len(r), j < k
                   PROVE  BasePriority[r[k]] <= BasePriority[r[j]]
        BY DEF Sorted
      <3>1. Len(list) \in Nat
        OBVIOUS
      <3>2. PICK a \in 1 .. Len(list), b \in 1 .. Len(list) : a < b /\ r[j] = list[a] /\ r[k] = list[b]
        <4>1. CASE k < i
          BY <2>2, <2>6, <3>1, <4>1
        <4>2. CASE ~(k < i) /\ j < i
          <5>1. j \in 1 .. Len(list) /\ k + 1 \in 1 .. Len(list) /\ j < k + 1
            BY <2>6, <3>1
          <5>2. r[j] = list[j] /\ r[k] = list[k + 1]
            BY <2>6, <3>1, <4>2
          <5> QED
            BY <5>1, <5>2
        <4>3. CASE ~(j < i)
          <5>1. j + 1 \in 1 .. Len(list) /\ k + 1 \in 1 .. Len(list) /\ j + 1 < k + 1 /\ ~(k < i)
            BY <2>2, <2>6, <3>1, <4>3
          <5>2. r[j] = list[j + 1] /\ r[k] = list[k + 1]
            BY <2>6, <3>1, <4>3, <5>1
          <5> QED
            BY <5>1, <5>2
        <4> QED
          BY <2>2, <4>1, <4>2, <4>3
      <3> QED
        BY <3>2 DEF Sorted
    <2> QED
      BY <2>3, <2>4, <2>5, <2>7
  <1> QED
    BY <1>1, <1>2

\* vTaskPlaceOnEventList, for tasks at their base priority.
LEMMA PlaceFacts ==
    ASSUME MutexAssumption, NEW list \in Seq(Task), NEW t \in Task, Distinct(list), Sorted(list),
           t \notin ToSet(list), \A u \in ToSet(list) \cup {t} : uxPriority[u] = BasePriority[u]
    PROVE  /\ PlaceOnEventList(list, t) \in Seq(Task)
           /\ Distinct(PlaceOnEventList(list, t)) /\ Sorted(PlaceOnEventList(list, t))
           /\ ToSet(PlaceOnEventList(list, t)) = ToSet(list) \cup {t}
  <1> DEFINE below == {i \in 1 .. Len(list) : uxPriority[list[i]] < uxPriority[t]}
             n     == IF below = {} THEN Len(list) + 1 ELSE Min(below)
             r     == InsertAt(list, n, t)
  <1>1. /\ Len(list) \in Nat /\ BasePriority[t] \in Nat
        /\ \A i \in 1 .. Len(list) : list[i] \in ToSet(list) /\ list[i] \in Task
                                     /\ BasePriority[list[i]] \in Nat
    BY DEF ToSet, MutexAssumption
  <1>2. /\ n \in 1 .. Len(list) + 1
        /\ \A i \in 1 .. Len(list) : i < n => BasePriority[t] <= BasePriority[list[i]]
        /\ n <= Len(list) => BasePriority[list[n]] < BasePriority[t]
    <2>1. \A i \in 1 .. Len(list) : i \in below <=> BasePriority[list[i]] < BasePriority[t]
      BY <1>1
    <2>2. CASE below = {}
      BY <1>1, <2>1, <2>2
    <2>3. CASE below # {}
      <3>1. below \in SUBSET Nat
        OBVIOUS
      <3> HIDE DEF below
      <3>2. \E x \in below : \A y \in below : x <= y
        BY <2>3, <3>1, LeastElement
      <3>3. Min(below) \in below /\ \A y \in below : Min(below) <= y
        BY <3>2 DEF Min
      <3>4. n = Min(below)
        BY <2>3
      <3> HIDE DEF n
      <3>5. n \in below /\ n \in 1 .. Len(list) /\ \A y \in below : n <= y
        BY <3>3, <3>4 DEF below
      <3> QED
        BY <1>1, <2>1, <3>5
    <2> QED
      BY <2>2, <2>3
  <1>3. PlaceOnEventList(list, t) = r
    BY Zenon DEF PlaceOnEventList
  <1> HIDE DEF below, n
  <1>4. r \in Seq(Task) /\ Distinct(r) /\ ToSet(r) = ToSet(list) \cup {t}
    BY <1>2, InsertElements
  <1>5. /\ Len(r) = Len(list) + 1
        /\ \A k \in 1 .. Len(list) + 1 : r[k] = IF k < n THEN list[k] ELSE IF k = n THEN t ELSE list[k - 1]
    BY <1>2, InsertFacts
  <1> HIDE DEF r
  <1>6. Sorted(r)
    <2> SUFFICES ASSUME NEW j \in 1 .. Len(r), NEW k \in 1 .. Len(r), j < k
                 PROVE  BasePriority[r[k]] <= BasePriority[r[j]]
      BY DEF Sorted
    <2>1. CASE k < n
      <3>1. j \in 1 .. Len(list) /\ k \in 1 .. Len(list) /\ r[j] = list[j] /\ r[k] = list[k]
        BY <1>1, <1>2, <1>5, <2>1
      <3> QED
        BY <3>1 DEF Sorted
    <2>2. CASE k = n
      <3>1. j \in 1 .. Len(list) /\ j < n /\ r[j] = list[j] /\ r[k] = t
        BY <1>1, <1>2, <1>5, <2>2
      <3> QED
        BY <1>2, <3>1
    <2>3. CASE k > n
      <3>1. k - 1 \in 1 .. Len(list) /\ n \in 1 .. Len(list) /\ r[k] = list[k - 1]
        BY <1>1, <1>2, <1>5, <2>3
      <3>2. CASE j < n
        <4>1. j \in 1 .. Len(list) /\ r[j] = list[j] /\ j < k - 1
          BY <1>1, <1>2, <1>5, <2>3, <3>2
        <4> QED
          BY <3>1, <4>1 DEF Sorted
      <3>3. CASE j = n
        <4>1. r[j] = t
          BY <1>1, <1>2, <1>5, <3>3
        <4>2. BasePriority[list[n]] < BasePriority[t]
          BY <1>1, <1>2, <3>1
        <4>3. BasePriority[list[k - 1]] <= BasePriority[list[n]]
          <5>1. CASE k - 1 = n
            BY <1>1, <3>1, <5>1
          <5>2. CASE k - 1 # n
            BY <1>1, <2>3, <3>1, <5>2 DEF Sorted
          <5> QED
            BY <5>1, <5>2
        <4>4. /\ BasePriority[t] \in Nat /\ BasePriority[list[n]] \in Nat
              /\ BasePriority[list[k - 1]] \in Nat
          BY <1>1, <3>1
        <4> QED
          BY <3>1, <4>1, <4>2, <4>3, <4>4
      <3>4. CASE j > n
        <4>1. j - 1 \in 1 .. Len(list) /\ r[j] = list[j - 1] /\ j - 1 < k - 1
          BY <1>1, <1>2, <1>5, <3>4
        <4> QED
          BY <3>1, <4>1 DEF Sorted
      <3> QED
        BY <1>2, <3>2, <3>3, <3>4
    <2> QED
      BY <1>2, <2>1, <2>2, <2>3
  <1> QED
    BY <1>3, <1>4, <1>6

-----------------------------------------------------------------------------
(* What a step leaves alone.                                               *)

\* A step in which at most task t moves.
Alone(t) == \A u \in Task \ {t} : /\ at'[u] = at[u] /\ want'[u] = want[u] /\ wait'[u] = wait[u]
                                  /\ expired'[u] = expired[u] /\ inherited'[u] = inherited[u]

\* The mutexes a task holds can be counted.
LEMMA HeldCount ==
    ASSUME MutexAssumption, HoldInv, NEW t \in Task
    PROVE  /\ IsFiniteSet(Held(t)) /\ uxMutexesHeld[t] \in Nat
           /\ uxMutexesHeld[t] = 0 <=> Held(t) = {}
           /\ uxMutexesHeld[t] = 1 => \A m, n \in Held(t) : m = n
  <1>1. Held(t) \in SUBSET Mutexes /\ IsFiniteSet(Mutexes)
    BY DEF Held, MutexAssumption
  <1>2. IsFiniteSet(Held(t)) /\ Cardinality(Held(t)) \in Nat
    BY <1>1, FS_Subset, FS_CardinalityType
  <1>3. uxMutexesHeld[t] = Cardinality(Held(t))
    BY DEF HoldInv
  <1>4. uxMutexesHeld[t] = 0 <=> Held(t) = {}
    BY <1>2, <1>3, FS_EmptySet
  <1>5. uxMutexesHeld[t] = 1 => \A m, n \in Held(t) : m = n
    <2> SUFFICES ASSUME Cardinality(Held(t)) = 1 PROVE \A m, n \in Held(t) : m = n
      BY <1>3
    <2> PICK x : Held(t) = {x}
      BY <1>2, FS_Singleton
    <2> QED
      OBVIOUS
  <1> QED
    BY <1>2, <1>3, <1>4, <1>5

\* A task that may wait holds nothing and has its base priority.
LEMMA PatientAtBase ==
    ASSUME MutexAssumption, Base, NEW t \in Task, wait[t] # "poll"
    PROVE  /\ Held(t) = {} /\ uxMutexesHeld[t] = 0 /\ uxPriority[t] = BasePriority[t]
           /\ \A m \in Mutexes : pxMutexHolder[m] # t
  <1>1. Held(t) = {}
    BY DEF Base, PatienceInv
  <1>2. uxMutexesHeld[t] = 0
    BY <1>1, HeldCount DEF Base
  <1> QED
    BY <1>1, <1>2 DEF Base, PriorityRestored, Held

\* The same for a task in an event list.
LEMMA WaiterAtBase ==
    ASSUME MutexAssumption, Base, NEW o \in Objects, NEW t \in ToSet(xTasksWaitingToReceive[o])
    PROVE  t \in Task /\ wait[t] # "poll" /\ uxPriority[t] = BasePriority[t]
  <1>1. xTasksWaitingToReceive[o] \in Seq(Task)
    BY DEF Base, TypeOK
  <1>2. t \in Task
    BY <1>1 DEF ToSet
  <1>3. wait[t] # "poll"
    BY DEF Base, WaitInv
  <1> QED
    BY <1>2, <1>3, PatientAtBase

\* A task that runs is in no event list, and nothing is locked.
LEMMA RunsFacts ==
    ASSUME MutexAssumption, Base, NEW t \in Task, Runs(t)
    PROVE  /\ sched = Nobody /\ at[t] # "idle" /\ at[t] \notin Inside
           /\ \A o \in Objects : t \notin ToSet(xTasksWaitingToReceive[o])
           /\ \A o \in Objects : cTxLock[o] = queueUNLOCKED
  <1>1. sched = Nobody /\ at[t] # "idle" /\ t \notin Waiting
    BY DEF Runs, Ready
  <1>2. \A o \in Objects : t \notin ToSet(xTasksWaitingToReceive[o])
    BY <1>1 DEF Waiting
  <1>3. sched # t
    BY <1>1 DEF MutexAssumption
  <1> QED
    BY <1>1, <1>2, <1>3 DEF Base, LockInv

\* The locks of a step taken while the scheduler runs.
LEMMA LocksKept ==
    ASSUME MutexAssumption, LockInv, NEW t \in Task, Alone(t), sched = Nobody, at'[t] \notin Inside,
           UNCHANGED <<sched, cTxLock>>
    PROVE  LockInv'
  <1>1. \A u \in Task : at[u] \notin Inside /\ sched # u
    BY DEF LockInv, MutexAssumption
  <1>2. \A u \in Task : at'[u] \notin Inside
    BY <1>1 DEF Alone
  <1>3. \A o \in Objects : cTxLock[o] = queueUNLOCKED
    BY DEF LockInv
  <1> QED
    BY <1>1, <1>2, <1>3 DEF LockInv, Objects, MutexAssumption

\* What is said of the tasks that do not move.
LEMMA CallsKept ==
    ASSUME CallInv, NEW t \in Task, Alone(t), CallOf(t)'
    PROVE  CallInv'
  BY DEF CallInv, CallOf, Alone

\* Event lists that lose tasks, among them the one that moves.
LEMMA ListsKept ==
    ASSUME WaitInv, NEW t \in Task, Alone(t),
           \A o \in Objects : /\ Distinct(xTasksWaitingToReceive'[o])
                              /\ Sorted(xTasksWaitingToReceive'[o])
                              /\ ToSet(xTasksWaitingToReceive'[o]) \subseteq Task \ {t}
                              /\ ToSet(xTasksWaitingToReceive'[o]) \subseteq ToSet(xTasksWaitingToReceive[o])
    PROVE  WaitInv'
  BY DEF WaitInv, Alone

\* A step of t, which is in no event list, that leaves priorities, mutexes and the
\* event lists alone.
LEMMA Aside ==
    ASSUME MutexAssumption, Base, NEW t \in Task, Alone(t),
           \A o \in Objects : t \notin ToSet(xTasksWaitingToReceive[o]),
           UNCHANGED <<tcb, pxMutexHolder, xTasksWaitingToReceive>>,
           \A m \in Mutexes : count'[m] = count[m],
           wait'[t] # "poll" => Held(t) = {}
    PROVE  HoldInv' /\ PatienceInv' /\ WaitInv' /\ PriorityRestored'
  <1>1. \A u \in Task : Held(u)' = Held(u)
    BY DEF Held
  <1>2. HoldInv'
    BY <1>1 DEF Base, HoldInv, tcb
  <1>3. PatienceInv'
    BY <1>1 DEF Base, PatienceInv, Alone
  <1>4. PriorityRestored'
    BY DEF Base, PriorityRestored, tcb
  <1>5. \A o \in Objects : ToSet(xTasksWaitingToReceive[o]) \subseteq Task \ {t}
    BY WaiterAtBase
  <1>6. WaitInv'
    BY <1>5, ListsKept DEF Base, WaitInv
  <1> QED
    BY <1>2, <1>3, <1>4, <1>6

\* The types of the variables of a call that t leaves.
LEMMA ReturnFacts ==
    ASSUME TypeOK, NEW t \in Task, Return(t)
    PROVE  /\ at' \in [Task -> Places] /\ want' \in [Task -> Objects \cup {Nobody}]
           /\ wait' \in [Task -> {"poll", "timed", "forever"}]
           /\ expired' \in [Task -> BOOLEAN] /\ inherited' \in [Task -> BOOLEAN]
           /\ Alone(t) /\ CallOf(t)' /\ wait'[t] = "poll" /\ at'[t] = "work" /\ want'[t] = Nobody
  <1>1. /\ at' \in [Task -> Places] /\ want' \in [Task -> Objects \cup {Nobody}]
        /\ wait' \in [Task -> {"poll", "timed", "forever"}]
        /\ expired' \in [Task -> BOOLEAN] /\ inherited' \in [Task -> BOOLEAN]
    BY DEF TypeOK, Return, Places
  <1>2. /\ at'[t] = "work" /\ want'[t] = Nobody /\ wait'[t] = "poll"
        /\ expired'[t] = FALSE /\ inherited'[t] = FALSE
    BY DEF TypeOK, Return
  <1>3. Alone(t)
    BY DEF TypeOK, Return, Alone
  <1> QED
    BY <1>1, <1>2, <1>3 DEF CallOf

-----------------------------------------------------------------------------
(* Who holds what, who is where and what is locked, action by action.      *)

\* A step that moves t between two places outside the lock and touches nothing else.
LEMMA MoveBase ==
    ASSUME MutexAssumption, Base, NEW t \in Task, NEW p \in Places \ Inside, sched = Nobody,
           \A o \in Objects : t \notin ToSet(xTasksWaitingToReceive[o]),
           at' = [at EXCEPT ![t] = p], CallOf(t)',
           UNCHANGED <<tcb, count, pxMutexHolder, cTxLock, xTasksWaitingToReceive, sched, call>>
    PROVE  Base'
  <1>1. Alone(t) /\ at'[t] \notin Inside /\ wait' = wait
    BY DEF Base, TypeOK, Alone, call, Places
  <1>2. HoldInv' /\ PatienceInv' /\ WaitInv' /\ PriorityRestored'
    BY <1>1, Aside DEF Base, PatienceInv
  <1>3. LockInv'
    BY <1>1, LocksKept DEF Base
  <1>4. CallInv'
    BY <1>1, CallsKept DEF Base
  <1>5. TypeOK'
    BY DEF Base, TypeOK, tcb, call
  <1> QED
    BY <1>2, <1>3, <1>4, <1>5 DEF Base

LEMMA WakeUpBase ==
    ASSUME MutexAssumption, Base, NEW t \in Task, WakeUp(t)
    PROVE  Base'
  <1>1. /\ at[t] = "idle" /\ sched = Nobody /\ at' = [at EXCEPT ![t] = "work"]
        /\ UNCHANGED <<tcb, count, pxMutexHolder, cTxLock, xTasksWaitingToReceive, sched, call>>
    BY DEF WakeUp, obj
  <1>2. \A o \in Objects : t \notin ToSet(xTasksWaitingToReceive[o])
    BY <1>1 DEF Base, WaitInv
  <1>3. CallOf(t)'
    BY <1>1 DEF Base, CallInv, CallOf, TypeOK, call
  <1> QED
    BY <1>1, <1>2, <1>3, MoveBase DEF Places, Inside

LEMMA SleepBase ==
    ASSUME MutexAssumption, Base, NEW t \in Task, Sleep(t)
    PROVE  Base'
  <1>1. /\ at[t] = "work" /\ Runs(t) /\ at' = [at EXCEPT ![t] = "idle"]
        /\ UNCHANGED <<tcb, count, pxMutexHolder, cTxLock, xTasksWaitingToReceive, sched, call>>
    BY DEF Sleep, obj
  <1>2. CallOf(t)'
    BY <1>1 DEF Base, CallInv, CallOf, TypeOK, call
  <1> QED
    BY <1>1, <1>2, RunsFacts, MoveBase DEF Places, Inside

LEMMA CallTakeBase ==
    ASSUME MutexAssumption, HoldAndWait = {}, Base, NEW t \in Task, CallTake(t)
    PROVE  Base'
  <1>1. PICK o \in Uses[t], w \in Waits :
          /\ at[t] = "work" /\ Runs(t)
          /\ uxMutexesHeld[t] > 0 /\ t \notin HoldAndWait => w = "poll"
          /\ want' = [want EXCEPT ![t] = o]
          /\ wait' = [wait EXCEPT ![t] = w]
          /\ at' = [at EXCEPT ![t] = "try"]
          /\ UNCHANGED <<tcb, obj, cTxLock, xTasksWaitingToReceive, sched, expired, inherited>>
    BY DEF CallTake
  <1>2. o \in Objects /\ o # Nobody /\ w \in {"poll", "timed", "forever"}
    BY DEF MutexAssumption
  <1>3. /\ at'[t] = "try" /\ want'[t] = o /\ wait'[t] = w /\ Alone(t)
        /\ inherited' = inherited /\ expired' = expired
    BY <1>1 DEF Base, TypeOK, Alone
  <1>4. w # "poll" => Held(t) = {}
    BY <1>1, HeldCount DEF Base
  <1>5. HoldInv' /\ PatienceInv' /\ WaitInv' /\ PriorityRestored'
    BY <1>1, <1>3, <1>4, RunsFacts, Aside DEF obj
  <1>6. LockInv'
    BY <1>1, <1>3, RunsFacts, LocksKept DEF Base, Inside
  <1>7. ~inherited[t]
    BY <1>1 DEF Base, CallInv, CallOf, MutexAssumption, Objects
  <1>8. CallInv'
    BY <1>2, <1>3, <1>7, CallsKept DEF Base, CallOf
  <1>9. TypeOK'
    BY <1>1, <1>2 DEF Base, TypeOK, tcb, obj, Places
  <1> QED
    BY <1>5, <1>6, <1>8, <1>9 DEF Base

\* A call ends without a mutex.
LEMMA ReturnBase ==
    ASSUME MutexAssumption, Base, NEW t \in Task, Runs(t), Return(t),
           UNCHANGED <<tcb, pxMutexHolder, cTxLock, xTasksWaitingToReceive, sched>>,
           count' \in [Objects -> Int], \A m \in Mutexes : count'[m] = count[m]
    PROVE  Base'
  <1>1. /\ Alone(t) /\ CallOf(t)' /\ wait'[t] = "poll" /\ at'[t] = "work"
    BY ReturnFacts DEF Base
  <1>2. HoldInv' /\ PatienceInv' /\ WaitInv' /\ PriorityRestored'
    BY <1>1, RunsFacts, Aside
  <1>3. LockInv'
    BY <1>1, RunsFacts, LocksKept DEF Base, Inside
  <1>4. CallInv'
    BY <1>1, CallsKept DEF Base
  <1>5. TypeOK'
    BY ReturnFacts DEF Base, TypeOK, tcb
  <1> QED
    BY <1>2, <1>3, <1>4, <1>5 DEF Base

\* A free mutex is taken.
LEMMA TakeMutexBase ==
    ASSUME MutexAssumption, Base, NEW t \in Task, NEW o \in Mutexes, at[t] = "try", Runs(t),
           count[o] > 0, count' = [count EXCEPT ![o] = @ - 1],
           pxMutexHolder' = [pxMutexHolder EXCEPT ![o] = t],
           uxMutexesHeld' = [uxMutexesHeld EXCEPT ![t] = @ + 1],
           Return(t), UNCHANGED <<uxPriority, cTxLock, xTasksWaitingToReceive, sched>>
    PROVE  Base'
  <1>1. /\ Alone(t) /\ CallOf(t)' /\ wait'[t] = "poll" /\ at'[t] = "work"
    BY ReturnFacts DEF Base
  <1>2. o \in Objects /\ pxMutexHolder[o] = Nobody /\ count[o] = 1 /\ Nobody \notin Task
    BY DEF Base, HoldInv, TypeOK, MutexAssumption, Objects
  <1>3. /\ \A m \in Mutexes : pxMutexHolder'[m] = IF m = o THEN t ELSE pxMutexHolder[m]
        /\ \A m \in Mutexes : count'[m] = IF m = o THEN 0 ELSE count[m]
        /\ \A u \in Task : uxMutexesHeld'[u] = IF u = t THEN uxMutexesHeld[t] + 1 ELSE uxMutexesHeld[u]
    BY <1>2 DEF Base, TypeOK, Objects
  <1>4. o \notin Held(t) /\ Held(t)' = Held(t) \cup {o}
    BY <1>2, <1>3 DEF Held
  <1>5. \A u \in Task \ {t} : Held(u)' = Held(u)
    BY <1>2, <1>3 DEF Held
  <1>6. uxMutexesHeld'[t] = Cardinality(Held(t)')
    BY <1>3, <1>4, HeldCount, FS_AddElement DEF Base, HoldInv
  <1>7. HoldInv'
    <2>1. \A u \in Task : uxMutexesHeld'[u] = Cardinality(Held(u)')
      BY <1>3, <1>5, <1>6 DEF Base, HoldInv
    <2>2. \A m \in Mutexes : count'[m] = IF pxMutexHolder'[m] = Nobody THEN 1 ELSE 0
      BY <1>2, <1>3 DEF Base, HoldInv
    <2> QED
      BY <2>1, <2>2 DEF HoldInv
  <1>8. PatienceInv'
    BY <1>1, <1>5 DEF Base, PatienceInv, Alone
  <1>9. PriorityRestored'
    <2>1. uxMutexesHeld'[t] # 0
      BY <1>3, HeldCount DEF Base
    <2> QED
      BY <1>3, <2>1 DEF Base, PriorityRestored
  <1>10. WaitInv'
    <2>1. \A x \in Objects : ToSet(xTasksWaitingToReceive[x]) \subseteq Task \ {t}
      BY RunsFacts, WaiterAtBase
    <2> QED
      BY <1>1, <2>1, ListsKept DEF Base, WaitInv
  <1>11. LockInv'
    BY <1>1, RunsFacts, LocksKept DEF Base, Inside
  <1>12. CallInv'
    BY <1>1, CallsKept DEF Base
  <1>13. TypeOK'
    BY <1>2, ReturnFacts DEF Base, TypeOK, tcb
  <1> QED
    BY <1>7, <1>8, <1>9, <1>10, <1>11, <1>12, <1>13 DEF Base

\* What a task inside a call wants.
LEMMA WantsObject ==
    ASSUME MutexAssumption, Base, NEW t \in Task, at[t] \notin {"idle", "work"}
    PROVE  /\ want[t] \in Objects /\ want[t] # Nobody
           /\ at[t] # "try" => wait[t] # "poll"
  BY DEF Base, TypeOK, CallInv, CallOf

LEMMA TakeBase ==
    ASSUME MutexAssumption, Base, NEW t \in Task, xQueueSemaphoreTake(t)
    PROVE  Base'
  <1> DEFINE o == want[t]
  <1>1. /\ at[t] = "try" /\ Runs(t) /\ o \in Objects
        /\ UNCHANGED <<cTxLock, xTasksWaitingToReceive, sched>>
    BY WantsObject DEF xQueueSemaphoreTake
  <1>2. CASE /\ count[o] > 0 /\ count' = [count EXCEPT ![o] = @ - 1] /\ Return(t)
             /\ UNCHANGED uxPriority
             /\ IF o \in Mutexes
                THEN /\ pxMutexHolder' = [pxMutexHolder EXCEPT ![o] = t]
                     /\ uxMutexesHeld' = [uxMutexesHeld EXCEPT ![t] = @ + 1]
                ELSE UNCHANGED <<pxMutexHolder, uxMutexesHeld>>
    <2>1. CASE o \in Mutexes
      BY <1>1, <1>2, <2>1, TakeMutexBase
    <2>2. CASE o \notin Mutexes
      <3>1. /\ UNCHANGED <<tcb, pxMutexHolder>> /\ Return(t)
            /\ count' \in [Objects -> Int] /\ \A m \in Mutexes : count'[m] = count[m]
        BY <1>1, <1>2, <2>2 DEF tcb, Base, TypeOK, Objects
      <3> QED
        BY <1>1, <3>1, ReturnBase
    <2> QED
      BY <2>1, <2>2
  <1>3. CASE count[o] = 0 /\ wait[t] = "poll" /\ Return(t) /\ UNCHANGED <<tcb, obj>>
    BY <1>1, <1>3, ReturnBase DEF obj, Base, TypeOK
  <1>4. CASE /\ count[o] = 0 /\ wait[t] # "poll" /\ at' = [at EXCEPT ![t] = "lock"]
             /\ UNCHANGED <<tcb, obj, call>>
    <2>1. CallOf(t)'
      BY <1>1, <1>4 DEF Base, CallInv, CallOf, TypeOK, call
    <2> QED
      BY <1>1, <1>4, <2>1, RunsFacts, MoveBase DEF Places, Inside, obj
  <1> QED
    BY <1>2, <1>3, <1>4 DEF xQueueSemaphoreTake

LEMMA LockQueueBase ==
    ASSUME MutexAssumption, Base, NEW t \in Task, LockQueue(t)
    PROVE  Base'
  <1>1. /\ at[t] = "lock" /\ Runs(t) /\ sched' = t /\ cTxLock' = [cTxLock EXCEPT ![want[t]] = 0]
        /\ at' = [at EXCEPT ![t] = "check"] /\ UNCHANGED <<tcb, obj, xTasksWaitingToReceive, call>>
    BY DEF LockQueue
  <1>2. want[t] \in Objects /\ wait[t] # "poll"
    BY <1>1, WantsObject
  <1>3. Alone(t) /\ at'[t] = "check" /\ want' = want /\ wait' = wait /\ inherited' = inherited
    BY <1>1 DEF Base, TypeOK, Alone, call
  <1>4. HoldInv' /\ PatienceInv' /\ WaitInv' /\ PriorityRestored'
    BY <1>1, <1>2, <1>3, RunsFacts, Aside DEF obj, Base, PatienceInv
  <1>5. CallInv'
    <2>1. CallOf(t)'
      BY <1>1, <1>2, <1>3 DEF Base, CallInv, CallOf
    <2> QED
      BY <1>3, <2>1, CallsKept DEF Base
  <1>6. LockInv'
    <2>1. t # Nobody /\ \A u \in Task : at[u] \notin Inside
      BY <1>1, RunsFacts DEF Base, LockInv, MutexAssumption
    <2>2. \A u \in Task : at'[u] \in Inside <=> sched' = u
      BY <1>1, <1>3, <2>1 DEF Alone, Inside
    <2>3. \A o \in Objects : cTxLock'[o] = IF o = want[t] THEN 0 ELSE queueUNLOCKED
      BY <1>1, <1>2, RunsFacts DEF Base, TypeOK
    <2>4. \A o \in Objects : cTxLock'[o] # queueUNLOCKED <=> sched' # Nobody /\ o = want'[sched']
      BY <1>1, <1>3, <2>1, <2>3 DEF queueUNLOCKED
    <2> QED
      BY <2>2, <2>3, <2>4 DEF LockInv, Objects
  <1>7. TypeOK'
    BY <1>1, <1>2 DEF Base, TypeOK, tcb, obj, call, Places, Inside
  <1> QED
    BY <1>4, <1>5, <1>6, <1>7 DEF Base

\* Inside the lock: what t wants is locked, and t stays inside.
LEMMA InsideKept ==
    ASSUME LockInv, NEW t \in Task, Alone(t), at[t] \in Inside, at'[t] \in Inside,
           UNCHANGED <<sched, cTxLock, want>>
    PROVE  LockInv'
  BY DEF LockInv, Alone

\* The task at the end of the list: xTaskPriorityInherit raises a holder only.
LEMMA InheritFacts ==
    ASSUME MutexAssumption, Base, NEW t \in Task, NEW o \in Mutexes, count[o] = 0,
           xTaskPriorityInherit(pxMutexHolder[o], t)
    PROVE  /\ uxPriority' \in [Task -> Nat]
           /\ pxMutexHolder[o] \in Task /\ uxMutexesHeld[pxMutexHolder[o]] # 0
           /\ \A u \in Task : uxPriority[u] <= uxPriority'[u]
           /\ \A u \in Task \ {pxMutexHolder[o]} : uxPriority'[u] = uxPriority[u]
           /\ uxPriority[t] <= uxPriority'[pxMutexHolder[o]]
  <1> DEFINE h == pxMutexHolder[o]
  <1>1. h \in Task /\ h # Nobody
    BY DEF Base, HoldInv, TypeOK, MutexAssumption
  <1>2. o \in Held(h)
    BY DEF Held
  <1>3. uxMutexesHeld[h] # 0
    BY <1>1, <1>2, HeldCount DEF Base
  <1>4. uxPriority \in [Task -> Nat]
    BY DEF Base, TypeOK
  <1> HIDE DEF h
  <1>5. xTaskPriorityInherit(h, t)
    BY DEF h
  <1>6. /\ uxPriority' \in [Task -> Nat]
        /\ \A u \in Task : uxPriority[u] <= uxPriority'[u]
        /\ \A u \in Task \ {h} : uxPriority'[u] = uxPriority[u]
        /\ uxPriority[t] <= uxPriority'[h]
    <2>1. CASE uxPriority[h] < uxPriority[t]
      <3>1. uxPriority' = [uxPriority EXCEPT ![h] = uxPriority[t]]
        BY <1>1, <1>5, <2>1 DEF xTaskPriorityInherit
      <3> QED
        BY <1>1, <1>4, <2>1, <3>1
    <2>2. CASE ~(uxPriority[h] < uxPriority[t])
      <3>1. uxPriority' = uxPriority
        BY <1>1, <1>5, <2>2 DEF xTaskPriorityInherit
      <3> QED
        BY <1>1, <1>4, <2>2, <3>1
    <2> QED
      BY <2>1, <2>2
  <1> QED
    BY <1>1, <1>3, <1>6 DEF h

\* The two ways of TakeOrBlock.
Blocks(t) ==
    LET o == want[t] IN
    /\ ~expired[t] /\ count[o] = 0
    /\ xTasksWaitingToReceive' = [xTasksWaitingToReceive EXCEPT ![o] = PlaceOnEventList(@, t)]
    /\ \/ /\ o \in Mutexes /\ xTaskPriorityInherit(pxMutexHolder[o], t)
          /\ inherited' = [inherited EXCEPT ![t] = Inherits(pxMutexHolder[o], t)]
       \/ o \notin Mutexes /\ UNCHANGED <<uxPriority, inherited>>

LEMMA BlockFacts ==
    ASSUME MutexAssumption, Base, NEW t \in Task, TakeOrBlock(t)
    PROVE  /\ want[t] \in Objects /\ wait[t] # "poll" /\ at[t] = "check" /\ sched = t
           /\ at' = [at EXCEPT ![t] = "unlock"] /\ inherited' \in [Task -> BOOLEAN]
           /\ UNCHANGED <<uxMutexesHeld, obj, cTxLock, sched, want, wait, expired>>
           /\ \A o \in Objects : t \notin ToSet(xTasksWaitingToReceive[o])
           /\ Alone(t)
           /\ Blocks(t) \/ UNCHANGED <<xTasksWaitingToReceive, uxPriority, inherited>>
  <1>1. /\ at[t] = "check" /\ at' = [at EXCEPT ![t] = "unlock"]
        /\ UNCHANGED <<uxMutexesHeld, obj, cTxLock, sched, want, wait, expired>>
        /\ Blocks(t) \/ UNCHANGED <<xTasksWaitingToReceive, uxPriority, inherited>>
    BY DEF TakeOrBlock, Blocks
  <1>2. want[t] \in Objects /\ wait[t] # "poll"
    BY <1>1, WantsObject
  <1>3. sched = t
    BY <1>1 DEF Base, LockInv, Inside
  <1>4. \A o \in Objects : t \notin ToSet(xTasksWaitingToReceive[o])
    BY <1>1 DEF Base, WaitInv
  <1>5. /\ inherited' \in [Task -> BOOLEAN] /\ \A u \in Task \ {t} : inherited'[u] = inherited[u]
    <2>1. inherited \in [Task -> BOOLEAN] /\ uxPriority \in [Task -> Nat]
      BY DEF Base, TypeOK
    <2>2. CASE inherited' = inherited
      BY <2>1, <2>2
    <2>3. CASE inherited' = [inherited EXCEPT ![t] = Inherits(pxMutexHolder[want[t]], t)]
      <3>1. Inherits(pxMutexHolder[want[t]], t) \in BOOLEAN
        BY DEF Inherits
      <3> HIDE DEF Inherits
      <3> QED
        BY <2>1, <2>3, <3>1
    <2> QED
      BY <1>1, <2>2, <2>3 DEF Blocks
  <1>6. Alone(t)
    BY <1>1, <1>5 DEF Alone, Base, TypeOK
  <1> QED
    BY <1>1, <1>2, <1>3, <1>4, <1>5, <1>6

\* The list a task blocks on.
LEMMA BlockedList ==
    ASSUME MutexAssumption, Base, NEW t \in Task, want[t] \in Objects, wait[t] # "poll", Blocks(t),
           t \notin ToSet(xTasksWaitingToReceive[want[t]])
    PROVE  LET r == xTasksWaitingToReceive'[want[t]]
           IN  /\ xTasksWaitingToReceive' \in [Objects -> Seq(Task)]
               /\ Distinct(r) /\ Sorted(r) /\ ToSet(r) = ToSet(xTasksWaitingToReceive[want[t]]) \cup {t}
               /\ \A x \in Objects \ {want[t]} : xTasksWaitingToReceive'[x] = xTasksWaitingToReceive[x]
  <1> DEFINE o    == want[t]
             list == xTasksWaitingToReceive[o]
             r    == PlaceOnEventList(list, t)
  <1>1. xTasksWaitingToReceive' = [xTasksWaitingToReceive EXCEPT ![o] = PlaceOnEventList(@, t)]
    BY DEF Blocks
  <1>2. list \in Seq(Task) /\ Distinct(list) /\ Sorted(list) /\ t \notin ToSet(list)
    BY DEF Base, TypeOK, WaitInv
  <1>3. \A u \in ToSet(list) \cup {t} : uxPriority[u] = BasePriority[u]
    BY WaiterAtBase, PatientAtBase
  <1>4. r \in Seq(Task) /\ Distinct(r) /\ Sorted(r) /\ ToSet(r) = ToSet(list) \cup {t}
    BY <1>2, <1>3, PlaceFacts
  <1>5. xTasksWaitingToReceive \in [Objects -> Seq(Task)]
    BY DEF Base, TypeOK
  <1>6. xTasksWaitingToReceive' = [xTasksWaitingToReceive EXCEPT ![o] = r]
    BY <1>1, <1>5
  <1> HIDE DEF r
  <1>7. /\ xTasksWaitingToReceive' \in [Objects -> Seq(Task)] /\ xTasksWaitingToReceive'[o] = r
        /\ \A x \in Objects \ {o} : xTasksWaitingToReceive'[x] = xTasksWaitingToReceive[x]
    BY <1>4, <1>5, <1>6
  <1> QED
    BY <1>4, <1>7

LEMMA BlockBase ==
    ASSUME MutexAssumption, Base, NEW t \in Task, TakeOrBlock(t)
    PROVE  Base'
  <1> DEFINE o == want[t]
  <1>1. /\ o \in Objects /\ wait[t] # "poll" /\ at[t] = "check" /\ sched = t
        /\ at' = [at EXCEPT ![t] = "unlock"] /\ inherited' \in [Task -> BOOLEAN]
        /\ UNCHANGED <<uxMutexesHeld, obj, cTxLock, sched, want, wait, expired>>
        /\ \A x \in Objects : t \notin ToSet(xTasksWaitingToReceive[x])
        /\ Alone(t)
        /\ Blocks(t) \/ UNCHANGED <<xTasksWaitingToReceive, uxPriority, inherited>>
    BY BlockFacts
  <1>2. at'[t] = "unlock" /\ at' \in [Task -> Places]
    BY <1>1 DEF Base, TypeOK, Places, Inside
  <1>3. LockInv'
    BY <1>1, <1>2, InsideKept DEF Base, Inside
  <1>4. HoldInv' /\ PatienceInv'
    BY <1>1 DEF Base, HoldInv, PatienceInv, Held, obj
  <1>5. CASE UNCHANGED <<xTasksWaitingToReceive, uxPriority, inherited>>
    <2>1. WaitInv' /\ PriorityRestored'
      BY <1>1, <1>5, Aside DEF obj, tcb, Base, PatienceInv
    <2>2. CallOf(t)'
      BY <1>1, <1>2, <1>5 DEF Base, CallInv, CallOf
    <2>3. CallInv'
      BY <1>1, <2>2, CallsKept DEF Base
    <2>4. TypeOK'
      BY <1>1, <1>2, <1>5 DEF Base, TypeOK, obj
    <2> QED
      BY <1>3, <1>4, <2>1, <2>3, <2>4 DEF Base
  <1>6. CASE Blocks(t)
    <2>1. /\ ~expired[t] /\ count[o] = 0
          /\ xTasksWaitingToReceive' = [xTasksWaitingToReceive EXCEPT ![o] = PlaceOnEventList(@, t)]
      BY <1>6 DEF Blocks
    <2>2. /\ uxPriority' \in [Task -> Nat]
          /\ inherited'[t] => o \in Mutexes
          /\ \A u \in Task : uxMutexesHeld[u] = 0 => uxPriority'[u] = uxPriority[u]
      <3>1. CASE o \in Mutexes
        <4>1. xTaskPriorityInherit(pxMutexHolder[o], t)
          BY <1>6, <3>1 DEF Blocks
        <4> QED
          BY <2>1, <3>1, <4>1, InheritFacts
      <3>2. CASE o \notin Mutexes
        BY <1>6, <3>2 DEF Blocks, Base, TypeOK, CallInv, CallOf
      <3> QED
        BY <3>1, <3>2
    <2>3. PriorityRestored'
      BY <1>1, <2>2 DEF Base, PriorityRestored
    <2>4. CallInv'
      <3>1. CallOf(t)'
        BY <1>1, <1>2, <2>2 DEF CallOf, MutexAssumption
      <3> QED
        BY <1>1, <3>1, CallsKept DEF Base
    <2> DEFINE r == xTasksWaitingToReceive'[o]
    <2>5. /\ Distinct(r) /\ Sorted(r) /\ ToSet(r) = ToSet(xTasksWaitingToReceive[o]) \cup {t}
          /\ \A x \in Objects \ {o} : xTasksWaitingToReceive'[x] = xTasksWaitingToReceive[x]
      BY <1>1, <1>6, BlockedList
    <2>6. xTasksWaitingToReceive' \in [Objects -> Seq(Task)]
      BY <1>1, <1>6, BlockedList
    <2>7. WaitInv'
      <3> SUFFICES ASSUME NEW x \in Objects
                   PROVE  LET l == xTasksWaitingToReceive'[x] IN
                          /\ Distinct(l) /\ Sorted(l)
                          /\ \A u \in ToSet(l) : /\ want'[u] = x /\ at'[u] \in {"try", "unlock"}
                                                 /\ wait'[u] # "poll" /\ ~expired'[u]
        BY DEF WaitInv
      <3>1. \A u \in ToSet(xTasksWaitingToReceive[x]) :
               /\ u \in Task \ {t} /\ want'[u] = x /\ at'[u] \in {"try", "unlock"}
               /\ wait'[u] # "poll" /\ ~expired'[u]
        BY <1>1, WaiterAtBase DEF Base, WaitInv, Alone
      <3>2. want'[t] = o /\ at'[t] = "unlock" /\ wait'[t] # "poll" /\ ~expired'[t]
        BY <1>1, <1>2, <2>1
      <3>3. CASE x = o
        BY <2>5, <3>1, <3>2, <3>3
      <3>4. CASE x # o
        BY <2>5, <3>1, <3>4 DEF Base, WaitInv
      <3> QED
        BY <3>3, <3>4
    <2>8. TypeOK'
      BY <1>1, <1>2, <2>2, <2>6 DEF Base, TypeOK, obj
    <2> QED
      BY <1>3, <1>4, <2>3, <2>4, <2>7, <2>8 DEF Base
  <1> QED
    BY <1>1, <1>5, <1>6

\* What prvUnlockQueue does to the list of what t wants.
LEMMA UnlockFacts ==
    ASSUME MutexAssumption, Base, NEW t \in Task, UnlockQueue(t)
    PROVE  /\ at[t] = "unlock" /\ sched = t /\ want[t] \in Objects /\ wait[t] # "poll"
           /\ cTxLock[want[t]] \in Nat
           /\ at'[t] = IF expired[t] THEN "last" ELSE "try"
           /\ \A o \in Objects : cTxLock'[o] = queueUNLOCKED
           /\ sched' = Nobody /\ at' \in [Task -> Places] /\ Alone(t)
           /\ cTxLock' \in [Objects -> Nat \cup {queueUNLOCKED}]
           /\ UNCHANGED <<tcb, obj, call>>
           /\ xTasksWaitingToReceive' \in [Objects -> Seq(Task)]
           /\ \A o \in Objects : /\ Distinct(xTasksWaitingToReceive'[o])
                                 /\ Sorted(xTasksWaitingToReceive'[o])
                                 /\ ToSet(xTasksWaitingToReceive'[o]) \subseteq ToSet(xTasksWaitingToReceive[o])
                                 /\ xTasksWaitingToReceive'[o] = IF o = want[t]
                                       THEN SubSeq(xTasksWaitingToReceive[o], cTxLock[o] + 1,
                                                   Len(xTasksWaitingToReceive[o]))
                                       ELSE xTasksWaitingToReceive[o]
  <1> DEFINE o == want[t]
             list == xTasksWaitingToReceive[o]
             n == cTxLock[o]
             r == SubSeq(list, n + 1, Len(list))
  <1>1. /\ at[t] = "unlock" /\ sched' = Nobody /\ cTxLock' = [cTxLock EXCEPT ![o] = queueUNLOCKED]
        /\ at' = [at EXCEPT ![t] = IF expired[t] THEN "last" ELSE "try"] /\ UNCHANGED <<tcb, obj, call>>
        /\ xTasksWaitingToReceive' =
              [xTasksWaitingToReceive EXCEPT ![o] = SubSeq(@, cTxLock[o] + 1, Len(@))]
    BY DEF UnlockQueue
  <1>2. o \in Objects /\ wait[t] # "poll"
    BY <1>1, WantsObject
  <1>3. sched = t /\ t # Nobody
    BY <1>1 DEF Base, LockInv, Inside, MutexAssumption
  <1>4. /\ n # queueUNLOCKED /\ n \in Nat
        /\ \A x \in Objects \ {o} : cTxLock[x] = queueUNLOCKED
    BY <1>2, <1>3 DEF Base, LockInv, TypeOK
  <1>5. /\ \A x \in Objects : cTxLock'[x] = queueUNLOCKED
        /\ cTxLock' \in [Objects -> Nat \cup {queueUNLOCKED}]
    BY <1>1, <1>2, <1>4 DEF Base, TypeOK
  <1>6. at'[t] = (IF expired[t] THEN "last" ELSE "try") /\ at' \in [Task -> Places] /\ Alone(t)
    BY <1>1 DEF Base, TypeOK, Places, Alone, call
  <1>7. list \in Seq(Task) /\ Distinct(list) /\ Sorted(list)
    BY <1>2 DEF Base, TypeOK, WaitInv
  <1> HIDE DEF n, list
  <1>8. r \in Seq(Task) /\ Distinct(r) /\ Sorted(r) /\ ToSet(r) \subseteq ToSet(list)
    BY <1>4, <1>7, DropFacts
  <1>9. xTasksWaitingToReceive \in [Objects -> Seq(Task)]
    BY DEF Base, TypeOK
  <1>10. /\ xTasksWaitingToReceive' = [xTasksWaitingToReceive EXCEPT ![o] = r]
    BY <1>1, <1>2, <1>9 DEF r, n, list
  <1>11. r = SubSeq(xTasksWaitingToReceive[o], cTxLock[o] + 1, Len(xTasksWaitingToReceive[o]))
    BY DEF n, list
  <1> HIDE DEF r, o
  <1>12. /\ xTasksWaitingToReceive' \in [Objects -> Seq(Task)]
         /\ \A x \in Objects : xTasksWaitingToReceive'[x] = IF x = o THEN r ELSE xTasksWaitingToReceive[x]
    BY <1>2, <1>8, <1>9, <1>10
  <1>13. ASSUME NEW x \in Objects
         PROVE  /\ Distinct(xTasksWaitingToReceive'[x]) /\ Sorted(xTasksWaitingToReceive'[x])
                /\ ToSet(xTasksWaitingToReceive'[x]) \subseteq ToSet(xTasksWaitingToReceive[x])
    BY <1>8, <1>12 DEF Base, WaitInv, list
  <1> QED
    BY <1>1, <1>2, <1>3, <1>4, <1>5, <1>6, <1>11, <1>12, <1>13 DEF o, n

LEMMA UnlockBase ==
    ASSUME MutexAssumption, Base, NEW t \in Task, UnlockQueue(t)
    PROVE  Base'
  <1>1. /\ at[t] = "unlock" /\ sched = t /\ want[t] \in Objects /\ wait[t] # "poll"
        /\ at'[t] = IF expired[t] THEN "last" ELSE "try"
    BY UnlockFacts
  <1>2. /\ \A o \in Objects : cTxLock'[o] = queueUNLOCKED
        /\ sched' = Nobody /\ at' \in [Task -> Places] /\ Alone(t)
        /\ cTxLock' \in [Objects -> Nat \cup {queueUNLOCKED}]
        /\ UNCHANGED <<tcb, obj, call>>
        /\ xTasksWaitingToReceive' \in [Objects -> Seq(Task)]
    BY UnlockFacts
  <1>3. TypeOK'
    BY <1>2 DEF Base, TypeOK, tcb, obj, call
  <1>4. HoldInv' /\ PatienceInv' /\ PriorityRestored'
    BY <1>2 DEF Base, HoldInv, PatienceInv, PriorityRestored, Held, tcb, obj, call
  <1>5. CallInv'
    <2>1. CallOf(t)'
      BY <1>1, <1>2 DEF Base, CallInv, CallOf, call
    <2> QED
      BY <1>2, <2>1, CallsKept DEF Base
  <1>6. LockInv'
    <2>1. \A u \in Task : at'[u] \notin Inside
      BY <1>1, <1>2 DEF Alone, Base, LockInv, Inside
    <2> QED
      BY <1>2, <2>1 DEF LockInv, MutexAssumption, Objects
  <1>7. WaitInv'
    <2>1. ASSUME NEW o \in Objects, NEW u \in ToSet(xTasksWaitingToReceive'[o])
          PROVE  /\ want'[u] = o /\ at'[u] \in {"try", "unlock"} /\ wait'[u] # "poll" /\ ~expired'[u]
      <3>1. u \in ToSet(xTasksWaitingToReceive[o])
        BY <2>1, UnlockFacts
      <3>2. /\ u \in Task /\ want[u] = o /\ at[u] \in {"try", "unlock"} /\ wait[u] # "poll"
            /\ ~expired[u]
        BY <3>1, WaiterAtBase DEF Base, WaitInv
      <3>3. want' = want /\ wait' = wait /\ expired' = expired
        BY <1>2 DEF call
      <3> QED
        BY <1>1, <1>2, <3>2, <3>3 DEF Alone
    <2>2. \A o \in Objects : Distinct(xTasksWaitingToReceive'[o]) /\ Sorted(xTasksWaitingToReceive'[o])
      BY UnlockFacts
    <2> QED
      BY <2>1, <2>2 DEF WaitInv
  <1> QED
    BY <1>3, <1>4, <1>5, <1>6, <1>7 DEF Base

LEMMA LastLookBase ==
    ASSUME MutexAssumption, Base, NEW t \in Task, LastLook(t)
    PROVE  Base'
  <1>1. /\ at[t] = "last" /\ Runs(t)
        /\ UNCHANGED <<tcb, obj, cTxLock, xTasksWaitingToReceive, sched>>
    BY DEF LastLook
  <1>2. CASE Return(t)
    BY <1>1, <1>2, ReturnBase DEF obj, Base, TypeOK
  <1>3. CASE at' = [at EXCEPT ![t] = "try"] /\ UNCHANGED call
    <2>1. CallOf(t)'
      BY <1>1, <1>3 DEF Base, CallInv, CallOf, TypeOK, call
    <2> QED
      BY <1>1, <1>3, <2>1, RunsFacts, MoveBase DEF Places, Inside, obj
  <1>4. CASE inherited[t] /\ at' = [at EXCEPT ![t] = "disinherit"] /\ UNCHANGED call
    <2>1. CallOf(t)'
      BY <1>1, <1>4 DEF Base, CallInv, CallOf, TypeOK, call
    <2> QED
      BY <1>1, <1>4, <2>1, RunsFacts, MoveBase DEF Places, Inside, obj
  <1> QED
    BY <1>2, <1>3, <1>4 DEF LastLook

\* The end of a call by a timeout: only the holder of one mutex is lowered, not
\* below its base priority nor below the first task that waits.
LEMMA LowerFacts ==
    ASSUME MutexAssumption, Base, NEW t \in Task, DisinheritAfterTimeout(t)
    PROVE  /\ want[t] \in Mutexes /\ uxPriority' \in [Task -> Nat]
           /\ \A u \in Task : uxPriority'[u] # uxPriority[u] =>
                 /\ u = pxMutexHolder[want[t]] /\ uxMutexesHeld[u] = 1
                 /\ xTasksWaitingToReceive[want[t]] # <<>> =>
                       uxPriority[Head(xTasksWaitingToReceive[want[t]])] <= uxPriority'[u]
  <1> DEFINE o == want[t]
             h == pxMutexHolder[o]
             list == xTasksWaitingToReceive[o]
             p == prvGetDisinheritPriorityAfterTimeout(o)
  <1>1. o \in Mutexes /\ o \in Objects
    BY DEF DisinheritAfterTimeout, Base, CallInv, CallOf, Objects
  <1>2. /\ uxPriority \in [Task -> Nat] /\ BasePriority \in [Task -> Nat]
        /\ h \in Task \cup {Nobody} /\ list \in Seq(Task)
    BY <1>1 DEF Base, TypeOK, MutexAssumption
  <1>3. p \in Nat /\ (list # <<>> => p = uxPriority[Head(list)])
    BY <1>1, <1>2 DEF prvGetDisinheritPriorityAfterTimeout
  <1>4. vTaskPriorityDisinheritAfterTimeout(h, p)
    BY DEF DisinheritAfterTimeout
  <1> HIDE DEF p, h
  <1>5. CASE h # Nobody /\ uxMutexesHeld[h] = 1
    <2>1. uxPriority' = [uxPriority EXCEPT ![h] = IF BasePriority[h] < p THEN p ELSE BasePriority[h]]
      BY <1>4, <1>5 DEF vTaskPriorityDisinheritAfterTimeout
    <2>2. h \in Task /\ BasePriority[h] \in Nat
      BY <1>2, <1>5
    <2> DEFINE q == IF BasePriority[h] < p THEN p ELSE BasePriority[h]
    <2>3. q \in Nat /\ p <= q
      BY <1>3, <2>2
    <2>4. uxPriority' = [uxPriority EXCEPT ![h] = q]
      BY <2>1
    <2> HIDE DEF q
    <2>5. uxPriority' \in [Task -> Nat] /\ \A u \in Task : uxPriority'[u] = IF u = h THEN q ELSE uxPriority[u]
      BY <1>2, <2>2, <2>3, <2>4
    <2> QED
      BY <1>1, <1>3, <1>5, <2>3, <2>5 DEF h
  <1>6. CASE ~(h # Nobody /\ uxMutexesHeld[h] = 1)
    <2>1. uxPriority' = uxPriority
      BY <1>4, <1>6 DEF vTaskPriorityDisinheritAfterTimeout
    <2> QED
      BY <1>1, <1>2, <2>1
  <1> QED
    BY <1>5, <1>6

LEMMA DisinheritBase ==
    ASSUME MutexAssumption, Base, NEW t \in Task, DisinheritAfterTimeout(t)
    PROVE  Base'
  <1>1. /\ Runs(t) /\ Return(t)
        /\ UNCHANGED <<uxMutexesHeld, obj, cTxLock, xTasksWaitingToReceive, sched>>
    BY DEF DisinheritAfterTimeout
  <1>2. /\ Alone(t) /\ CallOf(t)' /\ wait'[t] = "poll" /\ at'[t] = "work"
    BY <1>1, ReturnFacts DEF Base
  <1>3. uxPriority' \in [Task -> Nat] /\ \A u \in Task : uxMutexesHeld[u] = 0 => uxPriority'[u] = uxPriority[u]
    BY LowerFacts
  <1>4. TypeOK'
    BY <1>1, <1>3, ReturnFacts DEF Base, TypeOK, obj
  <1>5. HoldInv' /\ PatienceInv'
    BY <1>1, <1>2 DEF Base, HoldInv, PatienceInv, Held, obj, Alone
  <1>6. PriorityRestored'
    BY <1>1, <1>3 DEF Base, PriorityRestored
  <1>7. LockInv'
    BY <1>1, <1>2, RunsFacts, LocksKept DEF Base, Inside
  <1>8. CallInv'
    BY <1>2, CallsKept DEF Base
  <1>9. WaitInv'
    <2>1. \A x \in Objects : ToSet(xTasksWaitingToReceive[x]) \subseteq Task \ {t}
      BY <1>1, RunsFacts, WaiterAtBase
    <2> QED
      BY <1>1, <1>2, <2>1, ListsKept DEF Base, WaitInv
  <1> QED
    BY <1>4, <1>5, <1>6, <1>7, <1>8, <1>9 DEF Base

\* The first task of one event list is woken.
LEMMA WokenLists ==
    ASSUME MutexAssumption, Base, NEW o \in Objects,
           xTasksWaitingToReceive' = [xTasksWaitingToReceive EXCEPT ![o] = Wake(@)]
    PROVE  /\ xTasksWaitingToReceive' \in [Objects -> Seq(Task)]
           /\ \A x \in Objects \ {o} : xTasksWaitingToReceive'[x] = xTasksWaitingToReceive[x]
           /\ xTasksWaitingToReceive'[o] = Wake(xTasksWaitingToReceive[o])
           /\ \A x \in Objects : /\ Distinct(xTasksWaitingToReceive'[x]) /\ Sorted(xTasksWaitingToReceive'[x])
                                 /\ ToSet(xTasksWaitingToReceive'[x]) \subseteq ToSet(xTasksWaitingToReceive[x])
  <1>1. xTasksWaitingToReceive \in [Objects -> Seq(Task)]
    BY DEF Base, TypeOK
  <1> DEFINE list == xTasksWaitingToReceive[o]
             r    == Wake(list)
  <1>2. list \in Seq(Task) /\ Distinct(list) /\ Sorted(list)
    BY <1>1 DEF Base, WaitInv
  <1>3. r \in Seq(Task) /\ Distinct(r) /\ Sorted(r) /\ ToSet(r) \subseteq ToSet(list)
    BY <1>2, WakeFacts
  <1>4. xTasksWaitingToReceive' = [xTasksWaitingToReceive EXCEPT ![o] = r]
    BY <1>1
  <1> HIDE DEF r
  <1>5. /\ xTasksWaitingToReceive' \in [Objects -> Seq(Task)]
        /\ \A x \in Objects : xTasksWaitingToReceive'[x] = IF x = o THEN r ELSE xTasksWaitingToReceive[x]
    BY <1>1, <1>3, <1>4
  <1>6. ASSUME NEW x \in Objects
        PROVE  /\ Distinct(xTasksWaitingToReceive'[x]) /\ Sorted(xTasksWaitingToReceive'[x])
               /\ ToSet(xTasksWaitingToReceive'[x]) \subseteq ToSet(xTasksWaitingToReceive[x])
    BY <1>3, <1>5 DEF Base, WaitInv
  <1> QED
    BY <1>5, <1>6 DEF r

\* Tasks leave the event lists and nobody moves.
LEMMA ListsShrink ==
    ASSUME WaitInv, UNCHANGED <<at, call>>,
           \A o \in Objects : /\ Distinct(xTasksWaitingToReceive'[o])
                              /\ Sorted(xTasksWaitingToReceive'[o])
                              /\ ToSet(xTasksWaitingToReceive'[o]) \subseteq ToSet(xTasksWaitingToReceive[o])
    PROVE  WaitInv'
  BY DEF WaitInv, call

\* A mutex is given up: one less is held, and with the last one the base priority
\* is back.
LEMMA GiveMutexFacts ==
    ASSUME MutexAssumption, Base, NEW t \in Task, NEW o \in Mutexes, pxMutexHolder[o] = t,
           count' = [count EXCEPT ![o] = @ + 1], xTaskPriorityDisinherit(t),
           pxMutexHolder' = [pxMutexHolder EXCEPT ![o] = Nobody]
    PROVE  /\ uxPriority' \in [Task -> Nat] /\ uxMutexesHeld' \in [Task -> Int]
           /\ pxMutexHolder' \in [Mutexes -> Task \cup {Nobody}] /\ count' \in [Objects -> Int]
           /\ \A u \in Task : Held(u)' \subseteq Held(u)
           /\ \A u \in Task : uxPriority'[u] # uxPriority[u] => Held(u)' = {}
           /\ HoldInv' /\ PriorityRestored'
  <1>1. o \in Objects /\ t # Nobody /\ BasePriority[t] \in Nat
    BY DEF MutexAssumption, Objects
  <1>2. /\ count \in [Objects -> Int] /\ pxMutexHolder \in [Mutexes -> Task \cup {Nobody}]
        /\ uxMutexesHeld \in [Task -> Int] /\ uxPriority \in [Task -> Nat]
    BY DEF Base, TypeOK
  <1>3. count[o] = 0
    BY <1>1 DEF Base, HoldInv
  <1>4. /\ uxMutexesHeld' = [uxMutexesHeld EXCEPT ![t] = @ - 1]
        /\ uxPriority' = [uxPriority EXCEPT ![t] = IF uxMutexesHeld[t] = 1 THEN BasePriority[t] ELSE @]
    BY DEF xTaskPriorityDisinherit
  <1>5. /\ \A m \in Mutexes : pxMutexHolder'[m] = IF m = o THEN Nobody ELSE pxMutexHolder[m]
        /\ \A m \in Mutexes : count'[m] = IF m = o THEN 1 ELSE count[m]
        /\ \A u \in Task : uxMutexesHeld'[u] = IF u = t THEN uxMutexesHeld[t] - 1 ELSE uxMutexesHeld[u]
        /\ \A u \in Task : uxPriority'[u] = IF u = t /\ uxMutexesHeld[t] = 1 THEN BasePriority[t]
                                            ELSE uxPriority[u]
    BY <1>1, <1>2, <1>3, <1>4 DEF Objects
  <1>6. /\ uxPriority' \in [Task -> Nat] /\ uxMutexesHeld' \in [Task -> Int]
        /\ pxMutexHolder' \in [Mutexes -> Task \cup {Nobody}] /\ count' \in [Objects -> Int]
    BY <1>1, <1>2, <1>4
  <1>7. o \in Held(t) /\ Held(t)' = Held(t) \ {o}
    BY <1>1, <1>5 DEF Held
  <1>8. \A u \in Task \ {t} : Held(u)' = Held(u)
    BY <1>1, <1>5 DEF Held, MutexAssumption
  <1>9. uxMutexesHeld[t] \in Nat /\ uxMutexesHeld'[t] = Cardinality(Held(t)')
    <2>1. uxMutexesHeld[t] \in Nat /\ IsFiniteSet(Held(t)) /\ uxMutexesHeld[t] = Cardinality(Held(t))
      BY HeldCount DEF Base, HoldInv
    <2>2. Cardinality(Held(t) \ {o}) = Cardinality(Held(t)) - 1
      BY <1>7, <2>1, FS_RemoveElement
    <2> QED
      BY <1>5, <1>7, <2>1, <2>2
  <1>10. HoldInv'
    <2>1. \A u \in Task : uxMutexesHeld'[u] = Cardinality(Held(u)')
      BY <1>5, <1>8, <1>9 DEF Base, HoldInv
    <2>2. \A m \in Mutexes : count'[m] = IF pxMutexHolder'[m] = Nobody THEN 1 ELSE 0
      BY <1>5 DEF Base, HoldInv
    <2> QED
      BY <2>1, <2>2 DEF HoldInv
  <1>11. PriorityRestored'
    BY <1>5, <1>9 DEF Base, PriorityRestored
  <1>12. \A u \in Task : Held(u)' \subseteq Held(u)
    BY <1>7, <1>8
  <1>13. \A u \in Task : uxPriority'[u] # uxPriority[u] => Held(u)' = {}
    <2>1. uxMutexesHeld[t] = 1 => Held(t)' = {}
      BY <1>7, HeldCount DEF Base
    <2> QED
      BY <1>5, <2>1
  <1> QED
    BY <1>6, <1>10, <1>11, <1>12, <1>13

LEMMA GiveBase ==
    ASSUME MutexAssumption, Base, NEW t \in Task, NEW o \in Objects, xSemaphoreGive(t, o)
    PROVE  Base'
  <1>1. /\ at[t] = "work" /\ Runs(t) /\ count' = [count EXCEPT ![o] = @ + 1]
        /\ o \in Mutexes => pxMutexHolder[o] = t
        /\ xTasksWaitingToReceive' = [xTasksWaitingToReceive EXCEPT ![o] = Wake(@)]
        /\ UNCHANGED <<cTxLock, sched, at, call>>
    BY DEF xSemaphoreGive
  <1>2. WaitInv'
    BY <1>1, WokenLists, ListsShrink DEF Base
  <1>3. CallInv' /\ LockInv'
    BY <1>1 DEF Base, CallInv, CallOf, LockInv, call
  <1>4. /\ TypeOK' /\ HoldInv' /\ PriorityRestored' /\ PatienceInv'
    <2>1. CASE o \in Mutexes
      <3>1. xTaskPriorityDisinherit(t) /\ pxMutexHolder' = [pxMutexHolder EXCEPT ![o] = Nobody]
        BY <2>1 DEF xSemaphoreGive
      <3>2. /\ uxPriority' \in [Task -> Nat] /\ uxMutexesHeld' \in [Task -> Int]
            /\ pxMutexHolder' \in [Mutexes -> Task \cup {Nobody}] /\ count' \in [Objects -> Int]
            /\ \A u \in Task : Held(u)' \subseteq Held(u)
            /\ HoldInv' /\ PriorityRestored'
        BY <1>1, <2>1, <3>1, GiveMutexFacts
      <3>3. TypeOK'
        BY <1>1, <3>2, WokenLists DEF Base, TypeOK, call
      <3>4. PatienceInv'
        BY <1>1, <3>2 DEF Base, PatienceInv, call
      <3> QED
        BY <3>2, <3>3, <3>4
    <2>2. CASE o \notin Mutexes
      <3>1. UNCHANGED <<tcb, pxMutexHolder>>
        BY <2>2 DEF xSemaphoreGive
      <3>2. count' \in [Objects -> Int] /\ \A m \in Mutexes : count'[m] = count[m]
        BY <1>1, <2>2 DEF Base, TypeOK, Objects
      <3>3. HoldInv' /\ PriorityRestored' /\ PatienceInv'
        BY <1>1, <3>1, <3>2 DEF Base, HoldInv, PatienceInv, PriorityRestored, Held, tcb, call
      <3>4. TypeOK'
        BY <1>1, <3>1, <3>2, WokenLists DEF Base, TypeOK, call, tcb
      <3> QED
        BY <3>3, <3>4
    <2> QED
      BY <2>1, <2>2
  <1> QED
    BY <1>2, <1>3, <1>4 DEF Base

\* The interrupt touches no mutex.
LEMMA IsrBase ==
    ASSUME MutexAssumption, Base, NEW o \in Semaphores, xQueueGiveFromISR(o)
    PROVE  Base'
  <1>1. /\ count' = [count EXCEPT ![o] = @ + 1]
        /\ UNCHANGED <<tcb, pxMutexHolder, depth, sched, at, call>>
    BY DEF xQueueGiveFromISR
  <1>2. o \in Objects /\ o \notin Mutexes
    BY DEF Objects, MutexAssumption
  <1>3. count' \in [Objects -> Int] /\ \A m \in Mutexes : count'[m] = count[m]
    BY <1>1, <1>2 DEF Base, TypeOK, Objects
  <1>4. HoldInv' /\ PriorityRestored' /\ PatienceInv' /\ CallInv'
    BY <1>1, <1>3 DEF Base, HoldInv, PatienceInv, PriorityRestored, Held, tcb, call, CallInv, CallOf
  <1>5. CASE cTxLock[o] = queueUNLOCKED
    <2>1. /\ xTasksWaitingToReceive' = [xTasksWaitingToReceive EXCEPT ![o] = Wake(@)]
          /\ UNCHANGED cTxLock
      BY <1>5 DEF xQueueGiveFromISR
    <2>2. WaitInv'
      BY <1>1, <1>2, <2>1, WokenLists, ListsShrink DEF Base
    <2>3. LockInv'
      BY <1>1, <2>1 DEF Base, LockInv, call
    <2>4. TypeOK'
      BY <1>1, <1>2, <1>3, <2>1, WokenLists DEF Base, TypeOK, call, tcb
    <2> QED
      BY <1>4, <2>2, <2>3, <2>4 DEF Base
  <1>6. CASE cTxLock[o] # queueUNLOCKED
    <2>1. /\ cTxLock' = [cTxLock EXCEPT ![o] = @ + 1] /\ UNCHANGED xTasksWaitingToReceive
      BY <1>6 DEF xQueueGiveFromISR
    <2>2. cTxLock \in [Objects -> Nat \cup {queueUNLOCKED}] /\ cTxLock[o] \in Nat
      BY <1>2, <1>6 DEF Base, TypeOK
    <2>3. /\ cTxLock' \in [Objects -> Nat \cup {queueUNLOCKED}]
          /\ cTxLock'[o] \in Nat /\ \A x \in Objects \ {o} : cTxLock'[x] = cTxLock[x]
      BY <1>2, <2>1, <2>2
    <2>4. WaitInv'
      BY <1>1, <2>1 DEF Base, WaitInv, call
    <2>5. LockInv'
      <3>1. \A x \in Objects : cTxLock'[x] # queueUNLOCKED <=> cTxLock[x] # queueUNLOCKED
        BY <1>6, <2>3 DEF queueUNLOCKED
      <3>2. \A m \in Mutexes : cTxLock'[m] = cTxLock[m]
        BY <1>2, <2>3 DEF Objects
      <3> QED
        BY <1>1, <3>1, <3>2 DEF Base, LockInv, call
    <2>6. TypeOK'
      BY <1>1, <1>3, <2>1, <2>3 DEF Base, TypeOK, call, tcb
    <2> QED
      BY <1>4, <2>4, <2>5, <2>6 DEF Base
  <1> QED
    BY <1>5, <1>6

\* The tick takes t out of the list it is in.
LEMMA ExpireFacts ==
    ASSUME MutexAssumption, Base, NEW t \in Task, Expire(t)
    PROVE  /\ sched = Nobody /\ at[t] \in {"try", "lock"} /\ expired' \in [Task -> BOOLEAN]
           /\ UNCHANGED <<tcb, obj, cTxLock, sched, at, want, wait, inherited>> /\ Alone(t)
           /\ xTasksWaitingToReceive' \in [Objects -> Seq(Task)]
           /\ \A o \in Objects : /\ Distinct(xTasksWaitingToReceive'[o])
                                 /\ Sorted(xTasksWaitingToReceive'[o])
                                 /\ ToSet(xTasksWaitingToReceive'[o]) = ToSet(xTasksWaitingToReceive[o]) \ {t}
                                 /\ xTasksWaitingToReceive'[o] # <<>> => xTasksWaitingToReceive[o] # <<>>
  <1>1. /\ sched = Nobody /\ at[t] \in {"try", "lock"} /\ expired' = [expired EXCEPT ![t] = TRUE]
        /\ UNCHANGED <<tcb, obj, cTxLock, sched, at, want, wait, inherited>>
        /\ xTasksWaitingToReceive' = [o \in Objects |-> ListRemove(xTasksWaitingToReceive[o], t)]
    BY DEF Expire
  <1>2. expired' \in [Task -> BOOLEAN] /\ Alone(t)
    BY <1>1 DEF Base, TypeOK, Alone
  <1>3. \A o \in Objects : /\ xTasksWaitingToReceive[o] \in Seq(Task)
                           /\ Distinct(xTasksWaitingToReceive[o]) /\ Sorted(xTasksWaitingToReceive[o])
    BY DEF Base, TypeOK, WaitInv
  <1>4. ASSUME NEW o \in Objects
        PROVE  /\ xTasksWaitingToReceive'[o] \in Seq(Task)
               /\ Distinct(xTasksWaitingToReceive'[o]) /\ Sorted(xTasksWaitingToReceive'[o])
               /\ ToSet(xTasksWaitingToReceive'[o]) = ToSet(xTasksWaitingToReceive[o]) \ {t}
               /\ xTasksWaitingToReceive'[o] # <<>> => xTasksWaitingToReceive[o] # <<>>
    <2>1. xTasksWaitingToReceive'[o] = ListRemove(xTasksWaitingToReceive[o], t)
      BY <1>1
    <2> QED
      BY <1>3, <2>1, ListRemoveFacts
  <1>5. xTasksWaitingToReceive' \in [Objects -> Seq(Task)]
    BY <1>1, <1>4
  <1> QED
    BY <1>1, <1>2, <1>4, <1>5

LEMMA ExpireBase ==
    ASSUME MutexAssumption, Base, NEW t \in Task, Expire(t)
    PROVE  Base'
  <1>1. /\ sched = Nobody /\ at[t] \in {"try", "lock"} /\ expired' \in [Task -> BOOLEAN]
        /\ UNCHANGED <<tcb, obj, cTxLock, sched, at, want, wait, inherited>> /\ Alone(t)
        /\ xTasksWaitingToReceive' \in [Objects -> Seq(Task)]
        /\ \A o \in Objects : /\ Distinct(xTasksWaitingToReceive'[o]) /\ Sorted(xTasksWaitingToReceive'[o])
                              /\ ToSet(xTasksWaitingToReceive'[o]) = ToSet(xTasksWaitingToReceive[o]) \ {t}
    BY ExpireFacts
  <1>2. \A o \in Objects : /\ ToSet(xTasksWaitingToReceive'[o]) \subseteq Task \ {t}
                           /\ ToSet(xTasksWaitingToReceive'[o]) \subseteq ToSet(xTasksWaitingToReceive[o])
    BY <1>1, WaiterAtBase
  <1>3. WaitInv'
    BY <1>1, <1>2, ListsKept DEF Base
  <1>4. LockInv' /\ CallInv' /\ HoldInv' /\ PatienceInv' /\ PriorityRestored'
    BY <1>1 DEF Base, LockInv, CallInv, CallOf, HoldInv, PatienceInv, PriorityRestored, Held, tcb, obj
  <1>5. TypeOK'
    BY <1>1 DEF Base, TypeOK, tcb, obj
  <1> QED
    BY <1>3, <1>4, <1>5 DEF Base

\* Steps of recursive calls only count.
LEMMA RecursiveFacts ==
    ASSUME NEW t \in Task, NEW o \in Recursive,
           xQueueTakeMutexRecursive(t, o) \/ xQueueGiveMutexRecursive(t, o)
    PROVE  UNCHANGED <<tcb, count, pxMutexHolder, cTxLock, xTasksWaitingToReceive, sched, at, call>>
  BY DEF xQueueTakeMutexRecursive, xQueueGiveMutexRecursive

LEMMA StutterBase ==
    ASSUME Base, UNCHANGED <<tcb, count, pxMutexHolder, cTxLock, xTasksWaitingToReceive, sched, at, call>>
    PROVE  Base'
  BY DEF Base, TypeOK, LockInv, CallInv, CallOf, HoldInv, PatienceInv, PriorityRestored, Held, WaitInv,
         tcb, call

LEMMA BaseNext ==
    ASSUME MutexAssumption, HoldAndWait = {}, Base, [Next]_vars
    PROVE  Base'
  <1>1. CASE UNCHANGED vars
    BY <1>1, StutterBase DEF vars, tcb, call
  <1>2. ASSUME NEW t \in Task, NEW o \in Recursive,
               xQueueTakeMutexRecursive(t, o) \/ xQueueGiveMutexRecursive(t, o)
        PROVE  Base'
    BY <1>2, RecursiveFacts, StutterBase
  <1>3. ASSUME NEW t \in Task, Proceed(t) PROVE Base'
    BY <1>3, TakeBase, LockQueueBase, BlockBase, UnlockBase, LastLookBase, DisinheritBase DEF Proceed
  <1>4. ASSUME NEW t \in Task, GiveBack(t) PROVE Base'
    BY <1>2, <1>4, GiveBase DEF GiveBack, MutexAssumption
  <1> QED
    BY <1>1, <1>2, <1>3, <1>4, WakeUpBase, SleepBase, CallTakeBase, ExpireBase, IsrBase DEF Next

-----------------------------------------------------------------------------
(* Who comes for what is free, and who inherits.                           *)

LEMMA ComersFinite ==
    ASSUME MutexAssumption, NEW C \in SUBSET Task
    PROVE  IsFiniteSet(C) /\ Cardinality(C) \in Nat
  BY FS_Subset, FS_CardinalityType DEF MutexAssumption

LEMMA CountTypes ==
    ASSUME TypeOK, NEW o \in Objects
    PROVE  count[o] \in Int /\ Counted(cTxLock[o]) \in Nat
  BY DEF TypeOK, Counted

\* Only the task that moves, or one that leaves the list, changes the comers.
LEMMA ComersKept ==
    ASSUME NEW t \in Task, Alone(t), NEW o \in Objects, t \in Comers(o) => t \in Comers(o)',
           ToSet(xTasksWaitingToReceive'[o]) \subseteq ToSet(xTasksWaitingToReceive[o])
    PROVE  Comers(o) \subseteq Comers(o)'
  BY DEF Comers, Alone

LEMMA ComerKept ==
    ASSUME MutexAssumption, TypeOK, TypeOK', NEW o \in Objects, ComerOf(o),
           count'[o] <= count[o], Counted(cTxLock[o]) <= Counted(cTxLock'[o]),
           xTasksWaitingToReceive'[o] # <<>> => xTasksWaitingToReceive[o] # <<>>,
           Comers(o) \subseteq Comers(o)'
    PROVE  ComerOf(o)'
  <1>1. /\ count[o] \in Int /\ count'[o] \in Int
        /\ Counted(cTxLock[o]) \in Nat /\ Counted(cTxLock'[o]) \in Nat
    BY CountTypes DEF TypeOK, Counted
  <1>2. Comers(o)' \in SUBSET Task /\ Comers(o) \in SUBSET Comers(o)'
    BY DEF Comers
  <1>3. /\ Cardinality(Comers(o)) <= Cardinality(Comers(o)')
        /\ Cardinality(Comers(o)) \in Nat /\ Cardinality(Comers(o)') \in Nat
    BY <1>2, ComersFinite, FS_Subset
  <1> QED
    BY <1>1, <1>3 DEF ComerOf

\* With nothing to take there is nothing to come for.
LEMMA ComerNone ==
    ASSUME MutexAssumption, TypeOK', NEW o \in Objects, count'[o] = 0
    PROVE  ComerOf(o)'
  <1>1. Counted(cTxLock'[o]) \in Nat
    BY DEF TypeOK, Counted
  <1>2. Comers(o)' \in SUBSET Task
    BY DEF Comers
  <1>3. Cardinality(Comers(o)') \in Nat
    BY <1>2, ComersFinite
  <1> QED
    BY <1>1, <1>3 DEF ComerOf

LEMMA HeirKept ==
    ASSUME NEW t \in Task, Alone(t), NEW m \in Objects, HeirOf(m), pxMutexHolder'[m] = pxMutexHolder[m],
           xTasksWaitingToReceive'[m] # <<>> => xTasksWaitingToReceive[m] # <<>>,
           ToSet(xTasksWaitingToReceive'[m]) \subseteq ToSet(xTasksWaitingToReceive[m]),
           t \in Comers(m) => t \in Comers(m)' /\ wait'[t] = wait[t]
    PROVE  HeirOf(m)'
  <1> SUFFICES ASSUME pxMutexHolder[m] = Nobody, xTasksWaitingToReceive'[m] # <<>>
               PROVE  \E u \in Comers(m)' : /\ wait'[u] # "poll"
                                            /\ \A v \in ToSet(xTasksWaitingToReceive'[m]) :
                                                  BasePriority[v] <= BasePriority[u]
    BY DEF HeirOf
  <1>1. PICK u \in Comers(m) : /\ wait[u] # "poll"
                               /\ \A v \in ToSet(xTasksWaitingToReceive[m]) :
                                     BasePriority[v] <= BasePriority[u]
    BY DEF HeirOf
  <1>2. u \in Comers(m)'
    BY ComersKept
  <1>3. wait'[u] = wait[u]
    BY DEF Alone, Comers
  <1> QED
    BY <1>1, <1>2, <1>3

\* A step that gives and takes nothing: lists only shrink, nobody who could take
\* something gives up.
LEMMA QuietStep ==
    ASSUME MutexAssumption, Base, Base', ComerInv, HeirInv, NEW t \in Task, Alone(t),
           UNCHANGED <<count, pxMutexHolder>>,
           \A o \in Objects :
              /\ ToSet(xTasksWaitingToReceive'[o]) \subseteq ToSet(xTasksWaitingToReceive[o])
              /\ xTasksWaitingToReceive'[o] # <<>> => xTasksWaitingToReceive[o] # <<>>
              /\ Counted(cTxLock[o]) <= Counted(cTxLock'[o])
              /\ count[o] = 0 \/ (t \in Comers(o) => t \in Comers(o)' /\ wait'[t] = wait[t])
    PROVE  ComerInv' /\ HeirInv'
  <1>1. TypeOK /\ TypeOK' /\ HoldInv
    BY DEF Base
  <1>2. ASSUME NEW o \in Objects PROVE ComerOf(o)'
    <2>1. CASE count[o] = 0
      BY <1>1, <2>1, ComerNone
    <2>2. CASE count[o] # 0
      <3>1. Comers(o) \subseteq Comers(o)'
        BY <2>2, ComersKept
      <3>2. count'[o] <= count[o] /\ ComerOf(o)
        BY CountTypes, <1>1 DEF ComerInv
      <3> QED
        BY <1>1, <3>1, <3>2, ComerKept
    <2> QED
      BY <2>1, <2>2
  <1>3. ASSUME NEW m \in Mutexes PROVE HeirOf(m)'
    <2>1. m \in Objects
      BY DEF Objects
    <2>2. CASE pxMutexHolder[m] # Nobody
      BY <2>2 DEF HeirOf
    <2>3. CASE pxMutexHolder[m] = Nobody
      <3>1. count[m] # 0
        BY <1>1, <2>3 DEF HoldInv
      <3> QED
        BY <2>1, <3>1, HeirKept DEF HeirInv
    <2> QED
      BY <2>2, <2>3
  <1> QED
    BY <1>2, <1>3 DEF ComerInv, HeirInv

\* The same for the holders: their priority does not fall and nobody new waits.
LEMMA HolderKept ==
    ASSUME Base, Base', NEW m \in Mutexes, HolderOf(m), MutexAssumption,
           pxMutexHolder'[m] # Nobody => pxMutexHolder'[m] = pxMutexHolder[m],
           ToSet(xTasksWaitingToReceive'[m]) \subseteq ToSet(xTasksWaitingToReceive[m]),
           pxMutexHolder[m] \in Task => uxPriority[pxMutexHolder[m]] <= uxPriority'[pxMutexHolder[m]]
    PROVE  HolderOf(m)'
  <1> SUFFICES ASSUME pxMutexHolder'[m] # Nobody, NEW u \in ToSet(xTasksWaitingToReceive'[m])
               PROVE  BasePriority[u] <= uxPriority'[pxMutexHolder'[m]]
    BY DEF HolderOf
  <1> DEFINE h == pxMutexHolder[m]
  <1>1. h = pxMutexHolder'[m] /\ h \in Task
    BY DEF Base, TypeOK
  <1>2. u \in ToSet(xTasksWaitingToReceive[m]) /\ m \in Objects
    BY DEF Objects
  <1>3. u \in Task
    BY <1>2, WaiterAtBase
  <1>4. BasePriority[u] <= uxPriority[h] /\ uxPriority[h] <= uxPriority'[h]
    BY <1>1, <1>2 DEF HolderOf
  <1>5. BasePriority[u] \in Nat /\ uxPriority[h] \in Nat /\ uxPriority'[h] \in Nat
    BY <1>1, <1>3 DEF Base, TypeOK, MutexAssumption
  <1> QED
    BY <1>1, <1>4, <1>5

\* A quiet step that changes no priority either.
LEMMA StillStep ==
    ASSUME MutexAssumption, Base, Base', Rest, NEW t \in Task, Alone(t),
           UNCHANGED <<count, pxMutexHolder, uxPriority>>,
           \A o \in Objects :
              /\ ToSet(xTasksWaitingToReceive'[o]) \subseteq ToSet(xTasksWaitingToReceive[o])
              /\ xTasksWaitingToReceive'[o] # <<>> => xTasksWaitingToReceive[o] # <<>>
              /\ Counted(cTxLock[o]) <= Counted(cTxLock'[o])
              /\ count[o] = 0 \/ (t \in Comers(o) => t \in Comers(o)' /\ wait'[t] = wait[t])
    PROVE  Rest'
  <1>1. ComerInv' /\ HeirInv'
    BY QuietStep DEF Rest
  <1>2. ASSUME NEW m \in Mutexes PROVE HolderOf(m)'
    <2>1. m \in Objects
      BY DEF Objects
    <2>2. pxMutexHolder[m] \in Task => uxPriority[pxMutexHolder[m]] <= uxPriority'[pxMutexHolder[m]]
      BY DEF Base, TypeOK
    <2> QED
      BY <2>1, <2>2, HolderKept DEF Rest, HolderInv
  <1> QED
    BY <1>1, <1>2 DEF Rest, HolderInv

\* The same when the lists do not change.
LEMMA PlaceStep ==
    ASSUME MutexAssumption, Base, Base', Rest, NEW t \in Task, Alone(t),
           UNCHANGED <<count, pxMutexHolder, uxPriority, xTasksWaitingToReceive>>,
           \A o \in Objects :
              /\ Counted(cTxLock[o]) = Counted(cTxLock'[o])
              /\ count[o] = 0 \/ want[t] # o \/ (want'[t] = o /\ at'[t] # "disinherit" /\ wait'[t] = wait[t])
    PROVE  Rest'
  <1>1. ASSUME NEW o \in Objects PROVE Counted(cTxLock[o]) <= Counted(cTxLock'[o])
    <2>1. Counted(cTxLock[o]) \in Nat
      BY CountTypes DEF Base
    <2> QED
      BY <2>1
  <1>2. ASSUME NEW o \in Objects
        PROVE  count[o] = 0 \/ (t \in Comers(o) => t \in Comers(o)' /\ wait'[t] = wait[t])
    BY DEF Comers
  <1> QED
    BY <1>1, <1>2, StillStep

\* The steps of a task around its calls.
LEMMA OutsideRest ==
    ASSUME MutexAssumption, Base, Base', Rest, NEW t \in Task, WakeUp(t) \/ Sleep(t) \/ CallTake(t)
    PROVE  Rest'
  <1>1. /\ at[t] \in {"idle", "work"} /\ Alone(t)
        /\ UNCHANGED <<count, pxMutexHolder, uxPriority, xTasksWaitingToReceive, cTxLock>>
    BY DEF WakeUp, Sleep, CallTake, Alone, call, obj, tcb, Base, TypeOK
  <1>2. want[t] = Nobody /\ Nobody \notin Objects
    BY <1>1 DEF Base, CallInv, CallOf, MutexAssumption
  <1> QED
    BY <1>1, <1>2, PlaceStep

\* A semaphore or mutex is taken by a task that runs: it is not below the heir of
\* what it takes.
LEMMA TakenRest ==
    ASSUME MutexAssumption, Base, Base', Rest, NEW t \in Task, NEW o \in Objects, want[t] = o,
           at[t] = "try", Runs(t), count[o] > 0, count' = [count EXCEPT ![o] = @ - 1],
           IF o \in Mutexes THEN pxMutexHolder' = [pxMutexHolder EXCEPT ![o] = t]
                            ELSE UNCHANGED pxMutexHolder,
           Return(t), UNCHANGED <<uxPriority, cTxLock, xTasksWaitingToReceive>>
    PROVE  Rest'
  <1>1. Alone(t) /\ want'[t] = Nobody /\ Nobody \notin Objects /\ Nobody \notin Task
    BY ReturnFacts DEF Base, MutexAssumption
  <1>2. \A x \in Objects : t \notin ToSet(xTasksWaitingToReceive[x])
    BY RunsFacts
  <1>3. \A x \in Objects \ {o} : t \notin Comers(x) /\ count'[x] = count[x]
    BY DEF Comers, Base, TypeOK
  <1>4. t \in Comers(o) /\ Comers(o)' = Comers(o) \ {t}
    BY <1>1, <1>2 DEF Comers, Alone
  <1>5. ASSUME NEW x \in Objects PROVE ComerOf(x)'
    <2>1. CASE x = o
      <3>1. Comers(o) \in SUBSET Task
        BY DEF Comers
      <3>2. IsFiniteSet(Comers(o)) /\ Cardinality(Comers(o)) \in Nat
        BY <3>1, ComersFinite
      <3>3. Cardinality(Comers(o)') = Cardinality(Comers(o)) - 1
        <4>1. Cardinality(Comers(o) \ {t}) = Cardinality(Comers(o)) - 1
          BY <1>4, <3>2, FS_RemoveElement
        <4> QED
          BY <1>4, <4>1
      <3>4. count[o] \in Int /\ count'[o] = count[o] - 1 /\ Counted(cTxLock[o]) \in Nat
        BY CountTypes DEF Base, TypeOK
      <3> QED
        BY <2>1, <3>2, <3>3, <3>4 DEF Rest, ComerInv, ComerOf
    <2>2. CASE x # o
      <3>1. /\ count'[x] <= count[x] /\ Counted(cTxLock[x]) <= Counted(cTxLock'[x]) /\ ComerOf(x)
            /\ Comers(x) \subseteq Comers(x)'
        BY <1>1, <1>3, <2>2, CountTypes, ComersKept DEF Base, Rest, ComerInv
      <3> QED
        BY <3>1, ComerKept DEF Base
    <2> QED
      BY <2>1, <2>2
  <1>6. ASSUME NEW m \in Mutexes PROVE HeirOf(m)'
    <2>1. m \in Objects
      BY DEF Objects
    <2>2. CASE m = o
      BY <1>1, <2>2 DEF HeirOf, Base, TypeOK
    <2>3. CASE m # o
      <3>1. pxMutexHolder'[m] = pxMutexHolder[m]
        BY <2>3 DEF Base, TypeOK
      <3> QED
        BY <1>1, <1>3, <2>1, <2>3, <3>1, HeirKept DEF Rest, HeirInv
    <2> QED
      BY <2>2, <2>3
  <1>7. ASSUME NEW m \in Mutexes PROVE HolderOf(m)'
    <2>1. CASE m # o
      <3>1. pxMutexHolder'[m] = pxMutexHolder[m]
        BY <2>1 DEF Base, TypeOK
      <3>2. pxMutexHolder[m] \in Task => uxPriority[pxMutexHolder[m]] <= uxPriority'[pxMutexHolder[m]]
        BY DEF Base, TypeOK
      <3> QED
        BY <3>1, <3>2, HolderKept DEF Rest, HolderInv
    <2>2. CASE m = o
      <3>1. pxMutexHolder'[o] = t /\ pxMutexHolder[o] = Nobody
        BY <2>2 DEF Base, TypeOK, HoldInv
      <3>2. ASSUME NEW v \in ToSet(xTasksWaitingToReceive[o])
            PROVE  BasePriority[v] <= uxPriority[t]
        <4>1. xTasksWaitingToReceive[o] # <<>> /\ v \in Task
          BY <3>2, WaiterAtBase DEF ToSet
        <4>2. PICK u \in Comers(o) : wait[u] # "poll" /\ BasePriority[v] <= BasePriority[u]
          BY <2>2, <3>1, <4>1 DEF Rest, HeirInv, HeirOf
        <4>3. u \in Task /\ want[u] = o /\ u \notin ToSet(xTasksWaitingToReceive[o])
          BY DEF Comers
        <4>4. uxPriority[u] = BasePriority[u]
          BY <4>2, <4>3, PatientAtBase
        <4>5. Ready(u)
          <5>1. \A x \in Objects : u \notin ToSet(xTasksWaitingToReceive[x])
            BY <4>3 DEF Base, WaitInv
          <5>2. at[u] # "idle"
            BY <1>1, <4>3 DEF Base, CallInv, CallOf
          <5> QED
            BY <5>1, <5>2 DEF Ready, Waiting
        <4>6. uxPriority[u] <= uxPriority[t]
          BY <4>3, <4>5 DEF Runs
        <4>7. BasePriority[v] \in Nat /\ BasePriority[u] \in Nat /\ uxPriority[t] \in Nat
          BY <4>1, <4>3 DEF MutexAssumption, Base, TypeOK
        <4> QED
          BY <4>2, <4>4, <4>6, <4>7
      <3> QED
        BY <2>2, <3>1, <3>2 DEF HolderOf
    <2> QED
      BY <2>1, <2>2
  <1> QED
    BY <1>5, <1>6, <1>7 DEF Rest, ComerInv, HeirInv, HolderInv

LEMMA TakeRest ==
    ASSUME MutexAssumption, Base, Base', Rest, NEW t \in Task, xQueueSemaphoreTake(t)
    PROVE  Rest'
  <1> DEFINE o == want[t]
  <1>1. /\ at[t] = "try" /\ Runs(t) /\ o \in Objects
        /\ UNCHANGED <<cTxLock, xTasksWaitingToReceive>>
    BY WantsObject DEF xQueueSemaphoreTake
  <1>2. CASE /\ count[o] > 0 /\ count' = [count EXCEPT ![o] = @ - 1] /\ Return(t)
             /\ UNCHANGED uxPriority
             /\ IF o \in Mutexes
                THEN /\ pxMutexHolder' = [pxMutexHolder EXCEPT ![o] = t]
                     /\ uxMutexesHeld' = [uxMutexesHeld EXCEPT ![t] = @ + 1]
                ELSE UNCHANGED <<pxMutexHolder, uxMutexesHeld>>
    BY <1>1, <1>2, TakenRest
  <1>3. CASE count[o] = 0 /\ Return(t) /\ UNCHANGED <<tcb, obj>>
    <2>1. Alone(t) /\ UNCHANGED <<count, pxMutexHolder, uxPriority>>
      BY <1>3, ReturnFacts DEF Base, tcb, obj
    <2> QED
      BY <1>1, <1>3, <2>1, PlaceStep
  <1>4. CASE at' = [at EXCEPT ![t] = "lock"] /\ UNCHANGED <<tcb, obj, call>>
    <2>1. /\ Alone(t) /\ UNCHANGED <<count, pxMutexHolder, uxPriority>>
          /\ want'[t] = o /\ at'[t] # "disinherit" /\ wait'[t] = wait[t]
      BY <1>4 DEF Base, tcb, obj, call, TypeOK, Alone
    <2> QED
      BY <1>1, <2>1, PlaceStep
  <1> QED
    BY <1>2, <1>3, <1>4 DEF xQueueSemaphoreTake

LEMMA LockQueueRest ==
    ASSUME MutexAssumption, Base, Base', Rest, NEW t \in Task, LockQueue(t)
    PROVE  Rest'
  <1>1. /\ Runs(t) /\ at[t] = "lock" /\ cTxLock' = [cTxLock EXCEPT ![want[t]] = 0]
        /\ at' = [at EXCEPT ![t] = "check"] /\ UNCHANGED <<tcb, obj, xTasksWaitingToReceive, call>>
    BY DEF LockQueue
  <1>2. /\ Alone(t) /\ UNCHANGED <<count, pxMutexHolder, uxPriority>>
        /\ want' = want /\ at'[t] # "disinherit" /\ wait' = wait
    BY <1>1 DEF Base, tcb, obj, call, TypeOK, Alone
  <1>3. \A o \in Objects : Counted(cTxLock[o]) = Counted(cTxLock'[o])
    BY <1>1, RunsFacts, WantsObject DEF Base, TypeOK, Counted, queueUNLOCKED
  <1> QED
    BY <1>1, <1>2, <1>3, PlaceStep

LEMMA LastLookRest ==
    ASSUME MutexAssumption, Base, Base', Rest, NEW t \in Task, LastLook(t)
    PROVE  Rest'
  <1>1. /\ at[t] = "last" /\ UNCHANGED <<tcb, obj, cTxLock, xTasksWaitingToReceive>>
    BY DEF LastLook
  <1>2. UNCHANGED <<count, pxMutexHolder, uxPriority>>
    BY <1>1 DEF tcb, obj
  <1>3. CASE at' = [at EXCEPT ![t] = "try"] /\ UNCHANGED call
    <2>1. Alone(t) /\ want'[t] = want[t] /\ at'[t] # "disinherit" /\ wait'[t] = wait[t]
      BY <1>3 DEF Base, TypeOK, Alone, call
    <2> QED
      BY <1>1, <1>2, <2>1, PlaceStep
  <1>4. CASE count[want[t]] = 0 /\ (Return(t) \/ (at' = [at EXCEPT ![t] = "disinherit"] /\ UNCHANGED call))
    <2>1. Alone(t)
      BY <1>4, ReturnFacts DEF Base, TypeOK, Alone, call
    <2> QED
      BY <1>1, <1>2, <1>4, <2>1, PlaceStep
  <1> QED
    BY <1>3, <1>4 DEF LastLook

LEMMA ExpireRest ==
    ASSUME MutexAssumption, Base, Base', Rest, NEW t \in Task, Expire(t)
    PROVE  Rest'
  <1>1. /\ at[t] \in {"try", "lock"} /\ Alone(t)
        /\ UNCHANGED <<tcb, obj, cTxLock, at, want, wait>>
        /\ \A o \in Objects : /\ ToSet(xTasksWaitingToReceive'[o]) = ToSet(xTasksWaitingToReceive[o]) \ {t}
                              /\ xTasksWaitingToReceive'[o] # <<>> => xTasksWaitingToReceive[o] # <<>>
    BY ExpireFacts
  <1>2. UNCHANGED <<count, pxMutexHolder, uxPriority>>
    BY <1>1 DEF tcb, obj
  <1>3. \A o \in Objects : /\ t \in Comers(o) => t \in Comers(o)' /\ wait'[t] = wait[t]
                           /\ Counted(cTxLock[o]) <= Counted(cTxLock'[o])
    BY <1>1, CountTypes DEF Comers, Base
  <1> QED
    BY <1>1, <1>2, <1>3, StillStep

LEMMA DisinheritRest ==
    ASSUME MutexAssumption, Base, Base', Rest, NEW t \in Task, DisinheritAfterTimeout(t)
    PROVE  Rest'
  <1>1. /\ at[t] = "disinherit" /\ Return(t)
        /\ UNCHANGED <<uxMutexesHeld, obj, cTxLock, xTasksWaitingToReceive, sched>>
    BY DEF DisinheritAfterTimeout
  <1>2. Alone(t) /\ UNCHANGED <<count, pxMutexHolder>>
    BY <1>1, ReturnFacts DEF Base, obj
  <1>3. \A o \in Objects : t \notin Comers(o) /\ Counted(cTxLock[o]) <= Counted(cTxLock'[o])
    BY <1>1, CountTypes DEF Comers, Base
  <1>4. ComerInv' /\ HeirInv'
    BY <1>1, <1>2, <1>3, QuietStep DEF Rest
  <1>5. ASSUME NEW m \in Mutexes PROVE HolderOf(m)'
    <2> DEFINE h == pxMutexHolder[m]
    <2>1. CASE h \in Task => uxPriority'[h] = uxPriority[h]
      <3>1. h \in Task => uxPriority[h] <= uxPriority'[h]
        BY <2>1 DEF Base, TypeOK
      <3> QED
        BY <1>1, <1>2, <3>1, HolderKept DEF Rest, HolderInv
    <2>2. CASE h \in Task /\ uxPriority'[h] # uxPriority[h]
      <3>1. /\ want[t] \in Mutexes /\ h = pxMutexHolder[want[t]] /\ uxMutexesHeld[h] = 1
            /\ xTasksWaitingToReceive[want[t]] # <<>> =>
                  uxPriority[Head(xTasksWaitingToReceive[want[t]])] <= uxPriority'[h]
        BY <2>2, LowerFacts
      <3>2. m \in Held(h) /\ want[t] \in Held(h)
        BY <3>1 DEF Held
      <3>3. m = want[t] /\ m \in Objects
        BY <2>2, <3>1, <3>2, HeldCount DEF Base, Objects
      <3> DEFINE list == xTasksWaitingToReceive[m]
      <3>4. list \in Seq(Task) /\ Sorted(list)
        BY <3>3 DEF Base, TypeOK, WaitInv
      <3>5. ASSUME NEW u \in ToSet(list) PROVE BasePriority[u] <= uxPriority'[h]
        <4>1. list # <<>>
          BY DEF ToSet
        <4>2. Head(list) = list[1] /\ list[1] \in ToSet(list) /\ BasePriority[u] <= BasePriority[list[1]]
          BY <3>4, <3>5, <4>1, HeadFacts
        <4>3. u \in Task /\ list[1] \in Task /\ uxPriority[list[1]] = BasePriority[list[1]]
          BY <3>3, <3>5, <4>2, WaiterAtBase
        <4>4. BasePriority[u] \in Nat /\ BasePriority[list[1]] \in Nat /\ uxPriority'[h] \in Nat
          BY <2>2, <4>3 DEF MutexAssumption, Base, TypeOK
        <4>5. BasePriority[list[1]] <= uxPriority'[h]
          BY <3>1, <3>3, <4>1, <4>2, <4>3
        <4> HIDE DEF list, h
        <4> QED
          BY <4>2, <4>4, <4>5
      <3> QED
        BY <1>1, <1>2, <3>5 DEF HolderOf
    <2> QED
      BY <2>1, <2>2
  <1> QED
    BY <1>4, <1>5 DEF Rest, HolderInv

LEMMA BlockRest ==
    ASSUME MutexAssumption, Base, Base', Rest, NEW t \in Task, TakeOrBlock(t)
    PROVE  Rest'
  <1> DEFINE o == want[t]
  <1>1. /\ o \in Objects /\ wait[t] # "poll" /\ at' = [at EXCEPT ![t] = "unlock"]
        /\ UNCHANGED <<uxMutexesHeld, obj, cTxLock, want, wait>>
        /\ \A x \in Objects : t \notin ToSet(xTasksWaitingToReceive[x])
        /\ Alone(t)
        /\ Blocks(t) \/ UNCHANGED <<xTasksWaitingToReceive, uxPriority, inherited>>
    BY BlockFacts
  <1>2. at'[t] # "disinherit" /\ UNCHANGED <<count, pxMutexHolder>>
    BY <1>1 DEF Base, TypeOK, obj
  <1>3. CASE UNCHANGED <<xTasksWaitingToReceive, uxPriority, inherited>>
    BY <1>1, <1>2, <1>3, PlaceStep
  <1>4. CASE Blocks(t)
    <2>1. count[o] = 0
      BY <1>4 DEF Blocks
    <2>2. /\ ToSet(xTasksWaitingToReceive'[o]) = ToSet(xTasksWaitingToReceive[o]) \cup {t}
          /\ \A x \in Objects \ {o} : xTasksWaitingToReceive'[x] = xTasksWaitingToReceive[x]
      BY <1>1, <1>4, BlockedList
    <2>3. \A x \in Objects \ {o} : t \notin Comers(x)
      BY DEF Comers
    <2>4. ASSUME NEW x \in Objects PROVE ComerOf(x)'
      <3>1. CASE x = o
        BY <1>2, <2>1, <3>1, ComerNone DEF Base
      <3>2. CASE x # o
        <4>1. Comers(x) \subseteq Comers(x)'
          BY <1>1, <2>2, <2>3, <3>2, ComersKept
        <4>2. count'[x] <= count[x] /\ Counted(cTxLock[x]) <= Counted(cTxLock'[x]) /\ ComerOf(x)
          BY <1>1, <1>2, CountTypes DEF Base, Rest, ComerInv
        <4> QED
          BY <2>2, <3>2, <4>1, <4>2, ComerKept DEF Base
      <3> QED
        BY <3>1, <3>2
    <2>5. ASSUME NEW m \in Mutexes PROVE HeirOf(m)'
      <3>1. m \in Objects
        BY DEF Objects
      <3>2. CASE m = o
        BY <1>2, <2>1, <3>2 DEF HeirOf, Base, HoldInv
      <3>3. CASE m # o
        BY <1>1, <1>2, <2>2, <2>3, <3>1, <3>3, HeirKept DEF Rest, HeirInv
      <3> QED
        BY <3>2, <3>3
    <2>6. \A u \in Task : uxPriority[u] <= uxPriority'[u]
      <3>1. CASE o \in Mutexes
        <4>1. xTaskPriorityInherit(pxMutexHolder[o], t)
          BY <1>4, <3>1 DEF Blocks
        <4> QED
          BY <2>1, <3>1, <4>1, InheritFacts
      <3>2. CASE o \notin Mutexes
        BY <1>4, <3>2 DEF Blocks, Base, TypeOK
      <3> QED
        BY <3>1, <3>2
    <2>7. ASSUME NEW m \in Mutexes PROVE HolderOf(m)'
      <3>1. CASE m # o
        BY <1>2, <2>2, <2>6, <3>1, HolderKept DEF Rest, HolderInv, Objects
      <3>2. CASE m = o
        <4> DEFINE h == pxMutexHolder[o]
        <4>1. xTaskPriorityInherit(h, t)
          BY <1>4, <3>2 DEF Blocks
        <4>2. h \in Task /\ uxPriority[t] <= uxPriority'[h] /\ uxPriority[t] = BasePriority[t]
          BY <1>1, <2>1, <3>2, <4>1, InheritFacts, PatientAtBase
        <4>3. ASSUME NEW u \in ToSet(xTasksWaitingToReceive[o]) PROVE BasePriority[u] <= uxPriority'[h]
          <5>1. BasePriority[u] <= uxPriority[h] /\ u \in Task
            BY <1>1, <3>2, <4>2, <4>3, WaiterAtBase DEF Rest, HolderInv, HolderOf, MutexAssumption
          <5>2. uxPriority[h] <= uxPriority'[h]
            BY <2>6, <4>2
          <5>3. BasePriority[u] \in Nat /\ uxPriority[h] \in Nat /\ uxPriority'[h] \in Nat
            BY <4>2, <5>1 DEF MutexAssumption, Base, TypeOK
          <5> HIDE DEF h
          <5> QED
            BY <5>1, <5>2, <5>3
        <4> QED
          BY <1>2, <2>2, <3>2, <4>2, <4>3 DEF HolderOf
      <3> QED
        BY <3>1, <3>2
    <2> QED
      BY <2>4, <2>5, <2>7 DEF Rest, ComerInv, HeirInv, HolderInv
  <1> QED
    BY <1>1, <1>3, <1>4

\* Every wake-up that was counted makes a comer of one task of the list.
LEMMA UnlockRest ==
    ASSUME MutexAssumption, Base, Base', Rest, NEW t \in Task, UnlockQueue(t),
           NEW o \in Objects, o = want[t]
    PROVE  Rest'
  <1> DEFINE n == cTxLock[o]
             list == xTasksWaitingToReceive[o]
             W == {list[i] : i \in 1 .. n}
  <1>1. /\ sched = t /\ o \in Objects /\ n \in Nat
        /\ at'[t] = IF expired[t] THEN "last" ELSE "try"
    BY UnlockFacts
  <1>2. /\ \A x \in Objects : cTxLock'[x] = queueUNLOCKED
        /\ Alone(t) /\ UNCHANGED <<tcb, obj, call>>
    BY UnlockFacts
  <1>3. ASSUME NEW x \in Objects
        PROVE  /\ ToSet(xTasksWaitingToReceive'[x]) \subseteq ToSet(xTasksWaitingToReceive[x])
               /\ xTasksWaitingToReceive'[x] = IF x = o THEN SubSeq(list, n + 1, Len(list))
                                               ELSE xTasksWaitingToReceive[x]
    BY <1>3, UnlockFacts
  <1>4. list \in Seq(Task) /\ Distinct(list) /\ Sorted(list)
    BY <1>1 DEF Base, TypeOK, WaitInv
  <1>5. /\ ToSet(xTasksWaitingToReceive'[o]) = {list[i] : i \in n + 1 .. Len(list)}
        /\ xTasksWaitingToReceive'[o] # <<>> => n < Len(list)
    <2> DEFINE r == SubSeq(list, n + 1, Len(list))
    <2>1. xTasksWaitingToReceive'[o] = r
      BY <1>1, <1>3
    <2> HIDE DEF list, n
    <2>2. ToSet(r) = {list[i] : i \in n + 1 .. Len(list)} /\ (r # <<>> => n < Len(list))
      BY <1>1, <1>4, DropFacts
    <2> HIDE DEF r
    <2> QED
      BY <2>1, <2>2
  <1>6. UNCHANGED <<count, pxMutexHolder, uxPriority, want, wait>>
    BY <1>2 DEF obj, tcb, call
  <1>7. ASSUME NEW x \in Objects
        PROVE  /\ t \in Comers(x) => t \in Comers(x)' /\ wait'[t] = wait[t]
               /\ xTasksWaitingToReceive'[x] # <<>> => xTasksWaitingToReceive[x] # <<>>
    <2>1. at'[t] # "disinherit"
      BY <1>1
    <2>2. t \in Comers(x) => t \in Comers(x)'
      BY <1>3, <1>6, <2>1 DEF Comers
    <2>3. xTasksWaitingToReceive'[x] # <<>> => xTasksWaitingToReceive[x] # <<>>
      BY <1>1, <1>3, <1>4, <1>5
    <2> QED
      BY <1>6, <2>2, <2>3
  <1>8. ASSUME NEW x \in Objects PROVE ComerOf(x)'
    <2>1. CASE x # o
      <3>1. cTxLock[x] = queueUNLOCKED
        BY <1>1, <2>1 DEF Base, LockInv
      <3>2. Comers(x) \subseteq Comers(x)'
        BY <1>2, <1>3, <1>7, ComersKept
      <3>3. count'[x] <= count[x] /\ Counted(cTxLock[x]) <= Counted(cTxLock'[x]) /\ ComerOf(x)
        BY <1>2, <1>6, <3>1, CountTypes DEF Base, Rest, ComerInv
      <3> QED
        BY <1>7, <3>2, <3>3, ComerKept DEF Base
    <2>2. CASE x = o
      <3> SUFFICES ASSUME xTasksWaitingToReceive'[o] # <<>>
                   PROVE  count'[o] <= Cardinality(Comers(o)') + Counted(cTxLock'[o])
        BY <2>2 DEF ComerOf
      <3>1. n < Len(list) /\ Len(list) \in Nat /\ n \in 0 .. Len(list)
        BY <1>1, <1>4, <1>5
      <3>2. IsFiniteSet(W) /\ Cardinality(W) = n
        BY <1>4, <3>1, PrefixCount
      <3>3. list # <<>>
        BY <3>1
      <3>4. count[o] <= Cardinality(Comers(o)) + n
        <4>1. Counted(n) = n
          BY <1>1 DEF Counted, queueUNLOCKED
        <4> QED
          BY <1>1, <3>3, <4>1 DEF Rest, ComerInv, ComerOf
      <3>5. ToSet(list) = {list[i] : i \in 1 .. Len(list)}
        BY <1>4 DEF ToSet
      <3>6. W \subseteq ToSet(list)
        BY <3>1, <3>5
      <3>7. W \cap ToSet(xTasksWaitingToReceive'[o]) = {}
        <4> SUFFICES ASSUME NEW u \in W, u \in ToSet(xTasksWaitingToReceive'[o]) PROVE FALSE
          OBVIOUS
        <4>1. PICK i \in 1 .. n : u = list[i]
          OBVIOUS
        <4>2. PICK j \in n + 1 .. Len(list) : u = list[j]
          BY <1>5
        <4>3. i \in 1 .. Len(list) /\ j \in 1 .. Len(list) /\ i # j
          BY <1>1, <3>1
        <4> QED
          BY <1>4, <4>1, <4>2, <4>3 DEF Distinct
      <3>8. \A u \in W : u \in Task /\ want[u] = o /\ at[u] \in {"try", "unlock"}
        <4> SUFFICES ASSUME NEW u \in W PROVE u \in Task /\ want[u] = o /\ at[u] \in {"try", "unlock"}
          OBVIOUS
        <4>1. u \in ToSet(xTasksWaitingToReceive[o])
          BY <3>6
        <4> HIDE DEF W
        <4> QED
          BY <1>1, <4>1, WaiterAtBase DEF Base, WaitInv
      <3>9. \A u \in W : at'[u] # "disinherit"
        BY <1>1, <1>2, <3>8 DEF Alone
      <3> HIDE DEF W
      <3>10. W \subseteq Comers(o)'
        BY <1>6, <3>7, <3>8, <3>9 DEF Comers
      <3>11. Comers(o) \subseteq Comers(o)' /\ Comers(o) \cap W = {}
        <4>1. Comers(o) \subseteq Comers(o)'
          BY <1>1, <1>2, <1>3, <1>7, ComersKept
        <4>2. Comers(o) \cap ToSet(list) = {}
          BY DEF Comers
        <4> QED
          BY <3>6, <4>1, <4>2
      <3>12. Comers(o) \in SUBSET Task /\ Comers(o)' \in SUBSET Task
        BY DEF Comers
      <3>13. /\ IsFiniteSet(Comers(o)) /\ Cardinality(Comers(o)) \in Nat
             /\ IsFiniteSet(Comers(o)') /\ Cardinality(Comers(o)') \in Nat
        BY <3>12, ComersFinite
      <3>14. Cardinality(Comers(o) \cup W) = Cardinality(Comers(o)) + n
        <4>1. /\ Cardinality(Comers(o) \cup W) =
                    Cardinality(Comers(o)) + Cardinality(W) - Cardinality(Comers(o) \cap W)
              /\ Cardinality(Comers(o) \cap W) = 0
          BY <3>2, <3>11, <3>13, FS_Union, FS_EmptySet
        <4> QED
          BY <1>1, <3>2, <3>13, <4>1
      <3>15. Cardinality(Comers(o) \cup W) <= Cardinality(Comers(o)')
        BY <3>10, <3>11, <3>13, FS_Subset
      <3>16. Counted(cTxLock'[o]) = 0
        BY <1>1, <1>2 DEF Counted
      <3>17. count[o] \in Int /\ count'[o] = count[o]
        BY <1>1, <1>6, CountTypes DEF Base
      <3> QED
        BY <1>1, <3>4, <3>13, <3>14, <3>15, <3>16, <3>17
    <2> QED
      BY <2>1, <2>2
  <1>9. ASSUME NEW m \in Mutexes PROVE HeirOf(m)' /\ HolderOf(m)'
    <2>1. m \in Objects
      BY DEF Objects
    <2>2. HeirOf(m)'
      BY <1>2, <1>3, <1>6, <1>7, <2>1, HeirKept DEF Rest, HeirInv
    <2>3. pxMutexHolder[m] \in Task => uxPriority[pxMutexHolder[m]] <= uxPriority'[pxMutexHolder[m]]
      BY <1>6 DEF Base, TypeOK
    <2>4. HolderOf(m)'
      BY <1>3, <1>6, <2>1, <2>3, HolderKept DEF Rest, HolderInv
    <2> QED
      BY <2>2, <2>4
  <1> QED
    BY <1>8, <1>9 DEF Rest, ComerInv, HeirInv, HolderInv

\* Giving wakes the first task of the list: one comer more.
LEMMA OneWoken ==
    ASSUME MutexAssumption, Base, Base', NEW o \in Objects, xTasksWaitingToReceive[o] # <<>>,
           xTasksWaitingToReceive' = [xTasksWaitingToReceive EXCEPT ![o] = Wake(@)],
           UNCHANGED <<at, call>>
    PROVE  /\ Comers(o)' = Comers(o) \cup {xTasksWaitingToReceive[o][1]}
           /\ Cardinality(Comers(o)') = Cardinality(Comers(o)) + 1
           /\ wait'[xTasksWaitingToReceive[o][1]] # "poll"
  <1> DEFINE list == xTasksWaitingToReceive[o]
             h    == list[1]
  <1>1. list \in Seq(Task) /\ Distinct(list) /\ Sorted(list)
    BY DEF Base, TypeOK, WaitInv
  <1>2. h \in ToSet(list) /\ h \in Task
    BY <1>1, HeadFacts
  <1>3. ToSet(xTasksWaitingToReceive'[o]) = ToSet(list) \ {h}
    BY <1>1, WokenLists, WakeFacts
  <1>4. want[h] = o /\ at[h] \in {"try", "unlock"} /\ wait[h] # "poll"
    BY <1>2 DEF Base, WaitInv
  <1> HIDE DEF h
  <1>5. Comers(o)' = Comers(o) \cup {h} /\ h \notin Comers(o)
    BY <1>2, <1>3, <1>4 DEF Comers, call
  <1>6. Comers(o) \in SUBSET Task
    BY DEF Comers
  <1>7. Cardinality(Comers(o)') = Cardinality(Comers(o)) + 1
    BY <1>5, <1>6, ComersFinite, FS_AddElement
  <1>8. wait'[h] # "poll"
    BY <1>4 DEF call
  <1> QED
    BY <1>5, <1>7, <1>8 DEF h

LEMMA WokenComer ==
    ASSUME MutexAssumption, Base, Base', ComerInv, NEW o \in Objects,
           count' = [count EXCEPT ![o] = @ + 1], UNCHANGED <<cTxLock, at, call>>,
           xTasksWaitingToReceive' = [xTasksWaitingToReceive EXCEPT ![o] = Wake(@)]
    PROVE  ComerInv'
  <1>1. ASSUME NEW x \in Objects PROVE ComerOf(x)'
    <2>1. CASE x = o
      <3> SUFFICES ASSUME xTasksWaitingToReceive'[o] # <<>>
                   PROVE  count'[o] <= Cardinality(Comers(o)') + Counted(cTxLock'[o])
        BY <2>1 DEF ComerOf
      <3>1. xTasksWaitingToReceive[o] # <<>>
        BY WokenLists, WakeFacts DEF Base, TypeOK, WaitInv
      <3>2. Cardinality(Comers(o)') = Cardinality(Comers(o)) + 1
        BY <3>1, OneWoken
      <3>3. Comers(o) \in SUBSET Task
        BY DEF Comers
      <3>4. Cardinality(Comers(o)) \in Nat
        BY <3>3, ComersFinite
      <3>5. count[o] \in Int /\ count'[o] = count[o] + 1 /\ Counted(cTxLock[o]) \in Nat
        BY CountTypes DEF Base, TypeOK
      <3>6. count[o] <= Cardinality(Comers(o)) + Counted(cTxLock[o])
        BY <3>1 DEF ComerInv, ComerOf
      <3> QED
        BY <3>2, <3>4, <3>5, <3>6
    <2>2. CASE x # o
      <3>1. xTasksWaitingToReceive'[x] = xTasksWaitingToReceive[x] /\ count'[x] = count[x]
        BY <2>2, WokenLists DEF Base, TypeOK
      <3>2. Comers(x)' = Comers(x)
        BY <3>1 DEF Comers, call
      <3> QED
        BY <3>1, <3>2 DEF ComerInv, ComerOf
    <2> QED
      BY <2>1, <2>2
  <1> QED
    BY <1>1 DEF ComerInv

LEMMA GiveRest ==
    ASSUME MutexAssumption, Base, Base', Rest, NEW t \in Task, NEW o \in Objects, xSemaphoreGive(t, o)
    PROVE  Rest'
  <1>1. /\ count' = [count EXCEPT ![o] = @ + 1]
        /\ o \in Mutexes => pxMutexHolder[o] = t
        /\ xTasksWaitingToReceive' = [xTasksWaitingToReceive EXCEPT ![o] = Wake(@)]
        /\ UNCHANGED <<cTxLock, at, call>>
    BY DEF xSemaphoreGive
  <1>2. ComerInv'
    BY <1>1, WokenComer DEF Rest
  <1>3. \A x \in Objects \ {o} : xTasksWaitingToReceive'[x] = xTasksWaitingToReceive[x] /\ Comers(x)' = Comers(x)
    BY <1>1, WokenLists DEF Comers, call
  <1>4. /\ \A m \in Mutexes \ {o} : pxMutexHolder'[m] = pxMutexHolder[m]
        /\ o \in Mutexes => pxMutexHolder'[o] = Nobody
        /\ \A m \in Mutexes \ {o} : pxMutexHolder[m] \in Task =>
              uxPriority'[pxMutexHolder[m]] = uxPriority[pxMutexHolder[m]]
    <2>1. CASE o \in Mutexes
      <3>1. xTaskPriorityDisinherit(t) /\ pxMutexHolder' = [pxMutexHolder EXCEPT ![o] = Nobody]
        BY <2>1 DEF xSemaphoreGive
      <3>2. /\ \A m \in Mutexes \ {o} : pxMutexHolder'[m] = pxMutexHolder[m]
            /\ pxMutexHolder'[o] = Nobody
        BY <2>1, <3>1 DEF Base, TypeOK
      <3>3. \A u \in Task : uxPriority'[u] # uxPriority[u] => Held(u)' = {}
        BY <1>1, <2>1, <3>1, GiveMutexFacts
      <3>4. ASSUME NEW m \in Mutexes \ {o}, pxMutexHolder[m] \in Task
            PROVE  uxPriority'[pxMutexHolder[m]] = uxPriority[pxMutexHolder[m]]
        <4> DEFINE h == pxMutexHolder[m]
        <4>1. pxMutexHolder'[m] = h
          BY <3>2
        <4>2. PICK u \in Task : u = h
          BY <3>4
        <4>3. m \in Held(u)'
          BY <4>1, <4>2 DEF Held
        <4> QED
          BY <3>3, <4>2, <4>3
      <3> QED
        BY <3>2, <3>4
    <2>2. CASE o \notin Mutexes
      BY <2>2 DEF xSemaphoreGive, tcb
    <2> QED
      BY <2>1, <2>2
  <1>5. ASSUME NEW m \in Mutexes PROVE HeirOf(m)'
    <2>1. m \in Objects
      BY DEF Objects
    <2>2. CASE m # o
      BY <1>1, <1>3, <1>4, <2>1, <2>2 DEF Rest, HeirInv, HeirOf, call
    <2>3. CASE m = o
      <3> DEFINE list == xTasksWaitingToReceive[o]
      <3> SUFFICES ASSUME xTasksWaitingToReceive'[o] # <<>>
                   PROVE  \E u \in Comers(o)' : /\ wait'[u] # "poll"
                                                /\ \A v \in ToSet(xTasksWaitingToReceive'[o]) :
                                                      BasePriority[v] <= BasePriority[u]
        BY <2>3 DEF HeirOf
      <3>1. list \in Seq(Task) /\ Distinct(list) /\ Sorted(list)
        BY DEF Base, TypeOK, WaitInv
      <3>2. list # <<>> /\ ToSet(xTasksWaitingToReceive'[o]) \subseteq ToSet(list)
        BY <1>1, <3>1, WokenLists, WakeFacts
      <3>3. \A v \in ToSet(list) : BasePriority[v] <= BasePriority[list[1]]
        BY <3>1, <3>2, HeadFacts
      <3>4. list[1] \in Comers(o)' /\ wait'[list[1]] # "poll"
        BY <1>1, <3>2, OneWoken
      <3> QED
        BY <3>2, <3>3, <3>4
    <2> QED
      BY <2>2, <2>3
  <1>6. ASSUME NEW m \in Mutexes PROVE HolderOf(m)'
    <2>1. CASE m = o
      BY <1>4, <2>1 DEF HolderOf
    <2>2. CASE m # o
      <3>1. pxMutexHolder[m] \in Task => uxPriority[pxMutexHolder[m]] <= uxPriority'[pxMutexHolder[m]]
        BY <1>4, <2>2 DEF Base, TypeOK
      <3>2. xTasksWaitingToReceive'[m] = xTasksWaitingToReceive[m]
        BY <1>3, <2>2 DEF Objects
      <3> QED
        BY <1>4, <2>2, <3>1, <3>2, HolderKept DEF Rest, HolderInv
    <2> QED
      BY <2>1, <2>2
  <1> QED
    BY <1>2, <1>5, <1>6 DEF Rest, HeirInv, HolderInv

LEMMA IsrRest ==
    ASSUME MutexAssumption, Base, Base', Rest, NEW o \in Semaphores, xQueueGiveFromISR(o)
    PROVE  Rest'
  <1>1. /\ count' = [count EXCEPT ![o] = @ + 1] /\ UNCHANGED <<tcb, pxMutexHolder, at, call>>
    BY DEF xQueueGiveFromISR
  <1>2. o \in Objects /\ o \notin Mutexes
    BY DEF Objects, MutexAssumption
  <1>3. CASE cTxLock[o] = queueUNLOCKED
    <2>1. /\ xTasksWaitingToReceive' = [xTasksWaitingToReceive EXCEPT ![o] = Wake(@)]
          /\ UNCHANGED cTxLock
      BY <1>3 DEF xQueueGiveFromISR
    <2>2. ComerInv'
      BY <1>1, <1>2, <2>1, WokenComer DEF Rest
    <2>3. \A m \in Mutexes : xTasksWaitingToReceive'[m] = xTasksWaitingToReceive[m]
      BY <1>2, <2>1, WokenLists DEF Objects
    <2>4. HeirInv' /\ HolderInv'
      BY <1>1, <2>3 DEF Rest, HeirInv, HeirOf, HolderInv, HolderOf, Comers, call, tcb
    <2> QED
      BY <2>2, <2>4 DEF Rest
  <1>4. CASE cTxLock[o] # queueUNLOCKED
    <2>1. cTxLock' = [cTxLock EXCEPT ![o] = @ + 1] /\ UNCHANGED xTasksWaitingToReceive
      BY <1>4 DEF xQueueGiveFromISR
    <2>2. \A x \in Objects : Comers(x)' = Comers(x)
      BY <1>1, <2>1 DEF Comers, call
    <2>3. ASSUME NEW x \in Objects PROVE ComerOf(x)'
      <3>1. CASE x = o
        <4>1. /\ Counted(cTxLock[o]) = cTxLock[o] /\ Counted(cTxLock'[o]) = cTxLock[o] + 1
              /\ cTxLock[o] \in Nat /\ count[o] \in Int /\ count'[o] = count[o] + 1
          BY <1>1, <1>2, <1>4, <2>1 DEF Base, TypeOK, Counted, queueUNLOCKED
        <4>2. Comers(o) \in SUBSET Task
          BY DEF Comers
        <4>3. Cardinality(Comers(o)) \in Nat
          BY <4>2, ComersFinite
        <4> QED
          BY <1>2, <2>1, <2>2, <3>1, <4>1, <4>3 DEF Rest, ComerInv, ComerOf
      <3>2. CASE x # o
        <4>1. count'[x] = count[x] /\ cTxLock'[x] = cTxLock[x]
          BY <1>1, <2>1, <3>2 DEF Base, TypeOK
        <4> QED
          BY <2>1, <2>2, <4>1 DEF Rest, ComerInv, ComerOf
      <3> QED
        BY <3>1, <3>2
    <2>4. HeirInv' /\ HolderInv'
      BY <1>1, <2>1 DEF Rest, HeirInv, HeirOf, HolderInv, HolderOf, Comers, call, tcb
    <2> QED
      BY <2>3, <2>4 DEF Rest, ComerInv
  <1> QED
    BY <1>3, <1>4

LEMMA StutterRest ==
    ASSUME Rest, UNCHANGED <<tcb, count, pxMutexHolder, cTxLock, xTasksWaitingToReceive, at, call>>
    PROVE  Rest'
  BY DEF Rest, ComerInv, ComerOf, HeirInv, HeirOf, HolderInv, HolderOf, Comers, tcb, call

LEMMA RestNext ==
    ASSUME MutexAssumption, Base, Base', Rest, [Next]_vars
    PROVE  Rest'
  <1>1. CASE UNCHANGED vars
    BY <1>1, StutterRest DEF vars, tcb, call
  <1>2. ASSUME NEW t \in Task, NEW o \in Recursive,
               xQueueTakeMutexRecursive(t, o) \/ xQueueGiveMutexRecursive(t, o)
        PROVE  Rest'
    BY <1>2, RecursiveFacts, StutterRest
  <1>3. ASSUME NEW t \in Task, UnlockQueue(t) PROVE Rest'
    BY <1>3, UnlockFacts, UnlockRest
  <1>4. ASSUME NEW t \in Task, Proceed(t) PROVE Rest'
    BY <1>3, <1>4, TakeRest, LockQueueRest, BlockRest, LastLookRest, DisinheritRest DEF Proceed
  <1>5. ASSUME NEW t \in Task, GiveBack(t) PROVE Rest'
    BY <1>2, <1>5, GiveRest DEF GiveBack, MutexAssumption
  <1> QED
    BY <1>1, <1>2, <1>4, <1>5, OutsideRest, ExpireRest, IsrRest DEF Next

-----------------------------------------------------------------------------
(* The theorems.                                                           *)

LEMMA MutexInit ==
    ASSUME MutexAssumption, Init
    PROVE  Inv
  <1>1. TypeOK
    <2>1. \A o \in Objects : <<>> \in Seq(Task)
      OBVIOUS
    <2> QED
      BY <2>1 DEF Init, TypeOK, MutexAssumption, Places, queueUNLOCKED
  <1>2. \A t \in Task : Held(t) = {}
    BY DEF Init, Held, MutexAssumption
  <1>3. HoldInv
    BY <1>2, FS_EmptySet DEF Init, HoldInv, Objects
  <1>4. CallInv /\ PatienceInv /\ PriorityRestored
    BY <1>2 DEF Init, CallInv, CallOf, PatienceInv, PriorityRestored
  <1>5. LockInv
    BY DEF Init, LockInv, Inside, Objects, MutexAssumption
  <1>6. \A o \in Objects : xTasksWaitingToReceive[o] = <<>> /\ ToSet(xTasksWaitingToReceive[o]) = {}
    BY DEF Init, ToSet
  <1>7. WaitInv
    BY <1>6 DEF WaitInv, Distinct, Sorted
  <1>8. Rest
    BY <1>6 DEF Rest, ComerInv, ComerOf, HeirInv, HeirOf, HolderInv, HolderOf, Objects
  <1> QED
    BY <1>1, <1>3, <1>4, <1>5, <1>7, <1>8 DEF Inv, Base

LEMMA MutexNext ==
    ASSUME MutexAssumption, HoldAndWait = {}, Inv, [Next]_vars
    PROVE  Inv'
  BY BaseNext, RestNext DEF Inv

LEMMA MutexImplies ==
    ASSUME MutexAssumption, Inv
    PROVE  PriorityRestored /\ HolderNotBelow /\ NoLostGive
  <1>1. Base /\ Rest
    BY DEF Inv
  <1>2. HolderNotBelow
    <2> SUFFICES ASSUME NEW m \in Mutexes, pxMutexHolder[m] # Nobody,
                        NEW t \in ToSet(xTasksWaitingToReceive[m])
                 PROVE  uxPriority[t] <= uxPriority[pxMutexHolder[m]]
      BY DEF HolderNotBelow
    <2>1. uxPriority[t] = BasePriority[t]
      BY <1>1, WaiterAtBase DEF Objects
    <2> QED
      BY <1>1, <2>1 DEF Rest, HolderInv, HolderOf
  <1>3. NoLostGive
    <2> SUFFICES ASSUME sched = Nobody, NEW o \in Objects, count[o] > 0,
                        xTasksWaitingToReceive[o] # <<>>
                 PROVE  \E t \in Task : want[t] = o /\ Ready(t)
      BY DEF NoLostGive
    <2>1. Counted(cTxLock[o]) = 0
      BY <1>1 DEF Base, LockInv, Counted
    <2>2. count[o] <= Cardinality(Comers(o)) + 0
      BY <1>1, <2>1 DEF Rest, ComerInv, ComerOf
    <2>3. Comers(o) \in SUBSET Task
      BY DEF Comers
    <2>4. Cardinality(Comers(o)) \in Nat /\ count[o] \in Int
      BY <1>1, <2>3, ComersFinite, CountTypes DEF Base
    <2>5. Cardinality(Comers(o)) # 0
      <3> DEFINE c == Cardinality(Comers(o))
                 k == count[o]
      <3>1. c \in Nat /\ k \in Int /\ k > 0 /\ k <= c + 0
        BY <2>2, <2>4
      <3> HIDE DEF c, k
      <3>2. c # 0
        BY <3>1
      <3> QED
        BY <3>2 DEF c
    <2>6. PICK t \in Comers(o) : TRUE
      BY <2>5, FS_EmptySet
    <2>7. t \in Task /\ want[t] = o /\ t \notin ToSet(xTasksWaitingToReceive[o])
      BY DEF Comers
    <2>8. \A x \in Objects : t \notin ToSet(xTasksWaitingToReceive[x])
      BY <1>1, <2>7 DEF Base, WaitInv
    <2>9. at[t] # "idle"
      BY <1>1, <2>7 DEF Base, CallInv, CallOf, MutexAssumption
    <2> QED
      BY <2>7, <2>8, <2>9 DEF Ready, Waiting
  <1> QED
    BY <1>1, <1>2, <1>3 DEF Base

\* The invariant holds in every state, for tasks that do not wait for a second
\* object while they hold a mutex.
THEOREM MutexInvariance == ASSUME MutexAssumption, HoldAndWait = {} PROVE Spec => []Inv
  <1>1. Init => Inv
    BY MutexInit
  <1>2. Inv /\ [Next]_vars => Inv'
    BY MutexNext
  <1> QED
    BY <1>1, <1>2, PTL DEF Spec

\* xTaskPriorityDisinherit: whatever the tasks, their priorities and their calls, a
\* task that holds no mutex has its base priority.
THEOREM PriorityRestoredSafe ==
    ASSUME MutexAssumption, HoldAndWait = {} PROVE Spec => []PriorityRestored
  <1>1. Inv => PriorityRestored
    BY MutexImplies
  <1> QED
    BY <1>1, MutexInvariance, PTL

\* xTaskPriorityInherit, vTaskPriorityDisinheritAfterTimeout: the holder of a mutex
\* is never below a task that waits for it.
THEOREM HolderNotBelowSafe ==
    ASSUME MutexAssumption, HoldAndWait = {} PROVE Spec => []HolderNotBelow
  <1>1. Inv => HolderNotBelow
    BY MutexImplies
  <1> QED
    BY <1>1, MutexInvariance, PTL

\* xQueueGenericSend, xQueueGiveFromISR, prvUnlockQueue: no task sleeps on what is
\* free unless another one is on its way to take it.
THEOREM NoLostGiveSafe ==
    ASSUME MutexAssumption, HoldAndWait = {} PROVE Spec => []NoLostGive
  <1>1. Inv => NoLostGive
    BY MutexImplies
  <1> QED
    BY <1>1, MutexInvariance, PTL

\* The comment at prvGetDisinheritPriorityAfterTimeout, for tasks that do not wait
\* while they hold a mutex: a holder is lowered only as far as the tasks that still
\* wait for its mutex allow.
THEOREM LoweredToHighestWaiterSafe ==
    ASSUME MutexAssumption, HoldAndWait = {} PROVE Spec => LoweredToHighestWaiter
  <1> DEFINE Lowered == \A m \in Mutexes :
                 LET h == pxMutexHolder[m] IN
                 h # Nobody /\ pxMutexHolder'[m] = h /\ uxPriority'[h] < uxPriority[h]
                     => \A u \in ToSet(xTasksWaitingToReceive'[m]) : uxPriority'[u] <= uxPriority'[h]
  <1>1. HolderNotBelow' => Lowered
    BY DEF HolderNotBelow
  <1>2. HolderNotBelow' => [Lowered]_vars
    BY <1>1
  <1> HIDE DEF Lowered
  <1>3. []HolderNotBelow => [][Lowered]_vars
    BY <1>2, PTL
  <1>4. Spec => [][Lowered]_vars
    BY <1>3, HolderNotBelowSafe, PTL
  <1> QED
    BY <1>4 DEF LoweredToHighestWaiter, Lowered
=============================================================================
