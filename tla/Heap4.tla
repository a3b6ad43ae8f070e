-------------------------------- MODULE Heap4 --------------------------------
(***************************************************************************)
(* The allocator of heap_4.c: a list of free blocks, first fit, splitting  *)
(* and merging.  Addresses and sizes are bytes; a block is the address of  *)
(* its BlockLink_t and its size, header included.                          *)
(*                                                                         *)
(* The scheduler is suspended during pvPortMalloc and during the insertion *)
(* at the end of vPortFree, so each is one step.  The test and the reset   *)
(* of the allocated bit in vPortFree happen before that: another task may  *)
(* run in between (Release, then Insert).                                  *)
(***************************************************************************)
EXTENDS Integers, Sequences, FiniteSets, SequencesExt

CONSTANTS Tasks,                   \* tasks that allocate and free
          ucHeap,                  \* address of the array
          configTOTAL_HEAP_SIZE,   \* its size
          Requests                 \* sizes asked for

VARIABLES inited,      \* pxEnd is not NULL
          freeList,    \* the chain from xStart to pxEnd, both left out
          used,        \* blocks whose allocated bit is set
          releasing,   \* for each task the block it is about to insert
          xFreeBytesRemaining, xMinimumEverFreeBytesRemaining

vars == <<inited, freeList, used, releasing, xFreeBytesRemaining,
          xMinimumEverFreeBytesRemaining>>

portBYTE_ALIGNMENT     == 8
xHeapStructSize        == 8
heapMINIMUM_BLOCK_SIZE == 2 * xHeapStructSize

AlignDown(n) == n - (n % portBYTE_ALIGNMENT)
AlignUp(n)   == AlignDown(n + portBYTE_ALIGNMENT - 1)

\* prvHeapInit: the first block and the address of pxEnd.
HeapStart == AlignUp(ucHeap)
pxEnd     == AlignDown(ucHeap + configTOTAL_HEAP_SIZE - xHeapStructSize)
Whole     == [addr |-> HeapStart, size |-> pxEnd - HeapStart]

\* The array has room for pxEnd and at least one block.
HeapAssumption == /\ ucHeap \in Nat /\ configTOTAL_HEAP_SIZE \in Nat
                  /\ Requests \subseteq Nat
                  /\ Whole.size >= heapMINIMUM_BLOCK_SIZE

NoBlock == [addr |-> 0, size |-> 0]
End(b)  == b.addr + b.size

Init == /\ inited = FALSE
        /\ freeList = <<>>
        /\ used = {}
        /\ releasing = [t \in Tasks |-> NoBlock]
        /\ xFreeBytesRemaining = 0
        /\ xMinimumEverFreeBytesRemaining = 0

\* Mutant: merges with the block behind only.
prvInsertNoMergeBefore(list, b) ==
    LET i == CHOOSE k \in 0 .. Len(list) :
                /\ k = Len(list) \/ list[k + 1].addr >= b.addr
                /\ \A j \in 1 .. k : list[j].addr < b.addr
        right == i < Len(list) /\ End(b) = list[i + 1].addr
        c == IF right THEN [b EXCEPT !.size = @ + list[i + 1].size] ELSE b
    IN SubSeq(list, 1, i) \o <<c>> \o SubSeq(list, IF right THEN i + 2 ELSE i + 1, Len(list))

\* The list is walked up to the first block behind b; b is merged with the
\* block before it, then with the block behind it.
prvInsertBlockIntoFreeList(list, b) ==
    LET i == CHOOSE k \in 0 .. Len(list) :
                /\ k = Len(list) \/ list[k + 1].addr >= b.addr
                /\ \A j \in 1 .. k : list[j].addr < b.addr
        left  == i > 0 /\ End(list[i]) = b.addr
        m     == IF left THEN [list[i] EXCEPT !.size = @ + b.size] ELSE b
        right == i < Len(list) /\ End(m) = list[i + 1].addr
        c     == IF right THEN [m EXCEPT !.size = @ + list[i + 1].size] ELSE m
    IN SubSeq(list, 1, IF left THEN i - 1 ELSE i) \o <<c>>
          \o SubSeq(list, IF right THEN i + 2 ELSE i + 1, Len(list))

\* prvHeapInit, done by the first call of pvPortMalloc.
InitialList == IF inited THEN freeList ELSE <<Whole>>
InitialFree == IF inited THEN xFreeBytesRemaining ELSE Whole.size
InitialMin  == IF inited THEN xMinimumEverFreeBytesRemaining ELSE Whole.size

\* The size of the block for a request: header, rounded up; 0 stays 0.
BlockSizeFor(n) == IF n = 0 THEN 0 ELSE AlignUp(n + xHeapStructSize)

\* Mutant: a remainder too small to be a block is split off all the same.
SplitsAny(b, w) == b.size - w > 0

Splits(b, w) == b.size - w > heapMINIMUM_BLOCK_SIZE

Fits(list, w, i) == list[i].size >= w /\ \A j \in 1 .. i - 1 : list[j].size < w

\* The request can be met: the first block large enough is taken.
Found(w) == /\ w > 0 /\ w <= InitialFree
            /\ \E i \in 1 .. Len(InitialList) : InitialList[i].size >= w

pvPortMalloc(n) ==
    LET w == BlockSizeFor(n) IN
    /\ inited' = TRUE
    /\ UNCHANGED releasing
    /\ IF ~Found(w)
       THEN /\ freeList' = InitialList /\ UNCHANGED used
            /\ xFreeBytesRemaining' = InitialFree
            /\ xMinimumEverFreeBytesRemaining' = InitialMin
       ELSE LET list  == InitialList
                i     == CHOOSE k \in 1 .. Len(list) : Fits(list, w, k)
                b     == list[i]
                rest  == RemoveAt(list, i)
                taken == IF Splits(b, w) THEN [b EXCEPT !.size = w] ELSE b
                left  == InitialFree - taken.size
            IN /\ freeList' = IF Splits(b, w)
                              THEN prvInsertBlockIntoFreeList(rest,
                                      [addr |-> b.addr + w, size |-> b.size - w])
                              ELSE rest
               /\ used' = used \cup {taken}
               /\ xFreeBytesRemaining' = left
               /\ xMinimumEverFreeBytesRemaining' = IF left < InitialMin THEN left ELSE InitialMin

\* vPortFree up to the reset of the allocated bit.
Release(t, b) ==
    /\ releasing[t] = NoBlock
    /\ b \in used
    /\ used' = used \ {b}
    /\ releasing' = [releasing EXCEPT ![t] = b]
    /\ UNCHANGED <<inited, freeList, xFreeBytesRemaining, xMinimumEverFreeBytesRemaining>>

\* Mutant: the count of free bytes is not updated.
InsertUncounted(t) ==
    /\ releasing[t] # NoBlock
    /\ freeList' = prvInsertBlockIntoFreeList(freeList, releasing[t])
    /\ releasing' = [releasing EXCEPT ![t] = NoBlock]
    /\ UNCHANGED <<inited, used, xFreeBytesRemaining, xMinimumEverFreeBytesRemaining>>

\* The rest of vPortFree.
Insert(t) ==
    /\ releasing[t] # NoBlock
    /\ xFreeBytesRemaining' = xFreeBytesRemaining + releasing[t].size
    /\ freeList' = prvInsertBlockIntoFreeList(freeList, releasing[t])
    /\ releasing' = [releasing EXCEPT ![t] = NoBlock]
    /\ UNCHANGED <<inited, used, xMinimumEverFreeBytesRemaining>>

\* A task inside vPortFree does nothing else.
Next == \E t \in Tasks :
           \/ releasing[t] = NoBlock /\ \E n \in Requests : pvPortMalloc(n)
           \/ \E b \in used : Release(t, b)
           \/ Insert(t)

Spec == Init /\ [][Next]_vars

-----------------------------------------------------------------------------
Pending == {releasing[t] : t \in Tasks} \ {NoBlock}
Blocks  == used \cup ToSet(freeList) \cup Pending

Holds(b, x) == b.addr <= x /\ x < End(b)
Memory      == HeapStart .. pxEnd - 1
FreeMemory  == {x \in Memory : \E b \in ToSet(freeList) : Holds(b, x)}

\* pvPortMalloc returns aligned blocks, no two of which overlap, and no byte of
\* the heap is lost: the blocks in use, free and on their way to the free list
\* tile it, none is two of these at once or on its way twice, and each can hold
\* the link written into it when it is freed.
Tiling ==
    /\ used \cap Pending = {} /\ (used \cup Pending) \cap ToSet(freeList) = {}
    /\ \A t, u \in Tasks : t # u /\ releasing[t] = releasing[u] => releasing[t] = NoBlock
    /\ inited =>
        /\ \A b, c \in Blocks : b # c => End(b) <= c.addr \/ End(c) <= b.addr
        /\ \A b \in Blocks : /\ b.addr % portBYTE_ALIGNMENT = 0
                             /\ b.size > xHeapStructSize
                             /\ b.addr >= HeapStart /\ End(b) <= pxEnd
        /\ \A x \in Memory : \E b \in Blocks : Holds(b, x)

\* prvInsertBlockIntoFreeList keeps the free list in address order and leaves no
\* two adjacent blocks unmerged, so when all is freed the heap is whole again.
Merged ==
    /\ \A i \in 1 .. Len(freeList) - 1 : End(freeList[i]) < freeList[i + 1].addr
    /\ inited /\ used = {} /\ Pending = {} => freeList = <<Whole>>

\* xFreeBytesRemaining is the memory in the free list, so the test of line 161
\* refuses nothing that is there; the low-water mark is never above it.
Accounting ==
    /\ xFreeBytesRemaining = Cardinality(FreeMemory)
    /\ xMinimumEverFreeBytesRemaining <= xFreeBytesRemaining
=============================================================================
