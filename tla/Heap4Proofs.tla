----------------------------- MODULE Heap4Proofs -----------------------------
(***************************************************************************)
(* Proofs about Heap4, for every address and size of the array, every set  *)
(* of tasks and every size asked for.                                      *)
(***************************************************************************)
EXTENDS Heap4, SequenceFacts, FiniteSetTheorems, TLAPS

Block == [addr : Nat, size : Nat]

\* A block that lies in the array, aligned and large enough to be linked.
Good(b) == /\ b \in Block
           /\ b.addr % 8 = 0 /\ b.size % 8 = 0 /\ b.size >= 16
           /\ HeapStart <= b.addr /\ End(b) <= pxEnd

Apart(b, c) == End(b) <= c.addr \/ End(c) <= b.addr

\* A free list in address order, no two neighbours of which touch.
GoodList(list) ==
    /\ list \in Seq(Block)
    /\ \A i \in 1 .. Len(list) : Good(list[i])
    /\ \A i, j \in 1 .. Len(list) : i < j => End(list[i]) < list[j].addr

\* The bytes in the blocks of a list.
InList(list, x) == \E i \in 1 .. Len(list) : Holds(list[i], x)
BytesOf(list)   == {x \in Memory : InList(list, x)}

\* What prvHeapInit, pvPortMalloc and the insertion in vPortFree have in common:
\* the state of the heap with this free list, these blocks taken from it and these
\* counters.
Core(list, tk, free, min) ==
    /\ GoodList(list)
    /\ \A b \in tk : Good(b)
    /\ \A b, c \in tk : b # c => Apart(b, c)
    /\ \A b \in tk, i \in 1 .. Len(list) : Apart(b, list[i])
    /\ \A x \in Memory : InList(list, x) \/ \E b \in tk : Holds(b, x)
    /\ free = Cardinality(BytesOf(list))
    /\ min \in Int /\ min <= free

Taken == used \cup Pending

Inv ==
    /\ inited \in BOOLEAN /\ releasing \in [Tasks -> Block]
    /\ used \cap Pending = {}
    /\ \A t, u \in Tasks : t # u /\ releasing[t] = releasing[u] => releasing[t] = NoBlock
    /\ inited => Core(freeList, Taken, xFreeBytesRemaining, xMinimumEverFreeBytesRemaining)
    /\ ~inited => /\ freeList = <<>> /\ Taken = {}
                  /\ xFreeBytesRemaining = 0 /\ xMinimumEverFreeBytesRemaining = 0
-----------------------------------------------------------------------------
(* Addresses and sizes.                                                    *)

\* Rounding to the alignment.
LEMMA AlignFacts ==
    ASSUME NEW n \in Nat
    PROVE  /\ AlignDown(n) \in Nat /\ AlignDown(n) % 8 = 0 /\ AlignDown(n) <= n /\ n - 7 <= AlignDown(n)
           /\ AlignUp(n) \in Nat /\ AlignUp(n) % 8 = 0 /\ n <= AlignUp(n) /\ AlignUp(n) <= n + 7
  BY DEF AlignDown, AlignUp, portBYTE_ALIGNMENT

\* The limits of the heap.
LEMMA HeapLimits ==
    ASSUME HeapAssumption
    PROVE  /\ HeapStart \in Nat /\ HeapStart % 8 = 0
           /\ pxEnd \in Nat /\ pxEnd % 8 = 0
           /\ HeapStart + 16 <= pxEnd
           /\ Good(Whole) /\ End(Whole) = pxEnd
  <1>1. ucHeap \in Nat /\ configTOTAL_HEAP_SIZE \in Nat /\ Whole.size >= 16
    BY DEF HeapAssumption, heapMINIMUM_BLOCK_SIZE, xHeapStructSize
  <1>2. HeapStart \in Nat /\ HeapStart % 8 = 0
    BY <1>1, AlignFacts DEF HeapStart
  <1>3. pxEnd \in Int /\ pxEnd % 8 = 0
    BY <1>1 DEF pxEnd, AlignDown, portBYTE_ALIGNMENT, xHeapStructSize
  <1>4. pxEnd - HeapStart >= 16
    BY <1>1 DEF Whole
  <1>5. pxEnd \in Nat /\ HeapStart + 16 <= pxEnd /\ (pxEnd - HeapStart) % 8 = 0 /\ pxEnd - HeapStart \in Nat
    BY <1>2, <1>3, <1>4
  <1> HIDE DEF HeapStart, pxEnd
  <1>6. Good(Whole) /\ End(Whole) = pxEnd
    BY <1>2, <1>5 DEF Good, Whole, Block, End
  <1> QED
    BY <1>2, <1>3, <1>5, <1>6

\* The size of the block for a request is 0 or that of a good block.
LEMMA SizeFacts ==
    ASSUME NEW n \in Nat
    PROVE  /\ BlockSizeFor(n) \in Nat /\ BlockSizeFor(n) % 8 = 0
           /\ BlockSizeFor(n) > 0 => BlockSizeFor(n) >= 16
  <1>1. CASE n = 0
    BY <1>1 DEF BlockSizeFor
  <1>2. CASE n # 0
    <2>1. n + 8 \in Nat /\ n + 8 >= 9
      BY <1>2
    <2>2. AlignUp(n + 8) \in Nat /\ AlignUp(n + 8) % 8 = 0 /\ n + 8 <= AlignUp(n + 8)
      BY <2>1, AlignFacts
    <2>3. BlockSizeFor(n) = AlignUp(n + 8)
      BY <1>2 DEF BlockSizeFor, xHeapStructSize
    <2> HIDE DEF AlignUp
    <2> QED
      BY <2>1, <2>2, <2>3
  <1> QED
    BY <1>1, <1>2

\* What Good says about the numbers in a block.
LEMMA GoodFacts ==
    ASSUME HeapAssumption, NEW b, Good(b)
    PROVE  /\ b \in Block /\ b.addr \in Nat /\ b.size \in Nat /\ b.size >= 16
           /\ End(b) = b.addr + b.size /\ End(b) \in Nat /\ b.addr < End(b)
           /\ \A x : Holds(b, x) <=> b.addr <= x /\ x < b.addr + b.size
           /\ \A x \in Int : Holds(b, x) => x \in Memory
  BY HeapLimits DEF Good, Block, End, Holds, Memory

\* Blocks that share no byte are apart.
LEMMA DisjointApart ==
    ASSUME HeapAssumption, NEW b, NEW c, Good(b), Good(c), \A x \in Nat : ~(Holds(b, x) /\ Holds(c, x))
    PROVE  Apart(b, c)
  <1> DEFINE x == IF b.addr < c.addr THEN c.addr ELSE b.addr
  <1>1. b.addr \in Nat /\ c.addr \in Nat /\ End(b) \in Nat /\ End(c) \in Nat
        /\ b.addr < End(b) /\ c.addr < End(c) /\ x \in Nat
    BY GoodFacts
  <1>2. ~(Holds(b, x) /\ Holds(c, x))
    BY <1>1
  <1> QED
    BY <1>1, <1>2 DEF Apart, Holds
-----------------------------------------------------------------------------
(* The free list.                                                          *)

\* prvInsertBlockIntoFreeList finds a place.
LEMMA InsertPoint ==
    ASSUME HeapAssumption, NEW list, GoodList(list), NEW b, Good(b)
    PROVE  \E k \in 0 .. Len(list) : /\ k = Len(list) \/ list[k + 1].addr >= b.addr
                                     /\ \A j \in 1 .. k : list[j].addr < b.addr
  <1> DEFINE T == {k \in 0 .. Len(list) : k = Len(list) \/ list[k + 1].addr >= b.addr}
  <1>1. Len(list) \in Nat /\ \A j \in 1 .. Len(list) : list[j].addr \in Nat
    BY DEF GoodList, Good, Block
  <1>2. b.addr \in Nat
    BY GoodFacts
  <1>3. T \in SUBSET Nat /\ Len(list) \in T
    BY <1>1
  <1>4. PICK k \in T : \A y \in T : k <= y
    BY <1>3, LeastElement
  <1>5. ASSUME NEW j \in 1 .. k PROVE list[j].addr < b.addr
    <2>1. j - 1 \in 0 .. Len(list) /\ j - 1 # Len(list) /\ j \in 1 .. Len(list) /\ (j - 1) + 1 = j
      BY <1>1
    <2>2. j - 1 \notin T
      <3>1. k \in Nat /\ j \in Nat /\ ~(k <= j - 1)
        BY <1>1
      <3> QED
        BY <1>4, <3>1
    <2> QED
      BY <1>1, <1>2, <2>1, <2>2
  <1> QED
    BY <1>5

\* The block is inserted and merged with the blocks it touches: the list stays in
\* order with no two neighbours touching, and holds exactly the block's bytes more.
LEMMA InsertResult ==
    ASSUME HeapAssumption, NEW list, GoodList(list), NEW b, Good(b),
           \A i \in 1 .. Len(list) : Apart(b, list[i])
    PROVE  LET r == prvInsertBlockIntoFreeList(list, b)
           IN  /\ GoodList(r)
               /\ \A x \in Nat : InList(r, x) <=> InList(list, x) \/ Holds(b, x)
  <1> DEFINE i == CHOOSE k \in 0 .. Len(list) :
                     /\ k = Len(list) \/ list[k + 1].addr >= b.addr
                     /\ \A j \in 1 .. k : list[j].addr < b.addr
             left  == i > 0 /\ End(list[i]) = b.addr
             m     == IF left THEN [list[i] EXCEPT !.size = @ + b.size] ELSE b
             right == i < Len(list) /\ End(m) = list[i + 1].addr
             c     == IF right THEN [m EXCEPT !.size = @ + list[i + 1].size] ELSE m
             p     == IF left THEN i - 1 ELSE i
             n     == IF right THEN i + 2 ELSE i + 1
             r     == Splice(list, p, c, n)
             N     == Len(list)
  <1>1. /\ i \in 0 .. Len(list)
        /\ i = Len(list) \/ list[i + 1].addr >= b.addr
        /\ \A j \in 1 .. i : list[j].addr < b.addr
    BY InsertPoint
  <1>2. prvInsertBlockIntoFreeList(list, b) = r
    BY DEF prvInsertBlockIntoFreeList, Splice
  <1>3. /\ N \in Nat
        /\ \A j \in 1 .. N : /\ list[j].addr \in Nat /\ list[j].size \in Nat /\ list[j].size >= 16
                             /\ End(list[j]) = list[j].addr + list[j].size
                             /\ list[j].addr % 8 = 0 /\ list[j].size % 8 = 0
                             /\ HeapStart <= list[j].addr /\ End(list[j]) <= pxEnd
                             /\ list[j] \in Block
        /\ \A j, k \in 1 .. N : j < k => End(list[j]) < list[k].addr
    BY DEF GoodList, Good, Block, End
  <1>4. /\ b.addr \in Nat /\ b.size \in Nat /\ b.size >= 16 /\ End(b) = b.addr + b.size
        /\ b.addr % 8 = 0 /\ b.size % 8 = 0 /\ HeapStart <= b.addr /\ End(b) <= pxEnd /\ b \in Block
    BY DEF Good, Block, End
  <1>5. HeapStart \in Nat /\ pxEnd \in Nat
    BY HeapLimits
  <1> HIDE DEF i, N
  <1>6. \A j \in 1 .. i : End(list[j]) <= b.addr
    BY <1>1, <1>3, <1>4, SMTT(30) DEF Apart, N
  <1>7. \A j \in i + 1 .. N : End(b) <= list[j].addr
    <2> TAKE j \in i + 1 .. N
    <2>1. i \in 0 .. N /\ i # N /\ i + 1 \in 1 .. N /\ j \in 1 .. N
      BY <1>1, <1>3 DEF N
    <2>2. b.addr <= list[j].addr
      <3>1. list[i + 1].addr >= b.addr
        BY <1>1, <2>1 DEF N
      <3>2. CASE j = i + 1
        BY <3>1, <3>2, <1>3, <1>4, <2>1
      <3>3. CASE j # i + 1
        <4> DEFINE a == list[i + 1].addr
                   z == list[i + 1].size
                   e == list[j].addr
        <4>1. End(list[i + 1]) < e
          BY <3>3, <1>3, <2>1
        <4>2. a \in Nat /\ z \in Nat /\ e \in Nat /\ End(list[i + 1]) = a + z
          BY <1>3, <2>1
        <4>3. b.addr \in Nat /\ b.addr <= a /\ a + z < e
          BY <3>1, <4>1, <4>2, <1>4
        <4> HIDE DEF a, z, e
        <4>4. b.addr <= e
          BY <4>2, <4>3
        <4> QED
          BY <4>4 DEF e
      <3> QED
        BY <3>2, <3>3
    <2>3. Apart(b, list[j])
      BY <2>1 DEF N
    <2>4. list[j].addr \in Nat /\ list[j].size \in Nat /\ list[j].size >= 16
          /\ End(list[j]) = list[j].addr + list[j].size
      BY <1>3, <2>1
    <2> QED
      BY <1>4, <2>2, <2>3, <2>4 DEF Apart
  <1>8. /\ m \in Block /\ m.addr = (IF left THEN list[i].addr ELSE b.addr)
        /\ End(m) = End(b)
    <2>1. CASE left
      <3>1. i \in 1 .. N /\ End(list[i]) = b.addr
        BY <2>1, <1>1, <1>3 DEF N
      <3> DEFINE a == list[i].addr
                 z == list[i].size
      <3>2. a \in Nat /\ z \in Nat /\ a + z = b.addr /\ list[i] \in Block
        BY <1>3, <3>1
      <3>3. m = [list[i] EXCEPT !.size = @ + b.size]
        BY <2>1
      <3> HIDE DEF m, left
      <3>4. m = [addr |-> a, size |-> z + b.size]
        BY <3>2, <3>3 DEF Block
      <3> HIDE DEF a, z
      <3>5. m \in Block /\ m.addr = a /\ End(m) = a + (z + b.size)
        BY <3>2, <3>4, <1>4 DEF Block, End
      <3>6. a + (z + b.size) = End(b)
        BY <3>2, <1>4, SMTT(30)
      <3> QED
        BY <2>1, <3>5, <3>6 DEF a
    <2>2. CASE ~left
      BY <2>2, <1>4
    <2> QED
      BY <2>1, <2>2
  <1>9. /\ c \in Block /\ c.addr = (IF left THEN list[i].addr ELSE b.addr)
        /\ End(c) = (IF right THEN End(list[i + 1]) ELSE End(b))
    <2>1. CASE right
      <3>1. i + 1 \in 1 .. N
        BY <2>1, <1>1, <1>3 DEF N
      <3>2. c = [m EXCEPT !.size = @ + list[i + 1].size] /\ End(m) = list[i + 1].addr
        BY <2>1
      <3> DEFINE z == list[i + 1].size
                 a == IF left THEN list[i].addr ELSE b.addr
      <3> HIDE DEF m, c, left, right
      <3>3. m \in Block /\ m.addr = a /\ m.addr + m.size = End(b)
        BY <1>8 DEF End
      <3>4. z \in Nat /\ End(b) + z = End(list[i + 1])
        BY <3>1, <3>2, <1>3, <1>8
      <3>5. c = [addr |-> m.addr, size |-> m.size + z]
        BY <3>2, <3>3 DEF Block
      <3> HIDE DEF a, z
      <3>6. c \in Block /\ c.addr = m.addr /\ End(c) = m.addr + (m.size + z)
        BY <3>3, <3>4, <3>5 DEF Block, End
      <3>7. End(c) = End(b) + z
        BY <3>3, <3>4, <3>6 DEF Block
      <3> QED
        BY <2>1, <3>3, <3>4, <3>6, <3>7 DEF a
    <2>2. CASE ~right
      BY <2>2, <1>8
    <2> QED
      BY <2>1, <2>2
  <1>10. /\ left <=> i > 0 /\ End(list[i]) = b.addr
         /\ right <=> i < N /\ End(b) = list[i + 1].addr
         /\ i \in 0 .. N /\ i \in Nat
    BY <1>1, <1>3, <1>8 DEF N
  <1> HIDE DEF m, c, left, right
  <1>11. p \in 0 .. N /\ n \in p + 1 .. N + 1
    BY <1>3, <1>10
  <1>12. /\ r \in Seq(Block) /\ Len(r) = p + 1 + (N - n + 1)
         /\ \A k \in 1 .. Len(r) :
               r[k] = IF k <= p THEN list[k] ELSE IF k = p + 1 THEN c ELSE list[k - p - 2 + n]
    <2>1. list \in Seq(Block) /\ c \in Block /\ N = Len(list)
      BY <1>9 DEF GoodList, N
    <2>2. p \in 0 .. Len(list) /\ n \in p + 1 .. Len(list) + 1
      BY <1>11, <2>1
    <2> HIDE DEF p, n
    <2>3. /\ r \in Seq(Block) /\ Len(r) = p + 1 + (Len(list) - n + 1)
          /\ \A k \in 1 .. Len(r) :
               r[k] = IF k <= p THEN list[k] ELSE IF k = p + 1 THEN c ELSE list[k - p - 2 + n]
      BY <2>1, <2>2, SpliceFacts
    <2> HIDE DEF r
    <2> QED
      BY <2>1, <2>3, Zenon
  <1>13. p = (IF left THEN i - 1 ELSE i) /\ n = IF right THEN i + 2 ELSE i + 1
    OBVIOUS
  <1> HIDE DEF r, p, n
  <1>14. c.addr \in Nat /\ c.size \in Nat /\ End(c) = c.addr + c.size /\ c.addr <= b.addr /\ End(b) <= End(c)
    <2>1. c.addr \in Nat /\ c.size \in Nat /\ End(c) = c.addr + c.size
      BY <1>9 DEF Block, End
    <2>2. c.addr <= b.addr
      BY <1>1, <1>3, <1>4, <1>9, <1>10
    <2>3. End(b) <= End(c)
      <3>1. CASE right
        <4>1. i + 1 \in 1 .. N /\ End(b) = list[i + 1].addr
          BY <1>3, <1>10, <3>1
        <4>2. list[i + 1].addr <= End(list[i + 1])
          BY <4>1, <1>3
        <4> QED
          BY <4>1, <4>2, <3>1, <1>9
      <3>2. CASE ~right
        <4>1. End(c) = End(b) /\ End(b) \in Nat
          BY <3>2, <1>4, <1>9
        <4> QED
          BY <4>1
      <3> QED
        BY <3>1, <3>2
    <2> QED
      BY <2>1, <2>2, <2>3
  <1>15. Good(c)
    <2>1. c.addr % 8 = 0 /\ HeapStart <= c.addr
      BY <1>3, <1>4, <1>9, <1>10
    <2>2. \A a, z \in Nat : a % 8 = 0 /\ z % 8 = 0 => (a + z) % 8 = 0
      OBVIOUS
    <2>3. End(c) % 8 = 0 /\ End(c) <= pxEnd
      <3>1. CASE right
        <4>1. i + 1 \in 1 .. N /\ End(c) = End(list[i + 1])
          BY <1>3, <1>9, <1>10, <3>1
        <4>2. End(list[i + 1]) % 8 = 0 /\ End(list[i + 1]) <= pxEnd
          BY <4>1, <1>3, <2>2
        <4> QED
          BY <4>1, <4>2
      <3>2. CASE ~right
        <4>1. End(b) % 8 = 0 /\ End(b) <= pxEnd
          BY <1>4, <2>2
        <4> QED
          BY <4>1, <3>2, <1>9
      <3> QED
        BY <3>1, <3>2
    <2>4. \A a, z \in Nat : a % 8 = 0 /\ (a + z) % 8 = 0 => z % 8 = 0
      OBVIOUS
    <2>5. c.size % 8 = 0
      BY <1>14, <2>1, <2>3, <2>4
    <2>6. c.size >= 16
      <3> DEFINE u == c.addr
                 v == c.size
                 y == End(c)
      <3>1. /\ u \in Nat /\ v \in Nat /\ y = u + v /\ u <= b.addr /\ End(b) <= y
            /\ b.addr \in Nat /\ b.size \in Nat /\ b.size >= 16 /\ End(b) = b.addr + b.size
        BY <1>4, <1>14
      <3> HIDE DEF u, v, y
      <3>2. v >= 16
        BY <3>1
      <3> QED
        BY <3>2 DEF v
    <2> QED
      BY <1>9, <2>1, <2>3, <2>5, <2>6 DEF Good
  <1>16. \A k \in 1 .. p : End(list[k]) < c.addr
    <2> TAKE k \in 1 .. p
    <2>1. k \in 1 .. N /\ k \in 1 .. i /\ k \in Nat
      BY <1>10, <1>13, <1>3
    <2>2. CASE left
      <3>1. i \in 1 .. N /\ k < i
        BY <1>10, <1>13, <2>2, <1>3
      <3> QED
        BY <1>3, <1>9, <2>1, <2>2, <3>1
    <2>3. CASE ~left
      <3>1. c.addr = b.addr
        BY <1>9, <2>3
      <3>2. CASE k = i
        <4>1. End(list[k]) <= b.addr /\ End(list[k]) # b.addr
          BY <1>6, <1>10, <2>1, <2>3, <3>2
        <4>2. End(list[k]) \in Nat /\ b.addr \in Nat
          BY <1>3, <1>4, <2>1
        <4> QED
          BY <4>1, <4>2, <3>1
      <3>3. CASE k # i
        <4>1. i \in 1 .. N /\ k < i /\ i \in 1 .. i
          BY <3>3, <2>1, <1>10
        <4>2. End(list[k]) < list[i].addr /\ list[i].addr < b.addr
          BY <4>1, <1>1, <1>3, <2>1
        <4>3. End(list[k]) \in Nat /\ list[i].addr \in Nat /\ b.addr \in Nat
          <5>1. End(list[k]) \in Nat
            BY <1>3, <2>1
          <5>2. list[i].addr \in Nat
            BY <1>3, <4>1
          <5> QED
            BY <5>1, <5>2, <1>4
        <4> QED
          BY <4>2, <4>3, <3>1
      <3> QED
        BY <3>2, <3>3
    <2> QED
      BY <2>2, <2>3
  <1>17. \A j \in n .. N : End(c) < list[j].addr
    <2> TAKE j \in n .. N
    <2>1. j \in 1 .. N /\ j \in i + 1 .. N /\ j \in Nat
      BY <1>10, <1>13, <1>3
    <2>2. CASE right
      <3>1. i + 1 \in 1 .. N /\ i + 1 < j
        BY <1>10, <1>13, <2>1, <2>2, <1>3
      <3> QED
        BY <1>3, <1>9, <2>1, <2>2, <3>1
    <2>3. CASE ~right
      <3>1. End(c) = End(b)
        BY <1>9, <2>3
      <3>2. CASE j = i + 1
        <4>1. End(b) <= list[j].addr
          BY <1>7, <2>1
        <4>2. i < N
          BY <2>1, <3>2, <1>3, <1>10
        <4>3. End(b) # list[j].addr
          BY <4>2, <1>10, <2>3, <3>2
        <4>4. End(b) \in Nat /\ list[j].addr \in Nat
          BY <1>3, <1>4, <2>1
        <4> QED
          BY <4>1, <4>3, <4>4, <3>1
      <3>3. CASE j # i + 1
        <4>1. i + 1 \in 1 .. N /\ i + 1 < j /\ i + 1 \in i + 1 .. N
          BY <3>3, <2>1, <1>10, <1>3
        <4>2. End(b) <= list[i + 1].addr /\ End(list[i + 1]) < list[j].addr
          BY <4>1, <1>3, <1>7, <2>1
        <4>3. /\ End(b) \in Nat /\ list[i + 1].addr \in Nat /\ End(list[i + 1]) \in Nat
              /\ list[i + 1].addr <= End(list[i + 1]) /\ list[j].addr \in Nat
          <5>1. list[j].addr \in Nat
            BY <1>3, <2>1
          <5>2. /\ list[i + 1].addr \in Nat /\ End(list[i + 1]) \in Nat
                /\ list[i + 1].addr <= End(list[i + 1])
            BY <1>3, <4>1
          <5>3. End(b) \in Nat
            BY <1>4
          <5> QED
            BY <5>1, <5>2, <5>3
        <4> QED
          BY <4>2, <4>3, <3>1
      <3> QED
        BY <3>2, <3>3
    <2> QED
      BY <2>2, <2>3
  <1> DEFINE old(k) == IF k <= p THEN k ELSE k - p - 2 + n
  <1>18. /\ \A k \in 1 .. Len(r) : k # p + 1 => old(k) \in 1 .. N /\ r[k] = list[old(k)]
         /\ r[p + 1] = c /\ p + 1 \in 1 .. Len(r) /\ Len(r) \in Nat /\ p \in Nat /\ n \in Nat
         /\ \A k \in 1 .. Len(r) : k > p + 1 => old(k) \in n .. N
    BY <1>3, <1>11, <1>12
  <1>19. GoodList(r)
    <2>1. \A k \in 1 .. Len(r) : Good(r[k])
      <3> TAKE k \in 1 .. Len(r)
      <3>1. CASE k = p + 1
        BY <3>1, <1>15, <1>18
      <3>2. CASE k # p + 1
        <4>1. old(k) \in 1 .. N /\ r[k] = list[old(k)]
          BY <3>2, <1>18
        <4> HIDE DEF old
        <4> QED
          BY <4>1 DEF GoodList, N
      <3> QED
        BY <3>1, <3>2
    <2>2. \A j, k \in 1 .. Len(r) : j < k => End(r[j]) < r[k].addr
      <3> SUFFICES ASSUME NEW j \in 1 .. Len(r), NEW k \in 1 .. Len(r), j < k
                   PROVE  End(r[j]) < r[k].addr
        OBVIOUS
      <3>1. CASE k = p + 1
        <4>1. j \in 1 .. p /\ r[j] = list[j] /\ r[k] = c
          BY <3>1, <1>12, <1>18
        <4> QED
          BY <4>1, <1>16
      <3>2. CASE j = p + 1
        <4>1. old(k) \in n .. N /\ r[k] = list[old(k)] /\ r[j] = c
          BY <3>2, <1>18
        <4> HIDE DEF old
        <4> QED
          BY <4>1, <1>17
      <3>3. CASE j # p + 1 /\ k # p + 1
        <4>1. old(j) \in 1 .. N /\ r[j] = list[old(j)] /\ old(k) \in 1 .. N /\ r[k] = list[old(k)]
          BY <3>3, <1>18
        <4>2. old(j) < old(k)
          BY <3>3, <1>11, <1>18
        <4> HIDE DEF old
        <4> QED
          BY <4>1, <4>2, <1>3
      <3> QED
        BY <3>1, <3>2, <3>3
    <2> QED
      BY <2>1, <2>2, <1>12 DEF GoodList
  <1>20. \A x \in Nat : InList(r, x) <=> InList(list, x) \/ Holds(b, x)
    <2> TAKE x \in Nat
    <2>1. ASSUME InList(list, x) \/ Holds(b, x) PROVE InList(r, x)
      <3>1. CASE Holds(b, x)
        <4>1. Holds(c, x)
          BY <3>1, <1>4, <1>14 DEF Holds
        <4> QED
          BY <4>1, <1>18 DEF InList
      <3>2. CASE InList(list, x)
        <4> PICK j \in 1 .. N : Holds(list[j], x)
          BY <3>2 DEF InList, N
        <4>1. CASE j <= p
          <5>1. j \in 1 .. Len(r) /\ r[j] = list[j]
            BY <4>1, <1>12, <1>18
          <5> QED
            BY <5>1 DEF InList
        <4>2. CASE j >= n
          <5> DEFINE k == j + p + 2 - n
          <5>1. k \in 1 .. Len(r) /\ k # p + 1 /\ ~(k <= p) /\ k - p - 2 + n = j
            <6>1. /\ Len(r) = p + 1 + (N - n + 1) /\ p \in Nat /\ n \in Nat /\ N \in Nat
                  /\ j \in Nat /\ j <= N /\ p + 1 <= n /\ 1 <= j /\ Len(r) \in Nat
              BY <1>3, <1>11, <1>12, <1>18
            <6> QED
              BY <6>1, <4>2
          <5>2. r[k] = list[j]
            BY <5>1, <1>12
          <5> QED
            BY <5>1, <5>2 DEF InList
        <4>3. CASE p < j /\ j < n
          <5>1. Holds(c, x)
            <6>1. (j = i /\ left) \/ (j = i + 1 /\ right)
              BY <4>3, <1>10, <1>13
            <6>2. CASE j = i /\ left
              BY <6>2, <1>3, <1>4, <1>9, <1>10, <1>14 DEF Holds
            <6>3. CASE j = i + 1 /\ right
              BY <6>3, <1>3, <1>4, <1>9, <1>10, <1>14, SMTT(30) DEF Holds
            <6> QED
              BY <6>1, <6>2, <6>3
          <5> QED
            BY <5>1, <1>18 DEF InList
        <4> QED
          BY <4>1, <4>2, <4>3, <1>11, <1>18
      <3> QED
        BY <2>1, <3>1, <3>2
    <2>2. ASSUME InList(r, x) PROVE InList(list, x) \/ Holds(b, x)
      <3> PICK k \in 1 .. Len(r) : Holds(r[k], x)
        BY <2>2 DEF InList
      <3>1. CASE k # p + 1
        <4>1. old(k) \in 1 .. N /\ Holds(list[old(k)], x)
          BY <3>1, <1>18
        <4> HIDE DEF old
        <4> QED
          BY <4>1 DEF InList, N
      <3>2. CASE k = p + 1
        <4>1. c.addr <= x /\ x < End(c)
          BY <3>2, <1>18 DEF Holds
        <4>2. CASE x < b.addr
          <5>1. left /\ i \in 1 .. N /\ c.addr = list[i].addr /\ End(list[i]) = b.addr
            BY <4>1, <4>2, <1>3, <1>4, <1>9, <1>10
          <5>2. Holds(list[i], x)
            BY <4>1, <4>2, <5>1 DEF Holds
          <5> QED
            BY <5>1, <5>2 DEF InList, N
        <4>3. CASE End(b) <= x
          <5>1. right /\ i + 1 \in 1 .. N /\ End(c) = End(list[i + 1]) /\ list[i + 1].addr = End(b)
            BY <4>1, <4>3, <1>3, <1>4, <1>9, <1>10
          <5>2. Holds(list[i + 1], x)
            BY <4>1, <4>3, <5>1 DEF Holds
          <5> QED
            BY <5>1, <5>2 DEF InList, N
        <4>4. CASE b.addr <= x /\ x < End(b)
          BY <4>4 DEF Holds
        <4> QED
          BY <4>2, <4>3, <4>4, <1>4
      <3> QED
        BY <3>1, <3>2
    <2> QED
      BY <2>1, <2>2
  <1> QED
    BY <1>2, <1>19, <1>20
-----------------------------------------------------------------------------
(* The heap as a whole.                                                    *)

\* Blocks are apart when they share no byte.
LEMMA ApartBytes ==
    ASSUME HeapAssumption, NEW b, NEW c, Good(b), Good(c)
    PROVE  Apart(b, c) <=> \A x \in Nat : ~(Holds(b, x) /\ Holds(c, x))
  <1>1. ASSUME Apart(b, c), NEW x \in Nat, Holds(b, x), Holds(c, x) PROVE FALSE
    <2>1. b.addr \in Nat /\ c.addr \in Nat /\ End(b) \in Nat /\ End(c) \in Nat
      BY GoodFacts
    <2> QED
      BY <1>1, <2>1 DEF Apart, Holds
  <1> QED
    BY <1>1, DisjointApart

\* A block is apart from those of a list when it has none of their bytes.
LEMMA ListApart ==
    ASSUME HeapAssumption, NEW list, GoodList(list), NEW b, Good(b)
    PROVE  (\A i \in 1 .. Len(list) : Apart(b, list[i]))
              <=> \A x \in Nat : ~(InList(list, x) /\ Holds(b, x))
  <1>1. \A i \in 1 .. Len(list) : Good(list[i])
    BY DEF GoodList
  <1>2. \A i \in 1 .. Len(list) : Apart(b, list[i]) <=> \A x \in Nat : ~(Holds(b, x) /\ Holds(list[i], x))
    BY <1>1, ApartBytes
  <1> QED
    BY <1>2 DEF InList

\* A list with the bytes of a block more has that many bytes more.
LEMMA BytesFacts ==
    ASSUME HeapAssumption, NEW list, NEW r, NEW b, Good(b),
           \A x \in Nat : InList(r, x) <=> InList(list, x) \/ Holds(b, x),
           \A x \in Nat : ~(InList(list, x) /\ Holds(b, x))
    PROVE  /\ Cardinality(BytesOf(list)) \in Nat
           /\ Cardinality(BytesOf(r)) = Cardinality(BytesOf(list)) + b.size
  <1> DEFINE B == b.addr .. (b.addr + b.size - 1)
  <1>1. HeapStart \in Nat /\ pxEnd \in Nat
    BY HeapLimits
  <1>2. IsFiniteSet(Memory)
    BY <1>1, FS_Interval DEF Memory
  <1>3. IsFiniteSet(BytesOf(list))
    BY <1>2, FS_Subset DEF BytesOf
  <1>4. b.addr \in Nat /\ b.size \in Nat /\ b.size >= 16 /\ \A x : Holds(b, x) <=> b.addr <= x /\ x < b.addr + b.size
    BY GoodFacts
  <1>5. IsFiniteSet(B) /\ Cardinality(B) = b.size
    <2>1. b.addr \in Int /\ b.addr + b.size - 1 \in Int /\ ~(b.addr > b.addr + b.size - 1)
          /\ (b.addr + b.size - 1) - b.addr + 1 = b.size
      BY <1>4
    <2> QED
      BY <2>1, FS_Interval
  <1>6. \A x : x \in B <=> x \in Nat /\ Holds(b, x)
    BY <1>4
  <1>7. Memory \subseteq Nat /\ \A x \in Nat : Holds(b, x) => x \in Memory
    <2>1. HeapStart <= b.addr /\ b.addr + b.size <= pxEnd
      BY <1>4 DEF Good, End
    <2> QED
      BY <1>1, <1>4, <2>1 DEF Memory
  <1> HIDE DEF B
  <1>8. BytesOf(r) = BytesOf(list) \cup B /\ BytesOf(list) \cap B = {}
    BY <1>6, <1>7 DEF BytesOf
  <1>9. Cardinality(BytesOf(list) \cup B)
          = Cardinality(BytesOf(list)) + Cardinality(B) - Cardinality({})
    BY <1>3, <1>5, <1>8, FS_Union
  <1>10. Cardinality({}) = 0 /\ Cardinality(BytesOf(list)) \in Nat
    BY <1>3, FS_EmptySet, FS_CardinalityType
  <1> QED
    BY <1>4, <1>5, <1>8, <1>9, <1>10

\* prvHeapInit: one free block.
LEMMA CoreWhole ==
    ASSUME HeapAssumption
    PROVE  Core(<<Whole>>, {}, Whole.size, Whole.size)
  <1> DEFINE l == <<Whole>>
  <1>1. Good(Whole) /\ Whole \in Block
    BY HeapLimits DEF Good
  <1>2. l \in Seq(Block) /\ Len(l) = 1 /\ l[1] = Whole
    BY <1>1
  <1> HIDE DEF l
  <1>3. GoodList(l)
    BY <1>1, <1>2 DEF GoodList
  <1>4. /\ HeapStart \in Nat /\ pxEnd \in Nat /\ HeapStart + 16 <= pxEnd
        /\ Whole.addr = HeapStart /\ Whole.size = pxEnd - HeapStart /\ End(Whole) = pxEnd
    BY HeapLimits DEF Whole
  <1>5. \A x \in Memory : InList(l, x)
    <2>1. \A x \in Memory : Holds(Whole, x)
      BY <1>4 DEF Memory, Holds
    <2> QED
      BY <2>1, <1>2 DEF InList
  <1>6. BytesOf(l) = Memory
    BY <1>5 DEF BytesOf
  <1>7. Cardinality(Memory) = pxEnd - HeapStart
    <2>1. HeapStart \in Int /\ pxEnd - 1 \in Int /\ ~(HeapStart > pxEnd - 1)
          /\ (pxEnd - 1) - HeapStart + 1 = pxEnd - HeapStart
      BY <1>4
    <2> QED
      BY <2>1, FS_Interval DEF Memory
  <1>8. Whole.size \in Int /\ Whole.size <= Whole.size
    BY <1>4
  <1>9. Core(l, {}, Whole.size, Whole.size)
    BY <1>3, <1>4, <1>5, <1>6, <1>7, <1>8 DEF Core
  <1> QED
    BY <1>9 DEF l

\* The insertion at the end of vPortFree.
LEMMA CoreFree ==
    ASSUME HeapAssumption, NEW list, NEW tk, NEW free, NEW min, Core(list, tk, free, min), NEW b \in tk
    PROVE  Core(prvInsertBlockIntoFreeList(list, b), tk \ {b}, free + b.size, min)
  <1> DEFINE r == prvInsertBlockIntoFreeList(list, b)
  <1>1. /\ GoodList(list) /\ Good(b) /\ \A d \in tk : Good(d)
        /\ \A i \in 1 .. Len(list) : Apart(b, list[i])
        /\ \A d, e \in tk : d # e => Apart(d, e)
    BY DEF Core
  <1>2. GoodList(r) /\ \A x \in Nat : InList(r, x) <=> InList(list, x) \/ Holds(b, x)
    BY <1>1, InsertResult
  <1> HIDE DEF r
  <1>3. \A x \in Nat : ~(InList(list, x) /\ Holds(b, x))
    BY <1>1, ListApart
  <1>4. Cardinality(BytesOf(list)) \in Nat /\ Cardinality(BytesOf(r)) = Cardinality(BytesOf(list)) + b.size
    BY <1>1, <1>2, <1>3, BytesFacts
  <1>5. ASSUME NEW d \in tk \ {b} PROVE \A i \in 1 .. Len(r) : Apart(d, r[i])
    <2>1. \A x \in Nat : ~(InList(list, x) /\ Holds(d, x))
      <3>1. \A i \in 1 .. Len(list) : Apart(d, list[i])
        BY DEF Core
      <3> QED
        BY <3>1, <1>1, ListApart
    <2>2. \A x \in Nat : ~(Holds(b, x) /\ Holds(d, x))
      BY <1>1, ApartBytes
    <2> QED
      BY <1>1, <1>2, <2>1, <2>2, ListApart
  <1>6. ASSUME NEW x \in Memory PROVE InList(r, x) \/ \E d \in tk \ {b} : Holds(d, x)
    <2>1. x \in Nat
      BY HeapLimits DEF Memory
    <2> QED
      BY <2>1, <1>2 DEF Core
  <1>7. free + b.size = Cardinality(BytesOf(r)) /\ min \in Int /\ min <= free + b.size
    <2>1. free = Cardinality(BytesOf(list)) /\ min \in Int /\ min <= free
      BY DEF Core
    <2>2. b.size \in Nat
      BY <1>1, GoodFacts
    <2> QED
      BY <2>1, <2>2, <1>4
  <1>8. Core(r, tk \ {b}, free + b.size, min)
    BY <1>1, <1>2, <1>5, <1>6, <1>7 DEF Core
  <1> QED
    BY <1>8 DEF r

\* A block carved out of the free list.
LEMMA CoreCarve ==
    ASSUME HeapAssumption, NEW list, NEW tk, NEW free, NEW min, Core(list, tk, free, min),
           NEW r, GoodList(r), NEW b, Good(b),
           \A x \in Nat : InList(list, x) <=> InList(r, x) \/ Holds(b, x),
           \A x \in Nat : ~(InList(r, x) /\ Holds(b, x))
    PROVE  /\ Core(r, tk \cup {b}, free - b.size, IF free - b.size < min THEN free - b.size ELSE min)
           /\ b \notin tk
  <1>1. /\ GoodList(list) /\ \A d \in tk : Good(d)
        /\ \A d, e \in tk : d # e => Apart(d, e)
    BY DEF Core
  <1>2. Cardinality(BytesOf(r)) \in Nat /\ Cardinality(BytesOf(list)) = Cardinality(BytesOf(r)) + b.size
    BY BytesFacts
  <1>3. \A d \in tk : \A x \in Nat : ~(InList(list, x) /\ Holds(d, x))
    <2> TAKE d \in tk
    <2>1. \A i \in 1 .. Len(list) : Apart(d, list[i])
      BY DEF Core
    <2> QED
      BY <2>1, <1>1, ListApart
  <1>4. \A d \in tk : Apart(d, b) /\ Apart(b, d) /\ \A i \in 1 .. Len(r) : Apart(d, r[i])
    <2> TAKE d \in tk
    <2>1. \A x \in Nat : ~(Holds(d, x) /\ Holds(b, x))
      BY <1>3
    <2>2. \A x \in Nat : ~(InList(r, x) /\ Holds(d, x))
      BY <1>3
    <2>3. Apart(d, b) /\ Apart(b, d)
      BY <2>1, <1>1, ApartBytes
    <2> QED
      BY <2>2, <2>3, <1>1, ListApart
  <1>5. \A i \in 1 .. Len(r) : Apart(b, r[i])
    BY ListApart
  <1>6. b \notin tk
    <2>1. b.addr \in Nat /\ Holds(b, b.addr)
      <3>1. b.addr \in Nat /\ b.size \in Nat /\ b.size >= 16
            /\ (Holds(b, b.addr) <=> b.addr <= b.addr /\ b.addr < b.addr + b.size)
        BY GoodFacts
      <3> QED
        BY <3>1
    <2> QED
      BY <2>1, <1>3
  <1>7. ASSUME NEW x \in Memory PROVE InList(r, x) \/ \E d \in tk \cup {b} : Holds(d, x)
    <2>1. x \in Nat
      BY HeapLimits DEF Memory
    <2> QED
      BY <2>1 DEF Core
  <1> DEFINE f == free - b.size
             g == IF f < min THEN f ELSE min
  <1>8. f = Cardinality(BytesOf(r)) /\ g \in Int /\ g <= f
    <2>1. free = Cardinality(BytesOf(list)) /\ min \in Int
      BY DEF Core
    <2>2. b.size \in Nat
      BY GoodFacts
    <2> QED
      BY <2>1, <2>2, <1>2
  <1>9. \A d, e \in tk \cup {b} : d # e => Apart(d, e)
    BY <1>1, <1>4
  <1> HIDE DEF f, g
  <1>10. Core(r, tk \cup {b}, f, g)
    BY <1>1, <1>4, <1>5, <1>7, <1>8, <1>9 DEF Core
  <1> QED
    BY <1>6, <1>10 DEF f, g

\* The free list without one of its blocks.
LEMMA RestFacts ==
    ASSUME HeapAssumption, NEW list, GoodList(list), NEW i \in 1 .. Len(list)
    PROVE  /\ GoodList(RemoveAt(list, i))
           /\ \A x \in Nat : InList(list, x) <=> InList(RemoveAt(list, i), x) \/ Holds(list[i], x)
           /\ \A x \in Nat : ~(InList(RemoveAt(list, i), x) /\ Holds(list[i], x))
  <1> DEFINE r == RemoveAt(list, i)
             old(k) == IF k < i THEN k ELSE k + 1
             N == Len(list)
  <1>1. /\ list \in Seq(Block) /\ N \in Nat
        /\ \A j \in 1 .. N : Good(list[j])
        /\ \A j, k \in 1 .. N : j < k => End(list[j]) < list[k].addr
    BY DEF GoodList
  <1>2. /\ r \in Seq(Block) /\ Len(r) = N - 1
        /\ \A k \in 1 .. N - 1 : r[k] = IF k < i THEN list[k] ELSE list[k + 1]
    BY <1>1, RemoveFacts
  <1> HIDE DEF r
  <1>3. \A k \in 1 .. Len(r) : r[k] = list[old(k)] /\ old(k) \in 1 .. N /\ old(k) # i /\ k \in Int
    BY <1>1, <1>2
  <1>4. \A j, k \in 1 .. Len(r) : j < k => old(j) < old(k)
    BY <1>1, <1>2
  <1>5. \A j \in 1 .. N : j # i => \E k \in 1 .. Len(r) : old(k) = j
    <2> SUFFICES ASSUME NEW j \in 1 .. N, j # i PROVE \E k \in 1 .. Len(r) : old(k) = j
      OBVIOUS
    <2>1. CASE j < i
      <3>1. j \in 1 .. Len(r) /\ old(j) = j
        BY <2>1, <1>1, <1>2
      <3> QED
        BY <3>1
    <2>2. CASE j > i
      <3>1. j - 1 \in 1 .. Len(r) /\ old(j - 1) = j
        BY <2>2, <1>1, <1>2
      <3> QED
        BY <3>1
    <2> QED
      BY <2>1, <2>2, <1>1
  <1> HIDE DEF old, N
  <1>6. GoodList(r)
    <2>1. \A k \in 1 .. Len(r) : Good(r[k])
      BY <1>1, <1>3
    <2>2. \A j, k \in 1 .. Len(r) : j < k => End(r[j]) < r[k].addr
      BY <1>1, <1>3, <1>4
    <2> QED
      BY <2>1, <2>2, <1>2 DEF GoodList
  <1>7. \A x \in Nat : InList(list, x) <=> InList(r, x) \/ Holds(list[i], x)
    <2> TAKE x \in Nat
    <2>1. ASSUME InList(list, x), ~Holds(list[i], x) PROVE InList(r, x)
      <3> PICK j \in 1 .. N : Holds(list[j], x)
        BY <2>1 DEF InList, N
      <3> PICK k \in 1 .. Len(r) : old(k) = j
        BY <2>1, <1>5
      <3> QED
        BY <1>3 DEF InList
    <2>2. ASSUME InList(r, x) PROVE InList(list, x)
      BY <2>2, <1>3 DEF InList, N
    <2>3. Holds(list[i], x) => InList(list, x)
      BY DEF InList
    <2> QED
      BY <2>1, <2>2, <2>3
  <1>8. \A x \in Nat : ~(InList(r, x) /\ Holds(list[i], x))
    <2>1. \A k \in 1 .. Len(r) : Apart(list[i], r[k])
      <3> TAKE k \in 1 .. Len(r)
      <3>1. old(k) \in 1 .. N /\ old(k) # i /\ i \in 1 .. N /\ r[k] = list[old(k)]
        BY <1>3 DEF N
      <3>2. old(k) < i \/ i < old(k)
        BY <3>1, <1>1
      <3>3. /\ End(list[old(k)]) \in Nat /\ list[old(k)].addr \in Nat
            /\ End(list[i]) \in Nat /\ list[i].addr \in Nat
        BY <3>1, <1>1, GoodFacts
      <3>4. End(list[old(k)]) < list[i].addr \/ End(list[i]) < list[old(k)].addr
        BY <3>1, <3>2, <1>1
      <3> QED
        BY <3>1, <3>3, <3>4 DEF Apart
    <2>2. Good(list[i])
      BY <1>1 DEF N
    <2> QED
      BY <2>1, <2>2, <1>6, ListApart
  <1> QED
    BY <1>6, <1>7, <1>8 DEF r

\* The search of pvPortMalloc ends at the first block that is large enough.
LEMMA FirstFit ==
    ASSUME NEW list, GoodList(list), NEW w \in Nat, \E i \in 1 .. Len(list) : list[i].size >= w
    PROVE  \E k \in 1 .. Len(list) : Fits(list, w, k)
  <1> DEFINE T == {k \in 1 .. Len(list) : list[k].size >= w}
  <1>1. Len(list) \in Nat /\ \A j \in 1 .. Len(list) : list[j].size \in Nat
    BY DEF GoodList, Good, Block
  <1>2. T \in SUBSET Nat /\ T # {}
    BY <1>1
  <1>3. PICK k \in T : \A y \in T : k <= y
    BY <1>2, LeastElement
  <1>4. ASSUME NEW j \in 1 .. k - 1 PROVE list[j].size < w
    <2>1. j \in 1 .. Len(list) /\ j \in Nat /\ k \in Nat /\ ~(k <= j)
      BY <1>1
    <2>2. j \notin T
      BY <1>3, <2>1
    <2>3. list[j].size \in Nat
      BY <1>1, <2>1
    <2> QED
      BY <2>1, <2>2, <2>3
  <1> QED
    BY <1>4 DEF Fits

\* What pvPortMalloc hands out for a size it finds at place i, and the free list
\* it leaves.
TakenFrom(b, w) == IF Splits(b, w) THEN [b EXCEPT !.size = w] ELSE b

LeftIn(list, i, w) ==
    IF Splits(list[i], w)
    THEN prvInsertBlockIntoFreeList(RemoveAt(list, i), [addr |-> list[i].addr + w, size |-> list[i].size - w])
    ELSE RemoveAt(list, i)

\* Taking a block, whole or split.
LEMMA CoreTake ==
    ASSUME HeapAssumption, NEW list, NEW tk, NEW free, NEW min, Core(list, tk, free, min),
           NEW w \in Nat, w % 8 = 0, w >= 16, NEW i \in 1 .. Len(list), list[i].size >= w
    PROVE  LET b == TakenFrom(list[i], w)
           IN  /\ Core(LeftIn(list, i, w), tk \cup {b}, free - b.size,
                       IF free - b.size < min THEN free - b.size ELSE min)
               /\ b \notin tk /\ Good(b)
  <1> DEFINE b == list[i]
             rest == RemoveAt(list, i)
  <1>1. GoodList(list) /\ Good(b)
    BY DEF Core, GoodList
  <1>2. /\ GoodList(rest)
        /\ \A x \in Nat : InList(list, x) <=> InList(rest, x) \/ Holds(b, x)
        /\ \A x \in Nat : ~(InList(rest, x) /\ Holds(b, x))
    BY <1>1, RestFacts
  <1>3. CASE ~Splits(b, w)
    <2>1. TakenFrom(list[i], w) = b /\ LeftIn(list, i, w) = rest
      BY <1>3 DEF TakenFrom, LeftIn
    <2> HIDE DEF b, rest
    <2>2. /\ Core(rest, tk \cup {b}, free - b.size, IF free - b.size < min THEN free - b.size ELSE min)
          /\ b \notin tk
      BY <1>1, <1>2, CoreCarve
    <2> QED
      BY <1>1, <2>1, <2>2
  <1>4. CASE Splits(b, w)
    <2> DEFINE d == [addr |-> b.addr, size |-> w]
               e == [addr |-> b.addr + w, size |-> b.size - w]
               r == prvInsertBlockIntoFreeList(rest, e)
    <2> HIDE DEF b
    <2>1. /\ b \in Block /\ b.addr \in Nat /\ b.size \in Nat /\ b.addr % 8 = 0 /\ b.size % 8 = 0
          /\ HeapStart <= b.addr /\ b.addr + b.size <= pxEnd /\ b.size - w > 16
          /\ HeapStart \in Nat /\ pxEnd \in Nat
      BY <1>1, <1>4, HeapLimits DEF Good, Block, End, Splits, heapMINIMUM_BLOCK_SIZE, xHeapStructSize
    <2>2. TakenFrom(list[i], w) = d /\ LeftIn(list, i, w) = r
      <3>1. [b EXCEPT !.size = w] = d
        BY <2>1 DEF Block
      <3> QED
        BY <1>4, <3>1 DEF TakenFrom, LeftIn, b
    <2>3. Good(d) /\ Good(e)
      <3>1. /\ b.addr + w \in Nat /\ b.size - w \in Nat /\ (b.addr + w) % 8 = 0 /\ (b.size - w) % 8 = 0
            /\ HeapStart <= b.addr + w /\ b.addr + w <= pxEnd
            /\ (b.addr + w) + (b.size - w) = b.addr + b.size
        <4>1. \A a, z \in Nat : a % 8 = 0 /\ z % 8 = 0 => (a + z) % 8 = 0 /\ (a >= z => (a - z) % 8 = 0)
          OBVIOUS
        <4>2. b.size >= w
          BY <2>1
        <4>3. (b.addr + w) % 8 = 0 /\ (b.size - w) % 8 = 0
          BY <2>1, <4>1, <4>2
        <4>4. /\ b.addr + w \in Nat /\ b.size - w \in Nat
              /\ HeapStart <= b.addr + w /\ b.addr + w <= pxEnd
              /\ (b.addr + w) + (b.size - w) = b.addr + b.size
          <5> DEFINE u == b.addr
                     v == b.size
          <5>1. /\ u \in Nat /\ v \in Nat /\ v >= w /\ HeapStart <= u /\ u + v <= pxEnd
                /\ HeapStart \in Nat /\ pxEnd \in Nat
            BY <2>1, <4>2
          <5> HIDE DEF u, v
          <5>2. /\ u + w \in Nat /\ v - w \in Nat /\ HeapStart <= u + w /\ u + w <= pxEnd
                /\ (u + w) + (v - w) = u + v
            BY <5>1
          <5> QED
            BY <5>2 DEF u, v
        <4> QED
          BY <4>3, <4>4
      <3> QED
        BY <2>1, <3>1 DEF Good, Block, End
    <2>4. \A x \in Nat : /\ Holds(b, x) <=> Holds(d, x) \/ Holds(e, x)
                         /\ ~(Holds(d, x) /\ Holds(e, x))
      BY <2>1, SMTT(30) DEF Holds, End
    <2> HIDE DEF d, e, rest
    <2>5. \A x \in Nat : ~(InList(rest, x) /\ Holds(e, x))
      <3> TAKE x \in Nat
      <3>1. Holds(e, x) => Holds(b, x)
        BY <2>4
      <3>2. ~(InList(rest, x) /\ Holds(b, x))
        BY <1>2
      <3> QED
        BY <3>1, <3>2
    <2>6. \A j \in 1 .. Len(rest) : Apart(e, rest[j])
      BY <1>2, <2>3, <2>5, ListApart
    <2>7. GoodList(r) /\ \A x \in Nat : InList(r, x) <=> InList(rest, x) \/ Holds(e, x)
      BY <1>2, <2>3, <2>6, InsertResult
    <2> HIDE DEF r
    <2>8. /\ \A x \in Nat : InList(list, x) <=> InList(r, x) \/ Holds(d, x)
          /\ \A x \in Nat : ~(InList(r, x) /\ Holds(d, x))
      <3> SUFFICES ASSUME NEW x \in Nat
                   PROVE  /\ InList(list, x) <=> InList(r, x) \/ Holds(d, x)
                          /\ ~(InList(r, x) /\ Holds(d, x))
        OBVIOUS
      <3>1. (Holds(b, x) <=> Holds(d, x) \/ Holds(e, x)) /\ ~(Holds(d, x) /\ Holds(e, x))
        BY <2>4
      <3>2. (InList(list, x) <=> InList(rest, x) \/ Holds(b, x)) /\ ~(InList(rest, x) /\ Holds(b, x))
        BY <1>2
      <3>3. InList(r, x) <=> InList(rest, x) \/ Holds(e, x)
        BY <2>7
      <3> QED
        BY <3>1, <3>2, <3>3
    <2>9. /\ Core(r, tk \cup {d}, free - d.size, IF free - d.size < min THEN free - d.size ELSE min)
          /\ d \notin tk
      BY <2>3, <2>7, <2>8, CoreCarve
    <2> QED
      BY <2>2, <2>3, <2>9
  <1> QED
    BY <1>3, <1>4
-----------------------------------------------------------------------------
(* The invariant is inductive.                                             *)

LEMMA HeapInit ==
    ASSUME HeapAssumption, Init
    PROVE  Inv
  <1>1. Pending = {}
    BY DEF Init, Pending
  <1> QED
    BY <1>1 DEF Init, Inv, Taken, Block, NoBlock

\* The heap as pvPortMalloc finds it once prvHeapInit has run.
LEMMA CoreInitial ==
    ASSUME HeapAssumption, Inv
    PROVE  Core(InitialList, Taken, InitialFree, InitialMin)
  BY CoreWhole DEF Inv, InitialList, InitialFree, InitialMin

LEMMA MallocInv ==
    ASSUME HeapAssumption, Inv, NEW n \in Requests, pvPortMalloc(n)
    PROVE  Inv'
  <1> DEFINE w == BlockSizeFor(n)
             list == InitialList
             free == InitialFree
             min == InitialMin
  <1>1. Core(list, Taken, free, min)
    BY CoreInitial
  <1>2. w \in Nat /\ w % 8 = 0 /\ (w > 0 => w >= 16)
    BY SizeFacts DEF HeapAssumption
  <1>3. inited' = TRUE /\ releasing' = releasing /\ Pending' = Pending
    BY DEF pvPortMalloc, Pending
  <1>4. CASE ~Found(w)
    <2>1. /\ freeList' = list /\ used' = used
          /\ xFreeBytesRemaining' = free /\ xMinimumEverFreeBytesRemaining' = min
      BY <1>4 DEF pvPortMalloc
    <2>2. Taken' = Taken
      BY <1>3, <2>1 DEF Taken
    <2> HIDE DEF list, free, min
    <2>3. Core(freeList, Taken, xFreeBytesRemaining, xMinimumEverFreeBytesRemaining)'
      BY <1>1, <2>1, <2>2 DEF Core, GoodList, BytesOf, InList, Good
    <2> QED
      BY <1>3, <2>1, <2>2, <2>3 DEF Inv
  <1>5. CASE Found(w)
    <2> DEFINE i == CHOOSE k \in 1 .. Len(list) : Fits(list, w, k)
               b == TakenFrom(list[i], w)
    <2>1. w > 0 /\ \E k \in 1 .. Len(list) : list[k].size >= w
      BY <1>5 DEF Found
    <2>2. /\ freeList' = LeftIn(list, i, w)
          /\ used' = used \cup {b}
          /\ xFreeBytesRemaining' = free - b.size
          /\ xMinimumEverFreeBytesRemaining' = IF free - b.size < min THEN free - b.size ELSE min
      BY <1>5 DEF pvPortMalloc, TakenFrom, LeftIn
    <2> HIDE DEF list, free, min, w
    <2>3. i \in 1 .. Len(list) /\ list[i].size >= w
      <3>1. GoodList(list)
        BY <1>1 DEF Core
      <3>2. \E k \in 1 .. Len(list) : Fits(list, w, k)
        BY <3>1, <2>1, <1>2, FirstFit
      <3> QED
        BY <3>2 DEF Fits
    <2> HIDE DEF i
    <2>4. /\ Core(LeftIn(list, i, w), Taken \cup {b}, free - b.size,
                  IF free - b.size < min THEN free - b.size ELSE min)
          /\ b \notin Taken
      BY <1>1, <1>2, <2>1, <2>3, CoreTake
    <2> HIDE DEF b
    <2>5. Taken' = Taken \cup {b}
      BY <1>3, <2>2 DEF Taken
    <2>6. Core(freeList, Taken, xFreeBytesRemaining, xMinimumEverFreeBytesRemaining)'
      <3> DEFINE f == free - b.size
                 g == IF free - b.size < min THEN free - b.size ELSE min
                 l == LeftIn(list, i, w)
                 s == Taken \cup {b}
      <3>1. Core(l, s, f, g) /\ freeList' = l /\ Taken' = s /\ xFreeBytesRemaining' = f
            /\ xMinimumEverFreeBytesRemaining' = g
        BY <2>2, <2>4, <2>5
      <3> HIDE DEF f, g, l, s
      <3> QED
        BY <3>1 DEF Core, GoodList, BytesOf, InList, Good
    <2>7. used' \cap Pending' = {}
      BY <1>3, <2>2, <2>4 DEF Inv, Taken
    <2> QED
      BY <1>3, <2>6, <2>7 DEF Inv
  <1> QED
    BY <1>4, <1>5

\* A block that is in use or on its way to the free list.
LEMMA TakenFacts ==
    ASSUME HeapAssumption, Inv, NEW b \in Taken
    PROVE  /\ inited /\ Core(freeList, Taken, xFreeBytesRemaining, xMinimumEverFreeBytesRemaining)
           /\ Good(b) /\ b \in Block /\ b # NoBlock
  <1>1. inited /\ Core(freeList, Taken, xFreeBytesRemaining, xMinimumEverFreeBytesRemaining)
    BY DEF Inv
  <1>2. Good(b)
    BY <1>1 DEF Core
  <1>3. b \in Block /\ b.size >= 16
    BY <1>2, GoodFacts
  <1> QED
    BY <1>1, <1>2, <1>3 DEF NoBlock

LEMMA ReleaseInv ==
    ASSUME HeapAssumption, Inv, NEW t \in Tasks, NEW b \in used, Release(t, b)
    PROVE  Inv'
  <1>1. /\ releasing[t] = NoBlock /\ used' = used \ {b}
        /\ releasing' = [releasing EXCEPT ![t] = b]
        /\ inited' = inited /\ freeList' = freeList /\ xFreeBytesRemaining' = xFreeBytesRemaining
        /\ xMinimumEverFreeBytesRemaining' = xMinimumEverFreeBytesRemaining
    BY DEF Release
  <1>2. /\ inited /\ Core(freeList, Taken, xFreeBytesRemaining, xMinimumEverFreeBytesRemaining)
        /\ b \in Block /\ b # NoBlock
    BY TakenFacts DEF Taken
  <1>3. /\ releasing \in [Tasks -> Block] /\ used \cap Pending = {} /\ inited \in BOOLEAN
        /\ \A v, u \in Tasks : v # u /\ releasing[v] = releasing[u] => releasing[v] = NoBlock
    BY DEF Inv
  <1>4. releasing' \in [Tasks -> Block] /\ \A u \in Tasks : releasing'[u] = IF u = t THEN b ELSE releasing[u]
    BY <1>1, <1>2, <1>3
  <1>5. \A u \in Tasks : releasing[u] # b
    BY <1>2, <1>3 DEF Pending
  <1>6. Pending' = Pending \cup {b}
    BY <1>1, <1>2, <1>4 DEF Pending
  <1>7. used' \cap Pending' = {} /\ Taken' = Taken
    BY <1>1, <1>3, <1>6 DEF Taken
  <1>8. \A v, u \in Tasks : v # u /\ releasing'[v] = releasing'[u] => releasing'[v] = NoBlock
    BY <1>3, <1>4, <1>5
  <1>9. Core(freeList, Taken, xFreeBytesRemaining, xMinimumEverFreeBytesRemaining)'
    BY <1>1, <1>2, <1>7 DEF Core, GoodList, BytesOf, InList, Good
  <1> QED
    BY <1>1, <1>2, <1>4, <1>7, <1>8, <1>9 DEF Inv

LEMMA InsertInv ==
    ASSUME HeapAssumption, Inv, NEW t \in Tasks, Insert(t)
    PROVE  Inv'
  <1> DEFINE b == releasing[t]
             l == prvInsertBlockIntoFreeList(freeList, b)
  <1>1. /\ b # NoBlock /\ used' = used
        /\ releasing' = [releasing EXCEPT ![t] = NoBlock]
        /\ inited' = inited /\ freeList' = l /\ xFreeBytesRemaining' = xFreeBytesRemaining + b.size
        /\ xMinimumEverFreeBytesRemaining' = xMinimumEverFreeBytesRemaining
    BY DEF Insert
  <1>2. b \in Pending /\ b \in Taken
    BY <1>1 DEF Pending, Taken
  <1>3. /\ inited /\ Core(freeList, Taken, xFreeBytesRemaining, xMinimumEverFreeBytesRemaining)
    BY <1>2, TakenFacts
  <1>4. /\ releasing \in [Tasks -> Block] /\ used \cap Pending = {} /\ inited \in BOOLEAN
        /\ \A v, u \in Tasks : v # u /\ releasing[v] = releasing[u] => releasing[v] = NoBlock
    BY DEF Inv
  <1>5. /\ releasing' \in [Tasks -> Block]
        /\ \A u \in Tasks : releasing'[u] = IF u = t THEN NoBlock ELSE releasing[u]
    <2>1. NoBlock \in Block
      BY DEF NoBlock, Block
    <2> QED
      BY <1>1, <1>4, <2>1
  <1>6. Pending' = Pending \ {b}
    <2>1. \A u \in Tasks : releasing[u] = b => u = t
      BY <1>1, <1>4
    <2> QED
      BY <1>1, <1>5, <2>1 DEF Pending
  <1>7. used' \cap Pending' = {} /\ Taken' = Taken \ {b}
    BY <1>1, <1>2, <1>4, <1>6 DEF Taken
  <1>8. \A v, u \in Tasks : v # u /\ releasing'[v] = releasing'[u] => releasing'[v] = NoBlock
    BY <1>4, <1>5
  <1>9. Core(l, Taken \ {b}, xFreeBytesRemaining + b.size, xMinimumEverFreeBytesRemaining)
    BY <1>2, <1>3, CoreFree
  <1>10. Core(freeList, Taken, xFreeBytesRemaining, xMinimumEverFreeBytesRemaining)'
    <2> DEFINE f == xFreeBytesRemaining + b.size
               s == Taken \ {b}
    <2>1. /\ Core(l, s, f, xMinimumEverFreeBytesRemaining) /\ freeList' = l /\ Taken' = s
          /\ xFreeBytesRemaining' = f
      BY <1>1, <1>7, <1>9
    <2> HIDE DEF l, s, f
    <2> QED
      BY <1>1, <2>1 DEF Core, GoodList, BytesOf, InList, Good
  <1> QED
    BY <1>1, <1>3, <1>5, <1>7, <1>8, <1>10 DEF Inv

LEMMA HeapNext ==
    ASSUME HeapAssumption, Inv, [Next]_vars
    PROVE  Inv'
  <1>1. CASE UNCHANGED vars
    BY <1>1 DEF vars, Inv, Taken, Pending, Core, GoodList, BytesOf, InList, Good
  <1>2. ASSUME NEW t \in Tasks, NEW n \in Requests, pvPortMalloc(n) PROVE Inv'
    BY <1>2, MallocInv
  <1>3. ASSUME NEW t \in Tasks, NEW b \in used, Release(t, b) PROVE Inv'
    BY <1>3, ReleaseInv
  <1>4. ASSUME NEW t \in Tasks, Insert(t) PROVE Inv'
    BY <1>4, InsertInv
  <1> QED
    BY <1>1, <1>2, <1>3, <1>4 DEF Next
-----------------------------------------------------------------------------
(* What the invariant says about the heap.                                 *)

LEMMA InvTiling ==
    ASSUME HeapAssumption, Inv
    PROVE  Tiling
  <1>1. /\ used \cap Pending = {} /\ inited \in BOOLEAN
        /\ \A t, u \in Tasks : t # u /\ releasing[t] = releasing[u] => releasing[t] = NoBlock
        /\ inited => Core(freeList, Taken, xFreeBytesRemaining, xMinimumEverFreeBytesRemaining)
        /\ ~inited => freeList = <<>> /\ Taken = {}
    BY DEF Inv
  <1>2. CASE ~inited
    BY <1>1, <1>2 DEF Tiling, Taken
  <1>3. CASE inited
    <2>1. /\ GoodList(freeList) /\ \A b \in Taken : Good(b)
          /\ \A b, c \in Taken : b # c => Apart(b, c)
          /\ \A b \in Taken, i \in 1 .. Len(freeList) : Apart(b, freeList[i])
          /\ \A x \in Memory : InList(freeList, x) \/ \E b \in Taken : Holds(b, x)
      BY <1>1, <1>3 DEF Core
    <2>2. \A b : b \in ToSet(freeList) <=> \E i \in 1 .. Len(freeList) : b = freeList[i]
      BY DEF ToSet
    <2>3. \A b \in Blocks : Good(b)
      BY <2>1, <2>2 DEF Blocks, Taken, GoodList
    <2>4. \A b \in Blocks : /\ b.addr \in Nat /\ b.size \in Nat /\ b.size >= 16 /\ End(b) \in Nat
                            /\ b.addr < End(b)
      BY <2>3, GoodFacts
    <2>5. ASSUME NEW b \in Taken, NEW c \in ToSet(freeList) PROVE Apart(b, c)
      BY <2>1, <2>2
    <2>6. ASSUME NEW b \in ToSet(freeList), NEW c \in ToSet(freeList), b # c PROVE Apart(b, c)
      <3> PICK i \in 1 .. Len(freeList) : b = freeList[i]
        BY <2>2
      <3> PICK j \in 1 .. Len(freeList) : c = freeList[j]
        BY <2>2
      <3>1. i < j \/ j < i
        BY <2>6
      <3>2. End(b) < c.addr \/ End(c) < b.addr
        BY <2>1, <3>1 DEF GoodList
      <3>3. End(b) \in Nat /\ End(c) \in Nat /\ b.addr \in Nat /\ c.addr \in Nat
        BY <2>4 DEF Blocks
      <3> QED
        BY <3>2, <3>3 DEF Apart
    <2>7. \A b, c \in Blocks : b # c => Apart(b, c)
      <3>1. \A b, c : Apart(b, c) => Apart(c, b)
        BY DEF Apart
      <3> QED
        BY <2>1, <2>5, <2>6, <3>1 DEF Blocks, Taken
    <2>8. Taken \cap ToSet(freeList) = {}
      <3> SUFFICES ASSUME NEW b \in Taken, b \in ToSet(freeList) PROVE FALSE
        OBVIOUS
      <3>1. Apart(b, b)
        BY <2>5
      <3>2. b.addr \in Nat /\ End(b) \in Nat /\ b.addr < End(b)
        BY <2>4 DEF Blocks
      <3> QED
        BY <3>1, <3>2 DEF Apart
    <2>9. \A x \in Memory : \E b \in Blocks : Holds(b, x)
      BY <2>1, <2>2 DEF Blocks, Taken, InList
    <2>10. \A b \in Blocks : /\ b.addr % portBYTE_ALIGNMENT = 0 /\ b.size > xHeapStructSize
                             /\ b.addr >= HeapStart /\ End(b) <= pxEnd
      <3> TAKE b \in Blocks
      <3>1. b.addr % 8 = 0 /\ HeapStart <= b.addr /\ End(b) <= pxEnd
        BY <2>3 DEF Good
      <3>2. HeapStart \in Nat
        BY HeapLimits
      <3>3. b.addr \in Nat /\ b.size \in Nat /\ b.size >= 16
        BY <2>4
      <3> QED
        BY <3>1, <3>2, <3>3 DEF portBYTE_ALIGNMENT, xHeapStructSize
    <2> QED
      BY <1>1, <2>7, <2>8, <2>9, <2>10 DEF Tiling, Taken, Apart
  <1> QED
    BY <1>2, <1>3

LEMMA InvMerged ==
    ASSUME HeapAssumption, Inv
    PROVE  Merged
  <1> DEFINE N == Len(freeList)
  <1>1. CASE ~inited
    BY <1>1 DEF Inv, Merged
  <1>2. CASE inited
    <2>1. Core(freeList, Taken, xFreeBytesRemaining, xMinimumEverFreeBytesRemaining)
      BY <1>2 DEF Inv
    <2>2. /\ freeList \in Seq(Block) /\ N \in Nat /\ \A i \in 1 .. N : Good(freeList[i])
          /\ \A i, j \in 1 .. N : i < j => End(freeList[i]) < freeList[j].addr
      BY <2>1 DEF Core, GoodList
    <2>3. \A i \in 1 .. N - 1 : End(freeList[i]) < freeList[i + 1].addr
      <3> TAKE i \in 1 .. N - 1
      <3>1. i \in 1 .. N /\ i + 1 \in 1 .. N /\ i < i + 1
        BY <2>2
      <3> QED
        BY <2>2, <3>1
    <2>4. ASSUME used = {}, Pending = {} PROVE freeList = <<Whole>>
      <3> HIDE DEF N
      <3>1. \A x \in Memory : InList(freeList, x)
        BY <2>1, <2>4 DEF Core, Taken
      <3>2. /\ HeapStart \in Nat /\ pxEnd \in Nat /\ HeapStart + 16 <= pxEnd
            /\ Whole = [addr |-> HeapStart, size |-> pxEnd - HeapStart]
        BY HeapLimits DEF Whole
      <3>3. \A i \in 1 .. N : /\ freeList[i].addr \in Nat /\ freeList[i].size \in Nat
                              /\ End(freeList[i]) = freeList[i].addr + freeList[i].size
                              /\ End(freeList[i]) \in Nat /\ freeList[i].addr < End(freeList[i])
                              /\ HeapStart <= freeList[i].addr /\ End(freeList[i]) <= pxEnd
        BY <2>2, GoodFacts DEF Good
      <3>4. HeapStart \in Memory
        BY <3>2 DEF Memory
      <3>5. PICK i \in 1 .. N : freeList[i].addr <= HeapStart /\ HeapStart < End(freeList[i])
        BY <3>1, <3>4 DEF InList, Holds, N
      <3>6. freeList[i].addr = HeapStart
        BY <3>2, <3>3, <3>5
      <3>7. End(freeList[i]) = pxEnd
        <4> SUFFICES ASSUME End(freeList[i]) # pxEnd PROVE FALSE
          OBVIOUS
        <4> DEFINE x == End(freeList[i])
        <4>1. x \in Nat /\ x <= pxEnd /\ x # pxEnd /\ HeapStart < x
          BY <3>3, <3>5
        <4> HIDE DEF x
        <4>2. x \in Memory
          BY <4>1, <3>2 DEF Memory
        <4>3. PICK j \in 1 .. N : freeList[j].addr <= x /\ x < End(freeList[j])
          BY <3>1, <4>2 DEF InList, Holds, N
        <4>4. freeList[j].addr \in Nat /\ End(freeList[j]) \in Nat
          BY <3>3
        <4>5. ~(i < j)
          <5>1. i < j => x < freeList[j].addr
            BY <2>2 DEF x, N
          <5> QED
            BY <5>1, <4>1, <4>3, <4>4
        <4>6. ~(j < i)
          <5>1. j < i => End(freeList[j]) < HeapStart
            BY <2>2, <3>6 DEF N
          <5> QED
            BY <5>1, <4>1, <4>3, <4>4, <3>2
        <4>7. i # j
          <5>1. i = j => x < x
            BY <4>3 DEF x
          <5> QED
            BY <5>1, <4>1
        <4> QED
          BY <4>5, <4>6, <4>7, <2>2 DEF N
      <3>8. \A j \in 1 .. N : j = i
        <4> SUFFICES ASSUME NEW j \in 1 .. N, j # i PROVE FALSE
          OBVIOUS
        <4>1. freeList[j].addr \in Nat /\ End(freeList[j]) \in Nat /\ freeList[j].addr < End(freeList[j])
              /\ HeapStart <= freeList[j].addr /\ End(freeList[j]) <= pxEnd
          BY <3>3
        <4>2. i < j \/ j < i
          BY <2>2 DEF N
        <4>3. pxEnd < freeList[j].addr \/ End(freeList[j]) < HeapStart
          BY <4>2, <2>2, <3>6, <3>7 DEF N
        <4> QED
          BY <4>1, <4>3, <3>2
      <3>9. N = 1 /\ i = 1
        <4>1. 1 \in 1 .. N /\ N \in 1 .. N
          BY <2>2 DEF N
        <4> QED
          BY <4>1, <3>8
      <3>10. freeList[1] = Whole
        <4>1. freeList[1] \in Block
          BY <2>2, <3>9 DEF Good, N
        <4>2. freeList[1].size = pxEnd - HeapStart
          BY <3>2, <3>3, <3>6, <3>7, <3>9
        <4> QED
          BY <3>2, <3>6, <3>9, <4>1, <4>2 DEF Block
      <3> QED
        BY <2>2, <3>9, <3>10 DEF N
    <2> QED
      BY <2>3, <2>4 DEF Merged
  <1> QED
    BY <1>1, <1>2

LEMMA InvAccounting ==
    ASSUME HeapAssumption, Inv
    PROVE  Accounting
  <1>1. FreeMemory = BytesOf(freeList)
    BY DEF FreeMemory, BytesOf, InList, ToSet
  <1>2. CASE ~inited
    <2>1. freeList = <<>> /\ xFreeBytesRemaining = 0 /\ xMinimumEverFreeBytesRemaining = 0
      BY <1>2 DEF Inv
    <2>2. BytesOf(freeList) = {}
      BY <2>1 DEF BytesOf, InList
    <2> QED
      BY <1>1, <2>1, <2>2, FS_EmptySet DEF Accounting
  <1>3. CASE inited
    BY <1>1, <1>3 DEF Inv, Core, Accounting
  <1> QED
    BY <1>2, <1>3
-----------------------------------------------------------------------------

\* In every reachable state of the allocator the free list is in order and merged,
\* the blocks taken from it are apart from it and from each other, together they
\* cover the array, and the counter is what the list holds.
THEOREM HeapInvariance ==
    ASSUME HeapAssumption
    PROVE  Spec => []Inv
  <1>1. Init => Inv
    BY HeapInit
  <1>2. Inv /\ [Next]_vars => Inv'
    BY HeapNext
  <1> QED
    BY <1>1, <1>2, PTL DEF Spec

\* Blocks in use, free and on their way back tile the array, whatever the order in
\* which tasks call pvPortMalloc and vPortFree and are preempted inside vPortFree.
THEOREM TilingSafe ==
    ASSUME HeapAssumption
    PROVE  Spec => []Tiling
  <1>1. Inv => Tiling
    BY InvTiling
  <1> QED
    BY <1>1, HeapInvariance, PTL

\* The free list stays in address order and merged, and the heap is one block again
\* when all is freed: no sequence of requests leaves it fragmented for good.
THEOREM MergedSafe ==
    ASSUME HeapAssumption
    PROVE  Spec => []Merged
  <1>1. Inv => Merged
    BY InvMerged
  <1> QED
    BY <1>1, HeapInvariance, PTL

\* xFreeBytesRemaining is exactly the memory in the free list and never below the
\* low-water mark.
THEOREM AccountingSafe ==
    ASSUME HeapAssumption
    PROVE  Spec => []Accounting
  <1>1. Inv => Accounting
    BY InvAccounting
  <1> QED
    BY <1>1, HeapInvariance, PTL
=============================================================================
