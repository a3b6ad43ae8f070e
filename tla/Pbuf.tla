-------------------------------- MODULE Pbuf --------------------------------
(***************************************************************************)
(* Packet buffers (pbuf.c): chains of reference-counted cells.  A cell has *)
(* memory mem, of which the bytes from off on, len of them, are the        *)
(* payload; tot is the length of the rest of its packet, next its          *)
(* successor (0: none), ref its reference count.                           *)
(*                                                                         *)
(* All cells come from one heap of N cells (MEMP_MEM_MALLOC is 1).  The    *)
(* users of packets hold references to heads; what they may expect to find *)
(* in a packet, a sequence of bytes, is kept in want (not in the code).    *)
(***************************************************************************)
EXTENDS Integers, Sequences, FiniteSets

CONSTANTS
  N,        \* cells of the heap
  BufSize,  \* PBUF_POOL_BUFSIZE
  Hdr,      \* headers reserved in front of the payload for a layer
  MaxLen,   \* bound: length of a packet
  MaxRef,   \* bound: references
  Writes,   \* bound: length of a pbuf_take
  Types,    \* types of packets in use
  Ooseq,    \* TCP_QUEUE_OOSEQ
  Bytes     \* values of a byte; 0 is what fresh memory holds

PbufAssumption == /\ {N, BufSize, MaxLen, MaxRef, Writes} \subseteq Nat \ {0} /\ Hdr \in Nat
                         /\ Hdr < BufSize /\ 0 \in Bytes
                         /\ Types \subseteq {"POOL", "RAM", "REF"} /\ Ooseq \in BOOLEAN

VARIABLES
  cell,   \* [1..N -> cell or Free]
  held,   \* [1..N -> references the users hold to the cell]
  want,   \* [1..N -> bytes expected in the packet that begins there] (not in the code)
  oos     \* [pending: pbuf_free_ooseq_pending, queued: its callback is in the mailbox, pcb: segment of an ooseq queue]

vars == <<cell, held, want, oos>>
Free == [type |-> "FREE", mem |-> <<>>, off |-> 0, len |-> 0, tot |-> 0, next |-> 0, ref |-> 0]
Seqs(n) == UNION {[1..k -> Bytes] : k \in 0..n}

Init == /\ cell = [i \in 1..N |-> Free] /\ held = [i \in 1..N |-> 0]
        /\ want = [i \in 1..N |-> <<>>] /\ oos = [pending |-> FALSE, queued |-> FALSE, pcb |-> 0]

TypeOK == /\ \A i \in 1..N : /\ cell[i].off >= 0 /\ cell[i].off + cell[i].len <= Len(cell[i].mem)
                             /\ cell[i].next \in 0..N /\ cell[i].ref \in 0..(2 * MaxRef)
          /\ held \in [1..N -> 0..MaxRef]

(***************************************************************************)
(* Reading a packet.                                                       *)
(***************************************************************************)
Payload(c, i) == SubSeq(c[i].mem, c[i].off + 1, c[i].off + c[i].len)
RECURSIVE ChainOf(_, _), Content(_, _)
ChainOf(c, i) == IF i = 0 THEN <<>> ELSE <<i>> \o ChainOf(c, c[i].next)
Content(c, i) == IF i = 0 THEN <<>> ELSE Payload(c, i) \o Content(c, c[i].next)

pbuf_clen(c, i) == Len(ChainOf(c, i))

RECURSIVE pbuf_get_at(_, _, _)
pbuf_get_at(c, i, n) == IF i = 0 THEN 0
                        ELSE IF c[i].len <= n THEN pbuf_get_at(c, c[i].next, n - c[i].len)
                        ELSE c[i].mem[c[i].off + n + 1]

PartialKeepsOffset(c, i, len, offset) == SubSeq(Content(c, i), 1, len)

RECURSIVE pbuf_copy_partial(_, _, _, _)
pbuf_copy_partial(c, i, len, offset) ==
  IF i = 0 \/ len = 0 THEN <<>>
  ELSE IF offset # 0 /\ offset >= c[i].len THEN pbuf_copy_partial(c, c[i].next, len, offset - c[i].len)
  ELSE LET n == IF c[i].len - offset > len THEN len ELSE c[i].len - offset
       IN  SubSeq(Payload(c, i), offset + 1, offset + n) \o pbuf_copy_partial(c, c[i].next, len - n, 0)

NotFound == -1     \* 0xFFFF
\* 0: equal; k + 1: they differ at k first
pbuf_memcmp(c, i, offset, s) ==
  IF offset >= Len(Content(c, i)) THEN NotFound
  ELSE LET bad == {k \in 0..(Len(s) - 1) : pbuf_get_at(c, i, offset + k) # s[k + 1]}
       IN  IF bad = {} THEN 0 ELSE 1 + CHOOSE k \in bad : \A j \in bad : k <= j

RECURSIVE Find(_, _, _, _)
Find(c, i, s, k) == IF k > c[i].tot - Len(s) THEN NotFound
                    ELSE LET plus == pbuf_memcmp(c, i, k, s)
                         IN  IF plus = 0 THEN k ELSE Find(c, i, s, k + plus)
pbuf_memfind(c, i, s, start) == IF c[i].tot >= Len(s) + start THEN Find(c, i, s, start) ELSE NotFound
pbuf_strstr(c, i, s) == IF s = <<>> THEN NotFound ELSE pbuf_memfind(c, i, s, 0)

(***************************************************************************)
(* Operations on the cells.                                                *)
(***************************************************************************)
FreeAlways(c, i) == IF i = 0 THEN c ELSE [c EXCEPT ![i] = Free]

RECURSIVE pbuf_free(_, _)
pbuf_free(c, i) ==
  IF i = 0 THEN c
  ELSE IF c[i].ref > 1 THEN [c EXCEPT ![i].ref = @ - 1]
  ELSE pbuf_free([c EXCEPT ![i] = Free], c[i].next)

FreeCells(c) == {i \in 1..N : c[i].type = "FREE"}
Lowest(S) == CHOOSE i \in S : \A j \in S : i <= j
Zeros(n) == [k \in 1..n |-> 0]

\* PBUF_POOL: as many cells as the length needs, 0 when the pool runs out before
RECURSIVE PoolCells(_, _, _, _)
PoolCells(c, head, offset, len) ==
  IF FreeCells(c) = {} THEN [c |-> pbuf_free(c, head), p |-> 0]
  ELSE LET i == Lowest(FreeCells(c))
           n == IF len < BufSize - offset THEN len ELSE BufSize - offset
           tail == IF head = 0 THEN 0 ELSE ChainOf(c, head)[pbuf_clen(c, head)]
           d == [c EXCEPT ![i] = [type |-> "POOL", mem |-> Zeros(BufSize), off |-> offset, len |-> n,
                                  tot |-> len, next |-> 0, ref |-> 1]]
           e == IF head = 0 THEN d ELSE [d EXCEPT ![tail].next = i]
           h == IF head = 0 THEN i ELSE head
       IN  IF len > n THEN PoolCells(e, h, 0, len - n) ELSE [c |-> e, p |-> h]

AllocForgetsHeader(c, offset, len, type) ==
  IF FreeCells(c) = {} THEN [c |-> c, p |-> 0]
  ELSE LET i == Lowest(FreeCells(c))
       IN  [c |-> [c EXCEPT ![i] = [type |-> type, mem |-> Zeros(len), off |-> offset, len |-> len,
                                    tot |-> len, next |-> 0, ref |-> 1]], p |-> i]

pbuf_alloc(c, offset, len, type) ==
  IF type = "POOL" THEN PoolCells(c, 0, offset, len)
  ELSE IF FreeCells(c) = {} THEN [c |-> c, p |-> 0]
  ELSE LET i == Lowest(FreeCells(c))
           o == IF type = "RAM" THEN offset ELSE 0
       IN  [c |-> [c EXCEPT ![i] = [type |-> type, mem |-> Zeros(o + len), off |-> o, len |-> len,
                                    tot |-> len, next |-> 0, ref |-> 1]], p |-> i]

CutMiddle(c, i, n) ==    \* keeps the tail of a cell instead of its front
  IF n >= c[i].tot \/ n > c[i].len THEN c
  ELSE pbuf_free([c EXCEPT ![i].off = @ + c[i].len - n, ![i].len = n, ![i].tot = n, ![i].next = 0], c[i].next)

\* Shrinks the packet: the totals of the cells that stay, then the rest is freed
RECURSIVE Cut(_, _, _, _)
Cut(c, i, rem, grow) ==
  IF rem > c[i].len THEN Cut([c EXCEPT ![i].tot = @ + grow], c[i].next, rem - c[i].len, grow)
  ELSE pbuf_free([c EXCEPT ![i].len = rem, ![i].tot = rem, ![i].next = 0,
                           ![i].mem = IF c[i].type = "RAM" THEN SubSeq(@, 1, c[i].off + rem) ELSE @],
                 c[i].next)
pbuf_realloc(c, i, n) == IF n >= c[i].tot THEN c ELSE Cut(c, i, n, n - c[i].tot)

\* The packet with inc bytes more (less) in front
pbuf_header(c, i, inc) ==
  LET fails == \/ c[i].type \in {"RAM", "POOL"} /\ c[i].off - inc < 0
               \/ c[i].type \in {"REF", "ROM"} /\ ~(inc < 0 /\ 0 - inc <= c[i].len)
  IN  IF inc = 0 \/ fails THEN c
      ELSE [c EXCEPT ![i].off = @ - inc, ![i].len = @ + inc, ![i].tot = @ + inc]

pbuf_ref(c, i) == [c EXCEPT ![i].ref = @ + 1]

CatHeadOnly(c, h, t) ==
  LET last == ChainOf(c, h)[pbuf_clen(c, h)]
  IN  [[c EXCEPT ![h].tot = @ + c[t].tot] EXCEPT ![last].next = t]

pbuf_cat(c, h, t) ==
  LET q == ChainOf(c, h)
      in == {q[k] : k \in DOMAIN q}
  IN  [i \in 1..N |-> IF i \notin in THEN c[i]
                      ELSE [c[i] EXCEPT !.tot = @ + c[t].tot, !.next = IF @ = 0 THEN t ELSE @]]
pbuf_chain(c, h, t) == pbuf_ref(pbuf_cat(c, h, t), t)

DechainKeepsRef(c, i) ==
  IF c[i].next = 0 THEN c
  ELSE [[c EXCEPT ![c[i].next].tot = c[i].tot - c[i].len] EXCEPT ![i].next = 0, ![i].tot = c[i].len]

pbuf_dechain(c, i) ==
  IF c[i].next = 0 THEN c
  ELSE pbuf_free([[c EXCEPT ![c[i].next].tot = c[i].tot - c[i].len] EXCEPT ![i].next = 0, ![i].tot = c[i].len],
                 c[i].next)

RECURSIVE pbuf_take(_, _, _)
pbuf_take(c, i, s) ==
  IF s = <<>> THEN c
  ELSE LET n == IF Len(s) > c[i].len THEN c[i].len ELSE Len(s)
       IN  pbuf_take([c EXCEPT ![i].mem = [k \in DOMAIN @ |-> IF k > c[i].off /\ k <= c[i].off + n
                                                              THEN s[k - c[i].off] ELSE @[k]]],
                     c[i].next, SubSeq(s, n + 1, Len(s)))

\* The loop of pbuf_copy: as much as both cells have left.  A cell that ends a
\* packet and has a successor stops it.
PacketQueue(c, i) == i # 0 /\ c[i].len = c[i].tot /\ c[i].next # 0
RECURSIVE CopyLoop(_, _, _, _, _)
CopyLoop(c, to, ot, from, of) ==
  IF from = 0 THEN c
  ELSE LET n == IF c[to].len - ot >= c[from].len - of THEN c[from].len - of ELSE c[to].len - ot
           d == [c EXCEPT ![to].mem = [k \in DOMAIN @ |->
                   IF k > c[to].off + ot /\ k <= c[to].off + ot + n
                   THEN c[from].mem[k - c[to].off - ot + c[from].off + of] ELSE @[k]]]
           endf == of + n >= c[from].len
           endt == ot + n = c[to].len
           to2 == IF endt THEN c[to].next ELSE to
           from2 == IF endf THEN c[from].next ELSE from
       IN  IF to2 = 0 \/ PacketQueue(c, from2) \/ PacketQueue(c, to2) THEN d
           ELSE CopyLoop(d, to2, IF endt THEN 0 ELSE ot + n, from2, IF endf THEN 0 ELSE of + n)
pbuf_copy(c, to, from) == IF c[to].tot >= c[from].tot THEN CopyLoop(c, to, 0, from, 0) ELSE c

pbuf_coalesce(c, i, offset) ==
  LET a == pbuf_alloc(c, offset, c[i].tot, "RAM")
  IN  IF c[i].next = 0 \/ a.p = 0 THEN [c |-> c, p |-> i]
      ELSE [c |-> pbuf_free(pbuf_copy(a.c, a.p, i), i), p |-> a.p]

(***************************************************************************)
(* The users of packets.  What changes a packet is done by its only owner, *)
(* and nobody appends an empty packet (pbuf_copy would take it for a queue *)
(* of packets).                                                            *)
(***************************************************************************)
Heads == {i \in 1..N : held[i] > 0}
Whole(i) == LET q == ChainOf(cell, i) IN \A k \in DOMAIN q : cell[q[k]].ref = 1
NotPcb(i) == i # oos.pcb

\* PBUF_POOL_IS_EMPTY: the first failure queues a callback that frees an ooseq queue
PoolEmptyForgets(o, sent) ==
  IF o.pending THEN o ELSE [o EXCEPT !.pending = TRUE, !.queued = sent]
pbuf_pool_is_empty(o, sent) ==
  IF o.pending THEN o ELSE [o EXCEPT !.pending = sent, !.queued = sent]

Alloc == \E len \in 1..MaxLen, type \in Types, sent \in BOOLEAN :
  LET a == pbuf_alloc(cell, IF type = "REF" THEN 0 ELSE Hdr, len, type) IN
  /\ cell' = a.c
  /\ IF a.p = 0 THEN UNCHANGED <<held, want>>
     ELSE held' = [held EXCEPT ![a.p] = 1] /\ want' = [want EXCEPT ![a.p] = Zeros(len)]
  /\ oos' = IF Ooseq /\ a.p = 0 /\ type = "POOL" THEN pbuf_pool_is_empty(oos, sent) ELSE oos
Drop(i) == /\ held' = [held EXCEPT ![i] = @ - 1] /\ cell' = pbuf_free(cell, i)
           /\ want' = [want EXCEPT ![i] = IF held[i] = 1 THEN <<>> ELSE @]
FreeIt == \E i \in Heads : NotPcb(i) /\ Drop(i) /\ UNCHANGED oos
Ref == \E i \in Heads : /\ held[i] < MaxRef /\ NotPcb(i) /\ cell' = pbuf_ref(cell, i)
                        /\ held' = [held EXCEPT ![i] = @ + 1] /\ UNCHANGED <<want, oos>>
Realloc == \E i \in Heads, n \in 0..MaxLen :
  /\ Whole(i) /\ n < Len(want[i]) /\ cell' = pbuf_realloc(cell, i, n)
  /\ want' = [want EXCEPT ![i] = SubSeq(@, 1, n)] /\ UNCHANGED <<held, oos>>
\* A header is hidden, or one that was hidden or reserved comes back
Header == \E i \in Heads, inc \in {-1, 1} :
  /\ Whole(i) /\ (inc = -1 => cell[i].len > 0) /\ (inc = 1 => Len(want[i]) < MaxLen)
  /\ cell' = pbuf_header(cell, i, inc)
  /\ want' = [want EXCEPT ![i] = IF cell' = cell THEN @ ELSE IF inc = -1 THEN Tail(@)
                                 ELSE <<cell[i].mem[cell[i].off]>> \o @]
  /\ UNCHANGED <<held, oos>>
\* t becomes part of h, whose owner owns it now
Cat == \E h, t \in Heads :
  /\ h # t /\ Whole(h) /\ Whole(t) /\ NotPcb(h) /\ NotPcb(t) /\ want[t] # <<>>
  /\ Len(want[h]) + Len(want[t]) <= MaxLen
  /\ cell' = pbuf_cat(cell, h, t) /\ held' = [held EXCEPT ![t] = 0]
  /\ want' = [want EXCEPT ![h] = @ \o want[t], ![t] = <<>>] /\ UNCHANGED oos
Chain == \E h, t \in Heads :
  /\ h # t /\ Whole(h) /\ Whole(t) /\ NotPcb(h) /\ NotPcb(t) /\ want[t] # <<>>
  /\ Len(want[h]) + Len(want[t]) <= MaxLen
  /\ cell' = pbuf_chain(cell, h, t)
  /\ want' = [want EXCEPT ![h] = @ \o want[t]] /\ UNCHANGED <<held, oos>>
Dechain == \E i \in Heads :
  /\ held[i] = 1 /\ cell[i].ref = 1 /\ cell[i].next # 0 /\ cell' = pbuf_dechain(cell, i)
  /\ want' = [want EXCEPT ![i] = SubSeq(@, 1, cell[i].len)] /\ UNCHANGED <<held, oos>>
Take == \E i \in Heads : \E s \in Seqs(Writes) :
  /\ Whole(i) /\ s # <<>> /\ Len(s) <= cell[i].tot /\ cell' = pbuf_take(cell, i, s)
  /\ want' = [want EXCEPT ![i] = s \o SubSeq(@, Len(s) + 1, Len(@))] /\ UNCHANGED <<held, oos>>
Copy == \E to, from \in Heads :
  /\ to # from /\ Whole(to) /\ Whole(from) /\ cell[to].tot >= cell[from].tot
  /\ cell' = pbuf_copy(cell, to, from)
  /\ want' = [want EXCEPT ![to] = want[from] \o SubSeq(@, Len(want[from]) + 1, Len(@))]
  /\ UNCHANGED <<held, oos>>
Coalesce == \E i \in Heads :
  /\ held[i] = 1 /\ NotPcb(i) /\ cell[i].next # 0
  /\ LET r == pbuf_coalesce(cell, i, 0) IN
     /\ cell' = r.c
     /\ held' = [held EXCEPT ![i] = 0, ![r.p] = IF r.p = i THEN 1 ELSE @ + 1]
     /\ want' = [want EXCEPT ![i] = <<>>, ![r.p] = want[i]]
  /\ UNCHANGED oos
\* tcp_receive keeps a packet out of sequence; the callback frees it
KeepOoseq == \E i \in Heads : /\ Ooseq /\ oos.pcb = 0 /\ Whole(i) /\ oos' = [oos EXCEPT !.pcb = i]
                              /\ UNCHANGED <<cell, held, want>>
pbuf_free_ooseq == /\ oos.queued /\ oos' = [pending |-> FALSE, queued |-> FALSE, pcb |-> 0]
                   /\ IF oos.pcb = 0 THEN UNCHANGED <<cell, held, want>> ELSE Drop(oos.pcb)

Next == \/ Alloc \/ FreeIt \/ Ref \/ Realloc \/ Header \/ Cat \/ Chain \/ Dechain \/ Take \/ Copy
        \/ Coalesce \/ KeepOoseq \/ pbuf_free_ooseq
Spec == Init /\ [][Next]_vars

(***************************************************************************)
(* Properties.                                                             *)
(***************************************************************************)
\* Every reference is counted: by its users and by the cell before it.  A cell
\* is freed exactly when the last one goes.
RefsCounted ==
  \A i \in 1..N : cell[i].ref = held[i] + Cardinality({j \in 1..N : cell[j].next = i})
TotalsRight ==
  \A i \in 1..N : cell[i].type # "FREE" /\ (\A j \in 1..N : cell[j].next # i) =>
    \A k \in DOMAIN ChainOf(cell, i) :
      LET x == ChainOf(cell, i)[k]
      IN  cell[x].tot = cell[x].len + (IF cell[x].next = 0 THEN 0 ELSE cell[cell[x].next].tot)

\* A packet is what its users made of it, whatever cells it lies in.
Contents == \A i \in Heads : Content(cell, i) = want[i]

\* Reading a part of a packet across its cells.
PartsRight ==
  \A i \in Heads : \A o \in 0..MaxLen : \A n \in 0..MaxLen :
    o + n <= Len(want[i]) => pbuf_copy_partial(cell, i, n, o) = SubSeq(want[i], o + 1, o + n)

\* An empty pool asks once for memory back, and can ask again afterwards.
PendingIsQueued == oos.pending => oos.queued

\* Doc of pbuf_memfind: "@return 0xFFFF if substr was not found in p or the
\* index where it was found".
FindsWhatIsThere ==
  \A i \in Heads : \A s \in Seqs(MaxLen) \ {<<>>} :
    (\E k \in 0..(Len(want[i]) - Len(s)) : SubSeq(want[i], k + 1, k + Len(s)) = s)
      => pbuf_strstr(cell, i, s) # NotFound
=============================================================================
