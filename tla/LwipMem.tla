------------------------------ MODULE LwipMem ------------------------------
(***************************************************************************)
(* lwIP's own heap (mem.c, with MEM_LIBC_MALLOC 0): blocks that lie one    *)
(* after the other in ram, each with a header that holds the offsets of    *)
(* its neighbours, and lfree, where the search for a free block begins.    *)
(*                                                                         *)
(* mem_malloc holds mem_mutex.  With LWIP_ALLOW_MEM_FREE_FROM_OTHER_CONTEXT *)
(* mem_free and mem_trim do not take it, but run in the gaps that          *)
(* mem_malloc leaves between two blocks it looks at.  Sizes are in units of *)
(* MEM_ALIGNMENT; a header takes one unit.                                 *)
(***************************************************************************)
EXTENDS Integers

CONSTANTS
  MEM_SIZE,      \* MEM_SIZE_ALIGNED
  MIN_SIZE,      \* MIN_SIZE_ALIGNED
  MaxSize,       \* bound: largest request
  OtherContext   \* LWIP_ALLOW_MEM_FREE_FROM_OTHER_CONTEXT

LwipMemAssumption == {MEM_SIZE, MIN_SIZE, MaxSize} \subseteq Nat \ {0} /\ OtherContext \in BOOLEAN

VARIABLES
  ram,    \* [offset of a block -> [next, prev, used]]
  lfree,
  req,    \* the mem_malloc under way: [pc, size, ptr, freed: mem_free_count]
  live,   \* [offset of a block handed out -> size asked for] (not in the code)
  failed  \* the last mem_malloc found nothing (not in the code)

vars == <<ram, lfree, req, live, failed>>
HDR == 1      \* SIZEOF_STRUCT_MEM
Idle == [pc |-> "idle", size |-> 0, ptr |-> 0, freed |-> FALSE]

\* mem_init
Init == /\ ram = [p \in {0, MEM_SIZE} |-> IF p = 0 THEN [next |-> MEM_SIZE, prev |-> 0, used |-> FALSE]
                                          ELSE [next |-> MEM_SIZE, prev |-> MEM_SIZE, used |-> TRUE]]
        /\ lfree = 0 /\ req = Idle /\ live = [p \in {} |-> 0] /\ failed = 0

Max2(a, b) == IF a > b THEN a ELSE b
Room(r, p) == r[p].next - p - HDR
With(r, p, b) == [q \in DOMAIN r \cup {p} |-> IF q = p THEN b ELSE r[q]]
Without(r, p) == [q \in DOMAIN r \ {p} |-> r[q]]
\* Block p, whose neighbour to the left is q
SetPrev(r, p, q) == [r EXCEPT ![p].prev = q]
SetUsed(r, p, u) == [r EXCEPT ![p].used = u]
\* Block n, behind m, becomes part of it
Joins(r, m, n) == [Without(r, n) EXCEPT ![m].next = r[n].next]
Absorbs(r, m, n) == SetPrev(Joins(r, m, n), r[n].next, m)

PlugUsedToo(r, l, m) ==
  LET n == r[m].next IN
  IF n # MEM_SIZE THEN [r |-> Absorbs(r, m, n), l |-> l]
  ELSE [r |-> r, l |-> l]

PlugNextOnly(r, l, m) ==
  LET n == r[m].next IN
  IF n # m /\ ~r[n].used /\ n # MEM_SIZE
  THEN [r |-> Absorbs(r, m, n), l |-> IF l = n THEN m ELSE l]
  ELSE [r |-> r, l |-> l]

\* Merges the free block m with its free neighbours
plug_holes(r, l, m) ==
  LET n == r[m].next
      fwd == n # m /\ ~r[n].used /\ n # MEM_SIZE
      a == IF fwd THEN Absorbs(r, m, n) ELSE r
      la == IF fwd /\ l = n THEN m ELSE l
      p == a[m].prev
      back == p # m /\ ~a[p].used
      b == IF back THEN Absorbs(a, p, m) ELSE a
  IN  [r |-> b, l |-> IF back /\ la = m THEN p ELSE la]

SplitForgetsPrev(r, p, size) ==
  With([r EXCEPT ![p].next = p + HDR + size], p + HDR + size, [next |-> r[p].next, prev |-> p, used |-> FALSE])

SplitForgetsHeader(r, p, size) ==
  LET a == With([r EXCEPT ![p].next = p + size], p + size, [next |-> r[p].next, prev |-> p, used |-> FALSE])
  IN  IF r[p].next # MEM_SIZE THEN SetPrev(a, r[p].next, p + size) ELSE a

\* Splits block p behind size units; the rest is free
SplitAt(r, p, size) ==
  LET q == p + HDR + size
      n == r[p].next
      a == With([r EXCEPT ![p].next = q], q, [next |-> n, prev |-> p, used |-> FALSE])
  IN  IF n # MEM_SIZE THEN SetPrev(a, n, q) ELSE a
Splits(r, p, size) == Room(r, p) >= size + HDR + MIN_SIZE

(***************************************************************************)
(* mem_malloc                                                              *)
(***************************************************************************)
Malloc(n) == /\ req.pc = "idle" /\ n <= MEM_SIZE
             /\ req' = [pc |-> "look", size |-> Max2(n, MIN_SIZE), ptr |-> lfree, freed |-> FALSE]
             /\ failed' = 0 /\ UNCHANGED <<ram, lfree, live>>
LookShort == /\ req.pc = "look"
             /\ IF req.ptr < MEM_SIZE - req.size - HDR
                THEN req' = [req EXCEPT !.pc = "gap", !.freed = FALSE] /\ UNCHANGED failed
                ELSE req' = Idle /\ failed' = req.size
             /\ UNCHANGED <<ram, lfree, live>>
\* The head of the search loop, then a gap
Look == /\ req.pc = "look"
        /\ IF req.ptr < MEM_SIZE - req.size
           THEN req' = [req EXCEPT !.pc = "gap", !.freed = FALSE] /\ UNCHANGED failed
           ELSE req' = Idle /\ failed' = req.size
        /\ UNCHANGED <<ram, lfree, live>>
Test == /\ req.pc = "gap"
        /\ CASE req.freed -> /\ req' = [req EXCEPT !.pc = "look", !.ptr = lfree]
                             /\ UNCHANGED <<ram, live>>
             [] ~req.freed /\ ~ram[req.ptr].used /\ Room(ram, req.ptr) >= req.size ->
                  LET r == IF Splits(ram, req.ptr, req.size) THEN SplitAt(ram, req.ptr, req.size) ELSE ram IN
                  /\ ram' = SetUsed(r, req.ptr, TRUE)
                  /\ live' = With(live, req.ptr, req.size)
                  /\ req' = [req EXCEPT !.pc = IF req.ptr = lfree THEN "adjust" ELSE "done"]
             [] OTHER -> req' = [req EXCEPT !.pc = "look", !.ptr = ram[req.ptr].next] /\ UNCHANGED <<ram, live>>
        /\ UNCHANGED <<lfree, failed>>
\* mem_malloc_adjust_lfree: ptr is cur; size keeps the block found
StartAdjust == /\ req.pc = "adjust"
               /\ req' = [req EXCEPT !.pc = "cur", !.size = req.ptr, !.freed = FALSE]
               /\ UNCHANGED <<ram, lfree, live, failed>>
Adjust == /\ req.pc = "cur" /\ UNCHANGED <<ram, live, failed>>
          /\ CASE req.freed ->
                    req' = [req EXCEPT !.pc = IF req.size = lfree THEN "adjust" ELSE "done", !.ptr = req.size]
                    /\ UNCHANGED lfree
               [] ~req.freed /\ ram[req.ptr].used /\ req.ptr # MEM_SIZE ->
                    req' = [req EXCEPT !.ptr = ram[req.ptr].next] /\ UNCHANGED lfree
               [] OTHER -> lfree' = req.ptr /\ req' = [req EXCEPT !.pc = "done"]
Return == req.pc = "done" /\ req' = Idle /\ UNCHANGED <<ram, lfree, live, failed>>

(***************************************************************************)
(* mem_free and mem_trim                                                   *)
(***************************************************************************)
MayFree == req.pc = "idle" \/ (OtherContext /\ req.pc \in {"gap", "cur"})
Mine(p) == \/ req.pc \in {"done", "adjust"} /\ p = req.ptr
           \/ req.pc = "cur" /\ p = req.size
Note == /\ req' = IF req.pc = "idle" THEN req ELSE [req EXCEPT !.freed = TRUE]
        /\ failed' = 0

mem_free(p) ==
  LET r == SetUsed(ram, p, FALSE)
      h == plug_holes(r, IF p < lfree THEN p ELSE lfree, p)
  IN  ram' = h.r /\ lfree' = h.l

TrimForgetsLfree(p, n) ==
  LET q == ram[p].next IN
  IF ~ram[q].used
  THEN ram' = SplitAt(Joins(ram, p, q), p, n) /\ lfree' = lfree
  ELSE ram' = (IF Splits(ram, p, n) THEN SplitAt(ram, p, n) ELSE ram) /\ lfree' = lfree

mem_trim(p, n) ==
  LET q == ram[p].next
      cut == p + HDR + n
  IN  CASE ~ram[q].used -> /\ ram' = SplitAt(Joins(ram, p, q), p, n)
                           /\ lfree' = IF lfree = q THEN cut ELSE lfree
        [] ram[q].used /\ Splits(ram, p, n) ->
             /\ ram' = SplitAt(ram, p, n) /\ lfree' = IF cut < lfree THEN cut ELSE lfree
        [] OTHER -> UNCHANGED <<ram, lfree>>

Free(p) == /\ MayFree /\ p \in DOMAIN live /\ ~Mine(p) /\ mem_free(p)
           /\ live' = Without(live, p) /\ Note
Trim(p) == \E n \in 1..MaxSize :
             /\ MayFree /\ p \in DOMAIN live /\ ~Mine(p) /\ Max2(n, MIN_SIZE) < Room(ram, p) /\ n < live[p]
             /\ mem_trim(p, Max2(n, MIN_SIZE)) /\ live' = [live EXCEPT ![p] = n] /\ Note

Next == \/ \E n \in 1..MaxSize : Malloc(n)
        \/ Look \/ Test \/ StartAdjust \/ Adjust \/ Return
        \/ \E p \in DOMAIN live : Free(p) \/ Trim(p)
Spec == Init /\ [][Next]_vars

(***************************************************************************)
(* Properties.                                                             *)
(***************************************************************************)
Blocks == DOMAIN ram \ {MEM_SIZE}
TypeOK == /\ DOMAIN ram \subseteq 0..MEM_SIZE /\ lfree \in 0..MEM_SIZE
          /\ DOMAIN live \subseteq Blocks /\ req.ptr \in 0..MEM_SIZE

\* The blocks tile the heap: each ends where the next begins, and knows the one
\* before it, whatever was split and merged.
Tiled == /\ \A p \in Blocks : ram[p].next \in DOMAIN ram /\ ram[p].next > p
                              /\ ~\E q \in DOMAIN ram : p < q /\ q < ram[p].next
         /\ \A p \in Blocks \ {0} : ram[ram[p].prev].next = p

\* A block that is handed out stays marked as used and as large as was asked
\* for until it is freed; nothing else is marked.
LiveKept == /\ \A p \in DOMAIN live : ram[p].used /\ Room(ram, p) >= live[p]
            /\ \A p \in Blocks : ram[p].used => p \in DOMAIN live

\* Free neighbours are merged, so that the heap does not crumble.
Merged == \A p \in Blocks : ~ram[p].used /\ ram[p].next # MEM_SIZE => ram[ram[p].next].used

\* No free block lies before lfree, or the search would never see it.
NothingBeforeLfree == req.pc = "idle" =>
                        /\ lfree \in DOMAIN ram
                        /\ \A p \in Blocks : ~ram[p].used => lfree <= p

\* mem_malloc finds nothing only when no free block is large enough.
FailsOnlyWhenFull == failed > 0 => \A p \in Blocks : ram[p].used \/ Room(ram, p) < failed
=============================================================================
