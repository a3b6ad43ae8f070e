------------------------------- MODULE EmacTx -------------------------------
(***************************************************************************)
(* Sending in the Ethernet driver (lpc18xx_43xx_emac.c): tcpip_thread in   *)
(* lpc_low_level_output, which waits for descriptors and fills them one by *)
(* one, the DMA that sends them, the interrupt and the cleanup task that   *)
(* reclaims them.  With Priority the cleanup task runs only when           *)
(* tcpip_thread cannot, as tskTXCLEAN_PRIORITY is below TCPIP_THREAD_PRIO. *)
(***************************************************************************)
EXTENDS Integers

CONSTANTS
  N,          \* LPC_NUM_BUFF_TXDESCS
  Frames,     \* bound: frames that lwIP sends
  Clens,      \* lengths of their pbuf chains
  Slow,       \* whether a payload may lie in the memory of slmem
  Priority

TxAssumption == /\ N \in Nat \ {0} /\ Frames \in Nat /\ Clens \subseteq 1..N
                       /\ {Slow, Priority} \subseteq BOOLEAN

VARIABLES
  desc,     \* ptdesc and txpbufs: [own, fs, ls, data, saved], data: <<frame, part>> at B1ADD
  ring,     \* [free, fill, reclaim]: tx_free_descs, tx_fill_idx, tx_reclaim_idx
  out,      \* tcpip_thread: [pc, f, dn, idx, fidx, copy]
  clean,    \* the cleanup task: [pc, ridx]
  mutex,    \* TXLockMutex: its holder
  count,    \* xTXDCountSem
  sem,      \* TxCleanSem
  ints,     \* DMA_STAT
  isr,      \* the bits that the running ETH_IRQHandler has read
  dma,      \* [idx, run]: the DMA's position, and whether it polls
  refs,     \* references to the frame's chain, 0: freed
  wire      \* [f, part, fs, ls]: the last descriptor sent (not in the code)

vars == <<desc, ring, out, clean, mutex, count, sem, ints, isr, dma, refs, wire>>

Idx == 0..(N - 1)
Inc(i) == IF i + 1 >= N THEN 0 ELSE i + 1
None == 0
Empty == [own |-> FALSE, fs |-> FALSE, ls |-> FALSE, data |-> <<None, 0>>, saved |-> None]

\* lpc_tx_setup, and the semaphores of lpc_enetif_init
Init ==
  /\ desc = [i \in Idx |-> Empty]
  /\ ring = [free |-> N, fill |-> 0, reclaim |-> 0]
  /\ out = [pc |-> "idle", f |-> 0, dn |-> 0, idx |-> 0, fidx |-> 0, copy |-> FALSE]
  /\ clean = [pc |-> "wait", ridx |-> 0]
  /\ mutex = "free" /\ count = N /\ sem = 0 /\ ints = {} /\ isr = {}
  /\ dma = [idx |-> 0, run |-> FALSE]
  /\ refs = [f \in 1..Frames |-> 0] /\ wire = [f |-> 0, part |-> 0, fs |-> TRUE, ls |-> TRUE]

TypeOK ==
  /\ ring \in [free : 0..N, fill : Idx, reclaim : Idx]
  /\ out.pc \in {"idle", "ready", "lock", "fill", "kick"} /\ clean.pc \in {"wait", "lock", "loop"}
  /\ mutex \in {"free", "out", "clean"} /\ count \in 0..N /\ sem \in 0..1
  /\ \A f \in 1..Frames : refs[f] \in 0..2

(***************************************************************************)
(* tcpip_thread.                                                           *)
(***************************************************************************)
\* lwIP sends its next frame.  A chain in slow memory is copied to one pbuf of
\* the driver's own, or the call fails with ERR_MEM
Send == \E n \in Clens, slow \in IF Slow THEN BOOLEAN ELSE {FALSE}, ok \in BOOLEAN :
  /\ out.pc = "idle" /\ out.f < Frames
  /\ slow \/ ok
  /\ out' = [out EXCEPT !.pc = IF ok THEN "ready" ELSE "idle", !.f = @ + 1,
                        !.dn = IF slow THEN 1 ELSE n, !.copy = slow]
  /\ refs' = [refs EXCEPT ![out.f + 1] = IF ok THEN 1 ELSE 0]
  /\ UNCHANGED <<desc, ring, clean, mutex, count, sem, ints, isr, dma, wire>>

\* The wait for descriptors does not block: the timeout is 0
Spin ==
  /\ out.pc = "ready" /\ out.dn > ring.free
  /\ count' = IF count = 0 THEN 0 ELSE count - 1
  /\ UNCHANGED <<desc, ring, out, clean, mutex, sem, ints, isr, dma, refs, wire>>
Ready == /\ out.pc = "ready" /\ out.dn <= ring.free
         /\ out' = [out EXCEPT !.pc = "lock", !.idx = ring.fill, !.fidx = ring.fill]
         /\ UNCHANGED <<desc, ring, clean, mutex, count, sem, ints, isr, dma, refs, wire>>
Lock == /\ out.pc = "lock" /\ mutex = "free" /\ mutex' = "out" /\ out' = [out EXCEPT !.pc = "fill"]
        /\ UNCHANGED <<desc, ring, clean, count, sem, ints, isr, dma, refs, wire>>

SavesFirst ==
  LET first == out.idx = out.fidx
      last == out.dn = 1 IN
  /\ out.pc = "fill"
  /\ desc' = [desc EXCEPT ![out.idx] =
       [own |-> @.own \/ ~first, fs |-> @.fs \/ first, ls |-> @.ls \/ last,
        data |-> <<out.f, 1 + ((out.idx - out.fidx + N) % N)>>, saved |-> IF first THEN out.f ELSE None]]
  /\ ring' = [ring EXCEPT !.free = @ - 1]
  /\ refs' = IF first /\ ~out.copy THEN [refs EXCEPT ![out.f] = @ + 1] ELSE refs
  /\ out' = [out EXCEPT !.pc = IF last THEN "kick" ELSE "fill", !.dn = @ - 1, !.idx = Inc(@)]
  /\ UNCHANGED <<clean, mutex, count, sem, ints, isr, dma, wire>>
\* One descriptor; the DMA gets all but the first.  The chain is saved with the
\* last, so that it is freed when all of it has been sent
Fill ==
  LET first == out.idx = out.fidx
      last == out.dn = 1 IN
  /\ out.pc = "fill"
  /\ desc' = [desc EXCEPT ![out.idx] =
       [own |-> @.own \/ ~first, fs |-> @.fs \/ first, ls |-> @.ls \/ last,
        data |-> <<out.f, 1 + ((out.idx - out.fidx + N) % N)>>, saved |-> IF last THEN out.f ELSE None]]
  /\ ring' = [ring EXCEPT !.free = @ - 1]
  /\ refs' = IF first /\ ~out.copy THEN [refs EXCEPT ![out.f] = @ + 1] ELSE refs
  /\ out' = [out EXCEPT !.pc = IF last THEN "kick" ELSE "fill", !.dn = @ - 1, !.idx = Inc(@)]
  /\ UNCHANGED <<clean, mutex, count, sem, ints, isr, dma, wire>>

\* The first descriptor is the DMA's, the lock is released and lwIP drops its
\* own reference, if there is one besides the driver's
Kick ==
  /\ out.pc = "kick" /\ mutex' = "free" /\ out' = [out EXCEPT !.pc = "idle"]
  /\ ring' = [ring EXCEPT !.fill = out.idx]
  /\ desc' = [desc EXCEPT ![out.fidx].own = TRUE] /\ dma' = [dma EXCEPT !.run = TRUE]
  /\ refs' = IF out.copy THEN refs ELSE [refs EXCEPT ![out.f] = @ - 1]
  /\ UNCHANGED <<clean, count, sem, ints, isr, wire>>
lpc_low_level_output == isr = {} /\ (Spin \/ Ready \/ Lock \/ Fill \/ Kick)

(***************************************************************************)
(* The hardware and the interrupt.                                         *)
(***************************************************************************)
\* The DMA sends a descriptor, or finds that it owns none and stops polling
Dma ==
  LET d == desc[dma.idx] IN
  /\ dma.run
  /\ IF d.own
     THEN /\ wire' = [f |-> d.data[1], part |-> d.data[2], fs |-> d.fs, ls |-> d.ls]
          /\ desc' = [desc EXCEPT ![dma.idx].own = FALSE]
          /\ dma' = [dma EXCEPT !.idx = Inc(@)]
          /\ ints' = IF d.ls THEN ints \cup {"TI"} ELSE ints
     ELSE dma' = [dma EXCEPT !.run = FALSE] /\ ints' = ints \cup {"TU"} /\ UNCHANGED <<wire, desc>>
  /\ UNCHANGED <<ring, out, clean, mutex, count, sem, isr, refs>>

ClearsAll ==
  \/ /\ isr = {} /\ ints # {} /\ isr' = ints /\ sem' = 1
     /\ UNCHANGED <<desc, ring, out, clean, mutex, count, ints, dma, refs, wire>>
  \/ /\ isr # {} /\ isr' = {} /\ ints' = {}
     /\ UNCHANGED <<desc, ring, out, clean, mutex, count, sem, dma, refs, wire>>
ETH_IRQHandler ==
  \/ /\ isr = {} /\ ints # {} /\ isr' = ints /\ sem' = 1
     /\ UNCHANGED <<desc, ring, out, clean, mutex, count, ints, dma, refs, wire>>
  \/ /\ isr # {} /\ isr' = {} /\ ints' = ints \ isr
     /\ UNCHANGED <<desc, ring, out, clean, mutex, count, sem, dma, refs, wire>>

(***************************************************************************)
(* The cleanup task.                                                       *)
(***************************************************************************)
CleanWait == /\ clean.pc = "wait" /\ sem = 1 /\ sem' = 0 /\ clean' = [clean EXCEPT !.pc = "lock"]
             /\ UNCHANGED <<desc, ring, mutex, count, refs>>
CleanNoLock == /\ clean.pc = "lock" /\ clean' = [pc |-> "loop", ridx |-> ring.reclaim]
               /\ UNCHANGED <<desc, ring, mutex, count, sem, refs>>
CleanLock == /\ clean.pc = "lock" /\ mutex = "free" /\ mutex' = "clean"
             /\ clean' = [pc |-> "loop", ridx |-> ring.reclaim]
             /\ UNCHANGED <<desc, ring, count, sem, refs>>

KeepsFlags ==
  LET r == clean.ridx IN
  /\ clean.pc = "loop" /\ ring.free < N /\ ~desc[r].own
  /\ desc' = [desc EXCEPT ![r].own = FALSE]
  /\ refs' = IF desc[r].saved # None THEN [refs EXCEPT ![desc[r].saved] = @ - 1] ELSE refs
  /\ ring' = [ring EXCEPT !.free = @ + 1] /\ count' = IF count = N THEN N ELSE count + 1
  /\ clean' = [clean EXCEPT !.ridx = Inc(@)]
  /\ UNCHANGED <<mutex, sem>>
\* A descriptor that the DMA has given back: its control word is reset and the
\* chain freed
Reclaim ==
  LET r == clean.ridx IN
  /\ clean.pc = "loop" /\ ring.free < N /\ ~desc[r].own
  /\ desc' = [desc EXCEPT ![r].own = FALSE, ![r].fs = FALSE, ![r].ls = FALSE]
  /\ refs' = IF desc[r].saved # None THEN [refs EXCEPT ![desc[r].saved] = @ - 1] ELSE refs
  /\ ring' = [ring EXCEPT !.free = @ + 1] /\ count' = IF count = N THEN N ELSE count + 1
  /\ clean' = [clean EXCEPT !.ridx = Inc(@)]
  /\ UNCHANGED <<mutex, sem>>
ReclaimEnd ==
  /\ clean.pc = "loop" /\ (ring.free = N \/ desc[clean.ridx].own)
  /\ ring' = [ring EXCEPT !.reclaim = clean.ridx]
  /\ mutex' = "free" /\ clean' = [clean EXCEPT !.pc = "wait"]
  /\ UNCHANGED <<desc, count, sem, refs>>

OutBlocked == out.pc = "idle" \/ (out.pc = "lock" /\ mutex = "clean")
vTransmitCleanupTask ==
  /\ isr = {} /\ (Priority => OutBlocked)
  /\ CleanWait \/ CleanLock \/ Reclaim \/ ReclaimEnd
  /\ UNCHANGED <<out, ints, isr, dma, wire>>

Next == \/ isr = {} /\ Send
        \/ lpc_low_level_output \/ Dma \/ ETH_IRQHandler \/ vTransmitCleanupTask
Spec == Init /\ [][Next]_vars
\* The DMA goes on, interrupts end, and a task runs when none above it can
Live == /\ Spec /\ WF_vars(Dma) /\ WF_vars(ETH_IRQHandler)
        /\ SF_vars(lpc_low_level_output) /\ SF_vars(vTransmitCleanupTask)

(***************************************************************************)
(* Properties.                                                             *)
(***************************************************************************)
InUse(i) == (i - ring.reclaim + N) % N < N - ring.free
\* tx_free_descs and the indices describe the ring whenever its lock is free:
\* what the DMA owns lies between tx_reclaim_idx and tx_fill_idx.
RingRight == mutex = "free" => /\ ring.fill = (ring.reclaim + N - ring.free) % N
                               /\ \A i \in Idx : desc[i].own => InUse(i)

\* A chain is freed once and not while the DMA has still to send a part of it.
SentBeforeFreed ==
  /\ \A i \in Idx : desc[i].own => refs[desc[i].data[1]] > 0
  /\ \A f \in 1..Frames : refs[f] >= 0

\* The DMA sends whole frames in the order of the calls: the parts of a chain in
\* sequence, the first and only the first marked FS, although it polls while
\* descriptors are being filled.
WholeFrames == wire' # wire =>
  IF wire.ls THEN wire'.fs /\ wire'.part = 1 /\ wire'.f > wire.f
  ELSE ~wire'.fs /\ wire'.f = wire.f /\ wire'.part = wire.part + 1

Waits == out.pc = "ready" /\ out.dn > ring.free
\* Every chain is freed in the end, unless tcpip_thread is waiting for descriptors.
Unfreed(f) == refs[f] > 0
ChainsFreed == \A f \in 1..Frames : Unfreed(f) ~> ~Unfreed(f) \/ Waits

\* lpc18xx_43xx_emac.c:420 says of the wait for descriptors "THIS WILL BLOCK
\* UNTIL THERE ARE ENOUGH DESCRIPTORS AVAILABLE": it lets the tasks run that make
\* them available, and ends.
WaitEnds == Waits ~> ~Waits
=============================================================================
