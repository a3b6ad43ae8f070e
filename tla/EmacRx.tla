------------------------------- MODULE EmacRx -------------------------------
(***************************************************************************)
(* Receiving in the Ethernet driver (lpc18xx_43xx_emac.c): the ring of     *)
(* receive descriptors shared with the DMA, the interrupt handler, the     *)
(* receive task and tcpip_thread at the other end of the mailbox.  The     *)
(* address of a buffer and the OWN bit are written in separate steps, so   *)
(* that the DMA may come in between.                                       *)
(***************************************************************************)
EXTENDS Integers, Sequences

CONSTANTS
  N,          \* LPC_NUM_BUFF_RXDESCS
  Bufs,       \* pbufs of EMAC_ETH_MAX_FLEN that the heap has room for
  NoBuf,
  intMask,    \* error bits that drop a frame; with USE_RMII also DE
  Statuses,   \* status bits with which a frame may arrive
  Frames,     \* bound: frames on the wire
  MboxSize    \* TCPIP_MBOX_SIZE

RxAssumption == /\ N \in Nat \ {0} /\ Frames \in Nat /\ MboxSize \in Nat \ {0}
                       /\ NoBuf \notin Bufs
                       /\ {"CE", "RE"} \subseteq intMask /\ intMask \subseteq {"CE", "DE", "RE"}
                       /\ Statuses \subseteq SUBSET {"ES", "CE", "DE", "RE", "LE", "FT", "LS"}

VARIABLES
  desc,      \* prdesc and rxpbufs: [own, buf]
  ring,      \* [get, next, free]: rx_get_idx, rx_next_idx, rx_free_descs
  rx,        \* the receive task: [pc, back, hand, p]
  sem,       \* RxSem
  ints,      \* DMA_STAT
  isr,       \* the bits that the running ETH_IRQHandler has read
  mbox,      \* tcpip_thread's mailbox: [buf, n]
  heap,      \* free buffers
  others,    \* buffers that other users of the heap hold
  dma,       \* the descriptor that the DMA writes next
  content,   \* what the DMA wrote in a buffer: [n, status] (n: not in the code)
  sent, got  \* frames that have arrived, the last one posted (not in the code)

vars == <<desc, ring, rx, sem, ints, isr, mbox, heap, others, dma, content, sent, got>>

Inc(i) == IF i + 1 >= N THEN 0 ELSE i + 1
Held(i) == (i - ring.get + N) % N < N - ring.free   \* descriptor i has a buffer

\* lpc_rx_setup: an empty ring, which lpc_rx_queue then fills
Init ==
  /\ desc = [i \in 0..(N - 1) |-> [own |-> FALSE, buf |-> NoBuf]]
  /\ ring = [get |-> 0, next |-> 0, free |-> N]
  /\ rx = [pc |-> "queue", back |-> "wait", hand |-> NoBuf, p |-> NoBuf]
  /\ sem = 0 /\ ints = {} /\ isr = {} /\ mbox = <<>>
  /\ heap = Bufs /\ others = {} /\ dma = 0 /\ sent = 0 /\ got = 0
  /\ content = [b \in Bufs |-> [n |-> 0, status |-> {}]]

TypeOK ==
  /\ desc \in [0..(N - 1) -> [own : BOOLEAN, buf : Bufs \cup {NoBuf}]]
  /\ ring \in [get : 0..(N - 1), next : 0..(N - 1), free : 0..N]
  /\ rx \in [pc : {"wait", "test", "input", "queue", "give", "deliver"},
             back : {"wait", "test", "deliver", "requeue"},
             hand : Bufs \cup {NoBuf}, p : Bufs \cup {NoBuf}]
  /\ sem \in 0..1 /\ {ints, isr} \subseteq SUBSET {"RI", "RU", "TI"}
  /\ Len(mbox) <= MboxSize

(***************************************************************************)
(* The hardware and the interrupt.                                         *)
(***************************************************************************)
Setup == rx.back = "wait" /\ rx.pc \in {"queue", "give"}
\* A frame arrives: into the descriptor if the DMA owns it, else it is lost
Frame == \E st \in Statuses :
  /\ ~Setup /\ sent < Frames /\ sent' = sent + 1
  /\ IF desc[dma].own
     THEN /\ content' = [content EXCEPT ![desc[dma].buf] = [n |-> sent', status |-> st]]
          /\ desc' = [desc EXCEPT ![dma].own = FALSE]
          /\ dma' = Inc(dma) /\ ints' = ints \cup {"RI"}
     ELSE ints' = ints \cup {"RU"} /\ UNCHANGED <<content, desc, dma>>
  /\ UNCHANGED <<ring, rx, sem, isr, mbox, heap, others, got>>

\* A transmission ends: the handler may be busy with this bit only
TxDone == /\ ints' = ints \cup {"TI"} /\ ~Setup
          /\ UNCHANGED <<desc, ring, rx, sem, isr, mbox, heap, others, dma, content, sent, got>>

IrqRead ==
  /\ isr = {} /\ ints # {} /\ isr' = ints
  /\ sem' = IF ints \cap {"RI", "RU"} # {} THEN 1 ELSE sem
  /\ UNCHANGED <<desc, ring, rx, ints, mbox, heap, others, dma, content, sent, got>>

ClearsAll == /\ isr # {} /\ isr' = {} /\ ints' = {}
             /\ UNCHANGED <<desc, ring, rx, sem, mbox, heap, others, dma, content, sent, got>>
\* Only the bits that were read are cleared
IrqClear == /\ isr # {} /\ isr' = {} /\ ints' = ints \ isr
            /\ UNCHANGED <<desc, ring, rx, sem, mbox, heap, others, dma, content, sent, got>>
ETH_IRQHandler == IrqRead \/ IrqClear

(***************************************************************************)
(* The receive task; no task runs while the handler does.                  *)
(***************************************************************************)
Wait == /\ rx.pc = "wait" /\ sem = 1 /\ sem' = 0 /\ rx' = [rx EXCEPT !.pc = "test"]
        /\ UNCHANGED <<desc, ring, mbox, heap, got>>

Test ==
  /\ rx.pc = "test" /\ rx' = [rx EXCEPT !.pc = IF desc[ring.get].own THEN "wait" ELSE "input"]
  /\ UNCHANGED <<desc, ring, sem, mbox, heap, got>>

MaskOnly(st, full) == "ES" \in st /\ st \cap intMask # {}
\* rxerr: full is MAC_CFG_DM
RxError(st, full) ==
  /\ "ES" \in st
  /\ \/ st \cap intMask # {}
     \/ st \cap {"LE", "FT"} = {"LE"}
     \/ {"CE", "LS"} \subseteq st
     \/ {"DE", "LS"} \subseteq st
     \/ "DE" \in st /\ ~full

GetStays ==
  LET q == desc[ring.get].buf IN
  /\ rx.pc = "input"
  /\ IF ring.free = N
     THEN rx' = [rx EXCEPT !.pc = "queue", !.back = "test"] /\ UNCHANGED <<desc, ring>>
     ELSE /\ ring' = [ring EXCEPT !.free = @ + 1]
          /\ IF RxError(content[q].status, TRUE)
             THEN /\ desc' = [desc EXCEPT ![ring.next].buf = q]
                  /\ rx' = [rx EXCEPT !.pc = "give", !.back = "requeue", !.p = q]
             ELSE rx' = [rx EXCEPT !.pc = "queue", !.back = "deliver", !.hand = q] /\ UNCHANGED desc
  /\ UNCHANGED <<sem, mbox, heap, got>>
\* lpc_low_level_input: an empty ring is only filled; a bad frame's buffer goes
\* back to the ring, a good one stays in hand while new buffers are queued
lpc_low_level_input ==
  LET q == desc[ring.get].buf IN
  /\ rx.pc = "input"
  /\ IF ring.free = N
     THEN rx' = [rx EXCEPT !.pc = "queue", !.back = "test"] /\ UNCHANGED <<desc, ring>>
     ELSE /\ ring' = [ring EXCEPT !.free = @ + 1, !.get = Inc(@)]
          /\ IF RxError(content[q].status, TRUE)
             THEN /\ desc' = [desc EXCEPT ![ring.next].buf = q]
                  /\ rx' = [rx EXCEPT !.pc = "give", !.back = "requeue", !.p = q]
             ELSE rx' = [rx EXCEPT !.pc = "queue", !.back = "deliver", !.hand = q] /\ UNCHANGED desc
  /\ UNCHANGED <<sem, mbox, heap, got>>

StaleAddress ==
  /\ rx.pc = "queue" /\ UNCHANGED <<sem, mbox, got>>
  /\ \/ \E p \in heap :
          /\ ring.free > 0 /\ heap' = heap \ {p}
          /\ desc' = [desc EXCEPT ![ring.next].buf = IF @ = NoBuf THEN p ELSE @]
          /\ ring' = ring /\ rx' = [rx EXCEPT !.pc = "give", !.p = p]
     \/ /\ ring.free = 0 \/ heap = {}
        /\ rx' = [rx EXCEPT !.pc = rx.back] /\ UNCHANGED <<desc, ring, heap>>
\* The loop of lpc_rx_queue: while a descriptor is free and the heap has a
\* buffer, its address is written
lpc_rx_queue ==
  /\ rx.pc = "queue" /\ UNCHANGED <<sem, mbox, got>>
  /\ \/ \E p \in heap :
          /\ ring.free > 0 /\ heap' = heap \ {p}
          /\ desc' = [desc EXCEPT ![ring.next].buf = p]
          /\ ring' = ring /\ rx' = [rx EXCEPT !.pc = "give", !.p = p]
     \/ /\ ring.free = 0 \/ heap = {}
        /\ rx' = [rx EXCEPT !.pc = rx.back] /\ UNCHANGED <<desc, ring, heap>>

GiveNoCount ==
  /\ rx.pc = "give"
  /\ desc' = [desc EXCEPT ![ring.next].own = TRUE]
  /\ ring' = [ring EXCEPT !.next = Inc(@)]
  /\ rx' = [rx EXCEPT !.pc = IF rx.back = "requeue" THEN "test" ELSE "queue", !.p = NoBuf]
  /\ UNCHANGED <<sem, mbox, heap, got>>
GiveNoWrap ==
  /\ rx.pc = "give"
  /\ desc' = [desc EXCEPT ![ring.next].own = TRUE]
  /\ ring' = [ring EXCEPT !.free = @ - 1, !.next = IF @ + 1 > N - 1 THEN N - 1 ELSE @ + 1]
  /\ rx' = [rx EXCEPT !.pc = IF rx.back = "requeue" THEN "test" ELSE "queue", !.p = NoBuf]
  /\ UNCHANGED <<sem, mbox, heap, got>>
\* The end of lpc_rxqueue_pbuf: the descriptor is the DMA's
lpc_rxqueue_pbuf ==
  /\ rx.pc = "give"
  /\ desc' = [desc EXCEPT ![ring.next].own = TRUE]
  /\ ring' = [ring EXCEPT !.free = @ - 1, !.next = Inc(@)]
  /\ rx' = [rx EXCEPT !.pc = IF rx.back = "requeue" THEN "test" ELSE "queue", !.p = NoBuf]
  /\ UNCHANGED <<sem, mbox, heap, got>>

DropLeaks ==
  /\ rx.pc = "deliver" /\ rx' = [rx EXCEPT !.pc = "test", !.hand = NoBuf]
  /\ \/ /\ Len(mbox) < MboxSize /\ got' = content[rx.hand].n
        /\ mbox' = Append(mbox, [buf |-> rx.hand, n |-> got']) /\ UNCHANGED heap
     \/ UNCHANGED <<mbox, got, heap>>
  /\ UNCHANGED <<desc, ring, sem>>
\* Posted to tcpip_thread, or freed: the type is neither IP nor ARP, the
\* mailbox is full or there is no memory for the message
lpc_enetif_input ==
  /\ rx.pc = "deliver" /\ rx' = [rx EXCEPT !.pc = "test", !.hand = NoBuf]
  /\ \/ /\ Len(mbox) < MboxSize /\ got' = content[rx.hand].n
        /\ mbox' = Append(mbox, [buf |-> rx.hand, n |-> got']) /\ UNCHANGED heap
     \/ heap' = heap \cup {rx.hand} /\ UNCHANGED <<mbox, got>>
  /\ UNCHANGED <<desc, ring, sem>>

vPacketReceiveTask ==
  /\ isr = {}
  /\ \/ Wait \/ Test \/ lpc_low_level_input \/ lpc_rx_queue \/ lpc_rxqueue_pbuf \/ lpc_enetif_input
  /\ UNCHANGED <<ints, isr, others, dma, content, sent>>

(***************************************************************************)
(* The rest of the program.                                                *)
(***************************************************************************)
TcpipThread ==
  /\ isr = {} /\ mbox # <<>> /\ mbox' = Tail(mbox) /\ heap' = heap \cup {Head(mbox).buf}
  /\ UNCHANGED <<desc, ring, rx, sem, ints, isr, others, dma, content, sent, got>>
OtherAlloc == \E b \in heap :
  /\ isr = {} /\ heap' = heap \ {b} /\ others' = others \cup {b}
  /\ UNCHANGED <<desc, ring, rx, sem, ints, isr, mbox, dma, content, sent, got>>
OtherFree == \E b \in others :
  /\ isr = {} /\ others' = others \ {b} /\ heap' = heap \cup {b}
  /\ UNCHANGED <<desc, ring, rx, sem, ints, isr, mbox, dma, content, sent, got>>

Next == \/ Frame \/ TxDone \/ ETH_IRQHandler \/ vPacketReceiveTask
        \/ TcpipThread \/ OtherAlloc \/ OtherFree
Spec == Init /\ [][Next]_vars
\* A pending interrupt is taken and ends; interrupts leave the tasks some time
Live == Spec /\ WF_vars(ETH_IRQHandler) /\ SF_vars(vPacketReceiveTask) /\ SF_vars(TcpipThread)

(***************************************************************************)
(* Properties.                                                             *)
(***************************************************************************)
Places == <<heap, others, {rx.hand} \ {NoBuf}, {rx.p} \ {NoBuf}, {m.buf : m \in {mbox[k] : k \in DOMAIN mbox}},
            {desc[i].buf : i \in {j \in 0..(N - 1) : Held(j)}}>>
\* Whatever allocations fail, frames are bad or the mailbox is full, a buffer
\* is free or belongs to one of the ring, the receive task, the mailbox and the
\* other users: none is lost, none is freed or queued twice.
BufferOnce ==
  /\ \A b \in Bufs : \E k \in DOMAIN Places : {j \in DOMAIN Places : b \in Places[j]} = {k}
  /\ \A i, j \in 0..(N - 1) : Held(i) /\ Held(j) /\ i # j => desc[i].buf # desc[j].buf

\* The indices and rx_free_descs describe the ring: the descriptors with a
\* buffer run from rx_get_idx to rx_next_idx, and the DMA owns those from its
\* own position on and no other.
RingRight ==
  LET from(i) == (i - ring.get + N) % N IN
  /\ ring.next = (ring.get + N - ring.free) % N
  /\ \A i \in 0..(N - 1) : desc[i].own => Held(i)
  /\ \A i, j \in 0..(N - 1) : Held(j) /\ desc[i].own /\ from(i) < from(j) => desc[j].own
  /\ \A i \in 0..(N - 1) : desc[i].own => desc[dma].own /\ from(dma) <= from(i)

\* The DMA writes only into buffers of the ring: a frame that waits in the
\* mailbox is still the one that was posted.
PostedIntact == \A k \in DOMAIN mbox : content[mbox[k].buf].n = mbox[k].n

\* tcpip_thread gets the frames in the order of the wire and none twice.
InOrder == Len(mbox') > Len(mbox) => got' > got

Bad(st) == "ES" \in st /\ ({"CE", "RE"} \cap st # {} \/ st \cap {"LE", "FT"} = {"LE"})
\* No frame with a CRC, receive or length error leaves the driver.
BadDropped == \A k \in DOMAIN mbox : ~Bad(content[mbox[k].buf].status)

Filled(i) == Held(i) /\ ~desc[i].own
\* A received frame is taken out of the ring, although interrupts are merged in
\* one semaphore and bits appear while the handler runs.
Taken == \A i \in 0..(N - 1) : Filled(i) ~> ~Filled(i)
=============================================================================
