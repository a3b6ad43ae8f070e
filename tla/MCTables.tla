------------------------------ MODULE MCTables ------------------------------
(***************************************************************************)
(* What the stack keeps its links, memory, frames, addresses and           *)
(* connections in: the flag of the link with the task that follows the     *)
(* cable, lwIP's heap, the two rings of the Ethernet driver, the ARP table *)
(* and the control blocks of TCP.                                          *)
(***************************************************************************)
EXTENDS Units

CONSTANTS
  \* the heap: its size, the least and the largest block, and whether others free
  MemSize, MemMin, MemMax, MemOther,
  \* the receive ring: descriptors, buffers, the errors that drop a frame, what the DMA
  \* may report, frames on the wire, places of the mailbox
  RxDescs, RxBufs, NoBuf, RxMask, RxStatuses, RxFrames, RxMbox,
  \* the transmit ring: descriptors, frames, their pbufs, whether the DMA may be slow,
  \* and whether the cleanup task goes first
  TxDescs, TxFrames, TxClens, TxSlow, TxPriority,
  \* the link monitor: what the PHY can negotiate, no link, places of the mailbox, and
  \* the changes of the cable
  LinkModes, LinkOff, LinkMbox, LinkChanges,
  \* the ARP table: entries, hosts and the gateway, their Ethernet addresses, packets, the
  \* ages in ticks of its timer, and what is switched on
  ArpEntries, ArpHosts, ArpGateway, ArpMacs, ArpPackets, ArpMaxAge, ArpRerequest,
  ArpMaxPending, ArpFeatures,
  \* the control blocks of TCP: how many, the first port given, the ports that applications
  \* bind, the time of TIME_WAIT and the ticks of the timer; for servers alone (Srv) and with
  \* clients (App) the last port given, the addresses of the interface, and priorities
  PcbBlocks, PcbFirst, PcbPorts, PcbMsl2, PcbTicks,
  SrvLast, SrvAddrs, SrvPrios, AppLast, AppAddr, AppPrios

\* Speeds and duplex of a link, and none
MCModes == [fast : BOOLEAN, full : BOOLEAN]
MCOff == [fast |-> FALSE]

\* The start of the stack and changes of the cable; memory for the messages
Link == INSTANCE LinkMonitor WITH
  Modes <- LinkModes, Off <- LinkOff, TCPIP_MBOX_SIZE <- LinkMbox, Memory <- FALSE,
  Changes <- LinkChanges,
  phy <- v1, seen <- v2, changes <- v3, mac <- v4, led <- v5, netif <- v6, mbox <- v7,
  started <- v8, prt_ip <- v9, pc <- v10

\* A heap
Mem == INSTANCE LwipMem WITH
  MEM_SIZE <- MemSize, MIN_SIZE <- MemMin, MaxSize <- MemMax, OtherContext <- MemOther,
  ram <- v1, lfree <- v2, req <- v3, live <- v4, failed <- v5

\* A receive ring
Rx == INSTANCE EmacRx WITH
  N <- RxDescs, Bufs <- RxBufs, NoBuf <- NoBuf, intMask <- RxMask, Statuses <- RxStatuses,
  Frames <- RxFrames, MboxSize <- RxMbox,
  desc <- v1, ring <- v2, rx <- v3, sem <- v4, ints <- v5, isr <- v6, mbox <- v7, heap <- v8,
  others <- v9, dma <- v10, content <- v11, sent <- v12, got <- v13

\* A transmit ring
Tx == INSTANCE EmacTx WITH
  N <- TxDescs, Frames <- TxFrames, Clens <- TxClens, Slow <- TxSlow, Priority <- TxPriority,
  desc <- v1, ring <- v2, out <- v3, clean <- v4, mutex <- v5, count <- v6, sem <- v7, ints <- v8,
  isr <- v9, dma <- v10, refs <- v11, wire <- v12

\* An ARP table
Arp == INSTANCE Etharp WITH
  N <- ArpEntries, Hosts <- ArpHosts, Gateway <- ArpGateway, Macs <- ArpMacs,
  Packets <- ArpPackets, MaxAge <- ArpMaxAge, Rerequest <- ArpRerequest,
  MaxPending <- ArpMaxPending, Features <- ArpFeatures,
  arp <- v1, hint <- v2, out <- v3, heard <- v4

\* TCP's control blocks with memory for SYNs: of servers alone, which bind to any address, or
\* (app) also of clients, and of servers that bind to the interface's address
Pcbs(app, last, addrs, prios) == INSTANCE TcpPcbs WITH
  N <- PcbBlocks, Start <- PcbFirst, End <- last, Ports <- PcbPorts, Addrs <- addrs,
  Prios <- prios, Msl2 <- PcbMsl2, Ticks <- PcbTicks, OwnAddress <- app, Client <- app,
  Memory <- FALSE,
  pcb <- v1, lists <- v2, tcp_port <- v3, ticks <- v4, addr <- v5

ASSUME MCTablesAssumption ==
  /\ Link!LinkAssumption
  /\ Mem!LwipMemAssumption
  /\ Rx!RxAssumption
  /\ Tx!TxAssumption
  /\ Arp!EtharpAssumption
  /\ Pcbs(FALSE, SrvLast, SrvAddrs, SrvPrios)!PcbsAssumption
  /\ Pcbs(TRUE, AppLast, {AppAddr}, AppPrios)!PcbsAssumption

Init ==
  \/ On("link") /\ Link!Init /\ Off10
  \/ On("mem") /\ Mem!Init /\ Off5
  \/ On("rx") /\ Rx!Init /\ Off13
  \/ On("tx") /\ Tx!Init /\ Off12
  \/ On("arp") /\ Arp!Init /\ Off4
  \/ On("blocks") /\ Pcbs(FALSE, SrvLast, SrvAddrs, SrvPrios)!Init /\ Off5
  \/ On("ports") /\ Pcbs(TRUE, AppLast, {AppAddr}, AppPrios)!Init /\ Off5

Next ==
  \/ On("link") /\ Link!Next /\ Same10
  \/ On("mem") /\ Mem!Next /\ Same5
  \/ On("rx") /\ Rx!Next /\ Same13
  \/ On("tx") /\ Tx!Next /\ Same12
  \/ On("arp") /\ Arp!Next /\ Same4
  \/ On("blocks") /\ Pcbs(FALSE, SrvLast, SrvAddrs, SrvPrios)!Next /\ Same5
  \/ On("ports") /\ Pcbs(TRUE, AppLast, {AppAddr}, AppPrios)!Next /\ Same5

Spec == Init /\ [][Next]_<<unit, pool>>

\* Start of the stack and the link monitor.
\*  - vStackIpSetup, tcpip_callback_with_block: when nothing is under way,
\*    the link flag of the interface, the lamp and the last report of the
\*    PHY agree, also when the mailbox was full of frames (memory for the
\*    message; see README).
\*  - Whenever the stack believes in a link that the PHY has reported, the
\*    MAC has its speed and duplex.
\*  - No frame reaches tcpip_thread and no server runs before the interface
\*    is listed with its address.
LinkSound ==
  On("link") => /\ Link!TypeOK
                /\ Link!LinkFollows
                /\ Link!MacAgrees
                /\ Link!InputAfterSetup

\* lwIP's heap, freed from another context while mem_malloc searches.
\*  - mem.c: blocks tile the heap and their links agree, also while
\*    mem_malloc searches and another context frees.
\*  - A block in use keeps its size and place until it is freed.
\*  - plug_holes: no two free blocks are neighbours.
\*  - No free block lies before lfree, where every search starts.
\*  - mem_malloc fails only when no free block was large enough at some
\*    moment of the search.
MemSound ==
  On("mem") => /\ Mem!TypeOK
               /\ Mem!Tiled
               /\ Mem!LiveKept
               /\ Mem!Merged
               /\ Mem!NothingBeforeLfree
               /\ Mem!FailsOnlyWhenFull

\* The receive side of the driver: ring, DMA, interrupt, receive task and
\* mailbox.
\*  - lpc18xx_43xx_emac.c: whatever allocations fail and frames are dropped,
\*    a buffer is free or belongs to one of the ring, the receive task, the
\*    mailbox and other users.
\*  - rx_get_idx, rx_next_idx and rx_free_descs describe the ring, and the
\*    DMA owns only descriptors with a buffer.
\*  - A frame that waits in the mailbox is still the one that was posted:
\*    the DMA writes only into buffers of the ring.
\*  - lpc_low_level_input: no frame with a CRC, receive or length error
\*    reaches tcpip_thread.
\*  - tcpip_thread gets the frames in the order of the wire and none twice.
RxSound ==
  /\ [](On("rx") => /\ Rx!TypeOK
                    /\ Rx!BufferOnce
                    /\ Rx!RingRight
                    /\ Rx!PostedIntact
                    /\ Rx!BadDropped)
  /\ [][On("rx") => Rx!InOrder]_<<unit, pool>>

\* The transmit side of the driver: tcpip_thread, DMA, interrupt and cleanup
\* task.
\*  - tx_free_descs and the indices describe the transmit ring whenever its
\*    lock is free.
\*  - lpc_tx_reclaim: a chain is freed once and not while the DMA has still
\*    to send a part of it.
\*  - lpc_low_level_output: the DMA sends whole frames in the order of the
\*    calls, although it polls while descriptors are filled.
TxSound ==
  /\ [](On("tx") => /\ Tx!TypeOK
                    /\ Tx!RingRight
                    /\ Tx!SentBeforeFreed)
  /\ [][On("tx") => Tx!WholeFrames]_<<unit, pool>>

\* etharp.c: a table with fewer entries than hosts.
\*  - etharp_output: a packet is sent to the hardware address that its host
\*    last announced, although entries are recycled and a cached index is
\*    used.
\*  - No address has two entries, and every entry is in a state that its
\*    fields agree with.
\*  - etharp_find_entry: a packet that waits for an answer is given up only
\*    when its requests are over or nothing else can be recycled.
ArpSound ==
  /\ [](On("arp") => /\ Arp!TypeOK
                     /\ Arp!SentToItsHost
                     /\ Arp!Consistent)
  /\ [][On("arp") => Arp!WaitingKept]_<<unit, pool>>

\* The control blocks of TCP: lists, addresses, ports, and who goes when
\* memory is short.
\*  - TCP_REG, TCP_RMV: a control block is in the list of its state, once,
\*    and memory that was given back is in none.
\*  - tcp_alloc kills only for want of memory, a connection in TIME_WAIT
\*    before any other, never one of a higher priority than the new one, and
\*    one that has been idle for at least as long as all others of its
\*    priority or a lower one.
\*  - netif_set_ipaddr: no connection of the server goes on with an address
\*    that the interface has not any more (listeners bound to any address;
\*    see README).
\*  - tcp_bind: no two control blocks that applications bound can get the
\*    same connection.
\*  - tcp_new_port gives a port of its range that no control block has, and
\*    none only when all are in use.
BlocksSound ==
  /\ On("blocks") => /\ Pcbs(FALSE, SrvLast, SrvAddrs, SrvPrios)!TypeOK
                     /\ Pcbs(FALSE, SrvLast, SrvAddrs, SrvPrios)!ListsIntact
                     /\ Pcbs(FALSE, SrvLast, SrvAddrs, SrvPrios)!KillsTheOldest
                     /\ Pcbs(FALSE, SrvLast, SrvAddrs, SrvPrios)!AddressIsOurs
                     /\ Pcbs(FALSE, SrvLast, SrvAddrs, SrvPrios)!PortsExclusive
  /\ On("ports") => /\ Pcbs(TRUE, AppLast, {AppAddr}, AppPrios)!ListsIntact
                    /\ Pcbs(TRUE, AppLast, {AppAddr}, AppPrios)!PortsExclusive
                    /\ Pcbs(TRUE, AppLast, {AppAddr}, AppPrios)!PortIsFree
=============================================================================
