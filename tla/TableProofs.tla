----------------------------- MODULE TableProofs ----------------------------
(***************************************************************************)
(* The link monitor, lwIP's heap, the two rings of the Ethernet driver,    *)
(* the ARP table and TCP's control blocks are sound for every instance     *)
(* that meets MCTablesAssumption, not only for the values of MCTables.cfg: *)
(* any number of descriptors, buffers, frames, entries, hosts, blocks,     *)
(* ports and changes of the cable, and a heap of any size.                 *)
(*                                                                         *)
(* The variables of a unit have the names of its module here, those of the *)
(* rings with "rx" or "tx" before them, those of the ARP table "arp" and   *)
(* those of the control blocks "pcb".                                      *)
(***************************************************************************)
EXTENDS MCTables, SequenceFacts, TLAPS

\* LinkMonitor
phy == v1
seen == v2
changes == v3
mac == v4
led == v5
netif == v6
mbox == v7
started == v8
prt_ip == v9
pc == v10

\* LwipMem
ram == v1
lfree == v2
req == v3
live == v4
failed == v5

\* EmacRx
rxDesc == v1
rxRing == v2
rxTask == v3
rxSem == v4
rxInts == v5
rxIsr == v6
rxMbox == v7
rxHeap == v8
rxOthers == v9
rxDma == v10
rxContent == v11
rxSent == v12
rxGot == v13

\* EmacTx
txDesc == v1
txRing == v2
txOut == v3
txClean == v4
txMutex == v5
txCount == v6
txSem == v7
txInts == v8
txIsr == v9
txDma == v10
txRefs == v11
txWire == v12

\* Etharp
arpTable == v1
arpHint == v2
arpOut == v3
arpHeard == v4

\* TcpPcbs
pcbTable == v1
pcbLists == v2
pcbPort == v3
pcbClock == v4
pcbAddr == v5

USE DEF phy, seen, changes, mac, led, netif, mbox, started, prt_ip, pc,
        ram, lfree, req, live, failed,
        rxDesc, rxRing, rxTask, rxSem, rxInts, rxIsr, rxMbox, rxHeap, rxOthers, rxDma, rxContent,
        rxSent, rxGot,
        txDesc, txRing, txOut, txClean, txMutex, txCount, txSem, txInts, txIsr, txDma, txRefs,
        txWire,
        arpTable, arpHint, arpOut, arpHeard,
        pcbTable, pcbLists, pcbPort, pcbClock, pcbAddr

\* A remainder that is one subtraction away.
LEMMA Mod == ASSUME NEW n \in Nat \ {0}, NEW x \in 0..(2 * n - 1)
             PROVE  x % n = IF x < n THEN x ELSE x - n
  OBVIOUS

-----------------------------------------------------------------------------
(***************************************************************************)
(* The link monitor (lwip_init.c).                                         *)
(*                                                                         *)
(* The link flag lags behind the report of the PHY by what is still in the *)
(* mailbox, so the invariant speaks of what the flag will be when the      *)
(* mailbox is worked off (LinkEndsAs): the last report in it decides, or   *)
(* the flag itself if there is none.                                       *)
(***************************************************************************)

\* The constants of the run meet the assumption of LinkMonitor.
LEMMA LinkConstants == Link!LinkAssumption
  BY MCTablesAssumption

LinkMessages == {"up", "down", "frame"}
LinkEarly == {"start", "wait", "added", "irq", "halted"}
LinkLooping == {"poll", "found", "lost", "post_up", "post_down", "delay", "print"}

LinkTypes ==
    /\ phy \in LinkModes \cup {LinkOff} /\ seen \in LinkModes \cup {LinkOff}
    /\ mac \in [fast : BOOLEAN, full : BOOLEAN]
    /\ mbox \in Seq(LinkMessages) /\ Len(mbox) <= LinkMbox
    /\ netif \in [listed : BOOLEAN, addr : BOOLEAN, up : BOOLEAN, link : BOOLEAN]
    /\ started \in [thread : BOOLEAN, done : BOOLEAN, irq : BOOLEAN, server : BOOLEAN]
    /\ pc \in LinkEarly \cup {"threads"} \cup LinkLooping /\ led \in BOOLEAN

\* How far vStackIpSetup has come.
LinkStageInv ==
    /\ pc \in LinkEarly => ~started.irq /\ mbox = <<>>
    /\ pc \in LinkEarly \cup {"threads"} => ~started.server /\ seen = LinkOff /\ led = FALSE
    /\ pc = "added" => netif.addr /\ netif.up
    /\ pc \in {"irq", "threads"} \cup LinkLooping => netif.listed /\ netif.addr /\ netif.up

\* When the mailbox has been worked off, the link flag is v.
LinkEndsAs(v) ==
    /\ ~Link!Pending => netif.link = v
    /\ \A k \in 1..Len(mbox) : /\ mbox[k] # "frame"
                               /\ \A j \in 1..Len(mbox) : j > k => mbox[j] = "frame"
                               => (mbox[k] = "up") = v

LinkReportInv ==
    /\ pc \in {"found", "post_up"} => seen # LinkOff
    /\ pc \in {"lost", "post_down"} => seen = LinkOff
    /\ pc = "post_up" => led = TRUE /\ mac = seen
    /\ pc = "post_down" => led = FALSE
    /\ ~Link!Busy => led = (seen # LinkOff) /\ LinkEndsAs(seen # LinkOff)
         /\ (seen # LinkOff => mac = seen)

LinkInv == LinkTypes /\ LinkStageInv /\ LinkReportInv

\* With nothing in the mailbox the link flag is what it is.
LEMMA LinkEmptyEnds == mbox = <<>> => LinkEndsAs(netif.link)
  <1>1. mbox = <<>> => DOMAIN mbox = {} /\ 1..Len(mbox) = {}
    OBVIOUS
  <1> QED
    BY <1>1 DEF LinkEndsAs, Link!Pending

\* Before vStackIpSetup has begun the invariant holds.
LEMMA LinkInit == Link!Init => LinkInv
  <1> SUFFICES ASSUME Link!Init PROVE LinkInv
    OBVIOUS
  <1>1. LinkTypes
    <2>1. mbox = <<>> /\ mbox \in Seq(LinkMessages) /\ Len(mbox) <= LinkMbox
      BY LinkConstants DEF Link!Init, Link!LinkAssumption
    <2>2. /\ mac \in [fast : BOOLEAN, full : BOOLEAN]
          /\ netif \in [listed : BOOLEAN, addr : BOOLEAN, up : BOOLEAN, link : BOOLEAN]
          /\ started \in [thread : BOOLEAN, done : BOOLEAN, irq : BOOLEAN, server : BOOLEAN]
      BY DEF Link!Init
    <2> QED
      BY <2>1, <2>2, Zenon DEF Link!Init, LinkTypes, LinkEarly
  <1>2. LinkStageInv
    BY DEF Link!Init, LinkStageInv, LinkLooping
  <1>3. LinkReportInv
    BY LinkEmptyEnds DEF Link!Init, LinkReportInv, Link!Busy
  <1> QED
    BY <1>1, <1>2, <1>3 DEF LinkInv

\* A posted report decides the final link flag; a frame changes nothing.
LEMMA LinkPosted == ASSUME LinkTypes, NEW m \in LinkMessages, mbox' = Append(mbox, m),
                           netif' = netif,
                           Len(mbox) < LinkMbox, LinkMbox \in Nat
                    PROVE  /\ mbox' \in Seq(LinkMessages) /\ Len(mbox') <= LinkMbox
                           /\ m # "frame" => LinkEndsAs(m = "up")'
                           /\ m = "frame" => \A v \in BOOLEAN : LinkEndsAs(v) => LinkEndsAs(v)'
  <1>1. /\ Len(mbox) \in Nat /\ Len(mbox') = Len(mbox) + 1 /\ mbox' \in Seq(LinkMessages)
        /\ \A i \in 1..Len(mbox) : mbox'[i] = mbox[i]
        /\ mbox'[Len(mbox) + 1] = m
    BY DEF LinkTypes
  <1>2. DOMAIN mbox' = 1..Len(mbox') /\ DOMAIN mbox = 1..Len(mbox)
    BY <1>1 DEF LinkTypes
  <1>3. m # "frame" => LinkEndsAs(m = "up")'
    BY <1>1, <1>2 DEF LinkEndsAs, Link!Pending
  <1>4. ASSUME m = "frame", NEW v \in BOOLEAN, LinkEndsAs(v) PROVE LinkEndsAs(v)'
    BY <1>1, <1>2, <1>4 DEF LinkEndsAs, Link!Pending
  <1> QED BY <1>1, <1>3, <1>4

\* tcpip_thread working off its first message leaves the final link flag as it was.
LEMMA LinkWorked == ASSUME LinkTypes, mbox # <<>>, mbox' = Tail(mbox),
                           netif' = Link!SetLink(Head(mbox)), LinkMbox \in Nat
                    PROVE  /\ mbox' \in Seq(LinkMessages) /\ Len(mbox') <= LinkMbox
                           /\ \A v \in BOOLEAN : LinkEndsAs(v) => LinkEndsAs(v)'
  <1>1. /\ Len(mbox) \in Nat \ {0} /\ Len(mbox') = Len(mbox) - 1 /\ mbox' \in Seq(LinkMessages)
        /\ \A i \in 1..Len(mbox') : mbox'[i] = mbox[i + 1]
        /\ Head(mbox) = mbox[1]
    BY DEF LinkTypes
  <1>2. DOMAIN mbox' = 1..Len(mbox') /\ DOMAIN mbox = 1..Len(mbox)
    BY <1>1 DEF LinkTypes
  <1>3. netif'.link = IF mbox[1] = "frame" THEN netif.link ELSE mbox[1] = "up"
    BY <1>1 DEF Link!SetLink, LinkTypes
  <1>4. ASSUME NEW v \in BOOLEAN, LinkEndsAs(v) PROVE LinkEndsAs(v)'
    <2>1. \A k \in 1..Len(mbox') : k + 1 \in 1..Len(mbox)
      BY <1>1
    <2>2. \A j \in 1..Len(mbox) : j > 1 => j - 1 \in 1..Len(mbox') /\ mbox'[j - 1] = mbox[j]
      BY <1>1
    <2>3. ASSUME ~Link!Pending' PROVE netif'.link = v
      <3>1. \A j \in 1..Len(mbox) : j > 1 => mbox[j] = "frame"
        BY <2>2, <2>3, <1>2 DEF Link!Pending
      <3>2. CASE mbox[1] = "frame"
        <4>1. ~Link!Pending
          BY <1>1, <1>2, <3>1, <3>2 DEF Link!Pending
        <4> QED BY <1>3, <1>4, <3>2, <4>1 DEF LinkEndsAs
      <3>3. CASE mbox[1] # "frame"
        BY <1>1, <1>3, <1>4, <3>1, <3>3 DEF LinkEndsAs
      <3> QED BY <3>2, <3>3
    <2>4. ASSUME NEW k \in 1..Len(mbox'), mbox'[k] # "frame",
                 \A j \in 1..Len(mbox') : j > k => mbox'[j] = "frame"
          PROVE (mbox'[k] = "up") = v
      <3>1. mbox'[k] = mbox[k + 1] /\ k + 1 \in 1..Len(mbox)
        BY <1>1
      <3>2. \A j \in 1..Len(mbox) : j > k + 1 => mbox[j] = "frame"
        <4> SUFFICES ASSUME NEW j \in 1..Len(mbox), j > k + 1 PROVE mbox[j] = "frame"
          OBVIOUS
        <4>1. j > 1 /\ j - 1 > k
          BY <1>1
        <4> QED
          BY <2>2, <2>4, <4>1
      <3> QED BY <1>4, <2>4, <3>1, <3>2 DEF LinkEndsAs
    <2> QED BY <2>3, <2>4 DEF LinkEndsAs
  <1> QED BY <1>1, <1>4 DEF LinkTypes

\* Every step of start-up, monitor, cable and tcpip_thread keeps the invariant.
LEMMA LinkNext == LinkInv /\ [Link!Next]_(Link!vars) => LinkInv'
  <1> SUFFICES ASSUME LinkInv, [Link!Next]_(Link!vars) PROVE LinkInv'
    OBVIOUS
  <1> USE LinkConstants DEF LinkInv
  <1>1. CASE UNCHANGED Link!vars
    BY <1>1 DEF Link!vars, LinkTypes, LinkStageInv, LinkReportInv, LinkEndsAs, Link!Pending,
      Link!Busy
  <1>2. CASE Link!tcpip_init \/ Link!tcpip_init_done_signal \/ Link!NVIC_EnableIRQ
             \/ Link!stackIp_ThreadInit
    <2>1. LinkTypes'
      BY <1>2 DEF LinkTypes, Link!tcpip_init, Link!tcpip_init_done_signal, Link!NVIC_EnableIRQ,
        Link!stackIp_ThreadInit,
                  Link!world, LinkEarly, LinkLooping
    <2>2. LinkStageInv'
      BY <1>2 DEF LinkTypes, LinkStageInv, Link!tcpip_init, Link!tcpip_init_done_signal,
        Link!NVIC_EnableIRQ, Link!stackIp_ThreadInit,
                  LinkEarly, LinkLooping
    <2>3. LinkReportInv'
      BY <1>2 DEF LinkStageInv, LinkReportInv, LinkEndsAs, Link!Pending, Link!Busy,
        Link!tcpip_init, Link!tcpip_init_done_signal,
                  Link!NVIC_EnableIRQ, Link!stackIp_ThreadInit, LinkEarly, LinkLooping
    <2> QED BY <2>1, <2>2, <2>3
  <1>7. CASE Link!netif_add
    <2>1. LinkTypes'
      <3>1. mac' \in [fast : BOOLEAN, full : BOOLEAN]
        <4>1. mac' = Link!low_level_init \/ mac' = mac
          BY <1>7, Zenon DEF Link!netif_add
        <4>2. Link!low_level_init \in [fast : BOOLEAN, full : BOOLEAN]
          BY DEF Link!low_level_init
        <4> QED
          BY <4>1, <4>2, Zenon DEF LinkTypes
      <3>2. netif' \in [listed : BOOLEAN, addr : BOOLEAN, up : BOOLEAN, link : BOOLEAN]
        BY <1>7 DEF LinkTypes, Link!netif_add, Link!lpc_enetif_init, Link!netif_set_addr
      <3> QED
        BY <1>7, <3>1, <3>2 DEF LinkTypes, Link!netif_add, Link!world, LinkEarly
    <2>2. LinkStageInv'
      BY <1>7 DEF LinkTypes, LinkStageInv, Link!netif_add, LinkEarly, LinkLooping,
        Link!lpc_enetif_init, Link!netif_set_addr
    <2>3. netif'.link = FALSE /\ mbox' = <<>> /\ seen' = LinkOff /\ led' = FALSE /\ ~Link!Busy'
      BY <1>7 DEF LinkTypes, LinkStageInv, LinkReportInv, Link!netif_add, LinkEarly,
        Link!lpc_enetif_init, Link!netif_set_addr, Link!Busy
    <2>4. (mbox = <<>> => LinkEndsAs(netif.link))'
      BY LinkEmptyEnds, PTL
    <2>5. LinkEndsAs(seen # LinkOff)'
      BY <2>3, <2>4
    <2>6. pc' \in LinkEarly
      BY <1>7 DEF Link!netif_add, LinkEarly
    <2>7. LinkReportInv'
      BY <2>3, <2>5, <2>6 DEF LinkReportInv, Link!Busy, LinkEarly
    <2> QED BY <2>1, <2>2, <2>7
  <1>8. CASE Link!netif_set_up
    <2>1. LinkTypes'
      BY <1>8 DEF LinkTypes, Link!netif_set_up, Link!world, LinkEarly
    <2>2. LinkStageInv'
      BY <1>8 DEF LinkTypes, LinkStageInv, Link!netif_set_up, LinkEarly, LinkLooping
    <2>3. netif'.link = netif.link /\ mbox' = mbox /\ seen' = LinkOff /\ led' = FALSE
          /\ ~Link!Busy' /\ ~Link!Busy /\ seen = LinkOff
      BY <1>8 DEF LinkTypes, LinkStageInv, Link!netif_set_up, LinkEarly, Link!Busy
    <2>4. LinkReportInv'
      BY <2>3 DEF LinkReportInv, LinkEndsAs, Link!Pending, Link!Busy
    <2> QED BY <2>1, <2>2, <2>4
  <1>3. CASE Link!lpcPHYStsPoll \/ Link!LinkFound \/ Link!LinkLost \/ Link!Delay
             \/ Link!PrintAddress \/ Link!Wire \/ Link!Halted
    <2>1. LinkTypes'
      BY <1>3 DEF LinkTypes, Link!lpcPHYStsPoll, Link!LinkFound, Link!LinkLost, Link!Delay,
        Link!PrintAddress, Link!Wire, Link!Halted, Link!vars, Link!world, LinkEarly, LinkLooping,
        Link!LinkAssumption, Link!SetMac, LinkReportInv
    <2>2. LinkStageInv'
      BY <1>3 DEF LinkTypes, LinkStageInv, Link!lpcPHYStsPoll, Link!LinkFound, Link!LinkLost,
        Link!Delay, Link!PrintAddress, Link!Wire, Link!Halted, Link!vars, Link!world, LinkEarly,
        LinkLooping
    <2>3. LinkReportInv'
      BY <1>3 DEF LinkTypes, LinkReportInv, LinkEndsAs, Link!Pending, Link!Busy,
        Link!lpcPHYStsPoll, Link!LinkFound, Link!LinkLost, Link!Delay, Link!PrintAddress,
        Link!Wire, Link!Halted, Link!vars, Link!world, LinkEarly, LinkLooping, Link!SetMac
    <2> QED BY <2>1, <2>2, <2>3
  <1>4. CASE Link!tcpip_callback_with_block
    <2>1. PICK m \in {"up", "down"} :
          /\ m = "up" <=> pc = "post_up"
          /\ mbox' = Append(mbox, m) /\ Len(mbox) < LinkMbox /\ m \in LinkMessages
          /\ pc \in {"post_up", "post_down"} /\ pc' = "delay"
          /\ UNCHANGED <<phy, changes, seen, mac, led, netif, prt_ip, started>>
      BY <1>4 DEF Link!tcpip_callback_with_block, Link!SysMboxPost, Link!Told, LinkMessages,
        Link!world
    <2>2. /\ mbox' \in Seq(LinkMessages) /\ Len(mbox') <= LinkMbox /\ LinkEndsAs(m = "up")'
      BY LinkConstants, <2>1, LinkPosted DEF Link!LinkAssumption
    <2>3. LinkTypes' /\ LinkStageInv'
      BY <2>1, <2>2 DEF LinkTypes, LinkStageInv, LinkEarly, LinkLooping
    <2>4. (m = "up") = (seen # LinkOff) /\ seen' = seen
      BY <2>1 DEF LinkReportInv
    <2>5. LinkEndsAs(seen # LinkOff)'
      BY <2>2, <2>4
    <2>6. led' = (seen' # LinkOff) /\ (seen' # LinkOff => mac' = seen')
      BY <2>1, Zenon DEF LinkReportInv
    <2>7. LinkReportInv'
      BY <2>1, <2>5, <2>6, Zenon DEF LinkReportInv, Link!Busy
    <2> QED BY <2>3, <2>7
  <1>5. CASE Link!tcpip_input
    <2>1. /\ mbox' = Append(mbox, "frame") /\ Len(mbox) < LinkMbox /\ started.irq
          /\ UNCHANGED <<phy, changes, seen, mac, led, netif, prt_ip, started, pc>>
      BY <1>5 DEF Link!tcpip_input, Link!world
    <2>2. /\ mbox' \in Seq(LinkMessages) /\ Len(mbox') <= LinkMbox
          /\ \A v \in BOOLEAN : LinkEndsAs(v) => LinkEndsAs(v)'
      BY <2>1, LinkPosted DEF Link!LinkAssumption, LinkMessages
    <2>3. LinkTypes' /\ LinkStageInv'
      BY <2>1, <2>2 DEF LinkTypes, LinkStageInv
    <2>5. LinkEndsAs(seen # LinkOff) => LinkEndsAs(seen # LinkOff)'
      BY <2>1, <2>2
    <2>6. LinkReportInv'
      BY <2>1, <2>5 DEF LinkReportInv, Link!Busy
    <2> QED BY <2>3, <2>6
  <1>6. CASE Link!tcpip_thread
    <2>1. /\ mbox # <<>> /\ mbox' = Tail(mbox) /\ netif' = Link!SetLink(Head(mbox))
          /\ UNCHANGED <<phy, changes, seen, mac, led, prt_ip, started, pc>>
      BY <1>6 DEF Link!tcpip_thread, Link!world
    <2>2. /\ mbox' \in Seq(LinkMessages) /\ Len(mbox') <= LinkMbox
          /\ \A v \in BOOLEAN : LinkEndsAs(v) => LinkEndsAs(v)'
      BY <2>1, LinkWorked DEF Link!LinkAssumption
    <2>3. /\ netif' \in [listed : BOOLEAN, addr : BOOLEAN, up : BOOLEAN, link : BOOLEAN]
          /\ netif'.listed = netif.listed /\ netif'.addr = netif.addr /\ netif'.up = netif.up
      BY <2>1 DEF Link!SetLink, LinkTypes
    <2>4. LinkTypes' /\ LinkStageInv'
      BY <2>1, <2>2, <2>3 DEF LinkTypes, LinkStageInv
    <2>5. LinkEndsAs(seen # LinkOff) => LinkEndsAs(seen # LinkOff)'
      BY <2>1, <2>2
    <2>6. LinkReportInv'
      BY <2>1, <2>5 DEF LinkReportInv, Link!Busy
    <2> QED BY <2>4, <2>6
  <1> QED BY <1>1, <1>2, <1>3, <1>4, <1>5, <1>6, <1>7, <1>8 DEF Link!Next, Link!vStackIpSetup,
    Link!Setup, Link!Loop, Link!Thread

\* The invariant implies the properties of LinkMonitor.
LEMMA LinkImplies == LinkInv => Link!TypeOK /\ Link!LinkFollows /\ Link!MacAgrees
                     /\ Link!InputAfterSetup
  BY LinkConstants DEF LinkInv, Link!TypeOK, LinkTypes, Link!LinkFollows, Link!MacAgrees,
    Link!InputAfterSetup, LinkStageInv, LinkReportInv, LinkEndsAs, LinkEarly, LinkLooping

-----------------------------------------------------------------------------
(***************************************************************************)
(* lwIP's heap (mem.c).                                                    *)
(*                                                                         *)
(* To the tiling the invariant adds how far the search of mem_malloc has   *)
(* come: unless something was freed in the gap, every block before the one *)
(* it is at is in use or too small, and lfree is not behind a free block.  *)
(* Joining two blocks leaves a back link stale until it is set, hence a    *)
(* shape with one exception (MemShapeBut). MemIsJoin, MemIsGlue and        *)
(* MemIsSplit say what the three changes of the block list do to it.       *)
(***************************************************************************)

\* Blocks that tile the heap, where the back link of block x may be stale.
MemCells == [next : 0..MemSize, prev : 0..MemSize, used : BOOLEAN]
MemShapeBut(r, x) ==
  /\ r \in [DOMAIN r -> MemCells]
  /\ DOMAIN r \subseteq 0..MemSize /\ {0, MemSize} \subseteq DOMAIN r
  /\ r[MemSize].used /\ r[0].prev = 0
  /\ \A p \in DOMAIN r \ {MemSize} :
        r[p].next \in DOMAIN r /\ p < r[p].next /\ \A q \in DOMAIN r : q <= p \/ r[p].next <= q
  /\ \A p \in DOMAIN r \ {0, MemSize} : p # x =>
        r[p].prev \in DOMAIN r \ {MemSize} /\ r[r[p].prev].next = p
MemShape(r) == MemShapeBut(r, MemSize)
\* Free blocks have no free neighbour behind them.
MemPacked(r) == \A p \in DOMAIN r \ {MemSize} : ~r[p].used => r[r[p].next].used
\* No free block lies before l.
MemNoneBefore(r, l) == \A p \in DOMAIN r : ~r[p].used => l <= p

MemRequests == [pc : {"idle", "look", "gap", "adjust", "cur", "done"},
                size : Nat, ptr : 0..MemSize, freed : BOOLEAN]
MemTypes ==
  /\ MemShape(ram) /\ lfree \in DOMAIN ram
  /\ live \in [DOMAIN live -> Nat] /\ DOMAIN live \subseteq DOMAIN ram \ {MemSize}
  /\ req \in MemRequests
  /\ failed \in Nat /\ (failed > 0 => req.pc = "idle")
MemHeapInv == /\ MemPacked(ram) /\ MemNoneBefore(ram, lfree)
              /\ \A p \in DOMAIN live : ram[p].used /\ Mem!Room(ram, p) >= live[p]
              /\ \A p \in DOMAIN ram \ {MemSize} : ram[p].used => p \in DOMAIN live
              /\ failed > 0 => \A p \in DOMAIN ram \ {MemSize} : ram[p].used
                   \/ Mem!Room(ram, p) < failed
\* How far the search has come.
MemSearchInv ==
  /\ req.pc \in {"look", "gap"} => req.size > 0
  /\ req.pc = "look" \/ (req.pc = "gap" /\ ~req.freed) =>
        /\ req.ptr \in DOMAIN ram
        /\ \A p \in DOMAIN ram \ {MemSize} : p < req.ptr => ram[p].used
             \/ Mem!Room(ram, p) < req.size
  /\ req.pc = "gap" => req.ptr < MemSize
  /\ req.pc = "adjust" => req.ptr = lfree /\ req.ptr \in DOMAIN live
  /\ req.pc = "cur" => /\ req.size \in DOMAIN live
                       /\ ~req.freed => /\ lfree = req.size /\ req.ptr \in DOMAIN ram
                                        /\ MemNoneBefore(ram, req.ptr)
MemInv == MemTypes /\ MemHeapInv /\ MemSearchInv
-----------------------------------------------------------------------------
\* The constants of the run meet the assumption of LwipMem.
LEMMA MemConstants == Mem!LwipMemAssumption
  BY MCTablesAssumption

\* Heap and request sizes are positive.
LEMMA MemConsts == MemSize \in Nat \ {0} /\ MemMin \in Nat \ {0} /\ MemMax \in Nat \ {0}
  BY MemConstants DEF Mem!LwipMemAssumption

\* A shape without a stale link is one where any single link may be stale.
LEMMA MemShapeWeak == \A r, x : MemShape(r) => MemShapeBut(r, x)
  BY DEF MemShape, MemShapeBut

\* The links of a shape.
LEMMA MemShapeFacts ==
    ASSUME NEW r, NEW x, MemShapeBut(r, x), NEW p \in DOMAIN r
    PROVE  /\ p \in 0..MemSize /\ r[p] \in MemCells /\ r[p].next \in 0..MemSize
           /\ r[p].prev \in 0..MemSize /\ r[p].used \in BOOLEAN
           /\ 0 \in DOMAIN r /\ MemSize \in DOMAIN r
           /\ p # MemSize => r[p].next \in DOMAIN r /\ p < r[p].next
                /\ \A q \in DOMAIN r : q <= p \/ r[p].next <= q
           /\ \A q \in DOMAIN r : p # MemSize /\ q # MemSize /\ r[p].next = r[q].next => p = q
  <1>1. r[p] \in MemCells /\ p \in 0..MemSize
    BY DEF MemShapeBut
  <1>2. p # MemSize => r[p].next \in DOMAIN r /\ p < r[p].next /\ \A q \in DOMAIN r : q <= p
        \/ r[p].next <= q
    BY DEF MemShapeBut
  <1>3. 0 \in DOMAIN r /\ MemSize \in DOMAIN r
    BY DEF MemShapeBut
  <1>4. r[p].next \in 0..MemSize /\ r[p].prev \in 0..MemSize /\ r[p].used \in BOOLEAN
    BY <1>1 DEF MemCells
  <1>5. ASSUME NEW q \in DOMAIN r, p # MemSize, q # MemSize, r[p].next = r[q].next PROVE p = q
    <2>1. /\ p < r[p].next /\ q < r[q].next /\ q \in 0..MemSize
          /\ q <= p \/ r[p].next <= q
          /\ p <= q \/ r[q].next <= p
      BY <1>5 DEF MemShapeBut
    <2> QED
      BY <1>1, <1>4, <1>5, <2>1, MemConsts
  <1> QED
    BY <1>1, <1>2, <1>3, <1>4, <1>5

\* mem_init: one free block in front of ram_end.
LEMMA MemInit == Mem!Init => MemInv
  <1> SUFFICES ASSUME Mem!Init PROVE MemInv
    OBVIOUS
  <1>1. /\ DOMAIN ram = {0, MemSize} /\ MemSize > 0
        /\ ram[0] = [next |-> MemSize, prev |-> 0, used |-> FALSE]
        /\ ram[MemSize] = [next |-> MemSize, prev |-> MemSize, used |-> TRUE]
        /\ ram = [p \in {0, MemSize} |-> ram[p]]
    BY MemConsts DEF Mem!Init
  <1>2. \A p \in DOMAIN ram : ram[p] \in MemCells
    <2>1. 0 \in 0..MemSize /\ MemSize \in 0..MemSize
      BY MemConsts
    <2>2. ram[0] \in MemCells /\ ram[MemSize] \in MemCells
      BY <1>1, <2>1 DEF MemCells
    <2> QED
      BY <1>1, <2>2
  <1>3. ram \in [DOMAIN ram -> MemCells]
    BY <1>1, <1>2
  <1>4. MemShape(ram)
    BY <1>1, <1>3, MemConsts DEF MemShape, MemShapeBut
  <1>5. lfree = 0 /\ DOMAIN live = {} /\ live \in [DOMAIN live -> Nat] /\ req = Mem!Idle
        /\ failed = 0
    BY DEF Mem!Init
  <1>6. MemTypes
    BY <1>1, <1>4, <1>5, MemConsts DEF MemTypes, Mem!Idle, MemRequests
  <1>7. MemHeapInv
    BY <1>1, <1>5, MemConsts DEF MemHeapInv, MemPacked, MemNoneBefore
  <1>8. MemSearchInv
    BY <1>5 DEF MemSearchInv, Mem!Idle
  <1> QED
    BY <1>6, <1>7, <1>8 DEF MemInv

\* g is r with block n, behind m, made part of it; the back link behind it is stale.
MemIsJoin(r, m, n, g) ==
    /\ MemShapeBut(g, r[n].next) /\ DOMAIN g = DOMAIN r \ {n} /\ m \in DOMAIN g /\ n \in DOMAIN r
    /\ g[m].next = r[n].next /\ g[m].used = r[m].used
    /\ \A q \in DOMAIN g : q # m => g[q] = r[q]

\* g is r with the neighbours m and n made one block.
MemIsGlue(r, m, n, g) ==
    /\ MemShape(g) /\ DOMAIN g = DOMAIN r \ {n} /\ m \in DOMAIN g /\ m < n /\ n \in DOMAIN r
    /\ g[m].next = r[n].next
    /\ \A q \in DOMAIN g : g[q].used = r[q].used /\ (q # m => g[q].next = r[q].next)

\* g is r with block p split at q.
MemIsSplit(r, p, q, g) ==
    /\ MemShape(g) /\ DOMAIN g = DOMAIN r \cup {q} /\ q \notin DOMAIN r /\ q # MemSize
    /\ g[p].next = q /\ g[q].next = r[p].next /\ ~g[q].used
    /\ \A s \in DOMAIN r : g[s].used = r[s].used /\ (s # p => g[s].next = r[s].next)

\* What Joins does to the blocks (plug_holes, mem_trim).
LEMMA MemJoined ==
    ASSUME NEW r, MemShape(r), NEW m \in DOMAIN r \ {MemSize}, NEW n, n = r[m].next, n # MemSize,
           NEW g, g = Mem!Joins(r, m, n)
    PROVE  MemIsJoin(r, m, n, g)
  <1>1. /\ m \in 0..MemSize /\ r[m] \in MemCells /\ n \in DOMAIN r /\ m < n
        /\ \A q \in DOMAIN r : q <= m \/ n <= q
    BY MemShapeFacts DEF MemShape
  <1>2. /\ n \in 0..MemSize /\ r[n] \in MemCells /\ r[n].next \in DOMAIN r /\ n < r[n].next
        /\ \A q \in DOMAIN r : q <= n \/ r[n].next <= q
    BY <1>1, MemShapeFacts DEF MemShape
  <1>3. /\ DOMAIN g = DOMAIN r \ {n} /\ m \in DOMAIN g
        /\ \A q \in DOMAIN g : q # m => g[q] = r[q]
        /\ g[m] = [r[m] EXCEPT !.next = r[n].next]
        /\ g = [q \in DOMAIN g |-> g[q]]
    <2> DEFINE w == Mem!Without(r, n)
    <2>1. /\ DOMAIN w = DOMAIN r \ {n} /\ \A q \in DOMAIN w : w[q] = r[q]
      BY DEF Mem!Without
    <2>2. m \in DOMAIN w
      BY <1>1, <2>1, MemConsts
    <2> HIDE DEF w
    <2>3. /\ DOMAIN g = DOMAIN w /\ \A q \in DOMAIN g : q # m => g[q] = w[q]
          /\ g[m] = [w[m] EXCEPT !.next = r[n].next] /\ g = [q \in DOMAIN g |-> g[q]]
      <3>1. g = [w EXCEPT ![m].next = r[n].next]
        BY DEF w, Mem!Joins
      <3> QED
        BY <2>2, <3>1
    <2> QED
      BY <2>1, <2>2, <2>3
  <1>4. /\ g[m].next = r[n].next /\ g[m].used = r[m].used /\ g[m].prev = r[m].prev
        /\ g[m] \in MemCells
    <2>1. r[n].next \in 0..MemSize
      BY <1>2 DEF MemCells
    <2> QED
      BY <1>1, <1>3, <2>1 DEF MemCells
  <1>5. g \in [DOMAIN g -> MemCells]
    <2>1. \A q \in DOMAIN g : g[q] \in MemCells
      BY <1>3, <1>4 DEF MemShape, MemShapeBut
    <2> QED
      BY <1>3, <2>1
  <1>6. /\ DOMAIN g \subseteq 0..MemSize /\ {0, MemSize} \subseteq DOMAIN g
        /\ g[MemSize].used /\ g[0].prev = 0
    <2>1. n # 0 /\ m # MemSize /\ DOMAIN g \subseteq DOMAIN r
      BY <1>1, <1>3, MemConsts
    <2>2. r[MemSize].used /\ r[0].prev = 0 /\ {0, MemSize} \subseteq DOMAIN r
          /\ DOMAIN r \subseteq 0..MemSize
      BY DEF MemShape, MemShapeBut
    <2> QED
      BY <1>3, <1>4, <2>1, <2>2
  <1>7. ASSUME NEW p \in DOMAIN g \ {MemSize}
        PROVE  g[p].next \in DOMAIN g /\ p < g[p].next /\ \A q \in DOMAIN g : q <= p
               \/ g[p].next <= q
    <2>1. CASE p = m
      <3>1. r[n].next \in DOMAIN g /\ r[n].next \in 0..MemSize /\ DOMAIN r \subseteq 0..MemSize
        BY <1>2, <1>3 DEF MemCells, MemShape, MemShapeBut
      <3>2. ASSUME NEW q \in DOMAIN g PROVE q <= m \/ r[n].next <= q
        BY <1>1, <1>2, <1>3, <3>1
      <3> QED
        BY <1>1, <1>2, <1>4, <2>1, <3>1, <3>2
    <2>2. CASE p # m
      <3>1. g[p] = r[p] /\ p \in DOMAIN r
        BY <1>3, <2>2
      <3>2. r[p].next \in DOMAIN r /\ p < r[p].next /\ \A q \in DOMAIN r : q <= p \/ r[p].next <= q
        BY <3>1 DEF MemShape, MemShapeBut
      <3>3. r[p].next # n
        BY <2>2, <3>1, MemShapeFacts DEF MemShape
      <3> QED
        BY <1>3, <3>1, <3>2, <3>3
    <2> QED
      BY <2>1, <2>2
  <1>8. ASSUME NEW p \in DOMAIN g \ {0, MemSize}, p # r[n].next
        PROVE  g[p].prev \in DOMAIN g \ {MemSize} /\ g[g[p].prev].next = p
    <2>1. p \in DOMAIN r /\ g[p].prev = r[p].prev /\ p # n
      BY <1>3, <1>4
    <2>2. r[p].prev \in DOMAIN r \ {MemSize} /\ r[r[p].prev].next = p
      BY <1>8, <2>1 DEF MemShape, MemShapeBut
    <2>3. r[p].prev # n /\ r[p].prev # m
      BY <1>8, <2>1, <2>2
    <2> QED
      BY <1>3, <2>1, <2>2, <2>3
  <1> QED
    BY <1>1, <1>3, <1>4, <1>5, <1>6, <1>7, <1>8 DEF MemShapeBut, MemIsJoin

\* The back link is mended.
LEMMA MemMended ==
    ASSUME NEW r, NEW x \in DOMAIN r, MemShapeBut(r, x), NEW p \in DOMAIN r \ {MemSize},
           r[p].next = x,
           NEW g, g = Mem!SetPrev(r, x, p)
    PROVE  /\ MemShape(g) /\ DOMAIN g = DOMAIN r
           /\ \A q \in DOMAIN r : g[q].used = r[q].used /\ g[q].next = r[q].next
  <1>1. p \in 0..MemSize /\ r[x] \in MemCells /\ p < x
    BY MemShapeFacts
  <1>2. /\ DOMAIN g = DOMAIN r /\ g = [q \in DOMAIN g |-> g[q]]
        /\ \A q \in DOMAIN g : q # x => g[q] = r[q]
        /\ g[x] = [r[x] EXCEPT !.prev = p]
    BY DEF Mem!SetPrev
  <1>3. g[x].used = r[x].used /\ g[x].next = r[x].next /\ g[x].prev = p /\ g[x] \in MemCells
    BY <1>1, <1>2 DEF MemCells
  <1>4. \A q \in DOMAIN g : g[q].used = r[q].used /\ g[q].next = r[q].next
    BY <1>2, <1>3
  <1>5. g \in [DOMAIN g -> MemCells]
    <2>1. \A q \in DOMAIN g : g[q] \in MemCells
      BY <1>2, <1>3 DEF MemShapeBut
    <2> QED
      BY <1>2, <2>1
  <1>6. x # 0
    BY <1>1, MemConsts
  <1>7. g[0].prev = 0 /\ g[MemSize].used
    BY <1>2, <1>4, <1>6 DEF MemShapeBut
  <1>8. \A q \in DOMAIN g \ {MemSize} :
           g[q].next \in DOMAIN g /\ q < g[q].next /\ \A s \in DOMAIN g : s <= q \/ g[q].next <= s
    BY <1>2, <1>4 DEF MemShapeBut
  <1>9. ASSUME NEW q \in DOMAIN g \ {0, MemSize}
        PROVE  g[q].prev \in DOMAIN g \ {MemSize} /\ g[g[q].prev].next = q
    <2>1. CASE q = x
      <3>1. g[q].prev = p /\ p \in DOMAIN g \ {MemSize} /\ g[p].next = r[p].next
        BY <1>2, <1>3, <1>4, <2>1
      <3> QED
        BY <2>1, <3>1
    <2>2. CASE q # x
      <3>1. g[q] = r[q] /\ r[q].prev \in DOMAIN r \ {MemSize} /\ r[r[q].prev].next = q
        BY <1>2, <2>2 DEF MemShapeBut
      <3> QED
        BY <1>2, <1>4, <3>1
    <2> QED
      BY <2>1, <2>2
  <1> QED
    BY <1>2, <1>4, <1>5, <1>7, <1>8, <1>9 DEF MemShape, MemShapeBut

\* Two neighbours become one block.
LEMMA MemGlued ==
    ASSUME NEW r, MemShape(r), NEW m \in DOMAIN r \ {MemSize}, NEW n, n = r[m].next, n # MemSize,
           NEW g, g = Mem!Absorbs(r, m, n)
    PROVE  MemIsGlue(r, m, n, g)
  <1>1. n \in DOMAIN r /\ m < n
    BY MemShapeFacts DEF MemShape
  <1>2. r[n].next \in DOMAIN r /\ n < r[n].next /\ n \in 0..MemSize
    BY <1>1, MemShapeFacts DEF MemShape
  <1>3. PICK j : j = Mem!Joins(r, m, n)
    OBVIOUS
  <1>4. /\ MemShapeBut(j, r[n].next) /\ DOMAIN j = DOMAIN r \ {n} /\ m \in DOMAIN j
        /\ j[m].next = r[n].next /\ j[m].used = r[m].used
        /\ \A q \in DOMAIN j : q # m => j[q] = r[q]
    BY <1>3, MemJoined DEF MemIsJoin
  <1>5. r[n].next \in DOMAIN j
    BY <1>2, <1>4
  <1>6. PICK x : x = r[n].next
    OBVIOUS
  <1>7. g = Mem!SetPrev(j, x, m)
    BY <1>3, <1>6 DEF Mem!Absorbs
  <1>8. /\ MemShape(g) /\ DOMAIN g = DOMAIN j
        /\ \A q \in DOMAIN j : g[q].used = j[q].used /\ g[q].next = j[q].next
    BY <1>4, <1>5, <1>6, <1>7, MemMended
  <1> QED
    BY <1>1, <1>4, <1>8 DEF MemIsGlue

\* A block is split.
LEMMA MemSplitted ==
    ASSUME NEW r, NEW p \in DOMAIN r \ {MemSize}, MemShapeBut(r, r[p].next), NEW size \in Nat,
           NEW q, q = p + Mem!HDR + size, q < r[p].next, NEW g, g = Mem!SplitAt(r, p, size)
    PROVE  MemIsSplit(r, p, q, g)
  <1> DEFINE n == r[p].next
             b == [next |-> n, prev |-> p, used |-> FALSE]
             c == [r EXCEPT ![p].next = q]
             a == Mem!With(c, q, b)
  <1>1. /\ p \in 0..MemSize /\ n \in 0..MemSize /\ p < n /\ n \in DOMAIN r
        /\ \A s \in DOMAIN r : s <= p \/ n <= s
        /\ r \in [DOMAIN r -> MemCells] /\ DOMAIN r \subseteq 0..MemSize
    BY MemShapeFacts DEF MemShapeBut
  <1>2. q \in 0..MemSize /\ p < q /\ q < n /\ q \notin DOMAIN r /\ q # MemSize /\ q # 0
    BY <1>1, MemConsts DEF Mem!HDR
  <1>3. b \in MemCells /\ b.next = n /\ b.prev = p /\ b.used = FALSE
    BY <1>1 DEF MemCells
  <1>4. /\ DOMAIN c = DOMAIN r /\ \A s \in DOMAIN r : s # p => c[s] = r[s]
        /\ c[p] = [r[p] EXCEPT !.next = q]
    BY <1>1
  <1>5. c[p] \in MemCells /\ c[p].next = q /\ c[p].prev = r[p].prev /\ c[p].used = r[p].used
    <2>1. r[p] \in MemCells
      BY <1>1
    <2> QED
      BY <1>2, <1>4, <2>1 DEF MemCells
  <1> HIDE DEF b, c
  <1>6. /\ DOMAIN a = DOMAIN r \cup {q} /\ a = [s \in DOMAIN a |-> a[s]] /\ a[q] = b
        /\ \A s \in DOMAIN r : a[s] = c[s]
    BY <1>2, <1>4 DEF Mem!With
  <1>7. \A s \in DOMAIN a : a[s] \in MemCells
    BY <1>1, <1>3, <1>4, <1>5, <1>6
  <1> HIDE DEF a
  <1>8. g = IF n # MemSize THEN Mem!SetPrev(a, n, q) ELSE a
    BY DEF Mem!SplitAt, a, b, c
  <1>9. MemShapeBut(a, n)
    <2>1. a \in [DOMAIN a -> MemCells] /\ DOMAIN a \subseteq 0..MemSize
      BY <1>1, <1>2, <1>6, <1>7
    <2>2. {0, MemSize} \subseteq DOMAIN r /\ r[MemSize].used /\ r[0].prev = 0
      BY DEF MemShapeBut
    <2>3. {0, MemSize} \subseteq DOMAIN a /\ a[MemSize].used /\ a[0].prev = 0
      BY <1>4, <1>5, <1>6, <2>2
    <2>4. ASSUME NEW s \in DOMAIN a \ {MemSize}
          PROVE  a[s].next \in DOMAIN a /\ s < a[s].next /\ \A t \in DOMAIN a : t <= s
                 \/ a[s].next <= t
      <3>1. CASE s = q
        BY <1>1, <1>2, <1>3, <1>6, <3>1
      <3>2. CASE s = p
        BY <1>1, <1>2, <1>5, <1>6, <3>2
      <3>3. CASE s # p /\ s # q
        <4>1. s \in DOMAIN r /\ a[s] = r[s] /\ s \in 0..MemSize
          BY <1>1, <1>4, <1>6, <3>3
        <4>2. r[s].next \in DOMAIN r /\ s < r[s].next /\ \A t \in DOMAIN r : t <= s
              \/ r[s].next <= t
          BY <4>1 DEF MemShapeBut
        <4>3. r[s].next \in 0..MemSize
          BY <1>1, <4>2
        <4>4. q <= s \/ r[s].next <= q
          BY <1>1, <1>2, <3>3, <4>1, <4>2, <4>3
        <4> QED
          BY <1>6, <4>1, <4>2, <4>4
      <3> QED
        BY <3>1, <3>2, <3>3
    <2>5. ASSUME NEW s \in DOMAIN a \ {0, MemSize}, s # n
          PROVE  a[s].prev \in DOMAIN a \ {MemSize} /\ a[a[s].prev].next = s
      <3>1. CASE s = q
        BY <1>3, <1>5, <1>6, <3>1
      <3>2. CASE s # q
        <4>1. s \in DOMAIN r /\ a[s].prev = r[s].prev
          BY <1>4, <1>5, <1>6, <3>2
        <4>2. r[s].prev \in DOMAIN r \ {MemSize} /\ r[r[s].prev].next = s
          BY <2>5, <4>1 DEF MemShapeBut
        <4>3. r[s].prev # p
          BY <2>5, <4>2
        <4> QED
          BY <1>4, <1>6, <4>1, <4>2, <4>3
      <3> QED
        BY <3>1, <3>2
    <2> QED
      BY <2>1, <2>3, <2>4, <2>5 DEF MemShapeBut
  <1>10. /\ q \in DOMAIN a \ {MemSize} /\ a[q].next = n /\ n \in DOMAIN a /\ p \in DOMAIN a
         /\ DOMAIN r \subseteq DOMAIN a
    BY <1>1, <1>2, <1>3, <1>6
  <1>11. /\ MemShape(g) /\ DOMAIN g = DOMAIN a
         /\ \A s \in DOMAIN g : g[s].used = a[s].used /\ g[s].next = a[s].next
    <2>1. CASE n # MemSize
      <3>1. g = Mem!SetPrev(a, n, q)
        BY <1>8, <2>1
      <3> HIDE DEF n
      <3> QED
        BY <1>9, <1>10, <3>1, MemMended
    <2>2. CASE n = MemSize
      BY <1>8, <1>9, <2>2 DEF MemShape
    <2> QED
      BY <2>1, <2>2
  <1>12. \A s \in DOMAIN r : a[s].used = r[s].used /\ (s # p => a[s].next = r[s].next)
    BY <1>4, <1>5, <1>6
  <1> QED
    BY <1>2, <1>3, <1>5, <1>6, <1>10, <1>11, <1>12 DEF MemIsSplit

\* plug_holes: the freed block m becomes one with its free neighbours.
LEMMA MemPlugged ==
    ASSUME NEW r, MemShape(r), NEW m \in DOMAIN r \ {MemSize}, ~r[m].used,
           \A q \in DOMAIN r \ {MemSize} : ~r[q].used /\ q # m /\ r[q].next # m
             => r[r[q].next].used,
           NEW l \in DOMAIN r, MemNoneBefore(r, l)
    PROVE  /\ MemShape(Mem!plug_holes(r, l, m).r) /\ MemPacked(Mem!plug_holes(r, l, m).r)
           /\ Mem!plug_holes(r, l, m).l \in DOMAIN Mem!plug_holes(r, l, m).r
           /\ MemNoneBefore(Mem!plug_holes(r, l, m).r, Mem!plug_holes(r, l, m).l)
           /\ \A q \in DOMAIN Mem!plug_holes(r, l, m).r : q \in DOMAIN r
                /\ Mem!plug_holes(r, l, m).r[q].used = r[q].used
           /\ \A q \in DOMAIN r : r[q].used => /\ q \in DOMAIN Mem!plug_holes(r, l, m).r
                                               /\ Mem!plug_holes(r, l, m).r[q].next = r[q].next
  <1> DEFINE n == r[m].next
             fwd == n # m /\ ~r[n].used /\ n # MemSize
             a == IF fwd THEN Mem!Absorbs(r, m, n) ELSE r
             la == IF fwd /\ l = n THEN m ELSE l
             p == a[m].prev
             back == p # m /\ ~a[p].used
             b == IF back THEN Mem!Absorbs(a, p, m) ELSE a
             lb == IF back /\ la = m THEN p ELSE la
             h == Mem!plug_holes(r, l, m)
  <1>0. h.r = b /\ h.l = lb
    BY DEF Mem!plug_holes
  <1>1. /\ n \in DOMAIN r /\ m < n /\ n # m /\ m \in 0..MemSize /\ l <= m /\ l \in 0..MemSize
        /\ n \in 0..MemSize
        /\ r \in [DOMAIN r -> MemCells]
    <2>1. n \in DOMAIN r /\ m < n /\ m \in 0..MemSize /\ n \in 0..MemSize
          /\ r \in [DOMAIN r -> MemCells]
      BY MemShapeFacts DEF MemShape, MemShapeBut
    <2>2. l <= m /\ l \in 0..MemSize
      BY DEF MemNoneBefore, MemShape, MemShapeBut
    <2> QED
      BY <2>1, <2>2
  \* The block behind.
  <1>2. /\ MemShape(a) /\ m \in DOMAIN a \ {MemSize} /\ la \in DOMAIN a
        /\ MemNoneBefore(a, la) /\ la <= m
        /\ \A q \in DOMAIN a : q \in DOMAIN r /\ a[q].used = r[q].used
        /\ \A q \in DOMAIN r : r[q].used => q \in DOMAIN a /\ a[q].next = r[q].next
        /\ a[a[m].next].used
        /\ \A q \in DOMAIN a \ {MemSize} : ~a[q].used /\ q # m /\ a[q].next # m => a[a[q].next].used
    <2>1. CASE fwd
      <3>1. /\ MemShape(a) /\ DOMAIN a = DOMAIN r \ {n} /\ m \in DOMAIN a /\ m < n
            /\ a[m].next = r[n].next
            /\ \A q \in DOMAIN a : a[q].used = r[q].used /\ (q # m => a[q].next = r[q].next)
        <4>1. n = r[m].next /\ n # MemSize /\ a = Mem!Absorbs(r, m, n)
          BY <2>1
        <4> HIDE DEF a, n
        <4>2. MemIsGlue(r, m, n, a)
          BY <4>1, MemGlued
        <4> QED
          BY <4>2 DEF MemIsGlue
      <3>2. la = l /\ l # n
        BY <1>1, <2>1
      <3> HIDE DEF a, la
      <3>3. la \in DOMAIN a /\ MemNoneBefore(a, la) /\ la <= m
        BY <1>1, <3>1, <3>2 DEF MemNoneBefore
      <3>4. n \in DOMAIN r \ {MemSize} /\ ~r[n].used /\ r[n].next \in DOMAIN r /\ n < r[n].next
        BY <1>1, <2>1, MemShapeFacts DEF MemShape
      <3>5. r[r[n].next].used /\ r[n].next # n
        <4>1. r[n].next # m
          BY <1>1, <3>4 DEF MemShape, MemShapeBut
        <4> QED
          BY <1>1, <3>4, <4>1 DEF MemShape, MemShapeBut
      <3>6. a[a[m].next].used
        BY <3>1, <3>4, <3>5
      <3>7. ASSUME NEW q \in DOMAIN a \ {MemSize}, ~a[q].used, q # m, a[q].next # m
            PROVE a[a[q].next].used
        <4>1. q \in DOMAIN r \ {MemSize} /\ ~r[q].used /\ a[q].next = r[q].next
          BY <3>1, <3>7
        <4>2. r[r[q].next].used /\ r[q].next \in DOMAIN r
          BY <3>7, <4>1, MemShapeFacts DEF MemShape
        <4>3. r[q].next # n
          BY <2>1, <4>2
        <4> QED
          BY <3>1, <4>1, <4>2, <4>3
      <3>8. \A q \in DOMAIN r : r[q].used => q \in DOMAIN a /\ a[q].next = r[q].next
        BY <2>1, <3>1
      <3> QED
        BY <3>1, <3>3, <3>6, <3>7, <3>8
    <2>2. CASE ~fwd
      <3>1. a = r /\ la = l
        BY <2>2
      <3>2. r[n].used
        BY <1>1, <2>2 DEF MemShape, MemShapeBut
      <3> HIDE DEF a, la, fwd
      <3> QED
        BY <1>1, <3>1, <3>2
    <2> QED
      BY <2>1, <2>2
  <1> HIDE DEF a, la
  <1>3. /\ a[m].next \in DOMAIN a /\ m < a[m].next /\ a[m].next \in 0..MemSize
        /\ a \in [DOMAIN a -> MemCells]
        /\ \A q \in DOMAIN a \ {MemSize} : a[q].next = a[m].next => q = m
    <2>1. /\ a[m].next \in DOMAIN a /\ m < a[m].next /\ a[m].next \in 0..MemSize
          /\ \A q \in DOMAIN a : q # MemSize /\ a[m].next = a[q].next => m = q
      BY <1>2, MemShapeFacts DEF MemShape
    <2>2. a \in [DOMAIN a -> MemCells]
      BY <1>2 DEF MemShape, MemShapeBut
    <2> QED
      BY <2>1, <2>2
  \* The block before.
  <1>4. CASE back
    <2>1. m # 0
      BY <1>2, <1>4 DEF MemShape, MemShapeBut
    <2>2. p \in DOMAIN a \ {MemSize} /\ a[p].next = m
      BY <1>2, <2>1 DEF MemShape, MemShapeBut
    <2>3. a[p].next # MemSize
      BY <1>2, <2>2
    <2>4. /\ MemShape(b) /\ DOMAIN b = DOMAIN a \ {m} /\ p \in DOMAIN b
          /\ b[p].next = a[m].next /\ p < m
          /\ \A q \in DOMAIN b : b[q].used = a[q].used /\ (q # p => b[q].next = a[q].next)
      <3>1. b = Mem!Absorbs(a, p, m)
        BY <1>4
      <3>2. MemShape(a) /\ p \in DOMAIN a \ {MemSize} /\ m = a[p].next /\ m # MemSize
        BY <1>2, <2>2, <2>3
      <3> HIDE DEF a, b, p
      <3>3. MemIsGlue(a, p, m, b)
        BY <3>1, <3>2, MemGlued
      <3> QED
        BY <3>3 DEF MemIsGlue
    <2>5. la <= p /\ lb = la /\ la # m
      <3>1. la <= p /\ p \in 0..MemSize
        BY <1>2, <1>4, <2>2 DEF MemNoneBefore, MemShape, MemShapeBut
      <3>2. la # m
        BY <1>1, <1>2, <2>4, <3>1
      <3> QED
        BY <3>1, <3>2
    <2> HIDE DEF b, lb, p, h
    <2>6. lb \in DOMAIN b /\ MemNoneBefore(b, lb)
      BY <1>2, <2>4, <2>5 DEF MemNoneBefore
    <2>7. MemPacked(b)
      <3> SUFFICES ASSUME NEW q \in DOMAIN b \ {MemSize}, ~b[q].used PROVE b[b[q].next].used
        BY DEF MemPacked
      <3>1. a[m].next \in DOMAIN b /\ b[a[m].next].used
        BY <1>2, <1>3, <2>4
      <3>2. CASE q = p
        BY <2>4, <3>1, <3>2
      <3>3. CASE q # p
        <4>1. q \in DOMAIN a \ {MemSize} /\ ~a[q].used /\ b[q].next = a[q].next /\ q # m
          BY <2>4, <3>3
        <4>2. a[q].next # m
          BY <1>2, <2>2, <3>3, <4>1, MemShapeFacts DEF MemShape
        <4>3. a[a[q].next].used /\ a[q].next \in DOMAIN a
          BY <1>2, <4>1, <4>2, MemShapeFacts DEF MemShape
        <4> QED
          BY <2>4, <4>1, <4>2, <4>3
      <3> QED
        BY <3>2, <3>3
    <2>8. \A q \in DOMAIN r : r[q].used => q \in DOMAIN b /\ b[q].next = r[q].next
      <3>1. ~a[m].used /\ ~a[p].used
        BY <1>2, <1>4 DEF p
      <3> QED
        BY <1>2, <2>2, <2>4, <3>1
    <2>9. \A q \in DOMAIN b : q \in DOMAIN r /\ b[q].used = r[q].used
      BY <1>2, <2>4
    <2>10. /\ MemShape(b) /\ MemPacked(b) /\ lb \in DOMAIN b /\ MemNoneBefore(b, lb)
           /\ \A q \in DOMAIN b : q \in DOMAIN r /\ b[q].used = r[q].used
           /\ \A q \in DOMAIN r : r[q].used => q \in DOMAIN b /\ b[q].next = r[q].next
      BY <2>4, <2>6, <2>7, <2>8, <2>9
    <2> QED
      BY <1>0, <2>10 DEF h
  <1>5. CASE ~back
    <2>1. b = a /\ lb = la
      BY <1>5
    <2>2. MemPacked(a)
      <3> SUFFICES ASSUME NEW q \in DOMAIN a \ {MemSize}, ~a[q].used PROVE a[a[q].next].used
        BY DEF MemPacked
      <3>1. CASE q = m
        BY <1>2, <3>1
      <3>2. CASE q # m
        <4>1. a[q].next # m
          <5> SUFFICES ASSUME a[q].next = m PROVE FALSE
            OBVIOUS
          <5>1. m # 0
            BY <1>2, MemConsts DEF MemShape, MemShapeBut
          <5>2. p \in DOMAIN a \ {MemSize} /\ a[p].next = m
            BY <1>2, <5>1 DEF MemShape, MemShapeBut
          <5>3. p = q
            BY <1>2, <5>2, MemShapeFacts DEF MemShape
          <5> QED
            BY <1>5, <3>2, <5>3
        <4> QED
          BY <1>2, <3>2, <4>1
      <3> QED
        BY <3>1, <3>2
    <2> HIDE DEF b, lb, h
    <2>3. /\ MemShape(b) /\ MemPacked(b) /\ lb \in DOMAIN b /\ MemNoneBefore(b, lb)
          /\ \A q \in DOMAIN b : q \in DOMAIN r /\ b[q].used = r[q].used
          /\ \A q \in DOMAIN r : r[q].used => q \in DOMAIN b /\ b[q].next = r[q].next
      BY <1>2, <2>1, <2>2
    <2> QED
      BY <1>0, <2>3 DEF h
  <1> QED
    BY <1>4, <1>5

\* A block is marked as used or as free.
LEMMA MemMarked ==
    ASSUME NEW r, MemShape(r), NEW m \in DOMAIN r \ {MemSize}, NEW v \in BOOLEAN
    PROVE  /\ MemShape(Mem!SetUsed(r, m, v)) /\ DOMAIN Mem!SetUsed(r, m, v) = DOMAIN r
           /\ Mem!SetUsed(r, m, v)[m].used = v
           /\ \A q \in DOMAIN r : /\ Mem!SetUsed(r, m, v)[q].next = r[q].next
                                  /\ q # m => Mem!SetUsed(r, m, v)[q].used = r[q].used
  <1> DEFINE g == Mem!SetUsed(r, m, v)
  <1>1. /\ DOMAIN g = DOMAIN r /\ g = [q \in DOMAIN g |-> g[q]]
        /\ \A q \in DOMAIN r : q # m => g[q] = r[q]
        /\ g[m] = [r[m] EXCEPT !.used = v]
    BY DEF Mem!SetUsed
  <1> HIDE DEF g
  <1>2. r[m] \in MemCells
    BY DEF MemShape, MemShapeBut
  <1>3. g[m].used = v /\ g[m].next = r[m].next /\ g[m].prev = r[m].prev /\ g[m] \in MemCells
    BY <1>1, <1>2 DEF MemCells
  <1>4. \A q \in DOMAIN r : g[q].next = r[q].next /\ g[q].prev = r[q].prev
        /\ (q # m => g[q].used = r[q].used)
    BY <1>1, <1>3
  <1>5. g \in [DOMAIN g -> MemCells]
    <2>1. \A q \in DOMAIN g : g[q] \in MemCells
      BY <1>1, <1>3 DEF MemShape, MemShapeBut
    <2> QED
      BY <1>1, <2>1
  <1>6. g[MemSize].used /\ g[0].prev = 0
    BY <1>1, <1>4 DEF MemShape, MemShapeBut
  <1>7. MemShape(g)
    BY <1>1, <1>4, <1>5, <1>6 DEF MemShape, MemShapeBut
  <1> QED
    BY <1>1, <1>3, <1>4, <1>7 DEF g

\* Steps of mem_malloc that leave the blocks alone.
LEMMA MemSearch ==
    ASSUME MemInv,
           (\E n \in 1..MemMax : Mem!Malloc(n)) \/ Mem!Look \/ Mem!StartAdjust \/ Mem!Adjust
             \/ Mem!Return
    PROVE  MemInv'
  <1> USE DEF MemInv
  <1>1. UNCHANGED <<ram, live>>
    BY DEF Mem!Malloc, Mem!Look, Mem!StartAdjust, Mem!Adjust, Mem!Return
  <1>2. /\ req \in MemRequests
        /\ lfree \in DOMAIN ram /\ DOMAIN ram \subseteq 0..MemSize /\ failed \in Nat
    BY DEF MemTypes, MemShape, MemShapeBut
  <1>3. Mem!Idle \in MemRequests
        /\ Mem!Idle.pc = "idle"
    BY MemConsts DEF Mem!Idle, MemRequests
  <1>4. ASSUME NEW n \in 1..MemMax, Mem!Malloc(n) PROVE MemInv'
    <2>1. req' = [pc |-> "look", size |-> Mem!Max2(n, MemMin), ptr |-> lfree, freed |-> FALSE]
          /\ failed' = 0 /\ lfree' = lfree
      BY <1>4 DEF Mem!Malloc
    <2>2. Mem!Max2(n, MemMin) \in Nat \ {0}
      BY MemConsts DEF Mem!Max2
    <2>3. MemTypes' /\ MemHeapInv'
      BY <1>1, <1>2, <2>1, <2>2 DEF MemTypes, MemHeapInv, MemRequests
    <2>4. \A p \in DOMAIN ram \ {MemSize} : p < lfree => ram[p].used
      BY <1>2 DEF MemHeapInv, MemNoneBefore
    <2>5. MemSearchInv'
      BY <1>1, <1>2, <2>1, <2>2, <2>4 DEF MemSearchInv
    <2> QED
      BY <2>3, <2>5
  <1>5. ASSUME Mem!Look PROVE MemInv'
    <2>1. req.pc = "look" /\ req.size \in Nat \ {0} /\ req.ptr \in 0..MemSize
          /\ lfree' = lfree /\ failed = 0
      BY <1>2, <1>5 DEF Mem!Look, MemSearchInv, MemTypes, MemRequests
    <2>2. CASE req.ptr < MemSize - req.size
      <3>1. req' = [req EXCEPT !.pc = "gap", !.freed = FALSE] /\ failed' = failed
        BY <1>5, <2>2 DEF Mem!Look
      <3>2. req'.pc = "gap" /\ req'.ptr = req.ptr /\ req'.size = req.size /\ req'.ptr < MemSize
            /\ req' \in MemRequests
        <4>1. req.ptr < MemSize
          BY <2>1, <2>2, MemConsts
        <4> QED
          BY <1>2, <3>1, <4>1 DEF MemRequests
      <3>3. MemTypes' /\ MemHeapInv'
        BY <1>1, <2>1, <3>1, <3>2 DEF MemTypes, MemHeapInv
      <3>4. MemSearchInv'
        BY <1>1, <2>1, <3>2 DEF MemSearchInv
      <3> QED
        BY <3>3, <3>4
    <2>3. CASE ~(req.ptr < MemSize - req.size)
      <3>1. req' = Mem!Idle /\ failed' = req.size
        BY <1>5, <2>3 DEF Mem!Look
      <3>2. ASSUME NEW p \in DOMAIN ram \ {MemSize} PROVE ram[p].used \/ Mem!Room(ram, p) < req.size
        <4>1. CASE p < req.ptr
          BY <2>1, <4>1 DEF MemSearchInv
        <4>2. CASE ~(p < req.ptr)
          <5>1. p \in 0..MemSize /\ ram[p].next \in 0..MemSize
            BY MemShapeFacts DEF MemTypes, MemShape
          <5> QED
            BY <2>1, <2>3, <4>2, <5>1, MemConsts DEF Mem!Room, Mem!HDR
        <4> QED
          BY <4>1, <4>2
      <3>3. MemTypes' /\ MemHeapInv'
        BY <1>1, <1>3, <2>1, <3>1, <3>2 DEF MemTypes, MemHeapInv
      <3>4. MemSearchInv'
        BY <1>3, <3>1 DEF MemSearchInv
      <3> QED
        BY <3>3, <3>4
    <2> QED
      BY <2>2, <2>3
  <1>6. ASSUME Mem!StartAdjust PROVE MemInv'
    <2>1. /\ req.pc = "adjust"
          /\ req' = [req EXCEPT !.pc = "cur", !.size = req.ptr, !.freed = FALSE]
          /\ lfree' = lfree /\ failed' = failed /\ failed = 0 /\ req.ptr = lfree
          /\ req.ptr \in DOMAIN live
          /\ req.ptr \in 0..MemSize
      BY <1>2, <1>6 DEF Mem!StartAdjust, MemTypes, MemSearchInv, MemRequests
    <2>2. req'.pc = "cur" /\ req'.ptr = req.ptr /\ req'.size = req.ptr
          /\ req' \in MemRequests
      <3>1. req.ptr \in Nat
        BY <2>1, MemConsts
      <3> QED
        BY <1>2, <2>1, <3>1 DEF MemRequests
    <2>3. MemTypes' /\ MemHeapInv'
      BY <1>1, <2>1, <2>2 DEF MemTypes, MemHeapInv
    <2>4. MemSearchInv'
      BY <1>1, <1>2, <2>1, <2>2 DEF MemSearchInv, MemHeapInv
    <2> QED
      BY <2>3, <2>4
  <1>7. ASSUME Mem!Adjust PROVE MemInv'
    <2>1. /\ req.pc = "cur" /\ req.size \in DOMAIN live /\ failed' = failed /\ failed = 0
          /\ req.size \in 0..MemSize
      BY <1>2, <1>7 DEF Mem!Adjust, MemSearchInv, MemTypes
    <2>2. CASE req.freed
      <3>1. req' = [req EXCEPT !.pc = IF req.size = lfree THEN "adjust"
            ELSE "done", !.ptr = req.size] /\ lfree' = lfree
        BY <1>7, <2>2 DEF Mem!Adjust
      <3>2. req'.pc = (IF req.size = lfree THEN "adjust" ELSE "done") /\ req'.ptr = req.size
            /\ req' \in MemRequests
        BY <1>2, <2>1, <3>1 DEF MemRequests
      <3> QED
        BY <1>1, <2>1, <3>1, <3>2 DEF MemTypes, MemHeapInv, MemSearchInv
    <2>3. CASE ~req.freed /\ ram[req.ptr].used /\ req.ptr # MemSize
      <3>1. req' = [req EXCEPT !.ptr = ram[req.ptr].next] /\ lfree' = lfree
        BY <1>7, <2>3 DEF Mem!Adjust
      <3>2. /\ lfree = req.size /\ req.ptr \in DOMAIN ram /\ MemNoneBefore(ram, req.ptr)
        BY <2>1, <2>3 DEF MemSearchInv
      <3>3. /\ req.ptr \in 0..MemSize /\ ram[req.ptr].next \in DOMAIN ram
            /\ ram[req.ptr].next \in 0..MemSize
            /\ \A q \in DOMAIN ram : q <= req.ptr \/ ram[req.ptr].next <= q
        BY <2>3, <3>2, MemShapeFacts DEF MemTypes, MemShape
      <3>4. req'.pc = "cur" /\ req'.size = req.size /\ req'.ptr = ram[req.ptr].next
            /\ req'.freed = FALSE
            /\ req' \in MemRequests
        BY <1>2, <2>1, <2>3, <3>1, <3>3 DEF MemRequests
      <3>5. MemNoneBefore(ram, ram[req.ptr].next)
        <4> SUFFICES ASSUME NEW q \in DOMAIN ram, ~ram[q].used PROVE ram[req.ptr].next <= q
          BY DEF MemNoneBefore
        <4>1. req.ptr <= q /\ q # req.ptr /\ q \in 0..MemSize
          BY <1>2, <2>3, <3>2 DEF MemNoneBefore
        <4> QED
          BY <3>3, <4>1
      <3> QED
        BY <1>1, <2>1, <3>1, <3>2, <3>3, <3>4, <3>5 DEF MemTypes, MemHeapInv, MemSearchInv
    <2>4. CASE ~req.freed /\ ~(ram[req.ptr].used /\ req.ptr # MemSize)
      <3>1. lfree' = req.ptr /\ req' = [req EXCEPT !.pc = "done"]
        BY <1>7, <2>4 DEF Mem!Adjust
      <3>2. req'.pc = "done"
            /\ req' \in MemRequests
        BY <1>2, <3>1 DEF MemRequests
      <3>3. req.ptr \in DOMAIN ram /\ MemNoneBefore(ram, req.ptr)
        BY <2>1, <2>4 DEF MemSearchInv
      <3> QED
        BY <1>1, <2>1, <3>1, <3>2, <3>3 DEF MemTypes, MemHeapInv, MemSearchInv
    <2> QED
      BY <2>2, <2>3, <2>4
  <1>8. ASSUME Mem!Return PROVE MemInv'
    <2>1. req' = Mem!Idle /\ lfree' = lfree /\ failed' = failed
      BY <1>8 DEF Mem!Return
    <2> QED
      BY <1>1, <1>3, <2>1 DEF MemTypes, MemHeapInv, MemSearchInv
  <1> QED
    BY <1>4, <1>5, <1>6, <1>7, <1>8

\* mem_malloc takes the block it looks at, goes on to the next one, or starts again at
\* lfree because something was freed in the gap.
LEMMA MemTest == ASSUME MemInv, Mem!Test PROVE MemInv'
  <1> USE DEF MemInv
  <1>1. /\ req.pc = "gap" /\ req \in MemRequests /\ req.size \in Nat \ {0} /\ req.ptr \in 0..MemSize
        /\ req.ptr < MemSize /\ failed = 0 /\ failed' = 0 /\ lfree' = lfree /\ lfree \in 0..MemSize
    BY DEF Mem!Test, MemSearchInv, MemTypes, MemRequests, MemShape, MemShapeBut
  <1>2. CASE req.freed
    <2>1. req' = [req EXCEPT !.pc = "look", !.ptr = lfree] /\ UNCHANGED <<ram, live>>
      BY <1>2 DEF Mem!Test
    <2>2. req'.pc = "look" /\ req'.ptr = lfree /\ req'.size = req.size /\ req' \in MemRequests
      BY <1>1, <2>1 DEF MemRequests
    <2>3. \A p \in DOMAIN ram \ {MemSize} : p < lfree => ram[p].used
      BY <1>1 DEF MemHeapInv, MemNoneBefore, MemTypes, MemShape, MemShapeBut
    <2> QED
      BY <1>1, <2>1, <2>2, <2>3 DEF MemTypes, MemHeapInv, MemSearchInv
  <1>3. ASSUME ~req.freed
        PROVE  /\ req.ptr \in DOMAIN ram \ {MemSize} /\ ram[req.ptr].next \in DOMAIN ram
               /\ ram[req.ptr].next \in 0..MemSize /\ req.ptr < ram[req.ptr].next
               /\ \A q \in DOMAIN ram : q <= req.ptr \/ ram[req.ptr].next <= q
               /\ \A p \in DOMAIN ram \ {MemSize} : p < req.ptr => ram[p].used
                    \/ Mem!Room(ram, p) < req.size
    <2>1. req.ptr \in DOMAIN ram /\ req.ptr # MemSize
      BY <1>1, <1>3 DEF MemSearchInv
    <2>2. \A p \in DOMAIN ram \ {MemSize} : p < req.ptr => ram[p].used
          \/ Mem!Room(ram, p) < req.size
      BY <1>1, <1>3 DEF MemSearchInv
    <2> QED
      BY <2>1, <2>2, MemShapeFacts DEF MemTypes, MemShape
  <1>4. CASE ~req.freed /\ ~(~ram[req.ptr].used /\ Mem!Room(ram, req.ptr) >= req.size)
    <2>1. req' = [req EXCEPT !.pc = "look", !.ptr = ram[req.ptr].next] /\ UNCHANGED <<ram, live>>
      BY <1>4 DEF Mem!Test
    <2>2. req'.pc = "look" /\ req'.ptr = ram[req.ptr].next /\ req'.size = req.size
          /\ req' \in MemRequests
      BY <1>1, <1>3, <1>4, <2>1 DEF MemRequests
    <2>3. ASSUME NEW p \in DOMAIN ram \ {MemSize}, p < ram[req.ptr].next
          PROVE  ram[p].used \/ Mem!Room(ram, p) < req.size
      <3>1. p \in 0..MemSize /\ p <= req.ptr /\ ram[p].next \in 0..MemSize
        BY <1>3, <1>4, <2>3, MemShapeFacts DEF MemTypes, MemShape
      <3>2. CASE p = req.ptr
        <4>1. Mem!Room(ram, p) \in Int
          BY <3>1 DEF Mem!Room, Mem!HDR
        <4> QED
          BY <1>1, <1>4, <3>2, <4>1
      <3>3. CASE p # req.ptr
        BY <1>1, <1>3, <1>4, <3>1, <3>3
      <3> QED
        BY <3>2, <3>3
    <2> QED
      BY <1>1, <1>3, <1>4, <2>1, <2>2, <2>3 DEF MemTypes, MemHeapInv, MemSearchInv
  <1>5. CASE ~req.freed /\ ~ram[req.ptr].used /\ Mem!Room(ram, req.ptr) >= req.size
    <2> DEFINE p == req.ptr
               z == req.size
    <2>1. PICK r : /\ r = IF Mem!Splits(ram, p, z) THEN Mem!SplitAt(ram, p, z) ELSE ram
                   /\ ram' = Mem!SetUsed(r, p, TRUE)
                   /\ live' = Mem!With(live, p, z)
                   /\ req' = [req EXCEPT !.pc = IF p = lfree THEN "adjust" ELSE "done"]
      BY <1>5 DEF Mem!Test
    <2>2. /\ p \in DOMAIN ram \ {MemSize} /\ z \in Nat \ {0} /\ p \in 0..MemSize /\ MemShape(ram)
          /\ ram[p].next \in DOMAIN ram \ {0} /\ ram[p].next \in 0..MemSize
          /\ ram[ram[p].next].used /\ p < ram[p].next
      BY <1>1, <1>3, <1>5, MemConsts DEF MemTypes, MemHeapInv, MemPacked
    <2>3. /\ req'.pc = (IF p = lfree THEN "adjust" ELSE "done") /\ req'.ptr = p
          /\ req' \in MemRequests
      BY <1>1, <2>1 DEF MemRequests
    <2> HIDE DEF p, z
    <2>4. /\ live' \in [DOMAIN live' -> Nat] /\ DOMAIN live' = DOMAIN live \cup {p} /\ live'[p] = z
          /\ \A q \in DOMAIN live : q # p => live'[q] = live[q]
      BY <2>1, <2>2 DEF MemTypes, Mem!With
    <2>5. /\ MemShape(r) /\ DOMAIN ram \subseteq DOMAIN r /\ p \in DOMAIN r \ {MemSize}
          /\ \A q \in DOMAIN ram : r[q].used = ram[q].used /\ (q # p => r[q].next = ram[q].next)
          /\ r[p].next - p - 1 >= z
          /\ \A q \in DOMAIN r : q \notin DOMAIN ram => ~r[q].used /\ p < q
               /\ r[r[q].next].used /\ q # MemSize
          /\ \A q \in DOMAIN r : q \in 0..MemSize
      <3>1. CASE Mem!Splits(ram, p, z)
        <4>1. r = Mem!SplitAt(ram, p, z) /\ MemShapeBut(ram, ram[p].next)
              /\ p + Mem!HDR + z < ram[p].next
          BY <2>1, <2>2, <3>1, MemShapeWeak, MemConsts DEF Mem!Splits, Mem!Room, Mem!HDR
        <4>2. PICK c : c = p + Mem!HDR + z
          OBVIOUS
        <4>3. /\ MemShape(r) /\ DOMAIN r = DOMAIN ram \cup {c} /\ c \notin DOMAIN ram /\ c # MemSize
              /\ r[p].next = c /\ r[c].next = ram[p].next /\ ~r[c].used
              /\ \A s \in DOMAIN ram : r[s].used = ram[s].used /\ (s # p => r[s].next = ram[s].next)
          <5>1. MemIsSplit(ram, p, c, r)
            BY <2>2, <4>1, <4>2, MemSplitted
          <5> QED
            BY <5>1 DEF MemIsSplit
        <4>4. c \in 0..MemSize /\ p < c /\ c - p - 1 = z
          BY <2>2, <4>1, <4>2, MemConsts DEF Mem!HDR
        <4>5. r[r[c].next].used
          BY <2>2, <4>3
        <4>6. \A q \in DOMAIN ram : q \in 0..MemSize
          BY <2>2 DEF MemShape, MemShapeBut
        <4> QED
          BY <2>2, <4>3, <4>4, <4>5, <4>6
      <3>2. CASE ~Mem!Splits(ram, p, z)
        <4>1. r = ram
          BY <2>1, <3>2
        <4>2. r[p].next - p - 1 >= z
          BY <1>5, <2>2, <4>1 DEF Mem!Room, Mem!HDR, p, z
        <4>3. \A q \in DOMAIN ram : q \in 0..MemSize
          BY <2>2 DEF MemShape, MemShapeBut
        <4> QED
          BY <2>2, <4>1, <4>2, <4>3
      <3> QED
        BY <3>1, <3>2
    <2>6. /\ MemShape(ram') /\ DOMAIN ram' = DOMAIN r /\ ram'[p].used
          /\ \A q \in DOMAIN r : ram'[q].next = r[q].next /\ (q # p => ram'[q].used = r[q].used)
      <3>1. \A m \in DOMAIN r \ {MemSize}, v \in BOOLEAN :
               /\ MemShape(Mem!SetUsed(r, m, v)) /\ DOMAIN Mem!SetUsed(r, m, v) = DOMAIN r
               /\ Mem!SetUsed(r, m, v)[m].used = v
               /\ \A q \in DOMAIN r : /\ Mem!SetUsed(r, m, v)[q].next = r[q].next
                                      /\ q # m => Mem!SetUsed(r, m, v)[q].used = r[q].used
        BY <2>5, MemMarked
      <3> QED
        <4>1. /\ MemShape(Mem!SetUsed(r, p, TRUE))
              /\ DOMAIN Mem!SetUsed(r, p, TRUE) = DOMAIN r /\ Mem!SetUsed(r, p, TRUE)[p].used = TRUE
              /\ \A q \in DOMAIN r : /\ Mem!SetUsed(r, p, TRUE)[q].next = r[q].next
                                     /\ q # p => Mem!SetUsed(r, p, TRUE)[q].used = r[q].used
          BY <2>5, <3>1
        <4> QED
          BY <2>1, <4>1
    <2>7. MemTypes'
      BY <1>1, <2>2, <2>3, <2>4, <2>5, <2>6 DEF MemTypes
    <2>8. MemPacked(ram')
      <3> SUFFICES ASSUME NEW q \in DOMAIN ram' \ {MemSize}, ~ram'[q].used
                   PROVE ram'[ram'[q].next].used
        BY DEF MemPacked
      <3>1. q # p /\ q \in DOMAIN r /\ ram'[q].next = r[q].next /\ ~r[q].used
        BY <2>6
      <3>2. r[q].next \in DOMAIN r
        BY <2>5, <3>1, MemShapeFacts DEF MemShape
      <3>3. CASE q \in DOMAIN ram
        <4>1. ~ram[q].used /\ r[q].next = ram[q].next /\ ram[q].next \in DOMAIN ram
              /\ ram[ram[q].next].used
          BY <2>2, <2>5, <3>1, <3>3, MemShapeFacts DEF MemHeapInv, MemPacked, MemShape
        <4> QED
          BY <2>5, <2>6, <3>1, <3>2, <4>1
      <3>4. CASE q \notin DOMAIN ram
        BY <2>5, <2>6, <3>1, <3>2, <3>4
      <3> QED
        BY <3>3, <3>4
    <2>9. MemNoneBefore(ram', lfree)
      <3> SUFFICES ASSUME NEW q \in DOMAIN ram', ~ram'[q].used PROVE lfree <= q
        BY DEF MemNoneBefore
      <3>1. q # p /\ q \in DOMAIN r /\ ~r[q].used /\ q \in 0..MemSize
        BY <2>5, <2>6
      <3>2. lfree <= p
        BY <1>5, <2>2 DEF MemHeapInv, MemNoneBefore, p
      <3> QED
        BY <1>1, <2>2, <2>5, <3>1, <3>2 DEF MemHeapInv, MemNoneBefore
    <2>10. MemHeapInv'
      <3>1. ASSUME NEW q \in DOMAIN live' PROVE ram'[q].used /\ Mem!Room(ram', q) >= live'[q]
        <4>1. CASE q = p
          BY <2>4, <2>5, <2>6, <4>1 DEF Mem!Room, Mem!HDR
        <4>2. CASE q # p
          <5>1. q \in DOMAIN live /\ live'[q] = live[q] /\ q \in DOMAIN ram /\ ram[q].used
                /\ Mem!Room(ram, q) >= live[q]
            BY <2>4, <4>2 DEF MemHeapInv, MemTypes
          <5>2. q \in DOMAIN r /\ ram'[q].next = ram[q].next /\ ram'[q].used
            BY <2>5, <2>6, <4>2, <5>1
          <5> QED
            BY <5>1, <5>2 DEF Mem!Room
        <4> QED
          BY <4>1, <4>2
      <3>2. ASSUME NEW q \in DOMAIN ram' \ {MemSize}, ram'[q].used PROVE q \in DOMAIN live'
        <4>1. CASE q = p
          BY <2>4, <4>1
        <4>2. CASE q # p
          <5>1. r[q].used /\ q \in DOMAIN r
            BY <2>6, <3>2, <4>2
          <5>2. q \in DOMAIN ram /\ ram[q].used
            BY <2>5, <5>1
          <5> QED
            BY <2>4, <5>2 DEF MemHeapInv
        <4> QED
          BY <4>1, <4>2
      <3> QED
        BY <1>1, <2>8, <2>9, <3>1, <3>2 DEF MemHeapInv
    <2>11. MemSearchInv'
      BY <1>1, <2>3, <2>4 DEF MemSearchInv
    <2> QED
      BY <2>7, <2>10, <2>11
  <1> QED
    BY <1>2, <1>4, <1>5

\* A block freed or trimmed in a gap: if the new heap is sound, so is the search, since
\* mem_free_count makes mem_malloc start again.
LEMMA MemNote ==
    ASSUME MemInv, NEW p \in DOMAIN live, ~Mem!Mine(p), Mem!MayFree, Mem!Note, p # MemSize,
           MemShape(ram'), lfree' \in DOMAIN ram', MemPacked(ram'), MemNoneBefore(ram', lfree'),
           live' \in [DOMAIN live' -> Nat], DOMAIN live' \subseteq DOMAIN ram' \ {MemSize},
           DOMAIN live \ {p} \subseteq DOMAIN live',
           \A q \in DOMAIN live' : ram'[q].used /\ Mem!Room(ram', q) >= live'[q],
           \A q \in DOMAIN ram' \ {MemSize} : ram'[q].used => q \in DOMAIN live'
    PROVE  MemInv'
  <1> USE DEF MemInv
  <1>1. failed' = 0 /\ req \in MemRequests
    BY DEF Mem!Note, MemTypes
  <1>2. MemHeapInv'
    BY <1>1 DEF MemHeapInv
  <1>3. CASE req.pc = "idle"
    <2>1. req' = req
      BY <1>3 DEF Mem!Note
    <2> QED
      BY <1>1, <1>2, <1>3, <2>1 DEF MemTypes, MemSearchInv
  <1>4. CASE req.pc # "idle"
    <2>1. req' = [req EXCEPT !.freed = TRUE] /\ req.pc \in {"gap", "cur"}
      BY <1>4 DEF Mem!Note, Mem!MayFree
    <2>2. req'.freed = TRUE /\ req'.pc = req.pc /\ req'.size = req.size /\ req'.ptr = req.ptr
          /\ req' \in MemRequests
      BY <1>1, <2>1 DEF MemRequests
    <2>3. req.pc = "cur" => req.size \in DOMAIN live'
      BY DEF MemSearchInv, Mem!Mine
    <2> QED
      BY <1>1, <1>2, <2>1, <2>2, <2>3 DEF MemTypes, MemSearchInv
  <1> QED
    BY <1>3, <1>4

\* mem_free keeps the invariant: plug_holes merges with at most two neighbours.
LEMMA MemFree == ASSUME MemInv, NEW p \in DOMAIN live, Mem!Free(p) PROVE MemInv'
  <1> USE DEF MemInv
  <1>1. Mem!MayFree /\ ~Mem!Mine(p) /\ Mem!mem_free(p) /\ live' = Mem!Without(live, p) /\ Mem!Note
    BY DEF Mem!Free
  <1>2. PICK r, l, h : /\ r = Mem!SetUsed(ram, p, FALSE) /\ l = (IF p < lfree THEN p ELSE lfree)
                       /\ h = Mem!plug_holes(r, l, p) /\ ram' = h.r /\ lfree' = h.l
    BY <1>1 DEF Mem!mem_free
  <1>3. p \in DOMAIN ram \ {MemSize} /\ p \in 0..MemSize /\ lfree \in 0..MemSize
        /\ MemShape(ram) /\ DOMAIN ram \subseteq 0..MemSize
    BY DEF MemTypes, MemShape, MemShapeBut
  <1>4. /\ MemShape(r) /\ DOMAIN r = DOMAIN ram /\ r[p].used = FALSE
        /\ \A q \in DOMAIN ram : r[q].next = ram[q].next /\ (q # p => r[q].used = ram[q].used)
    <2>1. \A m \in DOMAIN ram \ {MemSize}, v \in BOOLEAN :
             /\ MemShape(Mem!SetUsed(ram, m, v)) /\ DOMAIN Mem!SetUsed(ram, m, v) = DOMAIN ram
             /\ Mem!SetUsed(ram, m, v)[m].used = v
             /\ \A q \in DOMAIN ram : /\ Mem!SetUsed(ram, m, v)[q].next = ram[q].next
                                      /\ q # m => Mem!SetUsed(ram, m, v)[q].used = ram[q].used
      BY <1>3, MemMarked
    <2> QED
      BY <1>2, <1>3, <2>1
  <1>5. /\ p \in DOMAIN r \ {MemSize} /\ ~r[p].used /\ l \in DOMAIN r
        /\ \A q \in DOMAIN r \ {MemSize} : ~r[q].used /\ q # p /\ r[q].next # p => r[r[q].next].used
        /\ MemNoneBefore(r, l)
    <2>1. l \in DOMAIN r /\ l <= p /\ l <= lfree /\ l \in 0..MemSize
      <3>1. (l = p \/ l = lfree) /\ l <= p /\ l <= lfree
        BY <1>2, <1>3
      <3> QED
        BY <1>3, <1>4, <3>1 DEF MemTypes
    <2>2. MemNoneBefore(r, l)
      <3> SUFFICES ASSUME NEW q \in DOMAIN r, ~r[q].used PROVE l <= q
        BY DEF MemNoneBefore
      <3>1. q = p \/ (q \in DOMAIN ram /\ ~ram[q].used)
        BY <1>4
      <3>2. q = p \/ lfree <= q
        BY <3>1 DEF MemHeapInv, MemNoneBefore
      <3> QED
        BY <1>3, <1>4, <2>1, <3>2
    <2>3. ASSUME NEW q \in DOMAIN r \ {MemSize}, ~r[q].used, q # p, r[q].next # p
          PROVE r[r[q].next].used
      <3>1. q \in DOMAIN ram \ {MemSize} /\ ~ram[q].used /\ r[q].next = ram[q].next
        BY <1>4, <2>3
      <3>2. ram[q].next \in DOMAIN ram /\ ram[ram[q].next].used
        BY <1>3, <3>1, MemShapeFacts DEF MemHeapInv, MemPacked, MemShape
      <3> QED
        BY <1>4, <2>3, <3>1, <3>2
    <2> QED
      BY <1>3, <1>4, <2>1, <2>2, <2>3
  <1>6. /\ MemShape(h.r) /\ MemPacked(h.r) /\ h.l \in DOMAIN h.r /\ MemNoneBefore(h.r, h.l)
        /\ \A q \in DOMAIN h.r : q \in DOMAIN r /\ h.r[q].used = r[q].used
        /\ \A q \in DOMAIN r : r[q].used => q \in DOMAIN h.r /\ h.r[q].next = r[q].next
    <2>1. /\ MemShape(Mem!plug_holes(r, l, p).r) /\ MemPacked(Mem!plug_holes(r, l, p).r)
          /\ Mem!plug_holes(r, l, p).l \in DOMAIN Mem!plug_holes(r, l, p).r
          /\ MemNoneBefore(Mem!plug_holes(r, l, p).r, Mem!plug_holes(r, l, p).l)
          /\ \A q \in DOMAIN Mem!plug_holes(r, l, p).r : q \in DOMAIN r
               /\ Mem!plug_holes(r, l, p).r[q].used = r[q].used
          /\ \A q \in DOMAIN r : r[q].used => /\ q \in DOMAIN Mem!plug_holes(r, l, p).r
                                              /\ Mem!plug_holes(r, l, p).r[q].next = r[q].next
      BY <1>4, <1>5, MemPlugged
    <2> QED
      BY <1>2, <2>1
  <1>7. live' \in [DOMAIN live' -> Nat] /\ DOMAIN live' = DOMAIN live \ {p}
        /\ \A q \in DOMAIN live' : live'[q] = live[q]
    BY <1>1 DEF Mem!Without, MemTypes
  <1>8. ASSUME NEW q \in DOMAIN live'
        PROVE q \in DOMAIN ram' \ {MemSize} /\ ram'[q].used /\ Mem!Room(ram', q) >= live'[q]
    <2>1. q \in DOMAIN live /\ q # p /\ q \in DOMAIN ram /\ ram[q].used
          /\ Mem!Room(ram, q) >= live[q] /\ q # MemSize
      BY <1>7 DEF MemHeapInv, MemTypes
    <2>2. r[q].used /\ r[q].next = ram[q].next /\ q \in DOMAIN r
      BY <1>4, <2>1
    <2>3. q \in DOMAIN ram' /\ ram'[q].next = ram[q].next /\ ram'[q].used
      BY <1>2, <1>6, <2>2
    <2> QED
      BY <1>7, <2>1, <2>3 DEF Mem!Room
  <1>9. ASSUME NEW q \in DOMAIN ram' \ {MemSize}, ram'[q].used PROVE q \in DOMAIN live'
    <2>1. q \in DOMAIN r /\ r[q].used
      BY <1>2, <1>6, <1>9
    <2>2. q # p /\ q \in DOMAIN ram /\ ram[q].used
      BY <1>4, <2>1
    <2> QED
      BY <1>7, <1>9, <2>2 DEF MemHeapInv
  <1> QED
    BY <1>1, <1>2, <1>3, <1>6, <1>7, <1>8, <1>9, MemNote

\* mem_trim keeps the invariant, with a free neighbour behind the block and without.
LEMMA MemTrim == ASSUME MemInv, NEW p \in DOMAIN live, Mem!Trim(p) PROVE MemInv'
  <1> USE DEF MemInv
  <1>1. PICK n \in 1..MemMax :
          /\ Mem!MayFree /\ ~Mem!Mine(p) /\ Mem!Max2(n, MemMin) < Mem!Room(ram, p) /\ n < live[p]
          /\ Mem!mem_trim(p, Mem!Max2(n, MemMin)) /\ live' = [live EXCEPT ![p] = n] /\ Mem!Note
    BY DEF Mem!Trim
  <1>2. PICK z \in Nat : z = Mem!Max2(n, MemMin) /\ n <= z /\ z < Mem!Room(ram, p)
        /\ Mem!mem_trim(p, z) /\ n \in Nat
    BY <1>1, MemConsts DEF Mem!Max2
  <1>3. /\ p \in DOMAIN ram \ {MemSize} /\ p \in 0..MemSize /\ MemShape(ram)
        /\ DOMAIN ram \subseteq 0..MemSize /\ ram[p].used
        /\ lfree \in DOMAIN ram
    BY DEF MemTypes, MemShape, MemShapeBut, MemHeapInv
  <1>4. PICK q : q = ram[p].next
    OBVIOUS
  <1>5. /\ q \in DOMAIN ram /\ q \in 0..MemSize /\ p < q /\ \A s \in DOMAIN ram : s <= p \/ q <= s
        /\ \A s \in DOMAIN ram \ {MemSize} : ram[s].next = q => s = p
    BY <1>3, <1>4, MemShapeFacts DEF MemShape
  <1>6. PICK cut : cut = p + Mem!HDR + z
    OBVIOUS
  <1>7. cut \in 0..MemSize /\ p < cut /\ cut < q /\ cut \notin DOMAIN ram /\ cut # MemSize
        /\ cut - p - 1 = z
    BY <1>2, <1>3, <1>4, <1>5, <1>6, MemConsts DEF Mem!Room, Mem!HDR
  <1>8. /\ live' \in [DOMAIN live' -> Nat] /\ DOMAIN live' = DOMAIN live /\ live'[p] = n
        /\ \A s \in DOMAIN live : s # p => live'[s] = live[s]
    BY <1>1, <1>2 DEF MemTypes
  <1>9. DOMAIN live \subseteq DOMAIN ram \ {MemSize} /\ \A s \in DOMAIN live : ram[s].used
        /\ Mem!Room(ram, s) >= live[s]
    BY DEF MemTypes, MemHeapInv
  \* Block p is cut off behind z units, in front of a free block or not.
  <1>10. ASSUME MemShape(ram'), cut \in DOMAIN ram', DOMAIN ram' \subseteq DOMAIN ram \cup {cut},
                \A s \in DOMAIN ram : ram[s].used => s \in DOMAIN ram',
                ram'[p].next = cut, ~ram'[cut].used, ram'[ram'[cut].next].used,
                \A s \in DOMAIN ram' \ {cut} : ram'[s].used = ram[s].used
                  /\ (s # p => ram'[s].next = ram[s].next),
                lfree' \in DOMAIN ram', MemNoneBefore(ram', lfree')
         PROVE  MemInv'
    <2>1. MemPacked(ram')
      <3> SUFFICES ASSUME NEW s \in DOMAIN ram' \ {MemSize}, ~ram'[s].used
                   PROVE ram'[ram'[s].next].used
        BY DEF MemPacked
      <3>1. CASE s = cut
        BY <1>10, <3>1
      <3>2. CASE s # cut
        <4>1. s \in DOMAIN ram \ {MemSize} /\ ~ram[s].used /\ s # p
          BY <1>3, <1>10, <3>2
        <4>2. ram'[s].next = ram[s].next /\ ram[ram[s].next].used /\ ram[s].next \in DOMAIN ram
          BY <1>3, <1>10, <3>2, <4>1, MemShapeFacts DEF MemHeapInv, MemPacked, MemShape
        <4>3. ram[s].next \in DOMAIN ram' \ {cut}
          BY <1>7, <1>10, <4>2
        <4> QED
          BY <1>10, <4>2, <4>3
      <3> QED
        BY <3>1, <3>2
    <2>2. ASSUME NEW s \in DOMAIN live'
          PROVE s \in DOMAIN ram' \ {MemSize} /\ ram'[s].used /\ Mem!Room(ram', s) >= live'[s]
      <3>1. s \in DOMAIN ram' \ {MemSize, cut} /\ ram[s].used /\ Mem!Room(ram, s) >= live[s]
            /\ s \in DOMAIN ram
        BY <1>7, <1>8, <1>9, <1>10
      <3>2. ram'[s].used
        BY <1>10, <3>1
      <3>3. CASE s = p
        BY <1>2, <1>3, <1>7, <1>8, <1>10, <3>1, <3>2, <3>3 DEF Mem!Room, Mem!HDR
      <3>4. CASE s # p
        <4>1. ram'[s].next = ram[s].next /\ live'[s] = live[s]
          BY <1>8, <1>10, <3>1, <3>4
        <4> QED
          BY <3>1, <3>2, <4>1 DEF Mem!Room
      <3> QED
        BY <3>3, <3>4
    <2>3. ASSUME NEW s \in DOMAIN ram' \ {MemSize}, ram'[s].used PROVE s \in DOMAIN live'
      <3>1. s # cut
        BY <1>10, <2>3
      <3>2. s \in DOMAIN ram /\ ram[s].used
        BY <1>10, <2>3, <3>1
      <3> QED
        BY <1>8, <2>3, <3>2 DEF MemHeapInv
    <2> QED
      BY <1>1, <1>3, <1>8, <1>10, <2>1, <2>2, <2>3, MemNote
  <1>11. CASE ~ram[q].used
    <2>1. ram' = Mem!SplitAt(Mem!Joins(ram, p, q), p, z) /\ lfree' = IF lfree = q THEN cut
          ELSE lfree
      BY <1>2, <1>4, <1>6, <1>11 DEF Mem!mem_trim
    <2>2. q # MemSize /\ ram[q].next \in DOMAIN ram /\ ram[q].next \in 0..MemSize /\ q < ram[q].next
          /\ ram[ram[q].next].used
      <3>1. q # MemSize
        BY <1>3, <1>11 DEF MemShape, MemShapeBut
      <3> QED
        BY <1>3, <1>5, <1>11, <3>1, MemShapeFacts DEF MemHeapInv, MemPacked, MemShape
    <2>3. PICK j : j = Mem!Joins(ram, p, q)
      OBVIOUS
    <2>4. /\ MemShapeBut(j, ram[q].next) /\ DOMAIN j = DOMAIN ram \ {q} /\ p \in DOMAIN j
          /\ j[p].next = ram[q].next /\ j[p].used = ram[p].used
          /\ \A s \in DOMAIN j : s # p => j[s] = ram[s]
      <3>1. MemIsJoin(ram, p, q, j)
        BY <1>3, <1>4, <2>2, <2>3, MemJoined
      <3> QED
        BY <3>1 DEF MemIsJoin
    <2>5. p + Mem!HDR + z < j[p].next /\ MemShapeBut(j, j[p].next) /\ p \in DOMAIN j \ {MemSize}
      BY <1>3, <1>5, <1>6, <1>7, <2>2, <2>4
    <2>6. /\ MemShape(ram') /\ DOMAIN ram' = DOMAIN j \cup {cut}
          /\ ram'[p].next = cut /\ ram'[cut].next = j[p].next /\ ~ram'[cut].used
          /\ \A s \in DOMAIN j : ram'[s].used = j[s].used /\ (s # p => ram'[s].next = j[s].next)
      <3>1. PICK g : g = ram'
        OBVIOUS
      <3>2. MemIsSplit(j, p, cut, g)
        BY <1>3, <1>6, <2>1, <2>3, <2>5, <3>1, MemSplitted
      <3> QED
        BY <3>1, <3>2 DEF MemIsSplit
    <2>7. /\ MemShape(ram') /\ DOMAIN ram' = (DOMAIN ram \ {q}) \cup {cut}
          /\ ram'[p].next = cut /\ ram'[cut].next = ram[q].next /\ ~ram'[cut].used
          /\ \A s \in DOMAIN j : ram'[s].used = j[s].used /\ (s # p => ram'[s].next = j[s].next)
      BY <2>4, <2>6
    <2>8. \A s \in DOMAIN ram' \ {cut} : ram'[s].used = ram[s].used
          /\ (s # p => ram'[s].next = ram[s].next)
      BY <2>4, <2>7
    <2>9. ram'[ram'[cut].next].used
      <3>1. ram[q].next \in DOMAIN ram' \ {cut}
        BY <1>5, <1>7, <2>2, <2>7
      <3> QED
        BY <2>2, <2>7, <2>8, <3>1
    <2>10. lfree' \in DOMAIN ram' /\ MemNoneBefore(ram', lfree')
      <3>1. lfree <= q /\ lfree \in 0..MemSize
        BY <1>3, <1>5, <1>11 DEF MemHeapInv, MemNoneBefore
      <3>2. lfree' \in DOMAIN ram' /\ lfree' <= cut /\ lfree' <= lfree /\ lfree' \in 0..MemSize
        <4>1. CASE lfree = q
          BY <1>5, <1>7, <2>1, <2>7, <4>1
        <4>2. CASE lfree # q
          BY <1>3, <1>5, <1>7, <2>1, <2>7, <3>1, <4>2
        <4> QED
          BY <4>1, <4>2
      <3>3. ASSUME NEW s \in DOMAIN ram', ~ram'[s].used PROVE lfree' <= s
        <4>1. CASE s = cut
          BY <3>2, <4>1
        <4>2. CASE s # cut
          <5>1. s \in DOMAIN ram /\ ~ram[s].used /\ s \in 0..MemSize
            BY <1>3, <2>7, <2>8, <3>3, <4>2
          <5>2. lfree <= s
            BY <5>1 DEF MemHeapInv, MemNoneBefore
          <5> QED
            BY <3>1, <3>2, <5>1, <5>2
        <4> QED
          BY <4>1, <4>2
      <3> QED
        BY <3>2, <3>3 DEF MemNoneBefore
    <2>11. \A s \in DOMAIN ram : ram[s].used => s \in DOMAIN ram'
      BY <1>11, <2>7
    <2> QED
      BY <1>10, <2>7, <2>8, <2>9, <2>10, <2>11
  <1>12. CASE ram[q].used /\ Mem!Splits(ram, p, z)
    <2>1. ram' = Mem!SplitAt(ram, p, z) /\ lfree' = IF cut < lfree THEN cut ELSE lfree
      BY <1>2, <1>4, <1>6, <1>12 DEF Mem!mem_trim
    <2>2. MemShapeBut(ram, ram[p].next) /\ p + Mem!HDR + z < ram[p].next
      BY <1>3, <1>4, <1>6, <1>7, MemShapeWeak
    <2>4. /\ MemShape(ram') /\ DOMAIN ram' = DOMAIN ram \cup {cut}
          /\ ram'[p].next = cut /\ ram'[cut].next = q /\ ~ram'[cut].used
          /\ \A s \in DOMAIN ram : ram'[s].used = ram[s].used
               /\ (s # p => ram'[s].next = ram[s].next)
      <3>1. PICK o, g : o = ram /\ g = ram'
        OBVIOUS
      <3>2. MemIsSplit(o, p, cut, g)
        BY <1>3, <1>6, <2>1, <2>2, <3>1, MemSplitted
      <3> QED
        BY <1>4, <3>1, <3>2 DEF MemIsSplit
    <2>5. ram'[ram'[cut].next].used
      BY <1>5, <1>12, <2>4
    <2>6. lfree' \in DOMAIN ram' /\ MemNoneBefore(ram', lfree')
      <3>1. lfree \in 0..MemSize
        BY <1>3
      <3>2. lfree' \in DOMAIN ram' /\ lfree' <= cut /\ lfree' <= lfree /\ lfree' \in 0..MemSize
        BY <1>3, <1>7, <2>1, <2>4, <3>1
      <3>3. ASSUME NEW s \in DOMAIN ram', ~ram'[s].used PROVE lfree' <= s
        <4>1. CASE s = cut
          BY <3>2, <4>1
        <4>2. CASE s # cut
          <5>1. s \in DOMAIN ram /\ ~ram[s].used /\ s \in 0..MemSize
            BY <1>3, <2>4, <3>3, <4>2
          <5>2. lfree <= s
            BY <5>1 DEF MemHeapInv, MemNoneBefore
          <5> QED
            BY <3>1, <3>2, <5>1, <5>2
        <4> QED
          BY <4>1, <4>2
      <3> QED
        BY <3>2, <3>3 DEF MemNoneBefore
    <2> QED
      BY <1>10, <2>4, <2>5, <2>6
  <1>13. CASE ram[q].used /\ ~Mem!Splits(ram, p, z)
    <2>1. UNCHANGED <<ram, lfree>>
      BY <1>2, <1>4, <1>13 DEF Mem!mem_trim
    <2>2. \A s \in DOMAIN live' : ram'[s].used /\ Mem!Room(ram', s) >= live'[s]
      <3>1. p \in DOMAIN live /\ live[p] \in Nat /\ Mem!Room(ram, p) \in Int
        BY <1>3, <1>4, <1>5 DEF MemTypes, Mem!Room, Mem!HDR
      <3> QED
        BY <1>1, <1>2, <1>8, <1>9, <2>1, <3>1
    <2> QED
      BY <1>1, <1>3, <1>8, <2>1, <2>2, MemNote DEF MemTypes, MemHeapInv
  <1> QED
    BY <1>11, <1>12, <1>13

\* Every step of mem.c keeps the invariant.
LEMMA MemNext == MemInv /\ [Mem!Next]_(Mem!vars) => MemInv'
  <1> SUFFICES ASSUME MemInv, [Mem!Next]_(Mem!vars) PROVE MemInv'
    OBVIOUS
  <1>1. CASE UNCHANGED Mem!vars
    BY <1>1 DEF Mem!vars, MemInv, MemTypes, MemHeapInv, MemSearchInv
  <1> QED
    BY <1>1, MemSearch, MemTest, MemFree, MemTrim DEF Mem!Next

\* The invariant implies the properties of LwipMem.
LEMMA MemImplies == MemInv => Mem!TypeOK /\ Mem!Tiled /\ Mem!LiveKept /\ Mem!Merged
                    /\ Mem!NothingBeforeLfree /\ Mem!FailsOnlyWhenFull
  <1> SUFFICES ASSUME MemInv
               PROVE Mem!TypeOK /\ Mem!Tiled /\ Mem!LiveKept /\ Mem!Merged
                     /\ Mem!NothingBeforeLfree /\ Mem!FailsOnlyWhenFull
    OBVIOUS
  <1> USE DEF MemInv
  <1>1. MemShape(ram) /\ DOMAIN ram \subseteq 0..MemSize
        /\ Mem!Blocks = DOMAIN ram \ {MemSize} /\ req.ptr \in 0..MemSize
    BY DEF MemTypes, MemShape, MemShapeBut, Mem!Blocks, MemRequests
  <1>2. Mem!TypeOK
    BY <1>1 DEF Mem!TypeOK, MemTypes
  <1>3. Mem!Tiled
    <2>1. ASSUME NEW p \in DOMAIN ram \ {MemSize}
          PROVE  /\ ram[p].next \in DOMAIN ram /\ ram[p].next > p
                 /\ ~\E q \in DOMAIN ram : p < q /\ q < ram[p].next
      <3>1. /\ ram[p].next \in DOMAIN ram /\ p < ram[p].next
            /\ \A q \in DOMAIN ram : q <= p \/ ram[p].next <= q
        BY <1>1 DEF MemShape, MemShapeBut
      <3> QED
        BY <1>1, <3>1
    <2>2. \A p \in DOMAIN ram \ {0, MemSize} : ram[ram[p].prev].next = p
      BY <1>1 DEF MemShape, MemShapeBut
    <2> QED
      BY <1>1, <2>1, <2>2 DEF Mem!Tiled
  <1>4. Mem!LiveKept
    BY <1>1 DEF Mem!LiveKept, MemHeapInv
  <1>5. Mem!Merged
    BY <1>1 DEF Mem!Merged, MemHeapInv, MemPacked
  <1>6. Mem!NothingBeforeLfree
    BY <1>1 DEF Mem!NothingBeforeLfree, MemHeapInv, MemNoneBefore, MemTypes
  <1>7. Mem!FailsOnlyWhenFull
    BY <1>1 DEF Mem!FailsOnlyWhenFull, MemHeapInv
  <1> QED
    BY <1>2, <1>3, <1>4, <1>5, <1>6, <1>7

-----------------------------------------------------------------------------
(***************************************************************************)
(* The receive ring (lpc18xx_43xx_emac.c).                                 *)
(*                                                                         *)
(* Positions are counted from rx_get_idx. The DMA owns the descriptors     *)
(* from its own position to the end of those that hold a buffer            *)
(* (RxOwnsFrom), the ones before are filled; a buffer is in one place      *)
(* (RxOnce); the numbers of the frames grow along the ring and are above   *)
(* the one in the task's hand, which is above the one posted last          *)
(* (RxFrameInv).                                                           *)
(***************************************************************************)

RxIdx == 0..(RxDescs - 1)
\* Descriptors between rx_get_idx and i, and the one k further than i.
RxFrom(i) == IF i >= rxRing.get THEN i - rxRing.get ELSE i - rxRing.get + RxDescs
RxPlus(i, k) == IF i + k < RxDescs THEN i + k ELSE i + k - RxDescs
RxIn(i) == RxFrom(i) < RxDescs - rxRing.free

RxTypes ==
  /\ rxDesc \in [RxIdx -> [own : BOOLEAN, buf : RxBufs \cup {NoBuf}]]
  /\ rxRing \in [get : RxIdx, next : RxIdx, free : 0..RxDescs]
  /\ rxTask \in [pc : {"wait", "test", "input", "queue", "give", "deliver"},
                 back : {"wait", "test", "deliver", "requeue"},
                 hand : RxBufs \cup {NoBuf}, p : RxBufs \cup {NoBuf}]
  /\ rxSem \in 0..1 /\ rxInts \in SUBSET {"RI", "RU", "TI"} /\ rxIsr \in SUBSET {"RI", "RU", "TI"}
  /\ rxMbox \in Seq([buf : RxBufs, n : Nat]) /\ Len(rxMbox) <= RxMbox
  /\ rxHeap \in SUBSET RxBufs /\ rxOthers \in SUBSET RxBufs /\ rxDma \in RxIdx
  /\ rxContent \in [RxBufs -> [n : Nat, status : SUBSET {"ES", "CE", "DE", "RE", "LE", "FT", "LS"}]]
  /\ rxSent \in Nat /\ rxGot \in Nat

\* The DMA is at the first descriptor that it owns; behind it are those it has filled.
RxOwnsFrom(k) == /\ rxDma = RxPlus(rxRing.get, k)
                 /\ \A i \in RxIdx : rxDesc[i].own <=> k <= RxFrom(i) /\ RxIn(i)
RxRingInv == /\ rxRing.next = RxPlus(rxRing.get, RxDescs - rxRing.free)
             /\ \E k \in 0..(RxDescs - rxRing.free) : RxOwnsFrom(k)

\* What the receive task has in its hands.
RxTaskInv == /\ rxTask.pc = "give" => rxRing.free > 0 /\ rxTask.p # NoBuf
                  /\ rxDesc[rxRing.next].buf = rxTask.p
             /\ rxTask.pc # "give" => rxTask.p = NoBuf
             /\ rxTask.hand # NoBuf <=> rxTask.pc = "deliver"
                  \/ (rxTask.pc \in {"queue", "give"} /\ rxTask.back = "deliver")
             /\ rxTask.pc = "queue" => rxTask.back # "requeue"
             /\ rxTask.pc = "input" => ~rxDesc[rxRing.get].own

\* The places a buffer can be.
RxPosted(b) == \E k \in 1..Len(rxMbox) : rxMbox[k].buf = b
RxInRing(b) == \E i \in RxIdx : RxIn(i) /\ rxDesc[i].buf = b
RxOnce(b) ==
  \/ b \in rxHeap /\ b \notin rxOthers /\ b # rxTask.hand /\ b # rxTask.p /\ ~RxPosted(b)
       /\ ~RxInRing(b)
  \/ b \notin rxHeap /\ b \in rxOthers /\ b # rxTask.hand /\ b # rxTask.p /\ ~RxPosted(b)
       /\ ~RxInRing(b)
  \/ b \notin rxHeap /\ b \notin rxOthers /\ b = rxTask.hand /\ b # rxTask.p /\ ~RxPosted(b)
       /\ ~RxInRing(b)
  \/ b \notin rxHeap /\ b \notin rxOthers /\ b # rxTask.hand /\ b = rxTask.p /\ ~RxPosted(b)
       /\ ~RxInRing(b)
  \/ b \notin rxHeap /\ b \notin rxOthers /\ b # rxTask.hand /\ b # rxTask.p /\ RxPosted(b)
       /\ ~RxInRing(b)
  \/ b \notin rxHeap /\ b \notin rxOthers /\ b # rxTask.hand /\ b # rxTask.p /\ ~RxPosted(b)
       /\ RxInRing(b)
RxBufInv == /\ \A b \in RxBufs : RxOnce(b)
            /\ \A i \in RxIdx : RxIn(i) => rxDesc[i].buf \in RxBufs
            /\ \A i, j \in RxIdx : RxIn(i) /\ RxIn(j) /\ rxDesc[i].buf = rxDesc[j].buf => i = j
            /\ \A j, k \in 1..Len(rxMbox) : rxMbox[j].buf = rxMbox[k].buf => j = k

\* The frames in the ring, in the hand and in the mailbox.
RxFull(i) == RxIn(i) /\ ~rxDesc[i].own
RxNum(i) == rxContent[rxDesc[i].buf].n
RxFrameInv ==
  /\ \A k \in 1..Len(rxMbox) : /\ rxContent[rxMbox[k].buf].n = rxMbox[k].n
                               /\ ~Rx!Bad(rxContent[rxMbox[k].buf].status)
  /\ rxGot <= rxSent
  /\ rxTask.hand # NoBuf => /\ ~Rx!Bad(rxContent[rxTask.hand].status)
                            /\ rxContent[rxTask.hand].n > rxGot
                            /\ rxContent[rxTask.hand].n <= rxSent
  /\ \A i \in RxIdx : RxFull(i) => /\ RxNum(i) > rxGot /\ RxNum(i) <= rxSent
                                   /\ rxTask.hand # NoBuf => RxNum(i) > rxContent[rxTask.hand].n
  /\ \A i, j \in RxIdx : RxFull(i) /\ RxFull(j) /\ RxFrom(i) < RxFrom(j) => RxNum(i) < RxNum(j)

RxInv == RxTypes /\ RxRingInv /\ RxTaskInv /\ RxBufInv /\ RxFrameInv
-----------------------------------------------------------------------------
\* The constants of the run meet the assumption of EmacRx.
LEMMA RxConstants == Rx!RxAssumption
  BY MCTablesAssumption

\* Held of EmacRx, without the remainder.
LEMMA RxHeldIn == ASSUME RxTypes, NEW i \in RxIdx
                  PROVE  /\ (i - rxRing.get + RxDescs) % RxDescs = RxFrom(i) /\ RxFrom(i) \in RxIdx
                         /\ Rx!Held(i) <=> RxIn(i)
  <1>1. RxDescs \in Nat \ {0} /\ rxRing.get \in RxIdx
        /\ i - rxRing.get + RxDescs \in 0..(2 * RxDescs - 1)
    BY RxConstants DEF Rx!RxAssumption, RxTypes, RxIdx
  <1>2. \A x \in 0..(2 * RxDescs - 1) : x % RxDescs = IF x < RxDescs THEN x ELSE x - RxDescs
    BY <1>1, Mod
  <1> QED
    BY <1>1, <1>2 DEF Rx!Held, RxIn, RxFrom, RxIdx

\* The ring as the driver sets it up: empty, all buffers free or with other users.
LEMMA RxInit == Rx!Init => RxInv
  <1> SUFFICES ASSUME Rx!Init PROVE RxInv
    OBVIOUS
  <1> USE RxConstants DEF Rx!RxAssumption
  <1>1. RxTypes
    <2>1. RxDescs - 1 >= 0 /\ 0 \in RxIdx /\ RxDescs \in 0..RxDescs
      BY DEF RxIdx
    <2>2. rxMbox = <<>> /\ rxMbox \in Seq([buf : RxBufs, n : Nat]) /\ Len(rxMbox) = 0
          /\ Len(rxMbox) <= RxMbox
      BY DEF Rx!Init
    <2>3. rxDesc \in [RxIdx -> [own : BOOLEAN, buf : RxBufs \cup {NoBuf}]]
      BY DEF Rx!Init, RxIdx
    <2>4. rxContent \in [RxBufs -> [n : Nat,
                                    status : SUBSET {"ES", "CE", "DE", "RE", "LE", "FT", "LS"}]]
      BY DEF Rx!Init
    <2>5. rxRing \in [get : RxIdx, next : RxIdx, free : 0..RxDescs]
      BY <2>1 DEF Rx!Init
    <2> QED
      BY <2>1, <2>2, <2>3, <2>4, <2>5 DEF Rx!Init, RxTypes
  <1>2. \A i \in RxIdx : ~RxIn(i) /\ ~rxDesc[i].own /\ rxDesc[i].buf = NoBuf
    BY DEF Rx!Init, RxIn, RxFrom, RxIdx
  <1>3. RxRingInv
    BY <1>2 DEF Rx!Init, RxRingInv, RxOwnsFrom, RxPlus, RxIdx
  <1>4. RxTaskInv
    BY DEF Rx!Init, RxTaskInv
  <1>5. Len(rxMbox) = 0
    BY DEF Rx!Init
  <1>6. RxBufInv
    BY <1>2, <1>5 DEF Rx!Init, RxBufInv, RxOnce, RxPosted, RxInRing
  <1>7. RxFrameInv
    BY <1>2, <1>5 DEF Rx!Init, RxFrameInv, RxFull
  <1> QED
    BY <1>1, <1>3, <1>4, <1>6, <1>7 DEF RxInv

\* A step that only concerns the interrupt bits and the semaphore.
LEMMA RxAside ==
    ASSUME RxInv,
           UNCHANGED <<rxDesc, rxRing, rxMbox, rxHeap, rxOthers, rxDma, rxContent, rxSent, rxGot>>,
           rxTask' \in [pc : {"wait", "test", "input", "queue", "give", "deliver"},
                 back : {"wait", "test", "deliver", "requeue"},
                 hand : RxBufs \cup {NoBuf}, p : RxBufs \cup {NoBuf}],
           rxTask'.hand = rxTask.hand, rxTask'.p = rxTask.p, RxTaskInv',
           rxSem' \in 0..1, rxInts' \in SUBSET {"RI", "RU", "TI"}, rxIsr' \in SUBSET {"RI", "RU",
           "TI"}
    PROVE  RxInv'
  <1>1. RxTypes'
    BY DEF RxInv, RxTypes
  <1>2. RxRingInv'
    BY DEF RxInv, RxRingInv, RxOwnsFrom, RxIn, RxFrom, RxPlus
  <1>3. RxBufInv'
    BY DEF RxInv, RxBufInv, RxOnce, RxPosted, RxInRing, RxIn, RxFrom
  <1>4. RxFrameInv'
    BY DEF RxInv, RxFrameInv, RxFull, RxNum, RxIn, RxFrom
  <1> QED
    BY <1>1, <1>2, <1>3, <1>4 DEF RxInv

\* Positions in the ring.
LEMMA RxPositions ==
    ASSUME RxTypes
    PROVE  /\ RxDescs \in Nat \ {0} /\ rxRing.get \in RxIdx /\ rxRing.next \in RxIdx
           /\ rxRing.free \in 0..RxDescs
           /\ \A i \in RxIdx : RxFrom(i) \in RxIdx /\ (RxFrom(i) = 0 <=> i = rxRing.get)
           /\ \A i, j \in RxIdx : RxFrom(i) = RxFrom(j) => i = j
           /\ \A k \in 0..RxDescs : RxPlus(rxRing.get, k) \in RxIdx
                /\ RxFrom(RxPlus(rxRing.get, k)) = IF k = RxDescs THEN 0 ELSE k
  <1>1. RxDescs \in Nat \ {0} /\ rxRing.get \in RxIdx /\ rxRing.next \in RxIdx
        /\ rxRing.free \in 0..RxDescs
    BY RxConstants DEF Rx!RxAssumption, RxTypes
  <1>2. \A i \in RxIdx : RxFrom(i) \in RxIdx /\ (RxFrom(i) = 0 <=> i = rxRing.get)
    BY <1>1 DEF RxFrom, RxIdx
  <1>3. \A i, j \in RxIdx : RxFrom(i) = RxFrom(j) => i = j
    BY <1>1 DEF RxFrom, RxIdx
  <1>4. \A k \in 0..RxDescs : RxPlus(rxRing.get, k) \in RxIdx
        /\ RxFrom(RxPlus(rxRing.get, k)) = IF k = RxDescs THEN 0 ELSE k
    BY <1>1 DEF RxFrom, RxIdx, RxPlus
  <1> QED
    BY <1>1, <1>2, <1>3, <1>4

\* The next free descriptor is not among those that have a buffer.
LEMMA RxNextFree ==
    ASSUME RxInv, rxRing.free > 0
    PROVE  ~RxIn(rxRing.next) /\ ~rxDesc[rxRing.next].own
           /\ RxFrom(rxRing.next) = RxDescs - rxRing.free
  <1>1. RxDescs - rxRing.free \in 0..RxDescs /\ RxDescs - rxRing.free # RxDescs
    BY RxPositions DEF RxInv
  <1>2. RxFrom(rxRing.next) = RxDescs - rxRing.free
    BY <1>1, RxPositions DEF RxInv, RxRingInv
  <1>3. ~RxIn(rxRing.next)
    BY <1>1, <1>2 DEF RxIn
  <1> QED
    BY <1>2, <1>3, RxPositions DEF RxInv, RxRingInv, RxOwnsFrom

\* A descriptor changes hands.
LEMMA RxSetOwn ==
    RxTypes => \A j \in RxIdx, v \in BOOLEAN : rxDesc' = [rxDesc EXCEPT ![j].own = v] =>
             /\ rxDesc' \in [RxIdx -> [own : BOOLEAN, buf : RxBufs \cup {NoBuf}]]
             /\ \A i \in RxIdx : /\ rxDesc'[i].buf = rxDesc[i].buf
                                 /\ (i = j => rxDesc'[i].own = v)
                                 /\ (i # j => rxDesc'[i].own = rxDesc[i].own)
  <1> HAVE RxTypes
  <1> TAKE j \in RxIdx, v \in BOOLEAN
  <1> HAVE rxDesc' = [rxDesc EXCEPT ![j].own = v]
  <1>1. rxDesc \in [RxIdx -> [own : BOOLEAN, buf : RxBufs \cup {NoBuf}]]
    BY DEF RxTypes
  <1>2. DOMAIN rxDesc' = RxIdx /\ rxDesc' = [i \in RxIdx |-> rxDesc'[i]]
    BY <1>1
  <1>3. \A i \in RxIdx : rxDesc'[i] = IF i = j THEN [rxDesc[j] EXCEPT !.own = v] ELSE rxDesc[i]
    BY <1>1
  <1>4. [rxDesc[j] EXCEPT !.own = v] = [own |-> v, buf |-> rxDesc[j].buf]
        /\ rxDesc[j].buf \in RxBufs \cup {NoBuf}
    BY <1>1
  <1>5. \A i \in RxIdx : rxDesc'[i] \in [own : BOOLEAN, buf : RxBufs \cup {NoBuf}]
    BY <1>1, <1>3, <1>4
  <1> QED
    BY <1>2, <1>3, <1>4, <1>5

\* The items of a sequence are in its set.
LEMMA SeqItems == ASSUME NEW S, NEW s \in Seq(S)
                  PROVE  Len(s) \in Nat /\ \A j \in 1..Len(s) : s[j] \in S
  OBVIOUS

\* The messages of the mailbox are buffers with the number of a frame.
LEMMA RxMessages ==
    ASSUME RxTypes
    PROVE  Len(rxMbox) \in Nat
           /\ \A j \in 1..Len(rxMbox) : rxMbox[j] \in [buf : RxBufs, n : Nat]
                /\ rxMbox[j].buf \in RxBufs
  <1>1. rxMbox \in Seq([buf : RxBufs, n : Nat])
    BY DEF RxTypes
  <1>2. Len(rxMbox) \in Nat /\ \A j \in 1..Len(rxMbox) : rxMbox[j] \in [buf : RxBufs, n : Nat]
    <2> DEFINE S == [buf : RxBufs, n : Nat]
    <2>1. rxMbox \in Seq(S)
      BY <1>1
    <2> HIDE DEF S
    <2>2. Len(rxMbox) \in Nat /\ \A j \in 1..Len(rxMbox) : rxMbox[j] \in S
      BY <2>1, SeqItems
    <2> QED
      BY <2>2 DEF S
  <1> QED
    BY <1>2

\* A frame arrives: the DMA writes it into the descriptor it is at, or drops it.
LEMMA RxFrame == ASSUME RxInv, Rx!Frame PROVE RxInv'
  <1> USE DEF RxInv
  <1>1. PICK st \in RxStatuses :
           /\ rxSent' = rxSent + 1
           /\ IF rxDesc[rxDma].own
              THEN /\ rxContent' = [rxContent EXCEPT ![rxDesc[rxDma].buf] = [n |-> rxSent',
                                                                             status |-> st]]
                   /\ rxDesc' = [rxDesc EXCEPT ![rxDma].own = FALSE]
                   /\ rxDma' = Rx!Inc(rxDma) /\ rxInts' = rxInts \cup {"RI"}
              ELSE rxInts' = rxInts \cup {"RU"} /\ UNCHANGED <<rxContent, rxDesc, rxDma>>
           /\ UNCHANGED <<rxRing, rxTask, rxSem, rxIsr, rxMbox, rxHeap, rxOthers, rxGot>>
    BY DEF Rx!Frame
  <1>2. CASE ~rxDesc[rxDma].own
    <2>1. RxTypes'
      BY <1>1, <1>2 DEF RxTypes
    <2>2. RxRingInv'
      BY <1>1, <1>2 DEF RxRingInv, RxOwnsFrom, RxIn, RxFrom, RxPlus
    <2>3. RxTaskInv' /\ RxBufInv'
      BY <1>1, <1>2 DEF RxTaskInv, RxBufInv, RxOnce, RxPosted, RxInRing, RxIn, RxFrom
    <2>4. RxFrameInv'
      <3>1. rxSent' > rxSent /\ rxSent \in Nat /\ rxSent' \in Nat
        BY <1>1 DEF RxTypes
      <3>2. \A i \in RxIdx : RxFull(i)' = RxFull(i) /\ RxNum(i)' = RxNum(i)
            /\ RxFrom(i)' = RxFrom(i)
        BY <1>1, <1>2 DEF RxFull, RxNum, RxIn, RxFrom
      <3>3. \A i \in RxIdx : RxFull(i) => RxNum(i) \in Nat
        BY DEF RxFull, RxNum, RxTypes, RxBufInv
      <3>4. rxTask.hand # NoBuf => rxContent[rxTask.hand].n \in Nat
        BY DEF RxTypes
      <3> QED
        BY <1>1, <1>2, <3>1, <3>2, <3>3, <3>4 DEF RxFrameInv, RxTypes
    <2> QED
      BY <2>1, <2>2, <2>3, <2>4
  <1>3. CASE rxDesc[rxDma].own
    <2> DEFINE b == rxDesc[rxDma].buf
    <2>1. PICK k \in 0..(RxDescs - rxRing.free) : RxOwnsFrom(k)
      BY DEF RxRingInv
    <2>2. /\ rxDma \in RxIdx /\ k <= RxFrom(rxDma) /\ RxIn(rxDma) /\ b \in RxBufs
      BY <1>3, <2>1 DEF RxOwnsFrom, RxBufInv, RxTypes
    <2>3. RxFrom(rxDma) = k /\ k < RxDescs - rxRing.free /\ k \in Nat /\ k < RxDescs
      BY <2>1, <2>2, RxPositions DEF RxOwnsFrom, RxIn
    <2>4. /\ rxDesc' \in [RxIdx -> [own : BOOLEAN, buf : RxBufs \cup {NoBuf}]]
          /\ \A i \in RxIdx : rxDesc'[i].buf = rxDesc[i].buf
               /\ (rxDesc'[i].own <=> rxDesc[i].own /\ i # rxDma)
      <3>1. rxDesc' = [rxDesc EXCEPT ![rxDma].own = FALSE]
        BY <1>1, <1>3
      <3> QED
        BY <2>2, <3>1, RxSetOwn
    <2>5. /\ rxContent' \in [RxBufs -> [n : Nat,
                                        status : SUBSET {"ES", "CE", "DE", "RE", "LE", "FT", "LS"}]]
          /\ rxContent'[b].n = rxSent + 1 /\ \A c \in RxBufs : c # b => rxContent'[c] = rxContent[c]
          /\ rxSent' = rxSent + 1 /\ rxSent \in Nat
      <3>1. rxContent' = [rxContent EXCEPT ![b] = [n |-> rxSent + 1, status |-> st]]
            /\ rxSent \in Nat /\ rxSent' = rxSent + 1
        BY <1>1, <1>3 DEF RxTypes
      <3>2. [n |-> rxSent + 1, status |-> st] \in [n : Nat,
                                                   status : SUBSET {"ES", "CE", "DE", "RE", "LE",
                                                                    "FT", "LS"}]
        BY <3>1, RxConstants DEF Rx!RxAssumption
      <3> HIDE DEF b
      <3> QED
        BY <2>2, <3>1, <3>2 DEF RxTypes
    <2>6. rxDma' = RxPlus(rxRing.get, k + 1) /\ rxDma' \in RxIdx
      BY <1>1, <1>3, <2>1, <2>3, RxPositions DEF RxOwnsFrom, Rx!Inc, RxPlus, RxIdx
    <2>7. \A i \in RxIdx : RxFrom(i)' = RxFrom(i) /\ (RxIn(i)' <=> RxIn(i))
      BY <1>1 DEF RxIn, RxFrom
    <2>8. RxTypes'
      BY <1>1, <1>3, <2>4, <2>5, <2>6 DEF RxTypes
    <2>9. RxRingInv'
      <3>1. \A i \in RxIdx : rxDesc'[i].own <=> k + 1 <= RxFrom(i) /\ RxIn(i)
        <4> SUFFICES ASSUME NEW i \in RxIdx PROVE rxDesc'[i].own <=> k + 1 <= RxFrom(i) /\ RxIn(i)
          OBVIOUS
        <4>1. RxFrom(i) \in Nat /\ (RxFrom(i) = k <=> i = rxDma)
          BY <2>2, <2>3, RxPositions DEF RxIdx
        <4>2. k + 1 <= RxFrom(i) <=> k <= RxFrom(i) /\ i # rxDma
          BY <2>3, <4>1
        <4> QED
          BY <2>1, <2>4, <4>2 DEF RxOwnsFrom
      <3>2. RxOwnsFrom(k + 1)'
        BY <1>1, <2>6, <2>7, <3>1 DEF RxOwnsFrom, RxPlus
      <3>3. k + 1 \in 0..(RxDescs - rxRing'.free) /\ rxRing' = rxRing
        BY <1>1, <2>1, <2>3, RxPositions
      <3> QED
        BY <3>2, <3>3 DEF RxRingInv, RxPlus
    <2>10. RxTaskInv'
      BY <1>1, <2>4, RxPositions DEF RxTaskInv
    <2>11. RxBufInv'
      BY <1>1, <2>4, <2>7 DEF RxBufInv, RxOnce, RxPosted, RxInRing
    <2>12. RxInRing(b) /\ RxOnce(b)
      BY <2>2 DEF RxInRing, RxBufInv
    <2>13. rxTask.hand # b /\ \A j \in 1..Len(rxMbox) : rxMbox[j].buf # b
      BY <2>12 DEF RxOnce, RxPosted
    <2>14. \A i \in RxIdx : RxFull(i)' <=> RxFull(i) \/ i = rxDma
      BY <2>2, <2>4, <2>7 DEF RxFull
    <2>15. /\ \A i \in RxIdx : i = rxDma => RxNum(i)' = rxSent + 1
           /\ \A i \in RxIdx : RxFull(i) => RxNum(i)' = RxNum(i) /\ RxNum(i) \in Nat
                /\ RxNum(i) <= rxSent
      <3>1. \A i \in RxIdx : RxFull(i) => i # rxDma /\ rxDesc[i].buf # b /\ rxDesc[i].buf \in RxBufs
        BY <1>3, <2>2 DEF RxFull, RxBufInv
      <3>2. \A i \in RxIdx : RxFull(i) => RxNum(i) \in Nat /\ RxNum(i) <= rxSent
        BY <3>1 DEF RxFrameInv, RxTypes, RxNum
      <3> QED
        <4>1. \A i \in RxIdx : i = rxDma => RxNum(i)' = rxSent + 1
          BY <2>2, <2>4, <2>5 DEF RxNum
        <4>2. \A i \in RxIdx : RxFull(i) => RxNum(i)' = RxNum(i)
          BY <2>4, <2>5, <3>1 DEF RxNum
        <4> QED
          BY <3>2, <4>1, <4>2
    <2>16. \A i \in RxIdx : RxFull(i) => RxFrom(i) < RxFrom(rxDma)
      BY <2>1, <2>3, RxPositions DEF RxOwnsFrom, RxFull, RxIdx
    <2>17. RxFrameInv'
      <3>1. \A j \in 1..Len(rxMbox) : rxContent'[rxMbox[j].buf] = rxContent[rxMbox[j].buf]
            /\ rxMbox[j].buf \in RxBufs
        <4>1. \A j \in 1..Len(rxMbox) : rxMbox[j].buf \in RxBufs
          BY RxMessages
        <4> QED
          BY <2>5, <2>13, <4>1
      <3>2. rxTask.hand # NoBuf => rxContent'[rxTask.hand] = rxContent[rxTask.hand]
            /\ rxContent[rxTask.hand].n \in Nat
        BY <2>5, <2>13 DEF RxTypes
      <3>3. rxGot' <= rxSent' /\ rxGot' = rxGot /\ rxGot \in Nat
        BY <1>1, <2>5 DEF RxFrameInv, RxTypes
      <3>4. \A j \in 1..Len(rxMbox') : /\ rxContent'[rxMbox'[j].buf].n = rxMbox'[j].n
                                       /\ ~Rx!Bad(rxContent'[rxMbox'[j].buf].status)
        BY <1>1, <3>1 DEF RxFrameInv
      <3>5. rxTask'.hand # NoBuf => /\ ~Rx!Bad(rxContent'[rxTask'.hand].status)
                                    /\ rxContent'[rxTask'.hand].n > rxGot'
                                    /\ rxContent'[rxTask'.hand].n <= rxSent'
        BY <1>1, <2>5, <3>2, <3>3 DEF RxFrameInv
      <3>6. \A i \in RxIdx : RxFull(i)' => /\ RxNum(i)' > rxGot' /\ RxNum(i)' <= rxSent'
                                           /\ rxTask'.hand # NoBuf
                                                => RxNum(i)' > rxContent'[rxTask'.hand].n
        <4> SUFFICES ASSUME NEW i \in RxIdx, RxFull(i)'
                     PROVE  /\ RxNum(i)' > rxGot' /\ RxNum(i)' <= rxSent'
                            /\ rxTask'.hand # NoBuf => RxNum(i)' > rxContent'[rxTask'.hand].n
          OBVIOUS
        <4>1. CASE i = rxDma
          BY <1>1, <2>5, <2>15, <3>2, <3>3, <4>1 DEF RxFrameInv
        <4>2. CASE RxFull(i)
          <5>1. RxNum(i)' = RxNum(i) /\ RxNum(i) \in Nat /\ RxNum(i) <= rxSent /\ RxNum(i) > rxGot
            BY <2>15, <4>2 DEF RxFrameInv
          <5>2. rxTask.hand # NoBuf => RxNum(i) > rxContent[rxTask.hand].n
            BY <4>2 DEF RxFrameInv
          <5> QED
            BY <1>1, <2>5, <3>2, <3>3, <5>1, <5>2
        <4> QED
          BY <2>14, <4>1, <4>2
      <3>7. \A i, j \in RxIdx : RxFull(i)' /\ RxFull(j)' /\ RxFrom(i)' < RxFrom(j)'
            => RxNum(i)' < RxNum(j)'
        <4> SUFFICES ASSUME NEW i \in RxIdx, NEW j \in RxIdx, RxFull(i)', RxFull(j)',
                            RxFrom(i)' < RxFrom(j)'
                     PROVE  RxNum(i)' < RxNum(j)'
          OBVIOUS
        <4>1. RxFrom(i) < RxFrom(j) /\ RxFrom(i) \in RxIdx /\ RxFrom(j) \in RxIdx
              /\ RxFrom(rxDma) \in RxIdx
          BY <2>2, <2>7, RxPositions
        <4>2. CASE j = rxDma
          <5>1. i # rxDma
            BY <4>1, <4>2 DEF RxIdx
          <5> QED
            <6>1. RxFull(i)
              BY <2>14, <5>1
            <6>2. RxNum(i)' = RxNum(i) /\ RxNum(i) \in Nat /\ RxNum(i) <= rxSent
              BY <2>15, <6>1
            <6>3. RxNum(j)' = rxSent + 1
              BY <2>15, <4>2
            <6> QED
              BY <2>5, <6>2, <6>3
        <4>3. CASE j # rxDma
          <5>1. i # rxDma
            BY <2>14, <2>16, <4>1, <4>3 DEF RxIdx
          <5> QED
            BY <2>14, <2>15, <4>1, <4>3, <5>1 DEF RxFrameInv
        <4> QED
          BY <4>2, <4>3
      <3> QED
        BY <3>3, <3>4, <3>5, <3>6, <3>7 DEF RxFrameInv
    <2> QED
      BY <2>8, <2>9, <2>10, <2>11, <2>17
  <1> QED
    BY <1>2, <1>3

\* States of the receive task.
RxTask == [pc : {"wait", "test", "input", "queue", "give", "deliver"},
            back : {"wait", "test", "deliver", "requeue"},
            hand : RxBufs \cup {NoBuf}, p : RxBufs \cup {NoBuf}]

\* rx_get_idx moves on: the oldest filled descriptor leaves the ring.
LEMMA RxAdvance ==
    ASSUME RxInv, rxRing.free # RxDescs, ~rxDesc[rxRing.get].own,
           rxRing' = [rxRing EXCEPT !.free = @ + 1, !.get = Rx!Inc(@)]
    PROVE  /\ rxRing' \in [get : RxIdx, next : RxIdx, free : 0..RxDescs]
           /\ rxRing'.next = rxRing.next
           /\ rxRing'.free = rxRing.free + 1 /\ rxRing.free + 1 <= RxDescs
           /\ RxIn(rxRing.get) /\ RxFrom(rxRing.get) = 0
           /\ \A i \in RxIdx : i # rxRing.get => RxFrom(i)' = RxFrom(i) - 1 /\ RxFrom(i) > 0
           /\ \A i \in RxIdx : RxIn(i)' <=> RxIn(i) /\ i # rxRing.get
           /\ rxRing'.next = RxPlus(rxRing'.get, RxDescs - rxRing'.free)
           /\ \E k \in 0..(RxDescs - rxRing'.free) :
                 /\ rxDma = RxPlus(rxRing'.get, k)
                 /\ \A i \in RxIdx : rxDesc[i].own <=> k <= RxFrom(i)' /\ RxIn(i)'
  <1> DEFINE g == rxRing.get
             f == rxRing.free
  <1>1. RxDescs \in Nat \ {0} /\ g \in 0..(RxDescs - 1) /\ f \in 0..(RxDescs - 1)
        /\ rxRing \in [get : RxIdx, next : RxIdx, free : 0..RxDescs]
    BY RxPositions DEF RxInv, RxTypes, RxIdx
  <1>2. /\ rxRing'.get = Rx!Inc(g) /\ rxRing'.free = f + 1 /\ rxRing'.next = rxRing.next
        /\ Rx!Inc(g) \in RxIdx /\ f + 1 \in 0..RxDescs
    BY <1>1 DEF Rx!Inc, RxIdx
  <1>3. rxRing' \in [get : RxIdx, next : RxIdx, free : 0..RxDescs]
    <2>1. rxRing' = [get |-> Rx!Inc(g), next |-> rxRing.next, free |-> f + 1]
      BY <1>1
    <2> QED
      BY <1>1, <1>2, <2>1
  <1>4. RxIn(g) /\ RxFrom(g) = 0
    BY <1>1 DEF RxIn, RxFrom
  <1>5. \A i \in RxIdx : i # g => RxFrom(i)' = RxFrom(i) - 1 /\ RxFrom(i) > 0
    BY <1>1, <1>2 DEF RxFrom, RxIdx, Rx!Inc
  <1>6. RxFrom(g) = 0 /\ \A i \in RxIdx : i = g => RxFrom(i)' = RxDescs - 1
    BY <1>1, <1>2 DEF RxFrom, RxIdx, Rx!Inc
  <1>7. \A i \in RxIdx : RxIn(i)' <=> RxIn(i) /\ i # g
    <2> SUFFICES ASSUME NEW i \in RxIdx PROVE RxIn(i)' <=> RxIn(i) /\ i # g
      OBVIOUS
    <2>1. RxFrom(i) \in RxIdx
      BY RxPositions DEF RxInv
    <2>2. CASE i = g
      BY <1>1, <1>2, <1>6, <2>2 DEF RxIn
    <2>3. CASE i # g
      BY <1>1, <1>2, <1>5, <2>1, <2>3 DEF RxIn, RxIdx
    <2> QED
      BY <2>2, <2>3
  <1>8. rxRing'.next = RxPlus(rxRing'.get, RxDescs - rxRing'.free)
    BY <1>1, <1>2 DEF RxInv, RxRingInv, RxPlus, Rx!Inc
  <1>9. \E k \in 0..(RxDescs - rxRing'.free) :
           /\ rxDma = RxPlus(rxRing'.get, k)
           /\ \A i \in RxIdx : rxDesc[i].own <=> k <= RxFrom(i)' /\ RxIn(i)'
    <2>1. PICK k \in 0..(RxDescs - f) : RxOwnsFrom(k)
      BY DEF RxInv, RxRingInv
    <2>2. k > 0
      BY <1>1, <1>4, <2>1 DEF RxOwnsFrom, RxIdx
    <2>3. rxDma = RxPlus(rxRing'.get, k - 1) /\ k - 1 \in 0..(RxDescs - rxRing'.free)
      BY <1>1, <1>2, <2>1, <2>2 DEF RxOwnsFrom, RxPlus, Rx!Inc
    <2>4. ASSUME NEW i \in RxIdx PROVE rxDesc[i].own <=> k - 1 <= RxFrom(i)' /\ RxIn(i)'
      <3>1. RxFrom(i) \in RxIdx
        BY RxPositions DEF RxInv
      <3>2. CASE i = g
        BY <1>7, <3>2
      <3>3. CASE i # g
        <4>1. k - 1 <= RxFrom(i)' <=> k <= RxFrom(i)
          BY <1>1, <1>5, <2>1, <3>1, <3>3 DEF RxIdx
        <4> QED
          BY <1>7, <2>1, <3>3, <4>1 DEF RxOwnsFrom
      <3> QED
        BY <3>2, <3>3
    <2> QED
      BY <2>3, <2>4
  <1> QED
    BY <1>1, <1>2, <1>3, <1>4, <1>5, <1>7, <1>8, <1>9

\* One descriptor gets a buffer, all else stays.
LEMMA RxSetBuf ==
    RxTypes => \A j \in RxIdx, q \in RxBufs : rxDesc' = [rxDesc EXCEPT ![j].buf = q] =>
             /\ rxDesc' \in [RxIdx -> [own : BOOLEAN, buf : RxBufs \cup {NoBuf}]]
             /\ \A i \in RxIdx : /\ rxDesc'[i].own = rxDesc[i].own
                                 /\ (i = j => rxDesc'[i].buf = q)
                                 /\ (i # j => rxDesc'[i].buf = rxDesc[i].buf)
  <1> HAVE RxTypes
  <1> TAKE j \in RxIdx, q \in RxBufs
  <1> HAVE rxDesc' = [rxDesc EXCEPT ![j].buf = q]
  <1>1. rxDesc \in [RxIdx -> [own : BOOLEAN, buf : RxBufs \cup {NoBuf}]]
    BY DEF RxTypes
  <1>2. DOMAIN rxDesc' = RxIdx /\ rxDesc' = [i \in RxIdx |-> rxDesc'[i]]
    BY <1>1
  <1>3. \A i \in RxIdx : rxDesc'[i] = IF i = j THEN [rxDesc[j] EXCEPT !.buf = q] ELSE rxDesc[i]
    BY <1>1
  <1>4. [rxDesc[j] EXCEPT !.buf = q] = [own |-> rxDesc[j].own, buf |-> q]
        /\ rxDesc[j].own \in BOOLEAN
    BY <1>1
  <1>5. \A i \in RxIdx : rxDesc'[i] \in [own : BOOLEAN, buf : RxBufs \cup {NoBuf}]
    BY <1>1, <1>3, <1>4
  <1> QED
    BY <1>2, <1>3, <1>4, <1>5

\* lpc_low_level_input takes a frame out of the ring, or gives a bad one back.
LEMMA RxInput ==
    ASSUME RxInv, Rx!lpc_low_level_input,
           UNCHANGED <<rxInts, rxIsr, rxOthers, rxDma, rxContent, rxSent>> PROVE RxInv'
  <1> USE DEF RxInv
  <1>1. /\ rxTask.pc = "input" /\ rxTask.p = NoBuf /\ rxTask.hand = NoBuf
        /\ ~rxDesc[rxRing.get].own /\ rxTask \in RxTask
        /\ UNCHANGED <<rxSem, rxMbox, rxHeap, rxGot>>
    BY DEF Rx!lpc_low_level_input, RxTaskInv, RxTypes, RxTask
  <1>2. CASE rxRing.free = RxDescs
    <2>1. rxTask' = [rxTask EXCEPT !.pc = "queue", !.back = "test"] /\ UNCHANGED <<rxDesc, rxRing>>
      BY <1>2 DEF Rx!lpc_low_level_input
    <2>2. rxTask' \in RxTask /\ rxTask'.hand = rxTask.hand /\ rxTask'.p = rxTask.p
          /\ rxTask'.pc = "queue" /\ rxTask'.back = "test"
      BY <1>1, <2>1 DEF RxTask
    <2>3. RxTaskInv'
      BY <1>1, <2>1, <2>2 DEF RxTaskInv
    <2> QED
      BY <1>1, <2>1, <2>2, <2>3, RxAside DEF RxTypes, RxTask
  <1>3. CASE rxRing.free # RxDescs
    <2> DEFINE q == rxDesc[rxRing.get].buf
               g == rxRing.get
    <2>1. /\ rxRing' = [rxRing EXCEPT !.free = @ + 1, !.get = Rx!Inc(@)]
          /\ IF Rx!RxError(rxContent[q].status, TRUE)
             THEN /\ rxDesc' = [rxDesc EXCEPT ![rxRing.next].buf = q]
                  /\ rxTask' = [rxTask EXCEPT !.pc = "give", !.back = "requeue", !.p = q]
             ELSE rxTask' = [rxTask EXCEPT !.pc = "queue", !.back = "deliver", !.hand = q]
               /\ UNCHANGED rxDesc
      BY <1>3 DEF Rx!lpc_low_level_input
    <2>2. /\ rxRing' \in [get : RxIdx, next : RxIdx, free : 0..RxDescs]
          /\ rxRing'.next = rxRing.next
          /\ rxRing'.free = rxRing.free + 1 /\ rxRing.free + 1 <= RxDescs
          /\ RxIn(g) /\ RxFrom(g) = 0
          /\ \A i \in RxIdx : i # g => RxFrom(i)' = RxFrom(i) - 1 /\ RxFrom(i) > 0
          /\ \A i \in RxIdx : RxIn(i)' <=> RxIn(i) /\ i # g
          /\ rxRing'.next = RxPlus(rxRing'.get, RxDescs - rxRing'.free)
          /\ \E k \in 0..(RxDescs - rxRing'.free) :
                /\ rxDma = RxPlus(rxRing'.get, k)
                /\ \A i \in RxIdx : rxDesc[i].own <=> k <= RxFrom(i)' /\ RxIn(i)'
      BY <1>1, <1>3, <2>1, RxAdvance
    <2>3. g \in RxIdx /\ q \in RxBufs /\ rxRing.next \in RxIdx /\ q # NoBuf /\ rxRing.free \in Nat
      BY <2>2, RxPositions, RxConstants DEF RxBufInv, Rx!RxAssumption
    <2>4. /\ rxDesc' \in [RxIdx -> [own : BOOLEAN, buf : RxBufs \cup {NoBuf}]]
          /\ \A i \in RxIdx : rxDesc'[i].own = rxDesc[i].own
          /\ \A i \in RxIdx : RxIn(i)' => rxDesc'[i].buf = rxDesc[i].buf
          /\ Rx!RxError(rxContent[q].status, TRUE) => rxDesc'[rxRing.next].buf = q
      <3>1. CASE Rx!RxError(rxContent[q].status, TRUE)
        <4>1. rxDesc' = [rxDesc EXCEPT ![rxRing.next].buf = q]
          BY <2>1, <3>1
        <4>3. \A i \in RxIdx : RxIn(i)' => i # rxRing.next
          <5>1. CASE rxRing.free = 0
            <6>1. rxRing.next = g
              BY <2>3, <5>1, RxPositions DEF RxRingInv, RxPlus, RxIdx
            <6> QED
              BY <2>2, <6>1
          <5>2. CASE rxRing.free # 0
            BY <2>2, <2>3, <5>2, RxNextFree
          <5> QED
            BY <5>1, <5>2
        <4> HIDE DEF q
        <4> QED
          BY <2>3, <4>1, RxSetBuf, <4>3
      <3>2. CASE ~Rx!RxError(rxContent[q].status, TRUE)
        BY <2>1, <3>2 DEF RxTypes
      <3> QED
        BY <3>1, <3>2
    <2>5. RxRingInv'
      BY <1>1, <2>2, <2>4 DEF RxRingInv, RxOwnsFrom, RxPlus
    <2>6. RxInRing(q) /\ \A c \in RxBufs : RxInRing(c)' <=> RxInRing(c) /\ c # q
      <3>1. \A i \in RxIdx : RxIn(i) /\ rxDesc[i].buf = q => i = g
        BY <2>2, <2>3 DEF RxBufInv
      <3> QED
        BY <2>2, <2>3, <2>4, <3>1 DEF RxInRing
    <2>7. \A c \in RxBufs : RxPosted(c)' <=> RxPosted(c)
      BY <1>1 DEF RxPosted
    <2>8. \A i \in RxIdx : RxIn(i)' => rxDesc'[i].buf \in RxBufs
      BY <2>2, <2>4 DEF RxBufInv
    <2>9. \A i, j \in RxIdx : RxIn(i)' /\ RxIn(j)' /\ rxDesc'[i].buf = rxDesc'[j].buf => i = j
      BY <2>2, <2>4 DEF RxBufInv
    <2>10. \A i \in RxIdx : RxFull(i)' <=> RxFull(i) /\ i # g
      BY <2>2, <2>4 DEF RxFull
    <2>11. \A i \in RxIdx : RxFull(i)' => RxNum(i)' = RxNum(i)
      BY <1>1, <2>4 DEF RxNum, RxFull
    <2>12. RxFull(g) /\ \A i \in RxIdx : RxFull(i) /\ i # g => RxNum(i) > RxNum(g)
           /\ RxNum(i) > rxGot /\ RxNum(i) <= rxSent
      <3>1. RxFull(g)
        BY <1>1, <2>2 DEF RxFull
      <3> QED
        BY <2>2, <2>3, <3>1 DEF RxFrameInv
    <2>13. \A i, j \in RxIdx : RxFull(i)' /\ RxFull(j)' /\ RxFrom(i)' < RxFrom(j)'
           => RxNum(i)' < RxNum(j)'
      <3> SUFFICES ASSUME NEW i \in RxIdx, NEW j \in RxIdx, RxFull(i)', RxFull(j)',
                          RxFrom(i)' < RxFrom(j)'
                   PROVE  RxNum(i)' < RxNum(j)'
        OBVIOUS
      <3>1. RxFrom(i) \in RxIdx /\ RxFrom(j) \in RxIdx /\ i # g /\ j # g /\ RxFull(i) /\ RxFull(j)
        BY <2>10, RxPositions
      <3>2. RxFrom(i) < RxFrom(j)
        BY <2>2, <3>1, RxPositions DEF RxIdx
      <3> QED
        BY <2>11, <3>1, <3>2 DEF RxFrameInv
    <2>14. CASE Rx!RxError(rxContent[q].status, TRUE)
      <3> HIDE DEF q, g
      <3>1. /\ rxTask'.pc = "give" /\ rxTask'.back = "requeue" /\ rxTask'.p = q
            /\ rxTask'.hand = NoBuf /\ rxTask' \in RxTask
            /\ rxRing'.free > 0
        <4>1. rxTask' = [rxTask EXCEPT !.pc = "give", !.back = "requeue", !.p = q]
          BY <2>1, <2>14
        <4>2. rxTask' = [pc |-> "give", back |-> "requeue", hand |-> NoBuf, p |-> q]
          BY <1>1, <4>1 DEF RxTask
        <4> QED
          BY <2>2, <2>3, <4>2 DEF RxTask
      <3>2. RxTypes'
        BY <1>1, <2>2, <2>4, <3>1 DEF RxTypes, RxTask
      <3>3. RxTaskInv'
        BY <2>2, <2>3, <2>4, <2>14, <3>1 DEF RxTaskInv
      <3>4. \A c \in RxBufs : RxOnce(c)'
        BY <1>1, <2>3, <2>6, <2>7, <3>1 DEF RxOnce, RxBufInv
      <3>5. RxBufInv'
        BY <1>1, <2>8, <2>9, <3>4 DEF RxBufInv
      <3>6. RxFrameInv'
        BY <1>1, <2>10, <2>11, <2>12, <2>13, <3>1 DEF RxFrameInv
      <3> QED
        BY <2>5, <3>2, <3>3, <3>5, <3>6
    <2>15. CASE ~Rx!RxError(rxContent[q].status, TRUE)
      <3>0. ~Rx!Bad(rxContent[q].status)
        BY <2>15, RxConstants DEF Rx!Bad, Rx!RxError, Rx!RxAssumption
      <3>9. RxNum(g) = rxContent[q].n /\ RxNum(g) > rxGot /\ RxNum(g) <= rxSent
        BY <2>3, <2>12 DEF RxFrameInv, RxNum
      <3> HIDE DEF q, g
      <3>1. rxTask'.pc = "queue" /\ rxTask'.back = "deliver" /\ rxTask'.p = NoBuf
            /\ rxTask'.hand = q /\ rxTask' \in RxTask
        <4>1. rxTask' = [rxTask EXCEPT !.pc = "queue", !.back = "deliver", !.hand = q]
          BY <2>1, <2>15
        <4>2. rxTask' = [pc |-> "queue", back |-> "deliver", hand |-> q, p |-> NoBuf]
          BY <1>1, <4>1 DEF RxTask
        <4> QED
          BY <2>3, <4>2 DEF RxTask
      <3>2. RxTypes'
        BY <1>1, <2>2, <2>4, <3>1 DEF RxTypes, RxTask
      <3>3. RxTaskInv'
        BY <2>3, <3>1 DEF RxTaskInv
      <3>4. \A c \in RxBufs : RxOnce(c)'
        BY <1>1, <2>3, <2>6, <2>7, <3>1 DEF RxOnce, RxBufInv
      <3>5. RxBufInv'
        BY <1>1, <2>8, <2>9, <3>4 DEF RxBufInv
      <3>6. RxFrameInv'
        BY <1>1, <2>10, <2>11, <2>12, <2>13, <3>0, <3>1, <3>9 DEF RxFrameInv
      <3> QED
        BY <2>5, <3>2, <3>3, <3>5, <3>6
    <2> QED
      BY <2>14, <2>15
  <1> QED
    BY <1>2, <1>3

\* lpc_rx_queue allocates a buffer for the next empty descriptor, or finds none.
LEMMA RxQueue ==
    ASSUME RxInv, Rx!lpc_rx_queue,
           UNCHANGED <<rxInts, rxIsr, rxOthers, rxDma, rxContent, rxSent>> PROVE RxInv'
  <1> USE DEF RxInv
  <1>1. /\ rxTask.pc = "queue" /\ rxTask.p = NoBuf
        /\ (rxTask.hand # NoBuf <=> rxTask.back = "deliver") /\ rxTask.back # "requeue"
        /\ rxTask \in RxTask /\ UNCHANGED <<rxSem, rxMbox, rxGot>>
    BY DEF Rx!lpc_rx_queue, RxTaskInv, RxTypes, RxTask
  <1>2. ASSUME rxRing.free = 0 \/ rxHeap = {}, rxTask' = [rxTask EXCEPT !.pc = rxTask.back],
               UNCHANGED <<rxDesc, rxRing, rxHeap>>
        PROVE  RxInv'
    <2>2. rxTask' \in RxTask /\ rxTask'.hand = rxTask.hand /\ rxTask'.p = rxTask.p
          /\ rxTask'.pc = rxTask.back /\ rxTask'.back = rxTask.back
      BY <1>1, <1>2 DEF RxTask
    <2>3. RxTaskInv'
      BY <1>1, <1>2, <2>2 DEF RxTaskInv, RxTask
    <2> QED
      BY <1>1, <1>2, <2>2, <2>3, RxAside DEF RxTypes, RxTask
  <1>3. ASSUME NEW p \in rxHeap, rxRing.free > 0, rxHeap' = rxHeap \ {p},
               rxDesc' = [rxDesc EXCEPT ![rxRing.next].buf = p],
               rxRing' = rxRing, rxTask' = [rxTask EXCEPT !.pc = "give", !.p = p]
        PROVE  RxInv'
    <2>1. p \in RxBufs /\ rxRing.next \in RxIdx /\ ~RxIn(rxRing.next)
          /\ ~rxDesc[rxRing.next].own /\ p # NoBuf
      BY <1>3, RxPositions, RxNextFree, RxConstants DEF RxTypes, Rx!RxAssumption
    <2>2. /\ rxDesc' \in [RxIdx -> [own : BOOLEAN, buf : RxBufs \cup {NoBuf}]]
          /\ rxDesc'[rxRing.next].buf = p
          /\ \A i \in RxIdx : rxDesc'[i].own = rxDesc[i].own
               /\ (RxIn(i) => rxDesc'[i].buf = rxDesc[i].buf)
      <3> QED
        BY <1>3, <2>1, RxSetBuf
    <2>3. rxTask'.pc = "give" /\ rxTask'.back = rxTask.back /\ rxTask'.hand = rxTask.hand
          /\ rxTask'.p = p /\ rxTask' \in RxTask
      BY <1>1, <1>3, <2>1 DEF RxTask
    <2>4. \A i \in RxIdx : RxFrom(i)' = RxFrom(i) /\ (RxIn(i)' <=> RxIn(i))
          /\ (RxFull(i)' <=> RxFull(i))
      BY <1>3, <2>2 DEF RxFrom, RxIn, RxFull
    <2>5. RxTypes'
      BY <1>1, <1>3, <2>2, <2>3 DEF RxTypes, RxTask
    <2>6. RxRingInv'
      BY <1>3, <2>2, <2>4 DEF RxRingInv, RxOwnsFrom, RxPlus
    <2>7. RxTaskInv'
      BY <1>1, <1>3, <2>1, <2>2, <2>3 DEF RxTaskInv
    <2>8. \A c \in RxBufs : (RxInRing(c)' <=> RxInRing(c)) /\ (RxPosted(c)' <=> RxPosted(c))
      BY <1>1, <2>2, <2>4 DEF RxInRing, RxPosted
    <2>9. \A c \in RxBufs : RxOnce(c)'
      BY <1>1, <1>3, <2>1, <2>3, <2>8, RxConstants DEF RxOnce, RxBufInv, Rx!RxAssumption
    <2>10. RxBufInv'
      BY <1>1, <2>2, <2>4, <2>9 DEF RxBufInv
    <2>11. \A i \in RxIdx : RxFull(i)' => RxNum(i)' = RxNum(i)
      BY <2>2, <2>4 DEF RxNum, RxFull
    <2>12. RxFrameInv'
      BY <1>1, <1>3, <2>3, <2>4, <2>11 DEF RxFrameInv
    <2> QED
      BY <2>5, <2>6, <2>7, <2>10, <2>12
  <1> QED
    BY <1>2, <1>3 DEF Rx!lpc_rx_queue

\* lpc_rxqueue_pbuf hands the next descriptor to the DMA.
LEMMA RxGive ==
    ASSUME RxInv, Rx!lpc_rxqueue_pbuf,
           UNCHANGED <<rxInts, rxIsr, rxOthers, rxDma, rxContent, rxSent>> PROVE RxInv'
  <1> USE DEF RxInv
  <1> DEFINE x == rxRing.next
  <1>1. /\ rxTask.pc = "give" /\ rxTask.p # NoBuf /\ rxRing.free > 0 /\ rxDesc[x].buf = rxTask.p
        /\ (rxTask.hand # NoBuf <=> rxTask.back = "deliver") /\ rxTask \in RxTask
        /\ rxTask.p \in RxBufs
        /\ UNCHANGED <<rxSem, rxMbox, rxHeap, rxGot>>
        /\ rxDesc' = [rxDesc EXCEPT ![rxRing.next].own = TRUE]
        /\ rxRing' = [rxRing EXCEPT !.free = @ - 1, !.next = Rx!Inc(@)]
        /\ rxTask' = [rxTask EXCEPT !.pc = IF rxTask.back = "requeue" THEN "test"
             ELSE "queue", !.p = NoBuf]
    BY DEF Rx!lpc_rxqueue_pbuf, RxTaskInv, RxTypes, RxTask
  <1>2. x \in RxIdx /\ ~RxIn(x) /\ ~rxDesc[x].own /\ RxFrom(x) = RxDescs - rxRing.free
    BY <1>1, RxPositions, RxNextFree
  <1>3. /\ rxDesc' \in [RxIdx -> [own : BOOLEAN, buf : RxBufs \cup {NoBuf}]]
        /\ \A i \in RxIdx : rxDesc'[i].buf = rxDesc[i].buf
             /\ (rxDesc'[i].own <=> rxDesc[i].own \/ i = x)
    <2> QED
      BY <1>1, <1>2, RxSetOwn
  <1>4. /\ rxRing' = [get |-> rxRing.get, next |-> Rx!Inc(x), free |-> rxRing.free - 1]
        /\ Rx!Inc(x) \in RxIdx
        /\ rxRing.free - 1 \in 0..RxDescs /\ RxDescs \in Nat /\ rxRing.free \in Nat
        /\ rxRing.get \in RxIdx
    <2>1. RxDescs \in Nat \ {0} /\ rxRing.free \in 0..RxDescs /\ rxRing.get \in RxIdx
      BY RxPositions
    <2>2. rxRing' = [get |-> rxRing.get, next |-> Rx!Inc(x), free |-> rxRing.free - 1]
      BY <1>1 DEF RxTypes
    <2>3. Rx!Inc(x) \in RxIdx
      BY <1>2, <2>1 DEF Rx!Inc, RxIdx
    <2>4. rxRing.free - 1 \in 0..RxDescs /\ RxDescs \in Nat /\ rxRing.free \in Nat
      BY <1>1, <2>1
    <2> HIDE DEF x
    <2> QED
      BY <2>1, <2>2, <2>3, <2>4, Zenon
  <1>5. \A i \in RxIdx : RxFrom(i)' = RxFrom(i) /\ RxFrom(i) \in Nat
    BY <1>4, RxPositions DEF RxFrom, RxIdx
  <1>6. \A i \in RxIdx : RxFrom(i) = RxDescs - rxRing.free <=> i = x
    BY <1>2, RxPositions
  <1>7. \A i \in RxIdx : RxIn(i)' <=> RxIn(i) \/ i = x
    BY <1>4, <1>5, <1>6 DEF RxIn
  <1>8. rxTask' \in RxTask /\ rxTask'.p = NoBuf /\ rxTask'.hand = rxTask.hand
        /\ rxTask'.back = rxTask.back
        /\ rxTask'.pc = IF rxTask.back = "requeue" THEN "test" ELSE "queue"
    BY <1>1 DEF RxTask
  <1>9. RxTypes'
    BY <1>1, <1>3, <1>4, <1>8 DEF RxTypes, RxTask
  <1>10. RxRingInv'
    <2>1. Rx!Inc(x) = RxPlus(rxRing.get, RxDescs - rxRing.free + 1)
      BY <1>1, <1>4, RxPositions DEF RxRingInv, RxPlus, Rx!Inc, RxIdx
    <2>2. PICK k \in 0..(RxDescs - rxRing.free) : RxOwnsFrom(k)
      BY DEF RxRingInv
    <2>3. ASSUME NEW i \in RxIdx PROVE rxDesc'[i].own <=> k <= RxFrom(i)' /\ RxIn(i)'
      <3>1. CASE i = x
        BY <1>2, <1>3, <1>5, <1>7, <2>2, <3>1
      <3>2. CASE i # x
        BY <1>3, <1>5, <1>7, <2>2, <3>2 DEF RxOwnsFrom
      <3> QED
        BY <3>1, <3>2
    <2>4. RxOwnsFrom(k)'
      BY <1>4, <2>2, <2>3 DEF RxOwnsFrom, RxPlus
    <2>5. k \in 0..(RxDescs - rxRing'.free) /\ RxDescs - rxRing'.free = RxDescs - rxRing.free + 1
      BY <1>4, <2>2
    <2> QED
      BY <1>4, <2>1, <2>4, <2>5 DEF RxRingInv, RxPlus
  <1>11. RxTaskInv'
    BY <1>1, <1>8 DEF RxTaskInv, RxTask
  <1>12. \A c \in RxBufs : (RxInRing(c)' <=> RxInRing(c) \/ c = rxTask.p)
         /\ (RxPosted(c)' <=> RxPosted(c))
    BY <1>1, <1>2, <1>3, <1>7 DEF RxInRing, RxPosted
  <1>13. \A c \in RxBufs : RxOnce(c)'
    BY <1>1, <1>8, <1>12, RxConstants DEF RxOnce, RxBufInv, Rx!RxAssumption
  <1>14. ~RxInRing(rxTask.p)
    BY <1>1 DEF RxOnce, RxBufInv
  <1>15. RxBufInv'
    <2>1. \A i \in RxIdx : RxIn(i)' => rxDesc'[i].buf \in RxBufs
      BY <1>1, <1>3, <1>7 DEF RxBufInv
    <2>2. \A i \in RxIdx : RxIn(i) => rxDesc[i].buf # rxTask.p
      BY <1>14 DEF RxInRing
    <2>3. \A i, j \in RxIdx : RxIn(i)' /\ RxIn(j)' /\ rxDesc'[i].buf = rxDesc'[j].buf => i = j
      BY <1>1, <1>3, <1>7, <2>2 DEF RxBufInv
    <2> QED
      BY <1>1, <1>13, <2>1, <2>3 DEF RxBufInv
  <1>16. \A i \in RxIdx : (RxFull(i)' <=> RxFull(i)) /\ RxNum(i)' = RxNum(i)
    BY <1>2, <1>3, <1>7 DEF RxFull, RxNum
  <1>17. RxFrameInv'
    BY <1>1, <1>5, <1>8, <1>16 DEF RxFrameInv
  <1> QED
    BY <1>9, <1>10, <1>11, <1>15, <1>17

\* lpc_enetif_input posts the frame, or frees it when the mailbox is full.
LEMMA RxDeliver ==
    ASSUME RxInv, Rx!lpc_enetif_input,
           UNCHANGED <<rxInts, rxIsr, rxOthers, rxDma, rxContent, rxSent>> PROVE RxInv'
  <1> USE DEF RxInv
  <1> DEFINE h == rxTask.hand
  <1>1. /\ rxTask.pc = "deliver" /\ rxTask' = [rxTask EXCEPT !.pc = "test", !.hand = NoBuf]
        /\ UNCHANGED <<rxDesc, rxRing, rxSem>>
        /\ h # NoBuf /\ h \in RxBufs /\ rxTask.p = NoBuf /\ rxTask \in RxTask
    BY DEF Rx!lpc_enetif_input, RxTaskInv, RxTypes, RxTask
  <1>2. rxTask' \in RxTask /\ rxTask'.pc = "test" /\ rxTask'.hand = NoBuf /\ rxTask'.p = NoBuf
    BY <1>1 DEF RxTask
  <1>3. RxRingInv' /\ RxTaskInv'
    BY <1>1, <1>2 DEF RxRingInv, RxOwnsFrom, RxIn, RxFrom, RxPlus, RxTaskInv
  <1>4. \A i \in RxIdx : (RxIn(i)' <=> RxIn(i)) /\ (RxFull(i)' <=> RxFull(i))
        /\ RxFrom(i)' = RxFrom(i) /\ RxNum(i)' = RxNum(i)
    BY <1>1 DEF RxIn, RxFrom, RxFull, RxNum
  <1>5. \A c \in RxBufs : RxInRing(c)' <=> RxInRing(c)
    BY <1>1, <1>4 DEF RxInRing
  <1>6. ~RxPosted(h) /\ h \notin rxHeap /\ h \notin rxOthers
    BY <1>1 DEF RxBufInv, RxOnce
  <1>7. /\ rxContent[h].n \in Nat /\ rxContent[h].n > rxGot /\ rxContent[h].n <= rxSent
        /\ ~Rx!Bad(rxContent[h].status)
    BY <1>1 DEF RxFrameInv, RxTypes
  <1>8. ASSUME rxHeap' = rxHeap \cup {h}, UNCHANGED <<rxMbox, rxGot>> PROVE RxInv'
    <2>1. RxTypes'
      BY <1>1, <1>2, <1>8 DEF RxTypes, RxTask
    <2>2. \A c \in RxBufs : RxPosted(c)' <=> RxPosted(c)
      BY <1>8 DEF RxPosted
    <2>3. \A c \in RxBufs : RxOnce(c)'
      BY <1>1, <1>2, <1>5, <1>6, <1>8, <2>2, RxConstants DEF RxOnce, RxBufInv, Rx!RxAssumption
    <2>4. RxBufInv'
      BY <1>1, <1>4, <1>8, <2>3 DEF RxBufInv
    <2>5. RxFrameInv'
      BY <1>2, <1>4, <1>8 DEF RxFrameInv
    <2> QED
      BY <1>3, <2>1, <2>4, <2>5
  <1>9. ASSUME Len(rxMbox) < RxMbox, rxGot' = rxContent[h].n,
               rxMbox' = Append(rxMbox, [buf |-> h, n |-> rxGot']), UNCHANGED rxHeap
        PROVE  RxInv'
    <2> DEFINE m == [buf |-> h, n |-> rxGot']
    <2>1. Len(rxMbox) \in Nat /\ m \in [buf : RxBufs, n : Nat] /\ m.buf = h /\ m.n = rxGot'
      BY <1>1, <1>7, <1>9, RxMessages
    <2>2. /\ rxMbox' \in Seq([buf : RxBufs, n : Nat]) /\ Len(rxMbox') = Len(rxMbox) + 1
          /\ rxMbox'[Len(rxMbox) + 1] = m
          /\ \A j \in 1..Len(rxMbox) : rxMbox'[j] = rxMbox[j]
      <3> DEFINE S == [buf : RxBufs, n : Nat]
      <3>1. rxMbox \in Seq(S) /\ m \in S /\ rxMbox' = Append(rxMbox, m)
        BY <1>9, <2>1 DEF RxTypes
      <3> HIDE DEF S, m
      <3>2. /\ rxMbox' \in Seq(S) /\ Len(rxMbox') = Len(rxMbox) + 1 /\ rxMbox'[Len(rxMbox) + 1] = m
            /\ \A j \in 1..Len(rxMbox) : rxMbox'[j] = rxMbox[j]
        BY <3>1
      <3> QED
        BY <3>2 DEF S
    <2> HIDE DEF m, h
    <2>3. RxTypes'
      BY <1>1, <1>2, <1>7, <1>9, <2>1, <2>2, RxConstants DEF RxTypes, RxTask, Rx!RxAssumption
    <2>4. \A j \in 1..Len(rxMbox') : j \in 1..Len(rxMbox) \/ j = Len(rxMbox) + 1
      BY <2>1, <2>2
    <2>5. \A c \in RxBufs : RxPosted(c)' <=> RxPosted(c) \/ c = h
      <3> SUFFICES ASSUME NEW c \in RxBufs PROVE RxPosted(c)' <=> RxPosted(c) \/ c = h
        OBVIOUS
      <3>1. Len(rxMbox) + 1 \in 1..Len(rxMbox') /\ \A j \in 1..Len(rxMbox) : j \in 1..Len(rxMbox')
        BY <2>1, <2>2
      <3>2. RxPosted(c)' => RxPosted(c) \/ c = h
        BY <2>1, <2>2, <2>4 DEF RxPosted
      <3>3. RxPosted(c) \/ c = h => RxPosted(c)'
        BY <2>1, <2>2, <3>1 DEF RxPosted
      <3> QED
        BY <3>2, <3>3
    <2>6. \A c \in RxBufs : RxOnce(c)'
      BY <1>1, <1>2, <1>5, <1>6, <1>9, <2>5, RxConstants DEF RxOnce, RxBufInv, Rx!RxAssumption, h
    <2>7. \A j, k \in 1..Len(rxMbox') : rxMbox'[j].buf = rxMbox'[k].buf => j = k
      <3>1. \A j \in 1..Len(rxMbox) : rxMbox[j].buf # h
        BY <1>6 DEF RxPosted
      <3> QED
        BY <2>1, <2>2, <2>4, <3>1 DEF RxBufInv
    <2>8. RxBufInv'
      BY <1>1, <1>4, <2>6, <2>7 DEF RxBufInv
    <2>9. \A j \in 1..Len(rxMbox') : rxContent'[rxMbox'[j].buf].n = rxMbox'[j].n
          /\ ~Rx!Bad(rxContent'[rxMbox'[j].buf].status)
      BY <1>7, <1>9, <2>1, <2>2, <2>4 DEF RxFrameInv
    <2>10. RxFrameInv'
      BY <1>1, <1>2, <1>4, <1>7, <1>9, <2>9 DEF RxFrameInv, h
    <2> QED
      BY <1>3, <2>3, <2>8, <2>10
  <1> QED
    BY <1>8, <1>9 DEF Rx!lpc_enetif_input

\* tcpip_thread takes a frame from the mailbox and frees its buffer.
LEMMA RxTcpip == ASSUME RxInv, Rx!TcpipThread PROVE RxInv'
  <1> USE DEF RxInv
  <1> DEFINE h == Head(rxMbox).buf
  <1>1. /\ rxMbox # <<>> /\ rxMbox' = Tail(rxMbox) /\ rxHeap' = rxHeap \cup {h}
        /\ UNCHANGED <<rxDesc, rxRing, rxTask, rxSem, rxInts, rxIsr, rxOthers, rxDma, rxContent,
                       rxSent, rxGot>>
    BY DEF Rx!TcpipThread
  <1>2. /\ rxMbox' \in Seq([buf : RxBufs, n : Nat]) /\ Len(rxMbox) \in Nat \ {0}
        /\ Len(rxMbox') = Len(rxMbox) - 1
        /\ \A j \in 1..Len(rxMbox') : rxMbox'[j] = rxMbox[j + 1]
        /\ Head(rxMbox) = rxMbox[1]
    <2> DEFINE S == [buf : RxBufs, n : Nat]
    <2>1. rxMbox \in Seq(S)
      BY DEF RxTypes
    <2> HIDE DEF S
    <2>2. /\ rxMbox' \in Seq(S) /\ Len(rxMbox) \in Nat \ {0} /\ Len(rxMbox') = Len(rxMbox) - 1
          /\ \A j \in 1..Len(rxMbox') : rxMbox'[j] = rxMbox[j + 1]
          /\ Head(rxMbox) = rxMbox[1]
      BY <1>1, <2>1
    <2> QED
      BY <2>2 DEF S
  <1>3. h = rxMbox[1].buf /\ h \in RxBufs /\ 1 \in 1..Len(rxMbox)
    BY <1>2, RxMessages
  <1>4. RxTypes'
    BY <1>1, <1>2, <1>3, RxConstants DEF RxTypes, Rx!RxAssumption
  <1>5. RxRingInv' /\ RxTaskInv'
    BY <1>1 DEF RxRingInv, RxOwnsFrom, RxIn, RxFrom, RxPlus, RxTaskInv
  <1>6. \A i \in RxIdx : (RxIn(i)' <=> RxIn(i)) /\ (RxFull(i)' <=> RxFull(i))
        /\ RxFrom(i)' = RxFrom(i) /\ RxNum(i)' = RxNum(i)
    BY <1>1 DEF RxIn, RxFrom, RxFull, RxNum
  <1> HIDE DEF h
  <1>7. /\ \A j \in 1..Len(rxMbox') : j + 1 \in 1..Len(rxMbox) /\ j + 1 # 1
        /\ \A j \in 1..Len(rxMbox) : j = 1 \/ (j - 1 \in 1..Len(rxMbox') /\ (j - 1) + 1 = j)
    BY <1>2
  <1>8. \A c \in RxBufs : RxPosted(c)' <=> RxPosted(c) /\ c # h
    <2>1. \A j \in 1..Len(rxMbox) : rxMbox[j].buf = h => j = 1
      BY <1>3 DEF RxBufInv
    <2> QED
      <3> SUFFICES ASSUME NEW c \in RxBufs PROVE RxPosted(c)' <=> RxPosted(c) /\ c # h
        OBVIOUS
      <3>1. ASSUME NEW j \in 1..Len(rxMbox'), rxMbox'[j].buf = c PROVE RxPosted(c) /\ c # h
        <4>1. j + 1 \in 1..Len(rxMbox) /\ j + 1 # 1 /\ rxMbox[j + 1].buf = c
          BY <1>2, <1>7, <3>1
        <4> QED
          BY <2>1, <4>1 DEF RxPosted
      <3>2. ASSUME NEW j \in 1..Len(rxMbox), rxMbox[j].buf = c, c # h
            PROVE \E i \in 1..Len(rxMbox') : rxMbox'[i].buf = c
        <4>1. j - 1 \in 1..Len(rxMbox') /\ (j - 1) + 1 = j
          BY <1>3, <1>7, <3>2
        <4> QED
          BY <1>2, <3>2, <4>1
      <3> QED
        BY <3>1, <3>2 DEF RxPosted
  <1>9. \A c \in RxBufs : RxInRing(c)' <=> RxInRing(c)
    BY <1>1, <1>6 DEF RxInRing
  <1>10. RxPosted(h)
    BY <1>3 DEF RxPosted
  <1>11. \A c \in RxBufs : RxOnce(c)'
    BY <1>1, <1>3, <1>8, <1>9, <1>10 DEF RxOnce, RxBufInv
  <1>12. \A j, k \in 1..Len(rxMbox') : rxMbox'[j].buf = rxMbox'[k].buf => j = k
    <2> SUFFICES ASSUME NEW j \in 1..Len(rxMbox'), NEW k \in 1..Len(rxMbox'),
                        rxMbox'[j].buf = rxMbox'[k].buf PROVE j = k
      OBVIOUS
    <2>1. j + 1 = k + 1
      BY <1>2, <1>7 DEF RxBufInv
    <2> QED
      BY <1>2, <2>1
  <1>13. RxBufInv'
    BY <1>1, <1>6, <1>11, <1>12 DEF RxBufInv
  <1>14. RxFrameInv'
    <2>1. \A j \in 1..Len(rxMbox') : rxContent'[rxMbox'[j].buf].n = rxMbox'[j].n
          /\ ~Rx!Bad(rxContent'[rxMbox'[j].buf].status)
      BY <1>1, <1>2, <1>7 DEF RxFrameInv
    <2> QED
      BY <1>1, <1>6, <2>1 DEF RxFrameInv
  <1> QED
    BY <1>4, <1>5, <1>13, <1>14

\* Other users of the heap take a buffer or bring one back.
LEMMA RxOthers == ASSUME RxInv, Rx!OtherAlloc \/ Rx!OtherFree PROVE RxInv'
  <1> USE DEF RxInv
  <1>1. PICK b \in RxBufs :
          /\ \/ b \in rxHeap /\ rxHeap' = rxHeap \ {b} /\ rxOthers' = rxOthers \cup {b}
             \/ b \in rxOthers /\ rxOthers' = rxOthers \ {b} /\ rxHeap' = rxHeap \cup {b}
          /\ UNCHANGED <<rxDesc, rxRing, rxTask, rxSem, rxInts, rxIsr, rxMbox, rxDma, rxContent,
                         rxSent, rxGot>>
    BY DEF Rx!OtherAlloc, Rx!OtherFree, RxTypes
  <1>2. RxTypes'
    BY <1>1 DEF RxTypes
  <1>3. RxRingInv' /\ RxTaskInv' /\ RxFrameInv'
    BY <1>1 DEF RxRingInv, RxOwnsFrom, RxIn, RxFrom, RxPlus, RxTaskInv, RxFrameInv, RxFull, RxNum
  <1>4. \A c \in RxBufs : (RxInRing(c)' <=> RxInRing(c)) /\ (RxPosted(c)' <=> RxPosted(c))
    BY <1>1 DEF RxInRing, RxPosted, RxIn, RxFrom
  <1>5. \A c \in RxBufs : RxOnce(c)'
    BY <1>1, <1>4 DEF RxOnce, RxBufInv
  <1>6. RxBufInv'
    BY <1>1, <1>5 DEF RxBufInv, RxIn, RxFrom
  <1> QED
    BY <1>2, <1>3, <1>6

\* Interrupts, semaphore and the test for a frame touch neither ring nor buffers.
LEMMA RxSignals ==
    ASSUME RxInv,
           \/ Rx!TxDone \/ Rx!ETH_IRQHandler
           \/ (Rx!Wait \/ Rx!Test)
                /\ UNCHANGED <<rxInts, rxIsr, rxOthers, rxDma, rxContent, rxSent>>
    PROVE  RxInv'
  <1> USE DEF RxInv
  <1>1. /\ UNCHANGED <<rxDesc, rxRing, rxMbox, rxHeap, rxOthers, rxDma, rxContent, rxSent, rxGot>>
        /\ rxSem' \in 0..1 /\ rxInts' \in SUBSET {"RI", "RU", "TI"}
        /\ rxIsr' \in SUBSET {"RI", "RU", "TI"}
        /\ \/ rxTask' = rxTask
           \/ rxTask.pc = "wait" /\ rxTask' = [rxTask EXCEPT !.pc = "test"]
           \/ rxTask.pc = "test"
                /\ rxTask' = [rxTask EXCEPT !.pc = IF rxDesc[rxRing.get].own THEN "wait"
                     ELSE "input"]
    BY DEF Rx!TxDone, Rx!ETH_IRQHandler, Rx!IrqRead, Rx!IrqClear, Rx!Wait, Rx!Test, RxTypes
  <1>2. rxTask \in RxTask
    BY DEF RxTypes, RxTask
  <1>3. rxTask' \in RxTask /\ rxTask'.hand = rxTask.hand /\ rxTask'.p = rxTask.p
        /\ rxTask'.back = rxTask.back
        /\ \/ rxTask' = rxTask
           \/ rxTask.pc = "wait" /\ rxTask'.pc = "test"
           \/ rxTask.pc = "test" /\ rxTask'.pc = IF rxDesc[rxRing.get].own THEN "wait" ELSE "input"
    BY <1>1, <1>2 DEF RxTask
  <1>4. RxTaskInv'
    BY <1>1, <1>3 DEF RxTaskInv
  <1> QED
    BY <1>1, <1>3, <1>4, RxAside DEF RxTask

\* Every step of driver, DMA, interrupt and pool keeps the invariant.
LEMMA RxNext == RxInv /\ [Rx!Next]_(Rx!vars) => RxInv'
  <1> SUFFICES ASSUME RxInv, [Rx!Next]_(Rx!vars) PROVE RxInv'
    OBVIOUS
  <1>1. CASE UNCHANGED Rx!vars
    <2>1. UNCHANGED <<rxDesc, rxRing, rxTask, rxSem, rxInts, rxIsr, rxMbox, rxHeap, rxOthers,
                      rxDma, rxContent, rxSent, rxGot>>
      BY <1>1 DEF Rx!vars
    <2>2. RxTaskInv'
      BY <2>1 DEF RxInv, RxTaskInv
    <2> QED
      BY <2>1, <2>2, RxAside DEF RxInv, RxTypes
  <1>2. CASE Rx!vPacketReceiveTask
    BY <1>2, RxSignals, RxInput, RxQueue, RxGive, RxDeliver DEF Rx!vPacketReceiveTask
  <1> QED
    BY <1>1, <1>2, RxSignals, RxFrame, RxTcpip, RxOthers DEF Rx!Next

\* A frame that is posted has a higher number than the one before.
LEMMA RxOrder == RxInv /\ [Rx!Next]_(Rx!vars) => [Rx!InOrder]_(Rx!vars)
  <1> SUFFICES ASSUME RxInv, Rx!Next, Len(rxMbox') > Len(rxMbox) PROVE rxGot' > rxGot
    BY DEF Rx!InOrder, Rx!vars
  <1>1. Len(rxMbox) \in Nat /\ rxMbox' # rxMbox
    BY RxMessages DEF RxInv
  <1>2. ~Rx!TcpipThread
    <2>1. \A S : \A s \in Seq(S) : s # <<>> => Len(Tail(s)) = Len(s) - 1
      OBVIOUS
    <2>2. rxMbox \in Seq([buf : RxBufs, n : Nat])
      BY DEF RxInv, RxTypes
    <2>3. rxMbox # <<>> => Len(Tail(rxMbox)) = Len(rxMbox) - 1
      BY <2>1, <2>2, Zenon
    <2> QED
      BY <1>1, <2>3 DEF Rx!TcpipThread
  <1>3. Rx!lpc_enetif_input
    BY <1>1, <1>2 DEF Rx!Next, Rx!Frame, Rx!TxDone, Rx!ETH_IRQHandler, Rx!IrqRead, Rx!IrqClear,
      Rx!vPacketReceiveTask, Rx!Wait, Rx!Test,
       Rx!lpc_low_level_input, Rx!lpc_rx_queue, Rx!lpc_rxqueue_pbuf, Rx!OtherAlloc, Rx!OtherFree
  <1> QED
    BY <1>1, <1>3 DEF RxInv, Rx!lpc_enetif_input, RxFrameInv, RxTaskInv

\* The invariant implies the properties of EmacRx.
LEMMA RxImplies == RxInv => Rx!TypeOK /\ Rx!BufferOnce /\ Rx!RingRight /\ Rx!PostedIntact
                   /\ Rx!BadDropped
  <1> SUFFICES ASSUME RxInv
               PROVE Rx!TypeOK /\ Rx!BufferOnce /\ Rx!RingRight /\ Rx!PostedIntact /\ Rx!BadDropped
    OBVIOUS
  <1> USE DEF RxInv
  <1>1. Rx!TypeOK
    BY DEF RxTypes, Rx!TypeOK, RxIdx
  <1>2. DOMAIN rxMbox = 1..Len(rxMbox)
    BY DEF RxTypes
  <1>3. Rx!PostedIntact /\ Rx!BadDropped
    BY <1>2 DEF Rx!PostedIntact, Rx!BadDropped, RxFrameInv
  <1>4. \A i \in RxIdx : (i - rxRing.get + RxDescs) % RxDescs = RxFrom(i)
        /\ RxFrom(i) \in RxIdx /\ (Rx!Held(i) <=> RxIn(i))
    BY RxHeldIn
  <1>5. Rx!RingRight
    <2>1. rxRing.next = (rxRing.get + RxDescs - rxRing.free) % RxDescs
      <3>1. RxDescs \in Nat \ {0} /\ rxRing.get + RxDescs - rxRing.free \in 0..(2 * RxDescs - 1)
        BY RxPositions DEF RxIdx
      <3>2. \A x \in 0..(2 * RxDescs - 1) : x % RxDescs = IF x < RxDescs THEN x ELSE x - RxDescs
        BY <3>1, Mod
      <3>3. PICK y \in 0..(2 * RxDescs - 1) : y = rxRing.get + RxDescs - rxRing.free
        BY <3>1
      <3>4. rxRing.next = IF y < RxDescs THEN y ELSE y - RxDescs
        <4>1. rxRing.get + (RxDescs - rxRing.free) = y
          BY <3>3, RxPositions DEF RxIdx
        <4>2. rxRing.next = IF rxRing.get + (RxDescs - rxRing.free) < RxDescs
              THEN rxRing.get + (RxDescs - rxRing.free)
                ELSE rxRing.get + (RxDescs - rxRing.free) - RxDescs
          BY DEF RxRingInv, RxPlus
        <4>3. RxDescs \in Int /\ rxRing.get \in Int /\ rxRing.free \in Int
          BY RxPositions DEF RxIdx
        <4> QED
          BY <4>1, <4>2, <4>3
      <3> QED
        BY <3>2, <3>3, <3>4
    <2>2. PICK k \in 0..(RxDescs - rxRing.free) : RxOwnsFrom(k)
      BY DEF RxRingInv
    <2>3. ASSUME NEW i \in RxIdx, rxDesc[i].own
          PROVE rxDesc[rxDma].own /\ RxFrom(rxDma) <= RxFrom(i)
      <3>1. k <= RxFrom(i) /\ RxFrom(i) < RxDescs - rxRing.free
        BY <2>2, <2>3 DEF RxOwnsFrom, RxIn
      <3>2. RxFrom(rxDma) = k /\ rxDma \in RxIdx
        BY <1>4, <2>2, <2>3, <3>1, RxPositions DEF RxOwnsFrom, RxIdx
      <3> QED
        <4>1. rxDesc[rxDma].own <=> k <= RxFrom(rxDma) /\ RxIn(rxDma)
          BY <2>2, <3>2 DEF RxOwnsFrom
        <4>2. k <= RxFrom(rxDma) /\ RxFrom(rxDma) <= RxFrom(i) /\ RxIn(rxDma)
          BY <1>4, <3>1, <3>2, RxPositions DEF RxIn, RxIdx
        <4> QED
          BY <4>1, <4>2
    <2>4. \A i, j \in RxIdx : RxIn(j) /\ rxDesc[i].own /\ RxFrom(i) < RxFrom(j) => rxDesc[j].own
      BY <1>4, <2>2, RxPositions DEF RxOwnsFrom, RxIdx
    <2>5. rxDma \in RxIdx
      BY DEF RxTypes
    <2> QED
      BY <1>4, <2>1, <2>2, <2>3, <2>4, <2>5 DEF Rx!RingRight, RxOwnsFrom, RxIdx
  <1>6. Rx!BufferOnce
    <2>1. \A i, j \in 0..(RxDescs - 1) : Rx!Held(i) /\ Rx!Held(j) /\ i # j
          => rxDesc[i].buf # rxDesc[j].buf
      BY <1>4 DEF RxBufInv, RxIdx
    <2>2. ASSUME NEW b \in RxBufs
          PROVE \E k \in DOMAIN Rx!Places : {j \in DOMAIN Rx!Places : b \in Rx!Places[j]} = {k}
      <3>1. /\ b \in {m.buf : m \in {rxMbox[k] : k \in DOMAIN rxMbox}} <=> RxPosted(b)
            /\ b \in {rxDesc[i].buf : i \in {j \in 0..(RxDescs - 1) : Rx!Held(j)}} <=> RxInRing(b)
            /\ b \in {rxTask.hand} \ {NoBuf} <=> b = rxTask.hand
            /\ b \in {rxTask.p} \ {NoBuf} <=> b = rxTask.p
        BY <1>2, <1>4, RxConstants DEF RxPosted, RxInRing, RxIdx, Rx!RxAssumption
      <3>2. /\ b \in Rx!Places[1] <=> b \in rxHeap
            /\ b \in Rx!Places[2] <=> b \in rxOthers
            /\ b \in Rx!Places[3] <=> b = rxTask.hand
            /\ b \in Rx!Places[4] <=> b = rxTask.p
            /\ b \in Rx!Places[5] <=> RxPosted(b)
            /\ b \in Rx!Places[6] <=> RxInRing(b)
        BY <3>1 DEF Rx!Places
      <3>3. \E k \in 1..6 : b \in Rx!Places[k] /\ \A j \in 1..6 : b \in Rx!Places[j] => j = k
        <4>1. RxOnce(b)
          BY DEF RxBufInv
        <4> QED
          BY <3>2, <4>1 DEF RxOnce
      <3>4. DOMAIN Rx!Places = 1..6
        BY DEF Rx!Places
      <3> HIDE DEF Rx!Places
      <3> QED
        BY <3>3, <3>4
    <2> QED
      BY <2>1, <2>2 DEF Rx!BufferOnce
  <1> QED
    BY <1>1, <1>3, <1>5, <1>6

-----------------------------------------------------------------------------
(***************************************************************************)
(* The transmit ring (lpc18xx_43xx_emac.c).                                *)
(*                                                                         *)
(* Positions are counted from the descriptor to reclaim next. The DMA has  *)
(* sent those before its own position and owns the others, but for the     *)
(* first one of a frame that is being filled in: lpc_low_level_output      *)
(* keeps it back until the rest is ready, which is why the DMA, which      *)
(* polls all the time, never sends a part of a frame (TxSentTo).           *)
(* TxOrderInv says that frames lie whole and in order in the ring,         *)
(* TxRefInv who still refers to a chain.                                   *)
(***************************************************************************)

\* The ring as it is while a task works on it: from Base, Used descriptors.
TxBusy == txOut.pc \in {"fill", "kick"}
TxBase == IF txClean.pc = "loop" THEN txClean.ridx ELSE txRing.reclaim
TxUsed == TxDescs - txRing.free
TxFrom(i) == IF i >= TxBase THEN i - TxBase ELSE i - TxBase + TxDescs
TxPlus(i, k) == IF i + k < TxDescs THEN i + k ELSE i + k - TxDescs
TxIn(i) == TxFrom(i) < TxUsed
TxCurrent(i) == TxBusy /\ TxFrom(i) >= TxFrom(txOut.fidx)
TxFr(i) == txDesc[i].data[1]
TxPart(i) == txDesc[i].data[2]

TxCells == [own : BOOLEAN, fs : BOOLEAN, ls : BOOLEAN, data : Nat \X Nat, saved : Nat]
TxOuts == [pc : {"idle", "ready", "lock", "fill", "kick"}, f : 0..TxFrames, dn : 0..TxDescs,
           idx : Tx!Idx, fidx : Tx!Idx, copy : BOOLEAN]
TxTypes ==
  /\ txDesc \in [Tx!Idx -> TxCells]
  /\ txRing \in [free : 0..TxDescs, fill : Tx!Idx, reclaim : Tx!Idx] /\ txOut \in TxOuts
  /\ txClean \in [pc : {"wait", "lock", "loop"}, ridx : Tx!Idx]
  /\ txMutex \in {"free", "out", "clean"}
  /\ txCount \in 0..TxDescs /\ txSem \in 0..1 /\ txDma \in [idx : Tx!Idx, run : BOOLEAN]
  /\ txRefs \in [1..TxFrames -> 0..2]
  /\ txWire \in [f : Nat, part : Nat, fs : BOOLEAN, ls : BOOLEAN]

\* Who works on the ring, and that there is room for the rest of the frame.
TxLockInv ==
  /\ txMutex = "out" <=> TxBusy
  /\ txMutex = "clean" <=> txClean.pc = "loop"
  /\ txOut.pc # "idle" => txOut.f >= 1
  /\ txOut.pc \in {"ready", "lock", "fill"} => txOut.dn >= 1
  /\ txOut.pc \in {"lock", "fill"} => txOut.dn <= txRing.free
  /\ txOut.pc = "lock" => txOut.idx = txRing.fill
  /\ txOut.pc \in {"lock", "fill", "kick"} => txOut.fidx = txRing.fill
TxRingInv ==
  /\ (IF TxBusy THEN txOut.idx ELSE txRing.fill) = TxPlus(TxBase, TxUsed)
  /\ txOut.pc = "fill" => TxFrom(txOut.fidx) <= TxUsed
  /\ txOut.pc = "kick" => TxFrom(txOut.fidx) < TxUsed

\* Descriptor i comes after one with these marks.
TxFollows(ls, f, part, i) == IF ls THEN TxPart(i) = 1 /\ TxFr(i) > f
  ELSE TxFr(i) = f /\ TxPart(i) = part + 1
\* The DMA has sent k descriptors and owns the others but the one kept back.
TxSentTo(k) ==
  /\ txDma.idx = TxPlus(TxBase, k)
  /\ TxBusy => k <= TxFrom(txOut.fidx)
  /\ \A i \in Tx!Idx : txDesc[i].own <=> TxIn(i) /\ k <= TxFrom(i) /\ ~(TxBusy /\ i = txOut.fidx)
  /\ k = TxUsed => txWire.ls
  /\ \A i \in Tx!Idx : TxIn(i) /\ TxFrom(i) = k => TxFollows(txWire.ls, txWire.f, txWire.part, i)
TxDmaInv == /\ \E k \in 0..TxUsed : TxSentTo(k)
            /\ ~txWire.ls => txWire.part >= 1
            /\ txWire.f <= txOut.f /\ (txOut.pc # "idle" => txWire.f < txOut.f)

TxSaved(f) == \E i \in Tx!Idx : TxIn(i) /\ txDesc[i].saved = f
TxDescInv ==
  /\ \A i \in Tx!Idx : ~TxIn(i) => ~txDesc[i].fs /\ ~txDesc[i].ls
  /\ \A i \in Tx!Idx : TxIn(i) => /\ TxFr(i) \in 1..TxFrames /\ TxPart(i) >= 1
                                  /\ (txDesc[i].fs <=> TxPart(i) = 1)
                                  /\ txDesc[i].saved = IF txDesc[i].ls THEN TxFr(i) ELSE Tx!None
  /\ \A i \in Tx!Idx : TxIn(i) /\ TxCurrent(i) => /\ TxFr(i) = txOut.f
                                                  /\ TxPart(i) = TxFrom(i) - TxFrom(txOut.fidx) + 1
                                                  /\ txDesc[i].ls <=> txOut.pc = "kick"
                                                       /\ TxFrom(i) = TxUsed - 1
  /\ \A i \in Tx!Idx : TxIn(i) /\ ~TxCurrent(i) => TxFr(i) <= txOut.f
       /\ (txOut.pc # "idle" => TxFr(i) < txOut.f)
\* Whole frames in the order of the calls.
TxOrderInv ==
  /\ \A i, j \in Tx!Idx : TxIn(i) /\ TxIn(j) /\ TxFrom(j) = TxFrom(i) + 1
       => TxFollows(txDesc[i].ls, TxFr(i), TxPart(i), j)
  /\ \A i, j \in Tx!Idx : TxIn(i) /\ TxIn(j) /\ TxFrom(i) < TxFrom(j) => TxFr(i) <= TxFr(j)
       /\ (txDesc[i].ls => TxFr(i) < TxFr(j))
  /\ \A i \in Tx!Idx : TxIn(i) /\ ~(txOut.pc = "fill" /\ TxCurrent(i)) =>
        /\ TxFrom(i) = TxUsed - 1 => txDesc[i].ls
        /\ \E j \in Tx!Idx : TxIn(j) /\ TxFrom(i) <= TxFrom(j) /\ TxFr(j) = TxFr(i) /\ txDesc[j].ls
TxRefInv == \A f \in 1..TxFrames :
  /\ f = txOut.f /\ txOut.pc \in {"ready", "lock"} => txRefs[f] = 1
  /\ f = txOut.f /\ txOut.pc = "fill" => txRefs[f] = IF txOut.copy \/ ~TxIn(txOut.fidx)
       THEN 1 ELSE 2
  /\ f = txOut.f /\ txOut.pc = "kick" => txRefs[f] = IF txOut.copy THEN 1 ELSE 2
  /\ f < txOut.f \/ (f = txOut.f /\ txOut.pc = "idle") => txRefs[f] = IF TxSaved(f) THEN 1 ELSE 0

TxInv == TxTypes /\ TxLockInv /\ TxRingInv /\ TxDmaInv /\ TxDescInv /\ TxOrderInv /\ TxRefInv
-----------------------------------------------------------------------------
\* The constants of the run meet the assumption of EmacTx.
LEMMA TxConstants == Tx!TxAssumption
  BY MCTablesAssumption

\* Positions in the ring.
LEMMA TxPositions ==
    ASSUME TxTypes
    PROVE  /\ TxDescs \in Nat \ {0} /\ TxBase \in Tx!Idx /\ txRing.free \in 0..TxDescs
           /\ TxUsed \in 0..TxDescs
           /\ \A i \in Tx!Idx : TxFrom(i) \in Tx!Idx /\ TxFrom(i) \in Nat
                /\ TxFrom(i) < TxDescs /\ (TxFrom(i) = 0 <=> i = TxBase)
           /\ \A i, j \in Tx!Idx : TxFrom(i) = TxFrom(j) => i = j
           /\ \A k \in 0..TxDescs : TxPlus(TxBase, k) \in Tx!Idx
                /\ TxFrom(TxPlus(TxBase, k)) = IF k = TxDescs THEN 0 ELSE k
  <1>1. TxDescs \in Nat \ {0} /\ TxBase \in Tx!Idx /\ txRing.free \in 0..TxDescs
        /\ TxUsed \in 0..TxDescs
    BY TxConstants DEF Tx!TxAssumption, TxTypes, TxBase, TxUsed
  <1> HIDE DEF TxBase
  <1>2. \A i \in Tx!Idx : TxFrom(i) \in Tx!Idx /\ TxFrom(i) \in Nat /\ TxFrom(i) < TxDescs
        /\ (TxFrom(i) = 0 <=> i = TxBase)
    BY <1>1 DEF TxFrom, Tx!Idx
  <1>3. \A i, j \in Tx!Idx : TxFrom(i) = TxFrom(j) => i = j
    BY <1>1 DEF TxFrom, Tx!Idx
  <1>4. \A k \in 0..TxDescs : TxPlus(TxBase, k) \in Tx!Idx
        /\ TxFrom(TxPlus(TxBase, k)) = IF k = TxDescs THEN 0 ELSE k
    BY <1>1 DEF TxFrom, Tx!Idx, TxPlus
  <1> QED
    BY <1>1, <1>2, <1>3, <1>4

\* The empty ring.
LEMMA TxInit == Tx!Init => TxInv
  <1> SUFFICES ASSUME Tx!Init PROVE TxInv
    OBVIOUS
  <1> USE TxConstants DEF Tx!TxAssumption
  <1>1. TxTypes
    <2>1. TxDescs - 1 >= 0 /\ 0 \in Tx!Idx /\ TxDescs \in 0..TxDescs /\ 0 \in 0..TxDescs
          /\ 0 \in 0..TxFrames
      BY DEF Tx!Idx
    <2>2. Tx!Empty \in TxCells
      BY DEF Tx!Empty, TxCells, Tx!None
    <2>3. txDesc \in [Tx!Idx -> TxCells]
      BY <2>2 DEF Tx!Init
    <2>4. txRing \in [free : 0..TxDescs, fill : Tx!Idx, reclaim : Tx!Idx] /\ txOut \in TxOuts
      BY <2>1 DEF Tx!Init, TxOuts
    <2>5. txRefs \in [1..TxFrames -> 0..2]
      BY DEF Tx!Init
    <2> QED
      BY <2>1, <2>3, <2>4, <2>5 DEF Tx!Init, TxTypes
  <1>2. ~TxBusy /\ TxBase = 0 /\ TxUsed = 0 /\ txOut.f = 0 /\ txOut.pc = "idle"
    BY DEF Tx!Init, TxBusy, TxBase, TxUsed
  <1>3. \A i \in Tx!Idx : ~TxIn(i) /\ txDesc[i] = Tx!Empty /\ TxFrom(i) = i
    BY <1>2 DEF Tx!Init, TxIn, TxFrom, Tx!Idx
  <1>4. TxLockInv
    BY DEF Tx!Init, TxLockInv, TxBusy
  <1>5. TxRingInv
    BY <1>2 DEF Tx!Init, TxRingInv, TxPlus
  <1>6. TxDmaInv
    <2>1. /\ txDma.idx = 0 /\ txWire.ls = TRUE /\ txWire.f = 0 /\ TxPlus(TxBase, 0) = 0
          /\ \A i \in Tx!Idx : txDesc[i].own = FALSE
      BY <1>2, <1>3 DEF Tx!Init, TxPlus, Tx!Empty
    <2>2. TxSentTo(0)
      BY <1>2, <1>3, <2>1 DEF TxSentTo
    <2> QED
      BY <1>2, <2>1, <2>2 DEF TxDmaInv
  <1>7. TxDescInv
    BY <1>3 DEF TxDescInv, Tx!Empty
  <1>8. TxOrderInv
    BY <1>3 DEF TxOrderInv
  <1>9. TxRefInv
    BY <1>2, <1>3 DEF Tx!Init, TxRefInv, TxSaved
  <1> QED
    BY <1>1, <1>4, <1>5, <1>6, <1>7, <1>8, <1>9 DEF TxInv

\* A step that leaves the used part of the ring as it is.
LEMMA TxSteady ==
    ASSUME TxInv, UNCHANGED <<txDesc, txRefs, txWire>>, txDma'.idx = txDma.idx,
           txRing'.free = txRing.free, txRing'.fill = txRing.fill,
           TxBase' = TxBase,
           txOut' = txOut \/ (txOut.pc = "ready" /\ txOut'.pc = "lock" /\ txOut'.f = txOut.f),
           TxTypes', TxLockInv'
    PROVE  TxInv'
  <1> USE DEF TxInv
  <1>1. TxUsed' = TxUsed /\ TxBusy' = TxBusy /\ txOut'.f = txOut.f
        /\ (txOut'.pc = "idle" <=> txOut.pc = "idle")
        /\ (txOut'.pc = "fill" <=> txOut.pc = "fill") /\ (txOut'.pc = "kick" <=> txOut.pc = "kick")
        /\ (txOut'.pc \in {"ready", "lock"} <=> txOut.pc \in {"ready", "lock"})
        /\ (TxBusy => txOut' = txOut)
    BY DEF TxUsed, TxBusy
  <1>2. \A i \in Tx!Idx : TxFrom(i)' = TxFrom(i) /\ TxIn(i)' = TxIn(i) /\ TxFr(i)' = TxFr(i)
        /\ TxPart(i)' = TxPart(i)
    BY <1>1 DEF TxFrom, TxIn, TxFr, TxPart
  <1>3. txOut.fidx \in Tx!Idx /\ txOut'.fidx \in Tx!Idx
    BY DEF TxTypes, TxOuts
  <1>4. TxBusy => TxFrom(txOut.fidx)' = TxFrom(txOut.fidx) /\ TxIn(txOut.fidx)' = TxIn(txOut.fidx)
    BY <1>1, <1>2, <1>3 DEF TxFrom, TxIn
  <1>5. \A i \in Tx!Idx : TxCurrent(i)' = TxCurrent(i)
    BY <1>1, <1>2, <1>4 DEF TxCurrent
  <1>6. TxRingInv'
    BY <1>1, <1>4 DEF TxRingInv, TxPlus, TxBusy
  <1>7. TxDmaInv'
    <2>1. ASSUME NEW k \in 0..TxUsed, TxSentTo(k) PROVE TxSentTo(k)'
      <3>1. \A i \in Tx!Idx : TxFollows(txWire.ls, txWire.f, txWire.part,
                                        i)' = TxFollows(txWire.ls, txWire.f, txWire.part, i)
        BY <1>2 DEF TxFollows
      <3>2. txDma'.idx = TxPlus(TxBase, k)' /\ (TxBusy' => k <= TxFrom(txOut.fidx)')
        BY <1>1, <1>4, <2>1 DEF TxSentTo, TxPlus
      <3>3. \A i \in Tx!Idx : (TxBusy /\ i = txOut.fidx)' = (TxBusy /\ i = txOut.fidx)
        BY <1>1
      <3> QED
        BY <1>1, <1>2, <2>1, <3>1, <3>2, <3>3 DEF TxSentTo
    <2> QED
      BY <1>1, <2>1 DEF TxDmaInv
  <1>8. TxDescInv'
    BY <1>1, <1>2, <1>4, <1>5 DEF TxDescInv, TxCurrent
  <1>9. TxOrderInv'
    BY <1>1, <1>2, <1>5 DEF TxOrderInv, TxFollows
  <1>10. \A f \in 1..TxFrames : TxSaved(f)' = TxSaved(f)
    BY <1>2 DEF TxSaved
  <1>11. TxRefInv'
    BY <1>1, <1>4, <1>10 DEF TxRefInv, TxBusy
  <1> QED
    BY <1>6, <1>7, <1>8, <1>9, <1>11

\* Waiting, locks, interrupts and a DMA that finds nothing leave the ring as it is.
LEMMA TxQuiet ==
    ASSUME TxInv,
           \/ UNCHANGED Tx!vars \/ Tx!Spin \/ Tx!Ready \/ Tx!ETH_IRQHandler
                \/ (Tx!Dma /\ ~txDesc[txDma.idx].own)
           \/ (Tx!CleanWait \/ Tx!CleanLock \/ Tx!ReclaimEnd)
                /\ UNCHANGED <<txOut, txInts, txIsr, txDma, txWire>>
    PROVE  TxInv'
  <1> USE DEF TxInv
  <1>1. TxDescs \in Nat \ {0} /\ txRing.free \in 0..TxDescs
    BY TxPositions
  <1>2. CASE \/ UNCHANGED Tx!vars \/ Tx!Spin \/ Tx!ETH_IRQHandler
                  \/ (Tx!Dma /\ ~txDesc[txDma.idx].own)
    <2>1. UNCHANGED <<txDesc, txRing, txOut, txClean, txMutex, txRefs, txWire>>
          /\ txDma' \in [idx : Tx!Idx, run : BOOLEAN]
          /\ txDma'.idx = txDma.idx /\ txCount' \in 0..TxDescs /\ txSem' \in 0..1
      <3> USE DEF TxTypes
      <3>1. CASE UNCHANGED Tx!vars
        BY <3>1 DEF Tx!vars
      <3>2. CASE Tx!Spin
        BY <1>1, <3>2 DEF Tx!Spin
      <3>3. CASE Tx!ETH_IRQHandler
        BY <3>3 DEF Tx!ETH_IRQHandler
      <3>4. CASE Tx!Dma /\ ~txDesc[txDma.idx].own
        <4>1. txDma' = [txDma EXCEPT !.run = FALSE]
              /\ UNCHANGED <<txDesc, txRing, txOut, txClean, txMutex, txRefs, txWire, txCount,
                             txSem>>
          BY <3>4 DEF Tx!Dma
        <4> QED
          BY <4>1
      <3> QED
        BY <1>2, <3>1, <3>2, <3>3, <3>4
    <2>2. TxTypes' /\ TxLockInv' /\ TxBase' = TxBase
      BY <2>1 DEF TxTypes, TxLockInv, TxBusy, TxBase
    <2> QED
      BY <2>1, <2>2, TxSteady
  <1>3. CASE Tx!Ready
    <2>1. /\ txOut.pc = "ready" /\ txOut.dn <= txRing.free
          /\ txOut' = [txOut EXCEPT !.pc = "lock", !.idx = txRing.fill, !.fidx = txRing.fill]
          /\ UNCHANGED <<txDesc, txRing, txClean, txMutex, txCount, txSem, txInts, txIsr, txDma,
                         txRefs, txWire>>
      BY <1>3 DEF Tx!Ready
    <2>2. txOut \in TxOuts /\ txRing.fill \in Tx!Idx
      BY DEF TxTypes
    <2>3. txOut' \in TxOuts /\ txOut'.pc = "lock" /\ txOut'.idx = txRing.fill
          /\ txOut'.fidx = txRing.fill /\ txOut'.f = txOut.f
          /\ txOut'.dn = txOut.dn
      BY <2>1, <2>2 DEF TxOuts
    <2>4. TxTypes' /\ TxBase' = TxBase
      BY <2>1, <2>3 DEF TxTypes, TxBase
    <2>5. TxLockInv'
      BY <2>1, <2>3 DEF TxLockInv, TxBusy
    <2> QED
      BY <2>1, <2>3, <2>4, <2>5, TxSteady
  <1>4. CASE (Tx!CleanWait \/ Tx!CleanLock \/ Tx!ReclaimEnd)
             /\ UNCHANGED <<txOut, txInts, txIsr, txDma, txWire>>
    <2>1. UNCHANGED <<txDesc, txOut, txDma, txWire, txCount, txRefs>> /\ txSem' \in 0..1
      BY <1>4 DEF Tx!CleanWait, Tx!CleanLock, Tx!ReclaimEnd, TxTypes
    <2>2. txClean \in [pc : {"wait", "lock", "loop"}, ridx : Tx!Idx]
          /\ txRing \in [free : 0..TxDescs, fill : Tx!Idx, reclaim : Tx!Idx]
      BY DEF TxTypes
    <2>3. CASE Tx!CleanWait
      <3>1. txClean' = [txClean EXCEPT !.pc = "lock"] /\ txClean.pc = "wait"
            /\ UNCHANGED <<txRing, txMutex>>
        BY <2>3 DEF Tx!CleanWait
      <3>2. TxTypes' /\ TxLockInv' /\ TxBase' = TxBase
        BY <2>1, <2>2, <3>1 DEF TxTypes, TxLockInv, TxBusy, TxBase
      <3> QED
        BY <2>1, <3>1, <3>2, TxSteady
    <2>4. CASE Tx!CleanLock
      <3>1. txClean' = [pc |-> "loop", ridx |-> txRing.reclaim] /\ txClean.pc = "lock"
            /\ txRing' = txRing /\ txMutex = "free" /\ txMutex' = "clean"
        BY <2>4 DEF Tx!CleanLock
      <3>2. TxTypes' /\ TxLockInv' /\ TxBase' = TxBase
        BY <2>1, <2>2, <3>1 DEF TxTypes, TxLockInv, TxBusy, TxBase
      <3> QED
        BY <2>1, <3>1, <3>2, TxSteady
    <2>5. CASE Tx!ReclaimEnd
      <3>1. txClean' = [txClean EXCEPT !.pc = "wait"] /\ txClean.pc = "loop"
            /\ txMutex' = "free" /\ txRing' = [txRing EXCEPT !.reclaim = txClean.ridx]
        BY <2>5 DEF Tx!ReclaimEnd
      <3>2. TxTypes' /\ TxLockInv' /\ TxBase' = TxBase /\ txRing'.free = txRing.free
            /\ txRing'.fill = txRing.fill
        BY <2>1, <2>2, <3>1 DEF TxTypes, TxLockInv, TxBusy, TxBase
      <3> QED
        BY <2>1, <3>1, <3>2, TxSteady
    <2> QED
      BY <1>4, <2>3, <2>4, <2>5
  <1> QED
    BY <1>2, <1>3, <1>4

\* tcpip_thread takes the lock: its first descriptor is the next free one.
LEMMA TxLock == ASSUME TxInv, Tx!Lock PROVE TxInv'
  <1> USE DEF TxInv
  <1>1. /\ txOut.pc = "lock" /\ txMutex = "free" /\ txMutex' = "out"
        /\ txOut' = [txOut EXCEPT !.pc = "fill"]
        /\ UNCHANGED <<txDesc, txRing, txClean, txCount, txSem, txInts, txIsr, txDma, txRefs,
                       txWire>>
    BY DEF Tx!Lock
  <1>2. txOut \in TxOuts /\ txOut' \in TxOuts /\ txOut'.pc = "fill" /\ txOut'.f = txOut.f
        /\ txOut'.dn = txOut.dn /\ txOut'.idx = txOut.idx
        /\ txOut'.fidx = txOut.fidx /\ txOut'.copy = txOut.copy /\ txOut.fidx \in Tx!Idx
    BY <1>1 DEF TxTypes, TxOuts
  <1>3. ~TxBusy /\ TxBusy' /\ TxBase' = TxBase /\ TxUsed' = TxUsed
    BY <1>1, <1>2 DEF TxBusy, TxBase, TxUsed
  <1>4. TxTypes' /\ TxLockInv'
    BY <1>1, <1>2, <1>3 DEF TxTypes, TxLockInv, TxBusy
  <1>5. \A i \in Tx!Idx : TxFrom(i)' = TxFrom(i) /\ TxIn(i)' = TxIn(i) /\ TxFr(i)' = TxFr(i)
        /\ TxPart(i)' = TxPart(i)
    BY <1>1, <1>3 DEF TxFrom, TxIn, TxFr, TxPart
  <1>6. TxUsed < TxDescs /\ TxUsed \in Nat /\ txOut.idx = txRing.fill
        /\ txOut.fidx = txRing.fill /\ txRing.fill = TxPlus(TxBase, TxUsed)
    BY <1>1, <1>2, <1>3, TxPositions DEF TxLockInv, TxRingInv, TxUsed, TxOuts
  <1>7. TxFrom(txOut.fidx) = TxUsed /\ TxFrom(txOut.fidx)' = TxUsed
    BY <1>2, <1>3, <1>6, TxPositions DEF TxFrom
  <1>8. ~TxIn(txOut.fidx) /\ ~TxIn(txOut.fidx)'
    BY <1>3, <1>6, <1>7 DEF TxIn
  <1>9. \A i \in Tx!Idx : TxIn(i) => ~TxCurrent(i) /\ ~TxCurrent(i)'
    BY <1>3, <1>5, <1>6, <1>7, TxPositions DEF TxIn, TxCurrent
  <1>10. TxRingInv'
    BY <1>1, <1>2, <1>3, <1>6, <1>7 DEF TxRingInv, TxPlus
  <1>11. TxDmaInv'
    <2>1. ASSUME NEW k \in 0..TxUsed, TxSentTo(k) PROVE TxSentTo(k)'
      <3>1. \A i \in Tx!Idx : TxFollows(txWire.ls, txWire.f, txWire.part,
                                        i)' = TxFollows(txWire.ls, txWire.f, txWire.part, i)
        BY <1>1, <1>5 DEF TxFollows
      <3>2. txDma'.idx = TxPlus(TxBase, k)' /\ (TxBusy' => k <= TxFrom(txOut.fidx)')
        BY <1>1, <1>3, <1>6, <1>7, <2>1 DEF TxSentTo, TxPlus
      <3>3. \A i \in Tx!Idx : TxIn(i) => ~(TxBusy /\ i = txOut.fidx)' /\ ~(TxBusy /\ i = txOut.fidx)
        BY <1>2, <1>3, <1>8
      <3> QED
        BY <1>1, <1>3, <1>5, <2>1, <3>1, <3>2, <3>3 DEF TxSentTo
    <2> QED
      BY <1>1, <1>2, <1>3, <2>1 DEF TxDmaInv
  <1>12. TxDescInv'
    BY <1>1, <1>2, <1>5, <1>9 DEF TxDescInv
  <1>13. TxOrderInv'
    BY <1>1, <1>2, <1>3, <1>5, <1>9 DEF TxOrderInv, TxFollows
  <1>14. \A f \in 1..TxFrames : TxSaved(f)' = TxSaved(f)
    BY <1>1, <1>5 DEF TxSaved
  <1>15. TxRefInv'
    BY <1>1, <1>2, <1>8, <1>14 DEF TxRefInv
  <1> QED
    BY <1>4, <1>10, <1>11, <1>12, <1>13, <1>15

\* lwIP's next frame: none of its descriptors is in the ring yet.
LEMMA TxSend == ASSUME TxInv, Tx!Send PROVE TxInv'
  <1> USE DEF TxInv
  <1>1. PICK n \in TxClens, slow \in BOOLEAN, ok \in BOOLEAN :
          /\ txOut.pc = "idle" /\ txOut.f < TxFrames
          /\ txOut' = [txOut EXCEPT !.pc = IF ok THEN "ready" ELSE "idle", !.f = @ + 1,
                                    !.dn = IF slow THEN 1 ELSE n, !.copy = slow]
          /\ txRefs' = [txRefs EXCEPT ![txOut.f + 1] = IF ok THEN 1 ELSE 0]
          /\ UNCHANGED <<txDesc, txRing, txClean, txMutex, txCount, txSem, txInts, txIsr, txDma,
                         txWire>>
    BY DEF Tx!Send
  <1> DEFINE g == txOut.f + 1
  <1>2. txOut \in TxOuts /\ n \in 1..TxDescs /\ n \in 0..TxDescs /\ 1 \in 0..TxDescs /\ n >= 1
        /\ txOut.f \in Nat /\ TxFrames \in Nat
        /\ g \in 1..TxFrames /\ g \in 0..TxFrames
    BY <1>1, TxConstants DEF TxTypes, TxOuts, Tx!TxAssumption
  <1>3. /\ txOut' \in TxOuts /\ txOut'.f = g /\ txOut'.idx = txOut.idx /\ txOut'.fidx = txOut.fidx
        /\ txOut'.dn >= 1 /\ txOut'.pc = IF ok THEN "ready" ELSE "idle"
    <2> DEFINE p == IF ok THEN "ready" ELSE "idle"
               d == IF slow THEN 1 ELSE n
    <2>1. p \in {"ready", "idle"} /\ d \in 0..TxDescs /\ d >= 1
      BY <1>2
    <2>2. txOut' = [txOut EXCEPT !.pc = p, !.f = g, !.dn = d, !.copy = slow]
      BY <1>1
    <2>3. g \in 0..TxFrames /\ txOut \in TxOuts
      BY <1>2
    <2> HIDE DEF p, d, g
    <2>4. txOut' \in TxOuts /\ txOut'.f = g /\ txOut'.idx = txOut.idx
          /\ txOut'.fidx = txOut.fidx /\ txOut'.dn = d /\ txOut'.pc = p
      BY <2>1, <2>2, <2>3 DEF TxOuts
    <2> QED
      BY <2>1, <2>4 DEF p
  <1>4. ~TxBusy /\ ~TxBusy' /\ TxBase' = TxBase /\ TxUsed' = TxUsed
    BY <1>1, <1>3 DEF TxBusy, TxBase, TxUsed
  <1>5. /\ txRefs' \in [1..TxFrames -> 0..2] /\ txRefs'[g] = IF ok THEN 1 ELSE 0
        /\ \A f \in 1..TxFrames : f # g => txRefs'[f] = txRefs[f]
    BY <1>1, <1>2 DEF TxTypes
  <1>6. TxTypes' /\ TxLockInv'
    BY <1>1, <1>2, <1>3, <1>4, <1>5 DEF TxTypes, TxLockInv, TxBusy
  <1>7. \A i \in Tx!Idx : TxFrom(i)' = TxFrom(i) /\ TxIn(i)' = TxIn(i) /\ TxFr(i)' = TxFr(i)
        /\ TxPart(i)' = TxPart(i)
                          /\ ~TxCurrent(i) /\ ~TxCurrent(i)'
    BY <1>1, <1>4 DEF TxFrom, TxIn, TxFr, TxPart, TxCurrent
  <1>8. TxRingInv'
    BY <1>1, <1>3, <1>4 DEF TxRingInv, TxPlus
  <1>9. TxDmaInv'
    <2>1. ASSUME NEW k \in 0..TxUsed, TxSentTo(k) PROVE TxSentTo(k)'
      <3>1. \A i \in Tx!Idx : TxFollows(txWire.ls, txWire.f, txWire.part,
                                        i)' = TxFollows(txWire.ls, txWire.f, txWire.part, i)
        BY <1>1, <1>7 DEF TxFollows
      <3>2. txDma'.idx = TxPlus(TxBase, k)' /\ TxPlus(TxBase, k)' = TxPlus(TxBase, k)
        BY <1>1, <1>4, <2>1 DEF TxSentTo, TxPlus
      <3> QED
        BY <1>1, <1>4, <1>7, <2>1, <3>1, <3>2 DEF TxSentTo
    <2>2. txWire'.f <= txOut'.f /\ txWire'.f < txOut'.f
      BY <1>1, <1>2, <1>3 DEF TxDmaInv, TxTypes
    <2> QED
      BY <1>1, <1>4, <2>1, <2>2 DEF TxDmaInv
  <1>10. \A i \in Tx!Idx : TxIn(i) => TxFr(i) \in Nat /\ TxFr(i) < g
    BY <1>1, <1>2, <1>7 DEF TxDescInv
  <1>11. TxDescInv'
    <2>1. \A i \in Tx!Idx : TxIn(i) => TxFr(i) <= g
      BY <1>2, <1>10
    <2> QED
      BY <1>1, <1>3, <1>7, <1>10, <2>1 DEF TxDescInv
  <1>12. TxOrderInv'
    BY <1>1, <1>3, <1>4, <1>7 DEF TxOrderInv, TxFollows
  <1>13. \A f \in 1..TxFrames : TxSaved(f)' = TxSaved(f)
    BY <1>1, <1>7 DEF TxSaved
  <1>14. ~TxSaved(g)
    BY <1>2, <1>10 DEF TxSaved, TxDescInv, Tx!None
  <1>15. TxRefInv'
    BY <1>1, <1>2, <1>3, <1>5, <1>13, <1>14 DEF TxRefInv
  <1> QED
    BY <1>6, <1>8, <1>9, <1>11, <1>12, <1>15

\* The marks that Fill sets in a descriptor that has none.
LEMMA TxFilled ==
    ASSUME NEW d \in TxCells, d.own = FALSE, d.fs = FALSE, d.ls = FALSE,
           NEW a \in BOOLEAN, NEW b \in BOOLEAN, NEW c \in BOOLEAN, NEW s, NEW w
    PROVE  [own |-> d.own \/ a, fs |-> d.fs \/ b, ls |-> d.ls \/ c, data |-> w, saved |-> s]
             = [own |-> a, fs |-> b, ls |-> c, data |-> w, saved |-> s]
  <1>1. (d.own \/ a) = a /\ (d.fs \/ b) = b /\ (d.ls \/ c) = c
    OBVIOUS
  <1> QED
    BY <1>1

\* One descriptor filled: the frame's next part, behind all that is used.
LEMMA TxFill == ASSUME TxInv, Tx!Fill PROVE TxInv'
  <1> USE DEF TxInv
  <1> DEFINE x == txOut.idx
             F == TxFrom(txOut.fidx)
             first == txOut.idx = txOut.fidx
             last == txOut.dn = 1
  <1>1. /\ txOut.pc = "fill"
        /\ txDesc' = [txDesc EXCEPT ![x] =
             [own |-> @.own \/ ~first, fs |-> @.fs \/ first, ls |-> @.ls \/ last,
              data |-> <<txOut.f, 1 + ((txOut.idx - txOut.fidx + TxDescs) % TxDescs)>>,
              saved |-> IF last THEN txOut.f ELSE Tx!None]]
        /\ txRing' = [txRing EXCEPT !.free = @ - 1]
        /\ txRefs' = IF first /\ ~txOut.copy THEN [txRefs EXCEPT ![txOut.f] = @ + 1] ELSE txRefs
        /\ txOut' = [txOut EXCEPT !.pc = IF last THEN "kick"
             ELSE "fill", !.dn = @ - 1, !.idx = Tx!Inc(@)]
        /\ UNCHANGED <<txClean, txMutex, txCount, txSem, txInts, txIsr, txDma, txWire>>
    BY DEF Tx!Fill
  <1>2. /\ txOut \in TxOuts /\ x \in Tx!Idx /\ txOut.fidx \in Tx!Idx
        /\ txOut.dn \in 1..txRing.free /\ txOut.f \in 1..TxFrames
        /\ TxDescs \in Nat \ {0} /\ txRing.free \in 1..TxDescs
    <2>1. TxDescs \in Nat \ {0} /\ txRing.free \in 0..TxDescs /\ TxFrames \in Nat
      BY TxConstants, TxPositions DEF Tx!TxAssumption
    <2> QED
      BY <1>1, <2>1 DEF TxTypes, TxOuts, TxLockInv
  <1>3. /\ TxBusy /\ TxUsed \in Nat /\ TxUsed < TxDescs /\ x = TxPlus(TxBase, TxUsed)
        /\ TxFrom(x) = TxUsed /\ ~TxIn(x)
        /\ F \in Nat /\ F <= TxUsed /\ F < TxDescs /\ TxBase \in Tx!Idx
    <2>1. TxBusy /\ TxUsed \in Nat /\ TxUsed < TxDescs
      BY <1>1, <1>2 DEF TxBusy, TxUsed
    <2> QED
      BY <1>1, <1>2, <2>1, TxPositions DEF TxRingInv, TxIn
  <1>4. first <=> F = TxUsed
    BY <1>2, <1>3, TxPositions
  <1>5. (txOut.idx - txOut.fidx + TxDescs) % TxDescs = TxUsed - F
    <2>1. \A y \in 0..(2 * TxDescs - 1) : y % TxDescs = IF y < TxDescs THEN y ELSE y - TxDescs
      BY <1>2, Mod
    <2>2. PICK y \in 0..(2 * TxDescs - 1) : y = txOut.idx - txOut.fidx + TxDescs
      BY <1>2 DEF Tx!Idx
    <2>3. y = IF TxUsed - F + TxDescs < 2 * TxDescs /\ txOut.idx >= txOut.fidx
          THEN TxUsed - F + TxDescs ELSE TxUsed - F
      BY <1>2, <1>3, <2>2 DEF TxFrom, Tx!Idx
    <2>4. y = TxUsed - F + TxDescs \/ y = TxUsed - F
      BY <2>3
    <2>5. TxUsed - F \in 0..(TxDescs - 1)
      BY <1>2, <1>3
    <2> QED
      BY <1>2, <2>1, <2>2, <2>4, <2>5
  <1>6. txDesc[x] \in TxCells /\ txDesc[x].own = FALSE /\ txDesc[x].fs = FALSE
        /\ txDesc[x].ls = FALSE
    <2>1. txDesc[x] \in TxCells
      BY <1>2 DEF TxTypes
    <2>2. txDesc[x].own \in BOOLEAN /\ txDesc[x].fs \in BOOLEAN /\ txDesc[x].ls \in BOOLEAN
      BY <2>1 DEF TxCells
    <2>3. ~txDesc[x].own
      BY <1>2, <1>3 DEF TxDmaInv, TxSentTo
    <2>4. ~txDesc[x].fs /\ ~txDesc[x].ls
      BY <1>2, <1>3 DEF TxDescInv
    <2> QED
      BY <2>1, <2>2, <2>3, <2>4
  <1> DEFINE new == [own |-> ~first, fs |-> first, ls |-> last,
                     data |-> <<txOut.f, 1 + (TxUsed - F)>>,
                     saved |-> IF last THEN txOut.f ELSE Tx!None]
  <1>7. new \in TxCells
    <2>1. txOut.f \in Nat /\ 1 + (TxUsed - F) \in Nat /\ (IF last THEN txOut.f ELSE Tx!None) \in Nat
      BY <1>2, <1>3 DEF Tx!None
    <2>2. first \in BOOLEAN /\ (~first) \in BOOLEAN /\ last \in BOOLEAN
      OBVIOUS
    <2> HIDE DEF first, last, F
    <2> QED
      BY <2>1, <2>2 DEF TxCells
  <1>8. txDesc' = [txDesc EXCEPT ![x] = new]
    <2>1. (~first) \in BOOLEAN /\ first \in BOOLEAN /\ last \in BOOLEAN
      OBVIOUS
    <2>2. [own |-> txDesc[x].own \/ ~first, fs |-> txDesc[x].fs \/ first, ls |-> txDesc[x].ls
          \/ last,
           data |-> <<txOut.f, 1 + (TxUsed - F)>>,
           saved |-> IF last THEN txOut.f ELSE Tx!None] = new
      <3> HIDE DEF x, first, last, F
      <3> QED
        BY <1>6, <2>1, TxFilled
    <2>3. txDesc' = [txDesc EXCEPT ![x] =
             [own |-> txDesc[x].own \/ ~first, fs |-> txDesc[x].fs \/ first,
              ls |-> txDesc[x].ls \/ last,
              data |-> <<txOut.f, 1 + (TxUsed - F)>>,
              saved |-> IF last THEN txOut.f ELSE Tx!None]]
      <3>1. PICK c : c = (txOut.idx - txOut.fidx + TxDescs) % TxDescs /\ c = TxUsed - F
        BY <1>5
      <3> HIDE DEF F, first, last
      <3> QED
        BY <1>1, <3>1
    <2> HIDE DEF new
    <2> QED
      BY <2>2, <2>3
  <1>9. txDesc' \in [Tx!Idx -> TxCells] /\ txDesc'[x] = new /\ \A i \in Tx!Idx : i # x
        => txDesc'[i] = txDesc[i]
    <2> HIDE DEF new
    <2> QED
      BY <1>2, <1>7, <1>8 DEF TxTypes
  <1>10. /\ txDesc'[x].own = ~first /\ txDesc'[x].fs = first /\ txDesc'[x].ls = last
         /\ txDesc'[x].saved = IF last THEN txOut.f ELSE Tx!None
         /\ \A i \in Tx!Idx : i = x => TxFr(i)' = txOut.f /\ TxPart(i)' = TxUsed - F + 1
    <2>1. txDesc'[x].data = <<txOut.f, 1 + (TxUsed - F)>> /\ 1 + (TxUsed - F) = TxUsed - F + 1
      BY <1>3, <1>9
    <2> QED
      BY <1>9, <2>1 DEF TxFr, TxPart
  <1>11. /\ txOut' \in TxOuts /\ txOut'.f = txOut.f /\ txOut'.fidx = txOut.fidx
         /\ txOut'.copy = txOut.copy
         /\ txOut'.idx = Tx!Inc(x) /\ txOut'.dn = txOut.dn - 1 /\ txOut'.pc = IF last
              THEN "kick" ELSE "fill"
    <2> DEFINE q == IF last THEN "kick" ELSE "fill"
               j == Tx!Inc(x)
               m == txOut.dn - 1
    <2>1. q \in {"kick", "fill"} /\ j \in Tx!Idx /\ m \in 0..TxDescs
      BY <1>2 DEF Tx!Inc, Tx!Idx
    <2>2. txOut' = [txOut EXCEPT !.pc = q, !.dn = m, !.idx = j] /\ txOut \in TxOuts
      BY <1>1, <1>2
    <2> HIDE DEF q, j, m
    <2>3. txOut' \in TxOuts /\ txOut'.f = txOut.f /\ txOut'.fidx = txOut.fidx
          /\ txOut'.copy = txOut.copy
          /\ txOut'.idx = j /\ txOut'.dn = m /\ txOut'.pc = q
      BY <2>1, <2>2 DEF TxOuts
    <2> QED
      BY <2>3 DEF q, j, m
  <1>12. /\ txRing' \in [free : 0..TxDescs, fill : Tx!Idx, reclaim : Tx!Idx]
         /\ txRing'.free = txRing.free - 1
         /\ txRing'.fill = txRing.fill /\ txRing'.reclaim = txRing.reclaim
    BY <1>1, <1>2 DEF TxTypes
  <1>13. TxBusy' /\ TxBase' = TxBase /\ TxUsed' = TxUsed + 1
    BY <1>1, <1>2, <1>11, <1>12 DEF TxBusy, TxBase, TxUsed
  <1>14. /\ \A i \in Tx!Idx : TxFrom(i)' = TxFrom(i) /\ (TxIn(i)' <=> TxIn(i) \/ i = x)
         /\ TxFrom(txOut.fidx)' = F /\ TxIn(txOut.fidx)'
    <2>1. \A i \in Tx!Idx : TxFrom(i)' = TxFrom(i)
      BY <1>13 DEF TxFrom
    <2>2. TxFrom(txOut.fidx)' = F
      BY <1>11, <1>13 DEF TxFrom
    <2>3. \A i \in Tx!Idx : TxIn(i)' <=> TxIn(i) \/ i = x
      <3> SUFFICES ASSUME NEW i \in Tx!Idx PROVE TxIn(i)' <=> TxIn(i) \/ i = x
        OBVIOUS
      <3>1. TxFrom(i) \in Nat /\ (TxFrom(i) = TxUsed <=> i = x)
        BY <1>2, <1>3, TxPositions
      <3>2. TxIn(i)' <=> TxFrom(i) < TxUsed + 1
        BY <1>13, <2>1 DEF TxIn
      <3> QED
        BY <1>3, <3>1, <3>2 DEF TxIn
    <2> QED
      BY <1>3, <1>13, <2>1, <2>2, <2>3 DEF TxIn
  <1>15. \A i \in Tx!Idx : (TxCurrent(i)' <=> TxFrom(i) >= F) /\ (TxCurrent(i) <=> TxFrom(i) >= F)
    BY <1>3, <1>13, <1>14 DEF TxCurrent
  <1>16. \A i \in Tx!Idx : i # x => TxFr(i)' = TxFr(i) /\ TxPart(i)' = TxPart(i)
    BY <1>9 DEF TxFr, TxPart
  <1>17. /\ txRefs' \in [1..TxFrames -> 0..2] /\ \A f \in 1..TxFrames : f # txOut.f
              => txRefs'[f] = txRefs[f]
         /\ txRefs'[txOut.f] = IF txOut.copy THEN 1 ELSE 2
    <2>1. /\ txRefs \in [1..TxFrames -> 0..2]
          /\ first <=> ~TxIn(txOut.fidx)
      BY <1>2, <1>3, <1>4 DEF TxTypes, TxIn
    <2>2. txRefs[txOut.f] = IF txOut.copy \/ ~TxIn(txOut.fidx) THEN 1 ELSE 2
      BY <1>1, <1>2 DEF TxRefInv
    <2>3. CASE first /\ ~txOut.copy
      BY <1>1, <1>2, <2>1, <2>2, <2>3
    <2>4. CASE ~(first /\ ~txOut.copy)
      BY <1>1, <1>2, <2>1, <2>2, <2>4
    <2> QED
      BY <2>3, <2>4
  <1>18. TxTypes'
    BY <1>1, <1>9, <1>11, <1>12, <1>17 DEF TxTypes
  <1>19. TxLockInv'
    BY <1>1, <1>2, <1>3, <1>11, <1>12, <1>13 DEF TxLockInv
  <1>20. TxRingInv'
    <2>1. Tx!Inc(x) = TxPlus(TxBase, TxUsed + 1)
      BY <1>2, <1>3 DEF Tx!Inc, TxPlus, Tx!Idx
    <2> QED
      BY <1>3, <1>11, <1>13, <1>14, <2>1 DEF TxRingInv, TxPlus
  <1> HIDE DEF new, first, last, F, x
  <1>21. TxDmaInv'
    <2>1. PICK k \in 0..TxUsed : TxSentTo(k)
      BY DEF TxDmaInv
    <2>2. k \in Nat /\ k <= F /\ k <= TxUsed
      BY <1>3, <2>1 DEF TxSentTo, F
    <2>3. txDma'.idx = TxPlus(TxBase, k)' /\ (TxBusy' => k <= TxFrom(txOut.fidx)')
      BY <1>1, <1>13, <1>14, <2>1, <2>2 DEF TxSentTo, TxPlus
    <2>4. ASSUME NEW i \in Tx!Idx
          PROVE txDesc'[i].own <=> TxIn(i)' /\ k <= TxFrom(i)' /\ ~(TxBusy' /\ i = txOut'.fidx)
      <3>1. CASE i = x
        BY <1>3, <1>10, <1>11, <1>13, <1>14, <2>2, <2>4, <3>1 DEF first, x
      <3>2. CASE i # x
        BY <1>3, <1>9, <1>11, <1>13, <1>14, <2>1, <2>4, <3>2 DEF TxSentTo
      <3> QED
        BY <3>1, <3>2
    <2>5. ASSUME NEW i \in Tx!Idx, TxIn(i)', TxFrom(i)' = k
          PROVE TxFollows(txWire.ls, txWire.f, txWire.part, i)'
      <3>1. CASE i = x
        <4>1. k = TxUsed /\ F = TxUsed
          BY <1>3, <1>14, <2>2, <2>5, <3>1
        <4>2. txWire.ls /\ txWire.f < txOut.f
          BY <1>1, <2>1, <4>1 DEF TxSentTo, TxDmaInv
        <4>3. TxFr(i)' = txOut.f /\ TxPart(i)' = 1
          BY <1>3, <1>10, <3>1, <4>1
        <4>4. txWire.f \in Nat /\ txOut.f \in Nat /\ txWire' = txWire
          BY <1>1, <1>2 DEF TxTypes
        <4> QED
          BY <4>2, <4>3, <4>4 DEF TxFollows
      <3>2. CASE i # x
        <4>1. TxFollows(txWire.ls, txWire.f, txWire.part, i)
          BY <1>14, <2>1, <2>5, <3>2 DEF TxSentTo
        <4> QED
          BY <1>1, <1>16, <3>2, <4>1 DEF TxFollows
      <3> QED
        BY <3>1, <3>2
    <2>6. k # TxUsed' /\ k \in 0..TxUsed'
      BY <1>3, <1>13, <2>2
    <2>7. TxSentTo(k)'
      BY <2>3, <2>4, <2>5, <2>6 DEF TxSentTo
    <2> QED
      BY <1>1, <1>11, <2>6, <2>7 DEF TxDmaInv
  <1>22. TxDescInv'
    <2>1. ASSUME NEW i \in Tx!Idx, ~TxIn(i)' PROVE ~txDesc'[i].fs /\ ~txDesc'[i].ls
      BY <1>9, <1>14, <2>1 DEF TxDescInv
    <2>2. ASSUME NEW i \in Tx!Idx, TxIn(i)'
          PROVE  /\ TxFr(i)' \in 1..TxFrames /\ TxPart(i)' >= 1
                 /\ (txDesc'[i].fs <=> TxPart(i)' = 1)
                 /\ txDesc'[i].saved = IF txDesc'[i].ls THEN TxFr(i)' ELSE Tx!None
      <3>1. CASE i = x
        BY <1>2, <1>3, <1>4, <1>10, <2>2, <3>1
      <3>2. CASE i # x
        BY <1>9, <1>14, <1>16, <2>2, <3>2 DEF TxDescInv
      <3> QED
        BY <3>1, <3>2
    <2>3. ASSUME NEW i \in Tx!Idx, TxIn(i)', TxCurrent(i)'
          PROVE  /\ TxFr(i)' = txOut'.f /\ TxPart(i)' = TxFrom(i)' - F + 1
                 /\ txDesc'[i].ls <=> txOut'.pc = "kick" /\ TxFrom(i)' = TxUsed' - 1
      <3>1. CASE i = x
        BY <1>3, <1>10, <1>11, <1>13, <1>14, <2>3, <3>1
      <3>2. CASE i # x
        <4>1. /\ TxFr(i) = txOut.f /\ TxPart(i) = TxFrom(i) - F + 1 /\ ~txDesc[i].ls /\ TxIn(i)
          BY <1>1, <1>14, <1>15, <2>3, <3>2 DEF TxDescInv, F
        <4>2. TxFrom(i)' # TxUsed' - 1
          BY <1>3, <1>13, <1>14, <4>1, TxPositions DEF TxIn
        <4> QED
          BY <1>9, <1>11, <1>14, <1>16, <2>3, <3>2, <4>1, <4>2
      <3> QED
        BY <3>1, <3>2
    <2>4. ASSUME NEW i \in Tx!Idx, TxIn(i)', ~TxCurrent(i)'
          PROVE  TxFr(i)' <= txOut'.f /\ TxFr(i)' < txOut'.f
      <3>1. i # x
        BY <1>3, <1>15, <2>4
      <3> QED
        BY <1>1, <1>11, <1>14, <1>15, <1>16, <2>4, <3>1 DEF TxDescInv
    <2> QED
      BY <1>14, <2>1, <2>2, <2>3, <2>4 DEF TxDescInv
  <1>23. TxOrderInv'
    <2>1. ASSUME NEW i \in Tx!Idx, NEW j \in Tx!Idx, TxIn(i)', TxIn(j)', TxFrom(j)' = TxFrom(i)' + 1
          PROVE  TxFollows(txDesc[i].ls, TxFr(i), TxPart(i), j)'
      <3>1. TxFrom(i) \in Nat /\ TxFrom(j) \in Nat /\ TxFrom(j) = TxFrom(i) + 1
            /\ TxFrom(j) <= TxUsed /\ i # x /\ TxIn(i)
        BY <1>3, <1>14, <2>1, TxPositions DEF TxIn
      <3>2. CASE j # x
        <4>1. TxFollows(txDesc[i].ls, TxFr(i), TxPart(i), j)
          BY <1>14, <2>1, <3>1, <3>2 DEF TxOrderInv
        <4> QED
          BY <1>9, <1>16, <3>1, <3>2, <4>1 DEF TxFollows
      <3>3. CASE j = x /\ F = TxUsed
        <4>1. ~TxCurrent(i) /\ TxFrom(i) = TxUsed - 1
          BY <1>3, <1>15, <3>1, <3>3
        <4>2. txDesc[i].ls /\ TxFr(i) < txOut.f /\ TxFr(i) \in Nat
          BY <1>1, <3>1, <4>1 DEF TxOrderInv, TxDescInv
        <4>3. TxFr(j)' = txOut.f /\ TxPart(j)' = 1
          BY <1>3, <1>10, <3>3
        <4> QED
          BY <1>2, <1>9, <1>16, <3>1, <4>2, <4>3 DEF TxFollows
      <3>4. CASE j = x /\ F # TxUsed
        <4>1. TxCurrent(i) /\ TxFrom(i) = TxUsed - 1
          BY <1>3, <1>15, <3>1, <3>4
        <4>2. ~txDesc[i].ls /\ TxFr(i) = txOut.f /\ TxPart(i) = TxFrom(i) - F + 1
          BY <1>1, <3>1, <4>1 DEF TxDescInv, F
        <4>3. TxFr(j)' = txOut.f /\ TxPart(j)' = TxPart(i) + 1
          BY <1>3, <1>10, <3>4, <4>1, <4>2
        <4> QED
          BY <1>9, <1>16, <3>1, <4>2, <4>3 DEF TxFollows
      <3> QED
        BY <3>2, <3>3, <3>4
    <2>2. ASSUME NEW i \in Tx!Idx, NEW j \in Tx!Idx, TxIn(i)', TxIn(j)', TxFrom(i)' < TxFrom(j)'
          PROVE  TxFr(i)' <= TxFr(j)' /\ (txDesc'[i].ls => TxFr(i)' < TxFr(j)')
      <3>1. TxFrom(i) \in Nat /\ TxFrom(j) \in Nat /\ TxFrom(i) < TxFrom(j) /\ i # x /\ TxIn(i)
        BY <1>3, <1>14, <2>2, TxPositions DEF TxIn
      <3>2. CASE j # x
        BY <1>9, <1>14, <1>16, <2>2, <3>1, <3>2 DEF TxOrderInv
      <3>3. CASE j = x
        <4>1. TxFr(j)' = txOut.f /\ TxFr(i)' = TxFr(i) /\ txDesc'[i].ls = txDesc[i].ls
          BY <1>9, <1>10, <1>16, <3>1, <3>3
        <4>2. TxFr(i) <= txOut.f /\ (txDesc[i].ls => TxFr(i) < txOut.f)
          BY <1>1, <1>2, <3>1 DEF TxDescInv
        <4> QED
          BY <4>1, <4>2
      <3> QED
        BY <3>2, <3>3
    <2>3. ASSUME NEW i \in Tx!Idx, TxIn(i)', ~(txOut'.pc = "fill" /\ TxCurrent(i)')
          PROVE  /\ TxFrom(i)' = TxUsed' - 1 => txDesc'[i].ls
                 /\ \E j \in Tx!Idx : TxIn(j)' /\ TxFrom(i)' <= TxFrom(j)'
                      /\ TxFr(j)' = TxFr(i)' /\ txDesc'[j].ls
      <3>1. CASE ~TxCurrent(i)
        <4>1. i # x /\ TxIn(i) /\ TxFrom(i)' # TxUsed' - 1
          BY <1>3, <1>13, <1>14, <1>15, <2>3, <3>1, TxPositions DEF TxIn
        <4>2. PICK j \in Tx!Idx : TxIn(j) /\ TxFrom(i) <= TxFrom(j) /\ TxFr(j) = TxFr(i)
              /\ txDesc[j].ls
          BY <3>1, <4>1 DEF TxOrderInv
        <4>3. j # x
          BY <1>3, <4>2
        <4> QED
          BY <1>9, <1>14, <1>16, <4>1, <4>2, <4>3
      <3>2. CASE TxCurrent(i)
        <4>1. last /\ txDesc'[x].ls
          BY <1>10, <1>11, <1>15, <2>3, <3>2
        <4>2. TxFr(i)' = txOut.f
          <5>1. CASE i = x
            BY <1>10, <5>1
          <5>2. CASE i # x
            BY <1>14, <1>16, <2>3, <3>2, <5>2 DEF TxDescInv
          <5> QED
            BY <5>1, <5>2
        <4>3. TxFrom(i)' = TxUsed' - 1 => i = x
          BY <1>2, <1>3, <1>13, <1>14, <2>3, TxPositions DEF TxIn, x
        <4>4. PICK z \in Tx!Idx : z = x
          BY <1>2 DEF x
        <4>5. TxFrom(i)' <= TxFrom(z)' /\ TxIn(z)' /\ TxFr(z)' = txOut.f
          BY <1>3, <1>10, <1>14, <2>3, <4>4, TxPositions DEF TxIn
        <4> QED
          BY <4>1, <4>2, <4>3, <4>4, <4>5
      <3> QED
        BY <3>1, <3>2
    <2> QED
      BY <2>1, <2>2, <2>3 DEF TxOrderInv
  <1>24. ASSUME NEW f \in 1..TxFrames, f # txOut.f PROVE TxSaved(f)' <=> TxSaved(f)
    <2>1. txDesc'[x].saved # f
      BY <1>10, <1>24 DEF Tx!None
    <2> QED
      BY <1>3, <1>9, <1>14, <2>1 DEF TxSaved
  <1>25. TxRefInv'
    BY <1>1, <1>2, <1>11, <1>14, <1>17, <1>24 DEF TxRefInv
  <1> QED
    BY <1>18, <1>19, <1>20, <1>21, <1>22, <1>23, <1>25

\* Only the owner bit of one descriptor changes.
LEMMA TxOwner ==
    TxTypes => \A x \in Tx!Idx, v \in BOOLEAN : txDesc' = [txDesc EXCEPT ![x].own = v] =>
             /\ txDesc' \in [Tx!Idx -> TxCells] /\ txDesc'[x].own = v
             /\ \A i \in Tx!Idx : /\ txDesc'[i].fs = txDesc[i].fs
                                  /\ txDesc'[i].ls = txDesc[i].ls
                                  /\ txDesc'[i].saved = txDesc[i].saved
                                  /\ TxFr(i)' = TxFr(i) /\ TxPart(i)' = TxPart(i)
                                  /\ i # x => txDesc'[i].own = txDesc[i].own
  <1> HAVE TxTypes
  <1> TAKE x \in Tx!Idx, v \in BOOLEAN
  <1> HAVE txDesc' = [txDesc EXCEPT ![x].own = v]
  <1>1. txDesc \in [Tx!Idx -> TxCells] /\ txDesc[x] \in TxCells
    BY DEF TxTypes
  <1> DEFINE e == [txDesc[x] EXCEPT !.own = v]
  <1>2. /\ e \in TxCells /\ e.own = v /\ e.fs = txDesc[x].fs /\ e.ls = txDesc[x].ls
        /\ e.saved = txDesc[x].saved
        /\ e.data = txDesc[x].data
    BY <1>1 DEF TxCells
  <1>3. txDesc' = [txDesc EXCEPT ![x] = e]
    OBVIOUS
  <1> HIDE DEF e
  <1>4. txDesc' \in [Tx!Idx -> TxCells] /\ txDesc'[x] = e /\ \A i \in Tx!Idx : i # x
        => txDesc'[i] = txDesc[i]
    BY <1>1, <1>2, <1>3
  <1> QED
    BY <1>2, <1>4 DEF TxFr, TxPart

\* TxOrderInv speaks of frame numbers, parts and ends of frames only.
LEMMA TxSameOrder ==
    ASSUME TxOrderInv, TxUsed' = TxUsed, txOut'.pc = "fill" => txOut.pc = "fill",
           \A i \in Tx!Idx : TxFrom(i)' = TxFrom(i) /\ TxIn(i)' = TxIn(i)
             /\ (txOut'.pc = "fill" => TxCurrent(i)' = TxCurrent(i)),
           \A i \in Tx!Idx : txDesc'[i].ls = txDesc[i].ls /\ TxFr(i)' = TxFr(i)
             /\ TxPart(i)' = TxPart(i),
           txOut.pc = "fill" => txOut'.pc = "fill"
    PROVE  TxOrderInv'
  <1>1. ASSUME NEW i \in Tx!Idx, NEW j \in Tx!Idx, TxIn(i)', TxIn(j)', TxFrom(j)' = TxFrom(i)' + 1
        PROVE  TxFollows(txDesc[i].ls, TxFr(i), TxPart(i), j)'
    BY <1>1 DEF TxOrderInv, TxFollows
  <1>2. ASSUME NEW i \in Tx!Idx, NEW j \in Tx!Idx, TxIn(i)', TxIn(j)', TxFrom(i)' < TxFrom(j)'
        PROVE  TxFr(i)' <= TxFr(j)' /\ (txDesc'[i].ls => TxFr(i)' < TxFr(j)')
    BY <1>2 DEF TxOrderInv
  <1>3. ASSUME NEW i \in Tx!Idx, TxIn(i)', ~(txOut'.pc = "fill" /\ TxCurrent(i)')
        PROVE  /\ TxFrom(i)' = TxUsed' - 1 => txDesc'[i].ls
               /\ \E j \in Tx!Idx : TxIn(j)' /\ TxFrom(i)' <= TxFrom(j)'
                    /\ TxFr(j)' = TxFr(i)' /\ txDesc'[j].ls
    <2>1. TxIn(i) /\ ~(txOut.pc = "fill" /\ TxCurrent(i))
      BY <1>3
    <2>2. PICK j \in Tx!Idx : TxIn(j) /\ TxFrom(i) <= TxFrom(j) /\ TxFr(j) = TxFr(i) /\ txDesc[j].ls
      BY <2>1 DEF TxOrderInv
    <2>3. TxFrom(i) = TxUsed - 1 => txDesc[i].ls
      BY <2>1 DEF TxOrderInv
    <2> QED
      BY <2>2, <2>3
  <1> QED
    BY <1>1, <1>2, <1>3 DEF TxOrderInv

\* lpc_low_level_output gives the first descriptor of the frame to the DMA, last of all.
LEMMA TxKick == ASSUME TxInv, Tx!Kick PROVE TxInv'
  <1> USE DEF TxInv
  <1> DEFINE F == TxFrom(txOut.fidx)
  <1>1. /\ txOut.pc = "kick" /\ txMutex' = "free" /\ txOut' = [txOut EXCEPT !.pc = "idle"]
        /\ txRing' = [txRing EXCEPT !.fill = txOut.idx]
        /\ txDesc' = [txDesc EXCEPT ![txOut.fidx].own = TRUE]
        /\ txDma' = [txDma EXCEPT !.run = TRUE]
        /\ txRefs' = IF txOut.copy THEN txRefs ELSE [txRefs EXCEPT ![txOut.f] = @ - 1]
        /\ UNCHANGED <<txClean, txCount, txSem, txInts, txIsr, txWire>>
    BY DEF Tx!Kick
  <1>2. /\ txOut \in TxOuts /\ txOut.idx \in Tx!Idx /\ txOut.fidx \in Tx!Idx
        /\ txOut.f \in 1..TxFrames /\ TxFrames \in Nat
        /\ txDma \in [idx : Tx!Idx, run : BOOLEAN]
        /\ txRing \in [free : 0..TxDescs, fill : Tx!Idx, reclaim : Tx!Idx]
    BY <1>1, TxConstants DEF TxTypes, TxOuts, TxLockInv, Tx!TxAssumption
  <1>3. /\ txOut' \in TxOuts /\ txOut'.pc = "idle" /\ txOut'.f = txOut.f
        /\ txDma' \in [idx : Tx!Idx, run : BOOLEAN] /\ txDma'.idx = txDma.idx
        /\ txRing' \in [free : 0..TxDescs, fill : Tx!Idx, reclaim : Tx!Idx]
        /\ txRing'.free = txRing.free /\ txRing'.fill = txOut.idx
        /\ txRing'.reclaim = txRing.reclaim
    BY <1>1, <1>2 DEF TxOuts
  <1>4. TxBusy /\ ~TxBusy' /\ TxBase' = TxBase /\ TxUsed' = TxUsed
        /\ txOut.idx = TxPlus(TxBase, TxUsed)
    BY <1>1, <1>3 DEF TxBusy, TxBase, TxUsed, TxRingInv
  <1>5. F < TxUsed /\ F \in Nat /\ TxUsed \in 0..TxDescs /\ TxDescs \in Nat \ {0}
        /\ TxIn(txOut.fidx) /\ TxUsed \in Nat
    BY <1>1, <1>2, TxPositions DEF TxRingInv, TxIn
  <1>6. /\ txDesc' \in [Tx!Idx -> TxCells] /\ txDesc'[txOut.fidx].own = TRUE
        /\ \A i \in Tx!Idx : /\ txDesc'[i].fs = txDesc[i].fs /\ txDesc'[i].ls = txDesc[i].ls
                             /\ txDesc'[i].saved = txDesc[i].saved
                             /\ TxFr(i)' = TxFr(i) /\ TxPart(i)' = TxPart(i)
                             /\ i # txOut.fidx => txDesc'[i].own = txDesc[i].own
    <2> DEFINE x == txOut.fidx
    <2>1. txDesc' = [txDesc EXCEPT ![x].own = TRUE] /\ x \in Tx!Idx
      BY <1>1, <1>2
    <2> HIDE DEF x
    <2>2. /\ txDesc' \in [Tx!Idx -> TxCells] /\ txDesc'[x].own = TRUE
          /\ \A i \in Tx!Idx : /\ txDesc'[i].fs = txDesc[i].fs /\ txDesc'[i].ls = txDesc[i].ls
                               /\ txDesc'[i].saved = txDesc[i].saved
                               /\ TxFr(i)' = TxFr(i) /\ TxPart(i)' = TxPart(i)
                               /\ i # x => txDesc'[i].own = txDesc[i].own
      BY <2>1, TxOwner
    <2> QED
      BY <2>2 DEF x
  <1>7. \A i \in Tx!Idx : TxFrom(i)' = TxFrom(i) /\ TxIn(i)' = TxIn(i) /\ ~TxCurrent(i)'
        /\ (TxCurrent(i) <=> TxFrom(i) >= F)
    BY <1>4 DEF TxFrom, TxIn, TxCurrent
  <1>8. /\ txRefs' \in [1..TxFrames -> 0..2] /\ txRefs'[txOut.f] = 1
        /\ \A f \in 1..TxFrames : f # txOut.f => txRefs'[f] = txRefs[f]
    <2>1. txRefs[txOut.f] = IF txOut.copy THEN 1 ELSE 2
      BY <1>1, <1>2 DEF TxRefInv
    <2>2. txRefs \in [1..TxFrames -> 0..2]
      BY DEF TxTypes
    <2> QED
      BY <1>1, <1>2, <2>1, <2>2
  <1>9. TxTypes'
    BY <1>1, <1>3, <1>6, <1>8 DEF TxTypes
  <1>10. TxLockInv'
    BY <1>1, <1>3, <1>4 DEF TxLockInv
  <1>11. TxRingInv'
    BY <1>3, <1>4 DEF TxRingInv, TxPlus
  <1> HIDE DEF F
  <1>12. TxDmaInv'
    <2>1. PICK k \in 0..TxUsed : TxSentTo(k)
      BY DEF TxDmaInv
    <2>2. k <= F
      BY <1>4, <2>1 DEF TxSentTo, F
    <2>3. ASSUME NEW i \in Tx!Idx PROVE txDesc'[i].own <=> TxIn(i) /\ k <= TxFrom(i)
      <3>1. CASE i = txOut.fidx
        BY <1>5, <1>6, <2>2, <3>1 DEF F
      <3>2. CASE i # txOut.fidx
        BY <1>6, <2>1, <3>2 DEF TxSentTo
      <3> QED
        BY <3>1, <3>2
    <2>4. \A i \in Tx!Idx : TxFollows(txWire.ls, txWire.f, txWire.part,
                                      i)' = TxFollows(txWire.ls, txWire.f, txWire.part, i)
      BY <1>1, <1>6 DEF TxFollows
    <2>5. TxSentTo(k)'
      BY <1>1, <1>3, <1>4, <1>7, <2>1, <2>3, <2>4 DEF TxSentTo, TxPlus
    <2> QED
      BY <1>1, <1>3, <1>4, <2>5 DEF TxDmaInv
  <1>13. TxDescInv'
    <2>1. \A i \in Tx!Idx : TxIn(i) => TxFr(i) <= txOut.f
      BY <1>2 DEF TxDescInv
    <2> QED
      BY <1>3, <1>6, <1>7, <2>1 DEF TxDescInv
  <1>14. TxOrderInv'
    BY <1>1, <1>3, <1>4, <1>6, <1>7, TxSameOrder
  <1>15. \A f \in 1..TxFrames : TxSaved(f)' = TxSaved(f)
    BY <1>6, <1>7 DEF TxSaved
  <1>16. TxSaved(txOut.f)
    <2> DEFINE z == TxPlus(TxBase, TxUsed - 1)
    <2>1. z \in Tx!Idx /\ TxFrom(z) = TxUsed - 1
      BY <1>5, TxPositions
    <2> HIDE DEF z
    <2>2. TxIn(z) /\ TxCurrent(z)
      BY <1>5, <1>7, <2>1 DEF TxIn
    <2>3. TxFr(z) = txOut.f /\ txDesc[z].ls
      BY <1>1, <2>1, <2>2 DEF TxDescInv
    <2>4. txDesc[z].saved = txOut.f
      BY <2>1, <2>2, <2>3 DEF TxDescInv
    <2> QED
      BY <2>1, <2>2, <2>4 DEF TxSaved
  <1>17. TxRefInv'
    BY <1>2, <1>3, <1>8, <1>15, <1>16 DEF TxRefInv
  <1> QED
    BY <1>9, <1>10, <1>11, <1>12, <1>13, <1>14, <1>17

\* The DMA sends the first descriptor that it owns.
LEMMA TxSends ==
    ASSUME TxInv, NEW x \in Tx!Idx, x = txDma.idx, txDesc[x].own
    PROVE  \E k \in 0..TxUsed : /\ TxSentTo(k) /\ TxFrom(x) = k /\ k < TxUsed /\ TxIn(x)
                                /\ ~TxCurrent(x)
                                /\ TxBusy => k < TxFrom(txOut.fidx)
                                /\ TxFollows(txWire.ls, txWire.f, txWire.part, x)
  <1> USE DEF TxInv
  <1>1. PICK k \in 0..TxUsed : TxSentTo(k)
    BY DEF TxDmaInv
  <1>2. /\ x = TxPlus(TxBase, k) /\ TxIn(x) /\ k <= TxFrom(x) /\ ~(TxBusy /\ x = txOut.fidx)
        /\ k \in 0..TxDescs /\ TxDescs \in Nat \ {0} /\ txOut.fidx \in Tx!Idx /\ k \in Nat
        /\ TxUsed \in Nat
    BY <1>1, TxPositions DEF TxSentTo, TxTypes, TxOuts
  <1>3. TxFrom(x) = k /\ k < TxUsed
    BY <1>1, <1>2, TxPositions DEF TxIn
  <1>4. TxBusy => k < TxFrom(txOut.fidx) /\ TxFrom(txOut.fidx) \in Nat
    BY <1>1, <1>2, <1>3, TxPositions DEF TxSentTo
  <1>5. ~TxCurrent(x)
    BY <1>2, <1>3, <1>4 DEF TxCurrent
  <1> QED
    BY <1>1, <1>2, <1>3, <1>4, <1>5 DEF TxSentTo

\* The DMA sends one descriptor and gives it back.
LEMMA TxDma == ASSUME TxInv, Tx!Dma, txDesc[txDma.idx].own PROVE TxInv'
  <1> USE DEF TxInv
  <1>1. PICK x \in Tx!Idx : x = txDma.idx
    BY DEF TxTypes
  <1>2. /\ txWire' = [f |-> TxFr(x), part |-> TxPart(x), fs |-> txDesc[x].fs, ls |-> txDesc[x].ls]
        /\ txDesc' = [txDesc EXCEPT ![x].own = FALSE] /\ txDma' = [txDma EXCEPT !.idx = Tx!Inc(x)]
        /\ UNCHANGED <<txRing, txOut, txClean, txMutex, txCount, txSem, txIsr, txRefs>>
    BY <1>1 DEF Tx!Dma, TxFr, TxPart
  <1>3. PICK k \in 0..TxUsed : /\ TxSentTo(k) /\ TxFrom(x) = k /\ k < TxUsed /\ TxIn(x)
                               /\ ~TxCurrent(x)
                               /\ TxBusy => k < TxFrom(txOut.fidx)
    BY <1>1, TxSends
  <1>4. /\ txDesc' \in [Tx!Idx -> TxCells] /\ txDesc'[x].own = FALSE
        /\ \A i \in Tx!Idx : /\ txDesc'[i].fs = txDesc[i].fs /\ txDesc'[i].ls = txDesc[i].ls
                             /\ txDesc'[i].saved = txDesc[i].saved
                             /\ TxFr(i)' = TxFr(i) /\ TxPart(i)' = TxPart(i)
                             /\ i # x => txDesc'[i].own = txDesc[i].own
    BY <1>2, TxOwner
  <1>5. /\ TxDescs \in Nat \ {0} /\ TxUsed \in 0..TxDescs /\ TxBase \in Tx!Idx /\ k \in Nat
        /\ TxUsed \in Nat /\ x = TxPlus(TxBase, k)
        /\ txOut.fidx \in Tx!Idx
    BY <1>1, <1>3, TxPositions DEF TxSentTo, TxTypes, TxOuts
  <1>6. TxBase' = TxBase /\ TxUsed' = TxUsed /\ TxBusy' = TxBusy
    BY <1>2 DEF TxBase, TxUsed, TxBusy
  <1>7. \A i \in Tx!Idx : TxFrom(i)' = TxFrom(i) /\ TxIn(i)' = TxIn(i)
        /\ TxCurrent(i)' = TxCurrent(i)
    BY <1>2, <1>6 DEF TxFrom, TxIn, TxCurrent
  <1>8. TxFrom(txOut.fidx)' = TxFrom(txOut.fidx) /\ TxFrom(txOut.fidx) \in Nat
        /\ TxIn(txOut.fidx)' = TxIn(txOut.fidx)
    BY <1>2, <1>5, <1>6, TxPositions DEF TxFrom, TxIn
  <1>9. Tx!Inc(x) = TxPlus(TxBase, k + 1) /\ Tx!Inc(x) \in Tx!Idx
    BY <1>3, <1>5 DEF Tx!Inc, TxPlus, Tx!Idx
  <1>10. /\ txDma' \in [idx : Tx!Idx, run : BOOLEAN] /\ txDma'.idx = Tx!Inc(x)
         /\ txWire' \in [f : Nat, part : Nat, fs : BOOLEAN, ls : BOOLEAN]
         /\ txWire'.f = TxFr(x) /\ txWire'.part = TxPart(x) /\ txWire'.ls = txDesc[x].ls
    <2>1. txDesc[x] \in TxCells /\ txDma \in [idx : Tx!Idx, run : BOOLEAN]
      BY DEF TxTypes
    <2>2. TxFr(x) \in Nat /\ TxPart(x) \in Nat /\ txDesc[x].fs \in BOOLEAN
          /\ txDesc[x].ls \in BOOLEAN
      BY <2>1 DEF TxCells, TxFr, TxPart
    <2> QED
      BY <1>2, <1>9, <2>1, <2>2
  <1>11. TxTypes' /\ TxLockInv' /\ TxRingInv'
    BY <1>2, <1>4, <1>6, <1>8, <1>10 DEF TxTypes, TxLockInv, TxRingInv, TxPlus, TxBusy
  <1>12. TxDmaInv'
    <2>1. txDma'.idx = TxPlus(TxBase, k + 1)' /\ (TxBusy' => k + 1 <= TxFrom(txOut.fidx)')
          /\ k + 1 \in 0..TxUsed'
      BY <1>3, <1>5, <1>6, <1>8, <1>9, <1>10 DEF TxPlus
    <2>2. ASSUME NEW i \in Tx!Idx
          PROVE txDesc'[i].own <=> TxIn(i)' /\ k + 1 <= TxFrom(i)' /\ ~(TxBusy' /\ i = txOut'.fidx)
      <3>1. TxFrom(i) \in Nat /\ (TxFrom(i) = k <=> i = x)
        BY <1>3, TxPositions
      <3>2. k + 1 <= TxFrom(i) <=> k <= TxFrom(i) /\ i # x
        BY <1>5, <3>1
      <3>3. CASE i = x
        BY <1>4, <1>7, <3>2, <3>3
      <3>4. CASE i # x
        BY <1>2, <1>3, <1>4, <1>6, <1>7, <3>2, <3>4 DEF TxSentTo
      <3> QED
        BY <3>3, <3>4
    <2>3. k + 1 = TxUsed' => txWire'.ls
      BY <1>3, <1>5, <1>6, <1>10 DEF TxOrderInv
    <2>4. ASSUME NEW i \in Tx!Idx, TxIn(i)', TxFrom(i)' = k + 1
          PROVE TxFollows(txWire.ls, txWire.f, txWire.part, i)'
      <3>1. TxFollows(txDesc[x].ls, TxFr(x), TxPart(x), i)
        BY <1>3, <1>7, <2>4 DEF TxOrderInv
      <3> QED
        BY <1>4, <1>10, <3>1 DEF TxFollows
    <2>5. TxSentTo(k + 1)'
      BY <2>1, <2>2, <2>3, <2>4 DEF TxSentTo
    <2>6. TxPart(x) >= 1 /\ TxFr(x) <= txOut.f /\ (txOut.pc # "idle" => TxFr(x) < txOut.f)
      BY <1>3 DEF TxDescInv
    <2> QED
      BY <1>2, <1>10, <2>1, <2>5, <2>6 DEF TxDmaInv
  <1>13. TxDescInv'
    <2>1. \A i \in Tx!Idx : ~TxIn(i)' => ~txDesc'[i].fs /\ ~txDesc'[i].ls
      BY <1>4, <1>7 DEF TxDescInv
    <2>2. \A i \in Tx!Idx : TxIn(i)' => /\ TxFr(i)' \in 1..TxFrames /\ TxPart(i)' >= 1
                                        /\ (txDesc'[i].fs <=> TxPart(i)' = 1)
                                        /\ txDesc'[i].saved = IF txDesc'[i].ls THEN TxFr(i)'
                                             ELSE Tx!None
      BY <1>4, <1>7 DEF TxDescInv
    <2>3. ASSUME NEW i \in Tx!Idx, TxIn(i)', TxCurrent(i)'
          PROVE  /\ TxFr(i)' = txOut'.f /\ TxPart(i)' = TxFrom(i)' - TxFrom(txOut.fidx)' + 1
                 /\ txDesc'[i].ls <=> txOut'.pc = "kick" /\ TxFrom(i)' = TxUsed' - 1
      <3>1. TxIn(i) /\ TxCurrent(i)
        BY <1>7, <2>3
      <3>2. /\ TxFr(i) = txOut.f /\ TxPart(i) = TxFrom(i) - TxFrom(txOut.fidx) + 1
            /\ txDesc[i].ls <=> txOut.pc = "kick" /\ TxFrom(i) = TxUsed - 1
        BY <3>1 DEF TxDescInv
      <3> QED
        BY <1>2, <1>4, <1>6, <1>7, <1>8, <3>2
    <2>4. ASSUME NEW i \in Tx!Idx, TxIn(i)', ~TxCurrent(i)'
          PROVE  TxFr(i)' <= txOut'.f /\ (txOut'.pc # "idle" => TxFr(i)' < txOut'.f)
      <3>1. TxIn(i) /\ ~TxCurrent(i)
        BY <1>7, <2>4
      <3>2. TxFr(i) <= txOut.f /\ (txOut.pc # "idle" => TxFr(i) < txOut.f)
        BY <3>1 DEF TxDescInv
      <3> QED
        BY <1>2, <1>4, <1>6, <1>7, <1>8, <3>2
    <2> QED
      BY <2>1, <2>2, <2>3, <2>4 DEF TxDescInv
  <1>14. TxOrderInv'
    BY <1>2, <1>4, <1>6, <1>7, TxSameOrder
  <1>15. \A f \in 1..TxFrames : TxSaved(f)' = TxSaved(f)
    BY <1>4, <1>7 DEF TxSaved
  <1>16. TxRefInv'
    BY <1>2, <1>8, <1>15 DEF TxRefInv
  <1> QED
    BY <1>11, <1>12, <1>13, <1>14, <1>16

\* The cleanup task moves the beginning of the ring by one.
LEMMA TxReclaim == ASSUME TxInv, Tx!Reclaim,
                          UNCHANGED <<txOut, txInts, txIsr, txDma, txWire>> PROVE TxInv'
  <1> USE DEF TxInv
  <1>1. PICK r \in Tx!Idx : r = txClean.ridx
    BY DEF TxTypes
  <1>2. /\ txClean.pc = "loop" /\ txRing.free < TxDescs /\ ~txDesc[r].own
        /\ txDesc' = [txDesc EXCEPT ![r].own = FALSE, ![r].fs = FALSE, ![r].ls = FALSE]
        /\ txRefs' = IF txDesc[r].saved # Tx!None
             THEN [txRefs EXCEPT ![txDesc[r].saved] = @ - 1] ELSE txRefs
        /\ txRing' = [txRing EXCEPT !.free = @ + 1] /\ txCount' = IF txCount = TxDescs
             THEN TxDescs ELSE txCount + 1
        /\ txClean' = [txClean EXCEPT !.ridx = Tx!Inc(r)]
        /\ UNCHANGED <<txMutex, txSem>>
    BY <1>1 DEF Tx!Reclaim
  <1>3. /\ TxBase = r /\ ~TxBusy /\ TxDescs \in Nat \ {0} /\ txRing.free \in 0..TxDescs
        /\ TxUsed \in 1..TxDescs /\ TxUsed \in Nat
        /\ TxFrom(r) = 0 /\ TxIn(r) /\ txOut.pc \notin {"fill", "kick"} /\ txOut \in TxOuts
    BY <1>1, <1>2, TxPositions DEF TxBase, TxLockInv, TxBusy, TxIn, TxUsed, TxTypes
  <1>4. /\ txDesc' \in [Tx!Idx -> TxCells] /\ txDesc'[r].own = FALSE /\ txDesc'[r].fs = FALSE
        /\ txDesc'[r].ls = FALSE
        /\ \A i \in Tx!Idx : i # r => txDesc'[i] = txDesc[i]
    <2>1. txDesc \in [Tx!Idx -> TxCells] /\ txDesc[r] \in TxCells
      BY DEF TxTypes
    <2> DEFINE e == [txDesc[r] EXCEPT !.own = FALSE, !.fs = FALSE, !.ls = FALSE]
    <2>2. e \in TxCells /\ e.own = FALSE /\ e.fs = FALSE /\ e.ls = FALSE
      BY <2>1 DEF TxCells
    <2>3. txDesc' = [txDesc EXCEPT ![r] = e]
      BY <1>2, <2>1
    <2> HIDE DEF e
    <2> QED
      BY <2>1, <2>2, <2>3
  <1>5. /\ txRing' \in [free : 0..TxDescs, fill : Tx!Idx, reclaim : Tx!Idx]
        /\ txRing'.free = txRing.free + 1 /\ txRing'.fill = txRing.fill
        /\ txClean' \in [pc : {"wait", "lock", "loop"}, ridx : Tx!Idx]
        /\ txClean'.ridx = Tx!Inc(r) /\ txClean'.pc = "loop"
        /\ txCount' \in 0..TxDescs
    <2>1. Tx!Inc(r) \in Tx!Idx
      BY <1>3 DEF Tx!Inc, Tx!Idx
    <2> QED
      BY <1>2, <1>3, <2>1 DEF TxTypes
  <1>6. TxBase' = Tx!Inc(r) /\ TxUsed' = TxUsed - 1 /\ ~TxBusy'
    BY <1>2, <1>3, <1>5 DEF TxBase, TxUsed, TxBusy
  <1>7. \A i \in Tx!Idx : IF i = r THEN TxFrom(i)' = TxDescs - 1
        ELSE TxFrom(i)' = TxFrom(i) - 1 /\ TxFrom(i) >= 1
    BY <1>3, <1>6 DEF TxFrom, Tx!Inc, Tx!Idx
  <1>8. \A i \in Tx!Idx : TxIn(i)' <=> TxIn(i) /\ i # r
    <2> SUFFICES ASSUME NEW i \in Tx!Idx PROVE TxIn(i)' <=> TxIn(i) /\ i # r
      OBVIOUS
    <2>1. TxFrom(i) \in Nat
      BY TxPositions
    <2>2. TxIn(i)' <=> TxFrom(i)' < TxUsed - 1
      BY <1>6 DEF TxIn
    <2> QED
      BY <1>3, <1>7, <2>1, <2>2 DEF TxIn
  <1>9. \A i \in Tx!Idx : ~TxCurrent(i) /\ ~TxCurrent(i)'
    BY <1>3, <1>6 DEF TxCurrent
  <1>10. \A i \in Tx!Idx : i # r => TxFr(i)' = TxFr(i) /\ TxPart(i)' = TxPart(i)
    BY <1>4 DEF TxFr, TxPart
  <1> DEFINE g == txDesc[r].saved
  <1>11. g # Tx!None => txDesc[r].ls /\ g = TxFr(r) /\ g \in 1..TxFrames
    BY <1>3 DEF TxDescInv
  <1>12. \A f \in 1..TxFrames : TxSaved(f)' <=> TxSaved(f) /\ f # g
    <2>1. ASSUME NEW f \in 1..TxFrames, f = g PROVE TxSaved(f) /\ ~TxSaved(f)'
      <3>1. g # Tx!None /\ TxSaved(f)
        BY <1>3, <2>1 DEF TxSaved, Tx!None
      <3>2. ASSUME NEW i \in Tx!Idx, TxIn(i)', txDesc'[i].saved = f PROVE FALSE
        <4>1. i # r /\ TxIn(i) /\ txDesc[i].saved = f
          BY <1>4, <1>8, <3>2
        <4>2. TxFr(i) = f
          BY <2>1, <3>1, <4>1 DEF TxDescInv
        <4>3. TxFrom(r) < TxFrom(i)
          BY <1>3, <1>7, <4>1, TxPositions
        <4>4. TxFr(r) < TxFr(i) /\ TxFr(r) = f /\ f \in Nat
          BY <1>3, <1>11, <2>1, <3>1, <4>1, <4>3 DEF TxOrderInv
        <4> QED
          BY <4>2, <4>4
      <3> QED
        BY <3>1, <3>2 DEF TxSaved
    <2>2. ASSUME NEW f \in 1..TxFrames, f # g PROVE TxSaved(f)' <=> TxSaved(f)
      BY <1>4, <1>8, <2>2 DEF TxSaved
    <2> QED
      BY <2>1, <2>2
  <1>13. \A i \in Tx!Idx : TxIn(i) => TxFr(i) < txOut.f \/ (TxFr(i) = txOut.f /\ txOut.pc = "idle")
    BY <1>3, <1>9 DEF TxDescInv, TxOuts
  <1>14. /\ txRefs' \in [1..TxFrames -> 0..2] /\ \A f \in 1..TxFrames : f # g
              => txRefs'[f] = txRefs[f]
         /\ g \in 1..TxFrames => txRefs'[g] = 0
              /\ (g < txOut.f \/ (g = txOut.f /\ txOut.pc = "idle"))
    <2>1. txRefs \in [1..TxFrames -> 0..2]
      BY DEF TxTypes
    <2>2. CASE g = Tx!None
      BY <1>2, <2>1, <2>2 DEF Tx!None
    <2>3. CASE g # Tx!None
      <3>1. g \in 1..TxFrames /\ TxSaved(g)
        BY <1>3, <1>11, <2>3 DEF TxSaved
      <3>2. g < txOut.f \/ (g = txOut.f /\ txOut.pc = "idle")
        BY <1>3, <1>11, <1>13, <2>3
      <3>3. txRefs[g] = 1
        BY <3>1, <3>2 DEF TxRefInv
      <3>4. txRefs' = [txRefs EXCEPT ![g] = txRefs[g] - 1]
        BY <1>2, <2>3
      <3> HIDE DEF g
      <3> QED
        BY <2>1, <3>1, <3>2, <3>3, <3>4
    <2> QED
      BY <2>2, <2>3
  <1>15. TxTypes'
    BY <1>2, <1>4, <1>5, <1>14 DEF TxTypes
  <1>16. TxLockInv'
    BY <1>2, <1>3, <1>5, <1>6 DEF TxLockInv, TxOuts
  <1>17. TxRingInv'
    <2>1. TxPlus(Tx!Inc(r), TxUsed - 1) = TxPlus(r, TxUsed)
      BY <1>3 DEF TxPlus, Tx!Inc, Tx!Idx
    <2> QED
      BY <1>3, <1>5, <1>6, <2>1 DEF TxRingInv, TxPlus
  <1>18. TxDmaInv'
    <2>1. PICK k \in 0..TxUsed : TxSentTo(k)
      BY DEF TxDmaInv
    <2>2. k \in 1..TxUsed /\ k - 1 \in 0..TxUsed'
      BY <1>2, <1>3, <1>6, <2>1 DEF TxSentTo
    <2>3. TxPlus(Tx!Inc(r), k - 1) = TxPlus(r, k)
      BY <1>3, <2>2 DEF TxPlus, Tx!Inc, Tx!Idx
    <2>4. txDma'.idx = TxPlus(TxBase, k - 1)'
      BY <1>3, <1>6, <2>1, <2>3 DEF TxSentTo, TxPlus
    <2>5. ASSUME NEW i \in Tx!Idx
          PROVE txDesc'[i].own <=> TxIn(i)' /\ k - 1 <= TxFrom(i)' /\ ~(TxBusy' /\ i = txOut'.fidx)
      <3>1. CASE i = r
        BY <1>4, <1>8, <3>1
      <3>2. CASE i # r
        <4>1. TxFrom(i) \in Nat /\ (k - 1 <= TxFrom(i)' <=> k <= TxFrom(i))
          BY <1>7, <2>2, <3>2, TxPositions
        <4> QED
          BY <1>3, <1>4, <1>6, <1>8, <2>1, <3>2, <4>1 DEF TxSentTo
      <3> QED
        BY <3>1, <3>2
    <2>6. ASSUME NEW i \in Tx!Idx, TxIn(i)', TxFrom(i)' = k - 1
          PROVE TxFollows(txWire.ls, txWire.f, txWire.part, i)'
      <3>1. i # r /\ TxIn(i) /\ TxFrom(i) = k
        BY <1>7, <1>8, <2>2, <2>6, TxPositions
      <3>2. TxFollows(txWire.ls, txWire.f, txWire.part, i)
        BY <2>1, <3>1 DEF TxSentTo
      <3> QED
        BY <1>10, <3>1, <3>2 DEF TxFollows
    <2>7. k - 1 = TxUsed' => txWire'.ls
      BY <1>3, <1>6, <2>1, <2>2 DEF TxSentTo
    <2>8. TxSentTo(k - 1)'
      BY <1>6, <2>4, <2>5, <2>6, <2>7 DEF TxSentTo
    <2> QED
      BY <2>2, <2>8 DEF TxDmaInv
  <1>19. TxDescInv'
    <2>1. \A i \in Tx!Idx : ~TxIn(i)' => ~txDesc'[i].fs /\ ~txDesc'[i].ls
      BY <1>4, <1>8 DEF TxDescInv
    <2>2. \A i \in Tx!Idx : TxIn(i)' => /\ TxFr(i)' \in 1..TxFrames /\ TxPart(i)' >= 1
                                        /\ (txDesc'[i].fs <=> TxPart(i)' = 1)
                                        /\ txDesc'[i].saved = IF txDesc'[i].ls THEN TxFr(i)'
                                             ELSE Tx!None
      BY <1>4, <1>8, <1>10 DEF TxDescInv
    <2>3. \A i \in Tx!Idx : TxIn(i)' => TxFr(i)' <= txOut'.f
          /\ (txOut'.pc # "idle" => TxFr(i)' < txOut'.f)
      BY <1>8, <1>9, <1>10 DEF TxDescInv
    <2> QED
      BY <1>9, <2>1, <2>2, <2>3 DEF TxDescInv
  <1>20. \A i, j \in Tx!Idx : i # r /\ j # r => /\ TxFrom(i) \in Nat /\ TxFrom(j) \in Nat
                                                /\ (TxFrom(i)' < TxFrom(j)'
                                                     <=> TxFrom(i) < TxFrom(j))
                                                /\ (TxFrom(i)' <= TxFrom(j)'
                                                     <=> TxFrom(i) <= TxFrom(j))
                                                /\ (TxFrom(j)' = TxFrom(i)' + 1
                                                     <=> TxFrom(j) = TxFrom(i) + 1)
    BY <1>7, TxPositions
  <1>21. TxOrderInv'
    <2>1. ASSUME NEW i \in Tx!Idx, NEW j \in Tx!Idx, TxIn(i)', TxIn(j)', TxFrom(j)' = TxFrom(i)' + 1
          PROVE  TxFollows(txDesc[i].ls, TxFr(i), TxPart(i), j)'
      <3>1. TxFollows(txDesc[i].ls, TxFr(i), TxPart(i), j)
        BY <1>8, <1>20, <2>1 DEF TxOrderInv
      <3> QED
        BY <1>4, <1>8, <1>10, <2>1, <3>1 DEF TxFollows
    <2>2. ASSUME NEW i \in Tx!Idx, NEW j \in Tx!Idx, TxIn(i)', TxIn(j)', TxFrom(i)' < TxFrom(j)'
          PROVE  TxFr(i)' <= TxFr(j)' /\ (txDesc'[i].ls => TxFr(i)' < TxFr(j)')
      BY <1>4, <1>8, <1>10, <1>20, <2>2 DEF TxOrderInv
    <2>3. ASSUME NEW i \in Tx!Idx, TxIn(i)'
          PROVE  /\ TxFrom(i)' = TxUsed' - 1 => txDesc'[i].ls
                 /\ \E j \in Tx!Idx : TxIn(j)' /\ TxFrom(i)' <= TxFrom(j)'
                      /\ TxFr(j)' = TxFr(i)' /\ txDesc'[j].ls
      <3>1. i # r /\ TxIn(i) /\ TxFrom(i) \in Nat /\ TxFrom(i) >= 1
        BY <1>7, <1>8, <1>20, <2>3
      <3>2. /\ TxFrom(i) = TxUsed - 1 => txDesc[i].ls
            /\ \E j \in Tx!Idx : TxIn(j) /\ TxFrom(i) <= TxFrom(j) /\ TxFr(j) = TxFr(i)
                 /\ txDesc[j].ls
        BY <1>9, <3>1 DEF TxOrderInv
      <3>3. PICK j \in Tx!Idx : TxIn(j) /\ TxFrom(i) <= TxFrom(j) /\ TxFr(j) = TxFr(i)
            /\ txDesc[j].ls
        BY <3>2
      <3>4. j # r
        BY <1>3, <3>1, <3>3
      <3>5. TxFrom(i)' = TxUsed' - 1 => TxFrom(i) = TxUsed - 1
        BY <1>3, <1>6, <1>7, <3>1
      <3> QED
        BY <1>4, <1>8, <1>10, <1>20, <3>1, <3>2, <3>3, <3>4, <3>5
    <2> QED
      BY <2>1, <2>2, <2>3 DEF TxOrderInv
  <1>22. TxRefInv'
    BY <1>3, <1>12, <1>14 DEF TxRefInv
  <1> QED
    BY <1>15, <1>16, <1>17, <1>18, <1>19, <1>21, <1>22

\* Every step of caller, DMA, interrupt and cleanup task keeps the invariant.
LEMMA TxNext == TxInv /\ [Tx!Next]_(Tx!vars) => TxInv'
  <1> SUFFICES ASSUME TxInv, [Tx!Next]_(Tx!vars) PROVE TxInv'
    OBVIOUS
  <1>1. CASE UNCHANGED Tx!vars
    BY <1>1, TxQuiet
  <1>2. CASE Tx!Send
    BY <1>2, TxSend
  <1>3. CASE Tx!lpc_low_level_output
    BY <1>3, TxQuiet, TxLock, TxFill, TxKick DEF Tx!lpc_low_level_output
  <1>4. CASE Tx!Dma
    BY <1>4, TxQuiet, TxDma
  <1>5. CASE Tx!ETH_IRQHandler
    BY <1>5, TxQuiet
  <1>6. CASE Tx!vTransmitCleanupTask
    BY <1>6, TxQuiet, TxReclaim DEF Tx!vTransmitCleanupTask
  <1> QED
    BY <1>1, <1>2, <1>3, <1>4, <1>5, <1>6 DEF Tx!Next

\* The descriptor that the DMA sends follows the one it sent before.
LEMMA TxWhole == TxInv /\ [Tx!Next]_(Tx!vars) => [Tx!WholeFrames]_(Tx!vars)
  <1> SUFFICES ASSUME TxInv, Tx!Next, txWire' # txWire
               PROVE  IF txWire.ls THEN txWire'.fs /\ txWire'.part = 1 /\ txWire'.f > txWire.f
                      ELSE ~txWire'.fs /\ txWire'.f = txWire.f /\ txWire'.part = txWire.part + 1
    BY DEF Tx!WholeFrames, Tx!vars
  <1> USE DEF TxInv
  <1>1. Tx!Dma /\ txDesc[txDma.idx].own
    BY DEF Tx!Next, Tx!Send, Tx!lpc_low_level_output, Tx!Spin, Tx!Ready, Tx!Lock, Tx!Fill,
      Tx!Kick, Tx!Dma, Tx!ETH_IRQHandler, Tx!vTransmitCleanupTask
  <1>2. PICK x \in Tx!Idx : x = txDma.idx
    BY DEF TxTypes
  <1>3. txWire' = [f |-> TxFr(x), part |-> TxPart(x), fs |-> txDesc[x].fs, ls |-> txDesc[x].ls]
    BY <1>1, <1>2 DEF Tx!Dma, TxFr, TxPart
  <1>4. TxIn(x) /\ TxFollows(txWire.ls, txWire.f, txWire.part, x)
    BY <1>1, <1>2, TxSends
  <1>5. (txDesc[x].fs <=> TxPart(x) = 1) /\ (~txWire.ls => txWire.part >= 1) /\ txWire.part \in Nat
    BY <1>4 DEF TxDescInv, TxDmaInv, TxTypes
  <1> QED
    BY <1>3, <1>4, <1>5 DEF TxFollows

\* The invariant implies the properties of EmacTx.
LEMMA TxImplies == TxInv => Tx!TypeOK /\ Tx!RingRight /\ Tx!SentBeforeFreed
  <1> SUFFICES ASSUME TxInv PROVE Tx!TypeOK /\ Tx!RingRight /\ Tx!SentBeforeFreed
    OBVIOUS
  <1> USE DEF TxInv
  <1>1. Tx!TypeOK
    BY DEF TxTypes, Tx!TypeOK, TxOuts
  <1>2. TxDescs \in Nat \ {0} /\ txRing.free \in 0..TxDescs /\ TxUsed \in 0..TxDescs
    BY TxPositions
  <1>3. \A y \in 0..(2 * TxDescs - 1) : y % TxDescs = IF y < TxDescs THEN y ELSE y - TxDescs
    BY <1>2, Mod
  <1>4. Tx!RingRight
    <2> SUFFICES ASSUME txMutex = "free"
                 PROVE  /\ txRing.fill = (txRing.reclaim + TxDescs - txRing.free) % TxDescs
                        /\ \A i \in Tx!Idx : txDesc[i].own => Tx!InUse(i)
      BY DEF Tx!RingRight
    <2>1. ~TxBusy /\ TxBase = txRing.reclaim /\ txRing.reclaim \in Tx!Idx
      BY DEF TxLockInv, TxBase, TxTypes
    <2>2. txRing.fill = (txRing.reclaim + TxDescs - txRing.free) % TxDescs
      <3>1. PICK y \in 0..(2 * TxDescs - 1) : y = txRing.reclaim + TxDescs - txRing.free
        BY <1>2, <2>1 DEF Tx!Idx
      <3>2. txRing.reclaim + (TxDescs - txRing.free) = y /\ TxDescs \in Int
        BY <1>2, <2>1, <3>1 DEF Tx!Idx
      <3>3. txRing.fill = IF txRing.reclaim + (TxDescs - txRing.free) < TxDescs
            THEN txRing.reclaim + (TxDescs - txRing.free)
                          ELSE txRing.reclaim + (TxDescs - txRing.free) - TxDescs
        BY <2>1 DEF TxRingInv, TxPlus, TxUsed
      <3>4. txRing.fill = IF y < TxDescs THEN y ELSE y - TxDescs
        BY <1>2, <2>1, <3>2, <3>3 DEF Tx!Idx
      <3> QED
        BY <1>3, <3>1, <3>4
    <2>3. ASSUME NEW i \in Tx!Idx, txDesc[i].own PROVE Tx!InUse(i)
      <3>1. TxIn(i)
        BY <2>3 DEF TxDmaInv, TxSentTo
      <3>2. (i - txRing.reclaim + TxDescs) % TxDescs = TxFrom(i)
        <4>1. PICK y \in 0..(2 * TxDescs - 1) : y = i - txRing.reclaim + TxDescs
          BY <1>2, <2>1 DEF Tx!Idx
        <4>2. y % TxDescs = IF y < TxDescs THEN y ELSE y - TxDescs
          BY <1>3
        <4> QED
          BY <1>2, <2>1, <4>1, <4>2 DEF TxFrom, Tx!Idx
      <3> QED
        BY <3>1, <3>2 DEF Tx!InUse, TxIn, TxUsed
    <2> QED
      BY <2>2, <2>3
  <1>5. Tx!SentBeforeFreed
    <2>1. ASSUME NEW i \in Tx!Idx, txDesc[i].own PROVE txRefs[txDesc[i].data[1]] > 0
      <3>1. TxIn(i) /\ TxFr(i) \in 1..TxFrames /\ txRefs[TxFr(i)] \in 0..2
        <4>1. TxIn(i)
          BY <2>1 DEF TxDmaInv, TxSentTo
        <4> QED
          BY <4>1 DEF TxDescInv, TxTypes
      <3>2. CASE TxCurrent(i)
        BY <3>1, <3>2 DEF TxDescInv, TxRefInv, TxCurrent, TxBusy, TxFr
      <3>3. CASE ~TxCurrent(i)
        <4>1. PICK j \in Tx!Idx : TxIn(j) /\ TxFr(j) = TxFr(i) /\ txDesc[j].ls
          BY <3>1, <3>3 DEF TxOrderInv
        <4>2. TxSaved(TxFr(i))
          BY <4>1 DEF TxSaved, TxDescInv
        <4>3. TxFr(i) < txOut.f \/ (TxFr(i) = txOut.f /\ txOut.pc = "idle")
          BY <3>1, <3>3 DEF TxDescInv, TxTypes, TxOuts
        <4>4. txRefs[TxFr(i)] = 1
          BY <3>1, <4>2, <4>3 DEF TxRefInv
        <4> QED
          BY <4>4 DEF TxFr
      <3> QED
        BY <3>2, <3>3
    <2>2. \A f \in 1..TxFrames : txRefs[f] >= 0
      BY DEF TxTypes
    <2> QED
      BY <2>1, <2>2 DEF Tx!SentBeforeFreed
  <1> QED
    BY <1>1, <1>4, <1>5

-----------------------------------------------------------------------------
(***************************************************************************)
(* The ARP table (etharp.c).                                               *)
(*                                                                         *)
(* A table is right (ArpRight) when a packet waits only in a pending       *)
(* entry, a pending entry belongs to no interface, no address has two      *)
(* entries in use, and a stable entry has the Ethernet address that its    *)
(* host announced last.  A step either sets one entry (ArpSet), or clears  *)
(* entries and moves others between the stable states (ArpAge).            *)
(***************************************************************************)

\* The constants of the run meet the assumption of Etharp.
LEMMA ArpConstants == Arp!EtharpAssumption
  BY MCTablesAssumption

ArpIndex == 1..ArpEntries
ArpStable == {"STABLE", "REREQUESTING", "STATIC"}
ArpEntry == [st : {"EMPTY", "PENDING"} \cup ArpStable, ip : ArpHosts \cup {"none"},
             mac : ArpMacs \cup {"none"}, q : ArpPackets \cup {"none"},
             ctime : 0..(ArpMaxAge - 1), netif : BOOLEAN]
ArpEmpty == [st |-> "EMPTY", ip |-> "none", mac |-> "none", q |-> "none", ctime |-> 0,
             netif |-> FALSE]
ArpAnnounced == [ArpHosts -> ArpMacs \cup {"none"}]

\* The entry e is right by itself when its hosts announced h.
ArpEntryRight(e, h) ==
    /\ e.q # "none" => e.st = "PENDING"
    /\ e.st = "PENDING" => ~e.netif
    /\ e.st # "EMPTY" => e.ip \in ArpHosts
    /\ e.st \in ArpStable => e.mac = h[e.ip]

\* The table a is right when its hosts announced h.
ArpRight(a, h) ==
    /\ a \in [ArpIndex -> ArpEntry]
    /\ \A i \in ArpIndex : ArpEntryRight(a[i], h)
    /\ \A i, j \in ArpIndex :
          a[i].st # "EMPTY" /\ a[j].st # "EMPTY" /\ a[i].ip = a[j].ip => i = j

\* No entry of the table a but i is in use for the address ip.
ArpAlone(a, i, ip) == \A j \in ArpIndex : a[j].st # "EMPTY" /\ a[j].ip = ip => j = i
\* Of all hosts only ip may have announced something else in g than in h.
ArpSameBut(h, g, ip) == \A x \in ArpHosts : x # ip => g[x] = h[x]

ArpInv ==
    /\ ArpRight(arpTable, arpHeard)
    /\ arpHint \in ArpIndex
    /\ arpHeard \in ArpAnnounced
    /\ Arp!SentToItsHost

\* One entry is set, for a host of which no other entry is; only what this host
\* announced may have changed.
LEMMA ArpSet ==
    ASSUME NEW a, NEW h \in ArpAnnounced, NEW g \in ArpAnnounced, ArpRight(a, h),
           NEW i \in ArpIndex, NEW e \in ArpEntry, ArpEntryRight(e, g), e.st # "EMPTY",
           ArpAlone(a, i, e.ip), ArpSameBut(h, g, e.ip)
    PROVE  ArpRight([a EXCEPT ![i] = e], g)
  <1> DEFINE b == [a EXCEPT ![i] = e]
  <1>1. a \in [ArpIndex -> ArpEntry]
    BY DEF ArpRight
  <1>2. /\ b \in [ArpIndex -> ArpEntry]
        /\ b[i] = e
        /\ \A j \in ArpIndex : j # i => b[j] = a[j]
    BY <1>1
  <1> HIDE DEF b
  <1>3. ASSUME NEW j \in ArpIndex
        PROVE  ArpEntryRight(b[j], g)
    <2>1. CASE j = i
      BY <2>1, <1>2
    <2>2. CASE j # i
      <3>1. ArpEntryRight(a[j], h) /\ b[j] = a[j]
        BY <2>2, <1>2 DEF ArpRight
      <3>2. a[j].st # "EMPTY" => a[j].ip # e.ip
        BY <2>2 DEF ArpAlone
      <3>3. a[j].st \in ArpStable => a[j].st # "EMPTY"
        BY DEF ArpStable
      <3> QED
        BY <3>1, <3>2, <3>3 DEF ArpEntryRight, ArpSameBut
    <2> QED
      BY <2>1, <2>2
  <1>4. ASSUME NEW j \in ArpIndex, NEW k \in ArpIndex,
               b[j].st # "EMPTY", b[k].st # "EMPTY", b[j].ip = b[k].ip
        PROVE  j = k
    BY <1>4, <1>2 DEF ArpRight, ArpAlone
  <1>5. ArpRight(b, g)
    BY <1>2, <1>3, <1>4 DEF ArpRight
  <1> QED
    BY <1>5 DEF b

\* Entries are cleared, or keep all but their age and which of the stable states they
\* are in.
LEMMA ArpAge ==
    ASSUME NEW a, NEW h \in ArpAnnounced, ArpRight(a, h), NEW b \in [ArpIndex -> ArpEntry],
           \A i \in ArpIndex :
             \/ b[i] = ArpEmpty
             \/ /\ b[i].st = a[i].st \/ {a[i].st, b[i].st} \subseteq ArpStable
                /\ b[i].ip = a[i].ip /\ b[i].mac = a[i].mac /\ b[i].q = a[i].q
                /\ b[i].netif = a[i].netif
    PROVE  ArpRight(b, h)
  <1>1. ASSUME NEW i \in ArpIndex
        PROVE  /\ ArpEntryRight(b[i], h)
               /\ b[i].st # "EMPTY" => a[i].st # "EMPTY" /\ b[i].ip = a[i].ip
    <2>1. CASE b[i] = ArpEmpty
      BY <2>1 DEF ArpEmpty, ArpEntryRight, ArpStable
    <2>2. CASE b[i] # ArpEmpty
      <3>1. ArpEntryRight(a[i], h)
        BY DEF ArpRight
      <3>2. /\ b[i].st = a[i].st \/ (a[i].st \in ArpStable /\ b[i].st \in ArpStable)
            /\ b[i].ip = a[i].ip /\ b[i].mac = a[i].mac /\ b[i].q = a[i].q
            /\ b[i].netif = a[i].netif
        BY <2>2
      <3> QED
        BY <3>1, <3>2 DEF ArpEntryRight, ArpStable
    <2> QED
      BY <2>1, <2>2
  <1>2. ASSUME NEW j \in ArpIndex, NEW k \in ArpIndex,
               b[j].st # "EMPTY", b[k].st # "EMPTY", b[j].ip = b[k].ip
        PROVE  j = k
    BY <1>1, <1>2 DEF ArpRight
  <1> QED
    BY <1>1, <1>2 DEF ArpRight

\* etharp_find_entry: among candidates the last of the oldest is a candidate.
LEMMA ArpOldest ==
    ASSUME arpTable \in [ArpIndex -> ArpEntry], NEW C \in SUBSET ArpIndex, C # {}
    PROVE  Arp!Oldest(C) \in C
  <1> DEFINE A == {ArpMaxAge - arpTable[i].ctime : i \in C}
  <1>1. /\ ArpMaxAge \in Nat /\ ArpEntries \in Nat
        /\ \A i \in C : arpTable[i].ctime \in 0..(ArpMaxAge - 1) /\ i \in 1..ArpEntries
    BY ArpConstants DEF Arp!EtharpAssumption, ArpEntry, ArpIndex
  <1>2. A \in SUBSET Nat /\ A # {}
    BY <1>1
  <1>3. PICK x \in A : \A y \in A : x <= y
    BY <1>2, LeastElement
  <1> DEFINE B == {ArpEntries - i : i \in {j \in C : ArpMaxAge - arpTable[j].ctime = x}}
  <1>4. B \in SUBSET Nat /\ B # {}
    BY <1>1, <1>3
  <1>5. PICK z \in B : \A y \in B : z <= y
    BY <1>4, LeastElement
  <1>6. PICK i \in C : ArpMaxAge - arpTable[i].ctime = x /\ z = ArpEntries - i
    BY <1>5
  <1>7. ASSUME NEW j \in C
        PROVE  \/ arpTable[j].ctime < arpTable[i].ctime
               \/ arpTable[j].ctime = arpTable[i].ctime /\ j <= i
    <2>1. ArpMaxAge - arpTable[i].ctime <= ArpMaxAge - arpTable[j].ctime
      BY <1>3, <1>6
    <2>2. CASE arpTable[j].ctime = arpTable[i].ctime
      <3>1. ArpEntries - j \in B
        BY <2>2, <1>6
      <3>2. ArpEntries - i <= ArpEntries - j
        BY <3>1, <1>5, <1>6
      <3> QED
        BY <3>2, <2>2, <1>1
    <2> QED
      BY <2>1, <2>2, <1>1
  <1> QED
    BY <1>6, <1>7 DEF Arp!Oldest

\* etharp_find_entry: there is at most one entry; it is the address's own if it has one, and
\* is taken from a waiting packet only when every entry has one or is static.
LEMMA ArpFound ==
    ASSUME ArpInv, NEW ip \in ArpHosts, NEW only \in BOOLEAN, NEW hard \in BOOLEAN,
           NEW i \in Arp!etharp_find_entry(ip, only, hard)
    PROVE  /\ i \in ArpIndex
           /\ Arp!etharp_find_entry(ip, only, hard) = {i}
           /\ i \in Arp!Of(ip) \/ Arp!Of(ip) = {}
           /\ i \notin Arp!Of(ip) =>
                \/ arpTable[i].q = "none"
                \/ \A j \in ArpIndex : arpTable[j].q # "none" \/ arpTable[j].st = "STATIC"
  <1> DEFINE free == {j \in ArpIndex : arpTable[j].st = "EMPTY"}
             F == Arp!etharp_find_entry(ip, only, hard)
  <1>0. /\ ArpRight(arpTable, arpHeard)
        /\ arpTable \in [ArpIndex -> ArpEntry]
        /\ \A j \in ArpIndex : ArpEntryRight(arpTable[j], arpHeard)
    BY DEF ArpInv, ArpRight
  <1>1. CASE Arp!Of(ip) # {}
    <2>1. F = Arp!Of(ip)
      BY <1>1 DEF Arp!etharp_find_entry
    <2>2. /\ i \in ArpIndex
          /\ \A j \in Arp!Of(ip) : j = i
      BY <2>1, <1>0 DEF Arp!Of, Arp!Index, ArpIndex, ArpRight
    <2> QED
      BY <2>1, <2>2
  <1>2. CASE Arp!Of(ip) = {} /\ (only \/ (free = {} /\ ~hard))
    <2>1. F = {}
      BY <1>2 DEF Arp!etharp_find_entry, Arp!Index, ArpIndex
    <2> QED
      BY <2>1
  <1>3. CASE Arp!Of(ip) = {} /\ ~only /\ free # {}
    <2> DEFINE m == CHOOSE k \in free : \A j \in free : k <= j
    <2>1. F = {m}
      BY <1>3 DEF Arp!etharp_find_entry, Arp!Index, ArpIndex
    <2>2. free \in SUBSET Nat
      BY DEF ArpIndex
    <2>3. \E k \in free : \A j \in free : k <= j
      BY <2>2, <1>3, LeastElement
    <2>4. m \in free
      BY <2>3
    <2>5. arpTable[m].q = "none"
      BY <2>4, <1>0 DEF ArpEntryRight
    <2> QED
      BY <2>1, <2>4, <2>5, <1>3
  <1>4. CASE Arp!Of(ip) = {} /\ ~only /\ free = {} /\ hard
    <2> DEFINE stable == {j \in ArpIndex : arpTable[j].st \in {"STABLE", "REREQUESTING"}}
               pending == {j \in ArpIndex : arpTable[j].st = "PENDING" /\ arpTable[j].q = "none"}
               queued == {j \in ArpIndex : arpTable[j].st = "PENDING" /\ arpTable[j].q # "none"}
    <2>1. F = Arp!Recycled(ip)
      BY <1>4 DEF Arp!etharp_find_entry, Arp!Index, ArpIndex
    <2>2. CASE stable # {}
      <3>1. F = {Arp!Oldest(stable)}
        BY <2>1, <2>2 DEF Arp!Recycled, Arp!Index, ArpIndex
      <3>2. Arp!Oldest(stable) \in stable
        BY <2>2, <1>0, ArpOldest
      <3>3. \A j \in stable : arpTable[j].q = "none"
        BY <1>0 DEF ArpEntryRight
      <3> HIDE DEF stable
      <3>4. stable \subseteq ArpIndex
        BY DEF stable
      <3> QED
        BY <3>1, <3>2, <3>3, <3>4, <1>4
    <2>3. CASE stable = {} /\ pending # {}
      <3>1. F = {Arp!Oldest(pending)}
        BY <2>1, <2>3 DEF Arp!Recycled, Arp!Index, Arp!None, ArpIndex
      <3>2. Arp!Oldest(pending) \in pending
        BY <2>3, <1>0, ArpOldest
      <3>3. /\ \A j \in pending : arpTable[j].q = "none"
            /\ pending \subseteq ArpIndex
        OBVIOUS
      <3> HIDE DEF pending
      <3> QED
        BY <3>1, <3>2, <3>3, <1>4
    <2>4. CASE stable = {} /\ pending = {} /\ queued # {}
      <3>1. F = {Arp!Oldest(queued)}
        BY <2>1, <2>4 DEF Arp!Recycled, Arp!Index, Arp!None, ArpIndex
      <3>2. Arp!Oldest(queued) \in queued
        BY <2>4, <1>0, ArpOldest
      <3>3. ASSUME NEW j \in ArpIndex
            PROVE  arpTable[j].q # "none" \/ arpTable[j].st = "STATIC"
        <4>1. arpTable[j].st \in {"EMPTY", "PENDING"} \cup ArpStable
          BY <1>0 DEF ArpEntry
        <4>2. arpTable[j].st \notin {"EMPTY", "STABLE", "REREQUESTING"}
          BY <1>4, <2>4
        <4>3. ~(arpTable[j].st = "PENDING" /\ arpTable[j].q = "none")
          BY <2>4
        <4> QED
          BY <4>1, <4>2, <4>3 DEF ArpStable
      <3>4. queued \subseteq ArpIndex
        OBVIOUS
      <3> HIDE DEF queued
      <3> QED
        BY <3>1, <3>2, <3>3, <3>4, <1>4
    <2>5. CASE stable = {} /\ pending = {} /\ queued = {}
      <3>1. F = {}
        BY <2>1, <2>5 DEF Arp!Recycled, Arp!Index, Arp!None, ArpIndex
      <3> QED
        BY <3>1
    <2> QED
      BY <2>2, <2>3, <2>4, <2>5
  <1> QED
    BY <1>1, <1>2, <1>3, <1>4

\* An entry cleared for an address, or the address's own: what etharp_find_entry leaves
\* behind is an entry whose packet, if it has one, waits for this address.
LEMMA ArpEntryFound ==
    ASSUME ArpInv, NEW ip \in ArpHosts, NEW i \in ArpIndex, i \in Arp!Of(ip) \/ Arp!Of(ip) = {}
    PROVE  /\ Arp!Entry(i, ip) \in ArpEntry
           /\ Arp!Entry(i, ip).ip = ip
           /\ Arp!Entry(i, ip).q # "none" => i \in Arp!Of(ip)
           /\ Arp!Entry(i, ip).st # "EMPTY" => i \in Arp!Of(ip)
           /\ ~Arp!Entry(i, ip).netif \/ Arp!Entry(i, ip).st \in ArpStable
           /\ i \in Arp!Of(ip) => Arp!Entry(i, ip) = arpTable[i]
           /\ i \notin Arp!Of(ip) => Arp!Entry(i, ip) = [ArpEmpty EXCEPT !.ip = ip]
           /\ ArpAlone(arpTable, i, ip)
  <1>1. /\ arpTable[i] \in ArpEntry
        /\ ArpEntryRight(arpTable[i], arpHeard)
        /\ \A k, j \in ArpIndex :
             arpTable[k].st # "EMPTY" /\ arpTable[j].st # "EMPTY" /\ arpTable[k].ip = arpTable[j].ip
             => k = j
    BY DEF ArpInv, ArpRight
  <1>2. ArpAlone(arpTable, i, ip)
    BY <1>1 DEF Arp!Of, Arp!Index, ArpIndex, ArpAlone
  <1>3. CASE i \in Arp!Of(ip)
    <2>1. Arp!Entry(i, ip) = arpTable[i]
      BY <1>3 DEF Arp!Entry
    <2>2. arpTable[i].st # "EMPTY" /\ arpTable[i].ip = ip
      BY <1>3 DEF Arp!Of
    <2>3. ~arpTable[i].netif \/ arpTable[i].st \in ArpStable
      BY <1>1, <2>2 DEF ArpEntry, ArpEntryRight
    <2> QED
      BY <1>1, <1>2, <1>3, <2>1, <2>2, <2>3
  <1>4. CASE i \notin Arp!Of(ip)
    <2>1. Arp!Entry(i, ip) = [ArpEmpty EXCEPT !.ip = ip]
      BY <1>4 DEF Arp!Entry, Arp!etharp_free_entry, Arp!Empty, Arp!None, ArpEmpty
    <2>2. 0 \in 0..(ArpMaxAge - 1)
      BY ArpConstants DEF Arp!EtharpAssumption
    <2>3. [ArpEmpty EXCEPT !.ip = ip] \in ArpEntry
      BY <2>2 DEF ArpEmpty, ArpEntry
    <2> QED
      BY <1>2, <1>4, <2>1, <2>3 DEF ArpEmpty
  <1> QED
    BY <1>3, <1>4

\* Initially nothing is in the table.
LEMMA ArpInit ==
    Arp!Init => ArpInv
  <1> SUFFICES ASSUME Arp!Init PROVE ArpInv
    OBVIOUS
  <1>1. /\ arpTable = [i \in ArpIndex |-> ArpEmpty]
        /\ arpHint = 1
        /\ arpOut = {}
        /\ arpHeard = [h \in ArpHosts |-> "none"]
    BY DEF Arp!Init, Arp!Index, Arp!Empty, Arp!None, ArpIndex, ArpEmpty
  <1>2. 0 \in 0..(ArpMaxAge - 1) /\ 1 \in ArpIndex
    BY ArpConstants DEF Arp!EtharpAssumption, ArpIndex
  <1>3. ArpEmpty \in ArpEntry
    BY <1>2 DEF ArpEmpty, ArpEntry
  <1>4. ArpRight(arpTable, arpHeard)
    BY <1>1, <1>3 DEF ArpRight, ArpEntryRight, ArpEmpty, ArpStable
  <1> QED
    BY <1>1, <1>2, <1>4 DEF ArpInv, ArpAnnounced, Arp!SentToItsHost

\* etharp_update_arp_entry: the entry of the host gets the address announced, and what
\* waited for it is sent there.
LEMMA ArpUpdate ==
    ASSUME ArpInv, NEW ip \in ArpHosts, NEW m \in ArpMacs, NEW only \in BOOLEAN,
           NEW static \in BOOLEAN, Arp!etharp_update_arp_entry(ip, m, only, static),
           arpHeard' = [arpHeard EXCEPT ![ip] = m], arpHint' = arpHint
    PROVE  ArpInv' /\ Arp!WaitingKept
  <1> DEFINE F == Arp!etharp_find_entry(ip, only, TRUE)
             e(i) == Arp!Entry(i, ip)
             n(i) == [e(i) EXCEPT !.st = IF static THEN "STATIC" ELSE "STABLE", !.netif = TRUE,
                                  !.mac = m, !.ctime = 0, !.q = "none"]
  <1>1. /\ arpTable' = [i \in ArpIndex |-> IF i \notin F THEN arpTable[i] ELSE n(i)]
        /\ arpOut' = UNION {IF e(i).q = "none" THEN {}
                            ELSE {[p |-> e(i).q, ip |-> ip, mac |-> m]} : i \in F}
    BY DEF Arp!etharp_update_arp_entry, Arp!etharp_send_ip, Arp!Index, Arp!None, ArpIndex
  <1>2. /\ ArpRight(arpTable, arpHeard) /\ arpHint \in ArpIndex /\ arpHeard \in ArpAnnounced
        /\ arpTable \in [ArpIndex -> ArpEntry]
    BY DEF ArpInv, ArpRight
  <1>3. /\ arpHeard' \in ArpAnnounced /\ arpHeard'[ip] = m
        /\ \A x \in ArpHosts : x # ip => arpHeard'[x] = arpHeard[x]
    BY <1>2 DEF ArpAnnounced
  <1>4. CASE F = {}
    <2>1. arpTable' = arpTable /\ arpOut' = {}
      BY <1>1, <1>2, <1>4
    <2>2. Arp!Of(ip) = {}
      BY <1>4 DEF Arp!etharp_find_entry
    <2>3. ASSUME NEW i \in ArpIndex
          PROVE  ArpEntryRight(arpTable[i], arpHeard')
      <3>1. ArpEntryRight(arpTable[i], arpHeard)
        BY <1>2 DEF ArpRight
      <3>2. arpTable[i].st # "EMPTY" => arpTable[i].ip # ip
        BY <2>2 DEF Arp!Of, Arp!Index, ArpIndex
      <3> QED
        BY <3>1, <3>2, <1>3 DEF ArpEntryRight, ArpStable
    <2>4. ArpRight(arpTable, arpHeard')
      BY <1>2, <2>3 DEF ArpRight
    <2>5. ArpInv'
      BY <1>2, <1>3, <2>1, <2>4 DEF ArpInv, Arp!SentToItsHost
    <2>6. Arp!WaitingKept
      BY <2>1 DEF Arp!WaitingKept
    <2> QED
      BY <2>5, <2>6
  <1>5. CASE F # {}
    <2>1. PICK i \in F : TRUE
      BY <1>5
    <2>2. /\ i \in ArpIndex /\ F = {i}
          /\ i \in Arp!Of(ip) \/ Arp!Of(ip) = {}
          /\ i \notin Arp!Of(ip) =>
               \/ arpTable[i].q = "none"
               \/ \A j \in ArpIndex : arpTable[j].q # "none" \/ arpTable[j].st = "STATIC"
      BY <2>1, ArpFound
    <2>3. /\ e(i) \in ArpEntry /\ e(i).ip = ip
          /\ i \in Arp!Of(ip) => e(i) = arpTable[i]
          /\ e(i).q # "none" => i \in Arp!Of(ip)
          /\ ArpAlone(arpTable, i, ip)
      BY <2>2, ArpEntryFound
    <2>4. 0 \in 0..(ArpMaxAge - 1)
      BY ArpConstants DEF Arp!EtharpAssumption
    <2>5. /\ n(i) \in ArpEntry /\ n(i).ip = ip /\ n(i).mac = m /\ n(i).q = "none"
          /\ n(i).st \in {"STATIC", "STABLE"}
      BY <2>3, <2>4 DEF ArpEntry, ArpStable
    <2>6. ArpEntryRight(n(i), arpHeard')
      BY <2>5, <1>3 DEF ArpEntryRight
    <2>7. arpTable' = [arpTable EXCEPT ![i] = n(i)]
      BY <1>1, <1>2, <2>2
    <2>8. arpOut' = IF e(i).q = "none" THEN {} ELSE {[p |-> e(i).q, ip |-> ip, mac |-> m]}
      BY <1>1, <2>2
    <2> HIDE DEF n, e, F
    <2>9. ArpRight(arpTable', arpHeard')
      <3>1. PICK w, g : w = n(i) /\ g = arpHeard'
        OBVIOUS
      <3>2. w \in ArpEntry /\ ArpEntryRight(w, g) /\ w.ip = ip /\ w.st # "EMPTY"
        BY <2>5, <2>6, <3>1
      <3>3. ArpAlone(arpTable, i, w.ip)
        BY <2>3, <3>2
      <3>4. g \in ArpAnnounced /\ ArpSameBut(arpHeard, g, w.ip)
        BY <1>3, <3>1, <3>2 DEF ArpSameBut
      <3>5. ArpRight([arpTable EXCEPT ![i] = w], g)
        BY <1>2, <2>2, <3>2, <3>3, <3>4, ArpSet
      <3> QED
        BY <3>1, <3>5, <2>7
    <2>10. Arp!SentToItsHost'
      BY <2>8, <1>3 DEF Arp!SentToItsHost
    <2>11. ArpInv'
      BY <1>2, <1>3, <2>9, <2>10 DEF ArpInv
    <2>12. ASSUME NEW j \in ArpIndex, arpTable[j].q # "none", arpTable'[j].q # arpTable[j].q,
                  ~(\E s \in arpOut' : s.p = arpTable[j].q)
           PROVE  \A k \in ArpIndex : arpTable[k].q # "none" \/ arpTable[k].st = "STATIC"
      <3>1. j = i
        BY <2>12, <2>7, <1>2
      <3>2. i \notin Arp!Of(ip)
        BY <3>1, <2>12, <2>8, <2>3
      <3> QED
        BY <3>1, <3>2, <2>2, <2>12
    <2>13. Arp!WaitingKept
      BY <2>12 DEF Arp!WaitingKept, Arp!Index, Arp!None, ArpIndex
    <2> QED
      BY <2>11, <2>13
  <1> QED
    BY <1>4, <1>5

\* etharp_query: the packet is sent when the address is known, and else waits for it.
LEMMA ArpQuery ==
    ASSUME ArpInv, NEW p \in ArpPackets, NEW ip \in ArpHosts, NEW copy \in BOOLEAN,
           Arp!etharp_query(p, ip, copy), arpHeard' = arpHeard
    PROVE  ArpInv' /\ Arp!WaitingKept
  <1> DEFINE F == Arp!etharp_find_entry(ip, FALSE, TRUE)
             e(i) == Arp!Entry(i, ip)
  <1>1. /\ ArpRight(arpTable, arpHeard) /\ arpHint \in ArpIndex /\ arpHeard \in ArpAnnounced
        /\ arpTable \in [ArpIndex -> ArpEntry]
    BY DEF ArpInv, ArpRight
  <1>2. p # "none"
    BY ArpConstants DEF Arp!EtharpAssumption, Arp!None
  <1>3. CASE F = {}
    <2>1. arpTable' = arpTable /\ arpHint' = arpHint /\ arpOut' = {}
      BY <1>3 DEF Arp!etharp_query
    <2> QED
      BY <2>1, <1>1 DEF ArpInv, Arp!SentToItsHost, Arp!WaitingKept
  <1>4. CASE F # {}
    <2>1. PICK i \in F :
            IF e(i).st \in ArpStable
            THEN /\ arpOut' = {[p |-> p, ip |-> ip, mac |-> e(i).mac]}
                 /\ arpHint' = i /\ arpTable' = arpTable
            ELSE /\ arpTable' = [arpTable EXCEPT ![i] = [e(i) EXCEPT !.st = "PENDING",
                                                            !.q = IF copy THEN p ELSE @]]
                 /\ arpOut' = {} /\ arpHint' = arpHint
      BY <1>4 DEF Arp!etharp_query, Arp!etharp_send_ip, Arp!Stable, ArpStable
    <2>2. /\ i \in ArpIndex
          /\ i \in Arp!Of(ip) \/ Arp!Of(ip) = {}
          /\ i \notin Arp!Of(ip) =>
               \/ arpTable[i].q = "none"
               \/ \A j \in ArpIndex : arpTable[j].q # "none" \/ arpTable[j].st = "STATIC"
      BY <2>1, ArpFound
    <2>3. /\ e(i) \in ArpEntry /\ e(i).ip = ip
          /\ e(i).st # "EMPTY" => i \in Arp!Of(ip)
          /\ i \in Arp!Of(ip) => e(i) = arpTable[i]
          /\ ~e(i).netif \/ e(i).st \in ArpStable
          /\ ArpAlone(arpTable, i, ip)
      BY <2>2, ArpEntryFound
    <2>4. CASE e(i).st \in ArpStable
      <3>1. i \in Arp!Of(ip) /\ e(i) = arpTable[i]
        BY <2>3, <2>4 DEF ArpStable
      <3>2. ArpEntryRight(arpTable[i], arpHeard)
        BY <1>1, <2>2 DEF ArpRight
      <3>3. e(i).mac = arpHeard[ip]
        BY <3>1, <3>2, <2>3, <2>4 DEF ArpEntryRight
      <3>4. /\ arpOut' = {[p |-> p, ip |-> ip, mac |-> e(i).mac]}
            /\ arpHint' = i /\ arpTable' = arpTable
        BY <2>1, <2>4
      <3> HIDE DEF e
      <3>5. Arp!SentToItsHost'
        BY <3>3, <3>4 DEF Arp!SentToItsHost
      <3>6. ArpInv'
        BY <3>4, <3>5, <1>1, <2>2 DEF ArpInv
      <3>7. Arp!WaitingKept
        BY <3>4 DEF Arp!WaitingKept
      <3> QED
        BY <3>6, <3>7
    <2>5. CASE e(i).st \notin ArpStable
      <3> DEFINE n == [e(i) EXCEPT !.st = "PENDING", !.q = IF copy THEN p ELSE @]
      <3>1. arpTable' = [arpTable EXCEPT ![i] = n] /\ arpOut' = {} /\ arpHint' = arpHint
        BY <2>1, <2>5
      <3>2. /\ n \in ArpEntry /\ n.st = "PENDING" /\ n.ip = ip /\ n.netif = e(i).netif
            /\ n.q = IF copy THEN p ELSE e(i).q
        BY <2>3 DEF ArpEntry
      <3>3. ArpEntryRight(n, arpHeard)
        BY <3>2, <2>3, <2>5 DEF ArpEntryRight, ArpStable
      <3> HIDE DEF n, e, F
      <3>4. ArpRight(arpTable', arpHeard)
        <4>1. ArpAlone(arpTable, i, n.ip) /\ ArpSameBut(arpHeard, arpHeard, n.ip)
          BY <2>3, <3>2 DEF ArpSameBut
        <4>2. ArpRight([arpTable EXCEPT ![i] = n], arpHeard)
          BY <1>1, <2>2, <3>2, <3>3, <4>1, ArpSet
        <4> QED
          BY <4>2, <3>1
      <3>5. ArpInv'
        BY <1>1, <3>1, <3>4 DEF ArpInv, Arp!SentToItsHost
      <3>6. ASSUME NEW j \in ArpIndex, arpTable[j].q # "none", arpTable'[j].q # arpTable[j].q
            PROVE  \/ arpTable'[j].q # "none" /\ arpTable'[j].ip = arpTable[j].ip
                   \/ \A k \in ArpIndex : arpTable[k].q # "none" \/ arpTable[k].st = "STATIC"
        <4>1. j = i /\ arpTable'[i] = n
          BY <3>6, <3>1, <1>1
        <4>2. CASE i \in Arp!Of(ip)
          BY <4>1, <4>2, <3>2, <3>6, <2>3, <1>2
        <4>3. CASE i \notin Arp!Of(ip)
          BY <4>1, <4>3, <2>2, <3>6
        <4> QED
          BY <4>2, <4>3
      <3>7. Arp!WaitingKept
        BY <3>6 DEF Arp!WaitingKept, Arp!Index, Arp!None, ArpIndex
      <3> QED
        BY <3>5, <3>7
    <2> QED
      BY <2>4, <2>5
  <1> QED
    BY <1>3, <1>4

\* etharp_output_to_arp_index: sent by a stable entry, which may be requested again.
LEMMA ArpSend ==
    ASSUME ArpInv, NEW p \in ArpPackets, NEW ip \in ArpHosts, NEW alloc \in BOOLEAN,
           NEW i \in ArpIndex, arpTable[i].st \in ArpStable, arpTable[i].ip = ip,
           Arp!etharp_output_to_arp_index(i, p, ip, alloc),
           arpHint' \in ArpIndex, arpHeard' = arpHeard
    PROVE  ArpInv' /\ Arp!WaitingKept
  <1> DEFINE st == IF arpTable[i].st = "STABLE" /\ arpTable[i].ctime >= ArpRerequest /\ alloc
                   THEN "REREQUESTING" ELSE arpTable[i].st
  <1>1. /\ ArpRight(arpTable, arpHeard) /\ arpHeard \in ArpAnnounced
        /\ arpTable \in [ArpIndex -> ArpEntry]
        /\ ArpEntryRight(arpTable[i], arpHeard)
    BY DEF ArpInv, ArpRight
  <1>2. /\ arpOut' = {[p |-> p, ip |-> ip, mac |-> arpTable[i].mac]}
        /\ arpTable' = [arpTable EXCEPT ![i].st = st]
    BY DEF Arp!etharp_output_to_arp_index, Arp!etharp_send_ip, Arp!etharp_request
  <1>3. st \in ArpStable
    BY DEF ArpStable
  <1> HIDE DEF st
  <1>4. /\ arpTable' \in [ArpIndex -> ArpEntry]
        /\ \A k \in ArpIndex :
             /\ \/ arpTable'[k].st = arpTable[k].st
                \/ {arpTable[k].st, arpTable'[k].st} \subseteq ArpStable
             /\ arpTable'[k].ip = arpTable[k].ip /\ arpTable'[k].mac = arpTable[k].mac
             /\ arpTable'[k].q = arpTable[k].q /\ arpTable'[k].netif = arpTable[k].netif
    BY <1>1, <1>2, <1>3 DEF ArpEntry
  <1>5. ArpRight(arpTable', arpHeard)
    BY <1>1, <1>4, ArpAge
  <1>6. arpTable[i].mac = arpHeard[ip]
    BY <1>1 DEF ArpEntryRight
  <1>7. Arp!SentToItsHost'
    BY <1>2, <1>6 DEF Arp!SentToItsHost
  <1>8. Arp!WaitingKept
    BY <1>4 DEF Arp!WaitingKept, Arp!Index, ArpIndex
  <1> QED
    BY <1>1, <1>5, <1>7, <1>8 DEF ArpInv

\* etharp_output: to the cached entry, to one that is found, or by a query.
LEMMA ArpOutput ==
    ASSUME ArpInv, Arp!Output
    PROVE  ArpInv' /\ Arp!WaitingKept
  <1>1. PICK p \in ArpPackets, dst \in ArpHosts \cup {"far", "broadcast", "multicast"},
             alloc \in BOOLEAN, copy \in BOOLEAN :
          /\ arpHeard' = arpHeard
          /\ IF dst \in {"broadcast", "multicast"}
             THEN /\ arpOut' = {[p |-> p, ip |-> dst, mac |-> dst]}
                  /\ arpTable' = arpTable /\ arpHint' = arpHint
             ELSE Arp!OutputUnicast(p, IF dst = "far" THEN ArpGateway ELSE dst, alloc, copy)
    BY DEF Arp!Output, Arp!etharp_output, Arp!Memory, Arp!etharp_send_ip
  <1>2. ArpRight(arpTable, arpHeard) /\ arpHint \in ArpIndex /\ arpHeard \in ArpAnnounced
    BY DEF ArpInv
  <1>3. CASE dst \in {"broadcast", "multicast"}
    <2>1. dst \notin ArpHosts
      BY <1>3, ArpConstants DEF Arp!EtharpAssumption
    <2>2. /\ arpOut' = {[p |-> p, ip |-> dst, mac |-> dst]}
          /\ arpTable' = arpTable /\ arpHint' = arpHint
      BY <1>1, <1>3
    <2>3. Arp!SentToItsHost'
      BY <2>1, <2>2 DEF Arp!SentToItsHost
    <2>4. Arp!WaitingKept
      BY <2>2 DEF Arp!WaitingKept
    <2> QED
      BY <1>1, <1>2, <2>2, <2>3, <2>4 DEF ArpInv
  <1>4. CASE dst \notin {"broadcast", "multicast"}
    <2> DEFINE ip == IF dst = "far" THEN ArpGateway ELSE dst
               known == {i \in Arp!Of(ip) : arpTable[i].st \in ArpStable}
    <2>1. ip \in ArpHosts
      BY <1>4, ArpConstants DEF Arp!EtharpAssumption
    <2>2. Arp!OutputUnicast(p, ip, alloc, copy)
      BY <1>1, <1>4
    <2> HIDE DEF ip
    <2>3. CASE arpTable[arpHint].st \in ArpStable /\ arpTable[arpHint].ip = ip
      <3>1. Arp!etharp_output_to_arp_index(arpHint, p, ip, alloc) /\ arpHint' = arpHint
        BY <2>2, <2>3 DEF Arp!OutputUnicast, Arp!Stable, ArpStable
      <3> QED
        BY <1>1, <1>2, <2>1, <2>3, <3>1, ArpSend
    <2>4. CASE ~(arpTable[arpHint].st \in ArpStable /\ arpTable[arpHint].ip = ip) /\ known # {}
      <3>1. PICK i \in known : Arp!etharp_output_to_arp_index(i, p, ip, alloc) /\ arpHint' = i
        BY <2>2, <2>4 DEF Arp!OutputUnicast, Arp!Stable, ArpStable
      <3>2. i \in ArpIndex /\ arpTable[i].st \in ArpStable /\ arpTable[i].ip = ip
        BY DEF Arp!Of, Arp!Index, ArpIndex
      <3> QED
        BY <1>1, <2>1, <3>1, <3>2, ArpSend
    <2>5. CASE ~(arpTable[arpHint].st \in ArpStable /\ arpTable[arpHint].ip = ip) /\ known = {}
      <3>1. Arp!etharp_query(p, ip, copy)
        BY <2>2, <2>5 DEF Arp!OutputUnicast, Arp!Stable, ArpStable
      <3> QED
        BY <1>1, <2>1, <3>1, ArpQuery
    <2> QED
      BY <2>3, <2>4, <2>5
  <1> QED
    BY <1>3, <1>4

\* etharp_tmr: a pending entry is freed when its requests are over.
LEMMA ArpTimer ==
    ASSUME ArpInv, Arp!etharp_tmr
    PROVE  ArpInv' /\ Arp!WaitingKept
  <1>1. /\ arpTable' = [i \in ArpIndex |-> Arp!Aged(arpTable[i])]
        /\ arpOut' = {} /\ arpHint' = arpHint /\ arpHeard' = arpHeard
    BY DEF Arp!etharp_tmr, Arp!Index, ArpIndex
  <1>2. /\ ArpRight(arpTable, arpHeard) /\ arpHint \in ArpIndex /\ arpHeard \in ArpAnnounced
        /\ arpTable \in [ArpIndex -> ArpEntry]
    BY DEF ArpInv, ArpRight
  <1>3. /\ ArpMaxAge \in Nat \ {0} /\ ArpMaxPending \in Nat /\ ArpMaxPending < ArpMaxAge
    BY ArpConstants DEF Arp!EtharpAssumption
  <1>4. ASSUME NEW e \in ArpEntry
        PROVE  /\ Arp!Aged(e) \in ArpEntry
               /\ \/ Arp!Aged(e) = ArpEmpty
                  \/ /\ Arp!Aged(e).st = e.st \/ {e.st, Arp!Aged(e).st} \subseteq ArpStable
                     /\ Arp!Aged(e).ip = e.ip /\ Arp!Aged(e).mac = e.mac
                     /\ Arp!Aged(e).q = e.q /\ Arp!Aged(e).netif = e.netif
               /\ e.st = "PENDING" /\ Arp!Aged(e).q # e.q =>
                    Arp!Aged(e) = ArpEmpty /\ e.ctime + 1 >= ArpMaxPending
    <2>1. CASE e.st \in {"EMPTY", "STATIC"}
      <3>1. Arp!Aged(e) = e
        BY <2>1 DEF Arp!Aged
      <3> QED
        BY <2>1, <3>1
    <2>2. CASE /\ e.st \notin {"EMPTY", "STATIC"}
               /\ e.ctime + 1 >= ArpMaxAge \/ (e.st = "PENDING" /\ e.ctime + 1 >= ArpMaxPending)
      <3>1. Arp!Aged(e) = ArpEmpty
        BY <2>2 DEF Arp!Aged, Arp!etharp_free_entry, Arp!Empty, Arp!None, ArpEmpty
      <3>2. ArpEmpty \in ArpEntry
        BY <1>3 DEF ArpEmpty, ArpEntry
      <3>3. e.ctime \in Nat
        BY DEF ArpEntry
      <3> QED
        BY <1>3, <2>2, <3>1, <3>2, <3>3
    <2>3. CASE /\ e.st \notin {"EMPTY", "STATIC"}
               /\ ~(e.ctime + 1 >= ArpMaxAge \/ (e.st = "PENDING" /\ e.ctime + 1 >= ArpMaxPending))
      <3>1. Arp!Aged(e) = [e EXCEPT !.ctime = e.ctime + 1,
                                    !.st = IF @ = "REREQUESTING" THEN "STABLE" ELSE @]
        BY <2>3 DEF Arp!Aged
      <3>2. e.ctime + 1 \in 0..(ArpMaxAge - 1)
        BY <1>3, <2>3 DEF ArpEntry
      <3> QED
        BY <3>1, <3>2 DEF ArpEntry, ArpStable
    <2> QED
      BY <2>1, <2>2, <2>3
  <1>5. ASSUME NEW i \in ArpIndex
        PROVE  arpTable[i] \in ArpEntry /\ arpTable'[i] = Arp!Aged(arpTable[i])
    BY <1>1, <1>2
  <1>6. arpTable' \in [ArpIndex -> ArpEntry]
    BY <1>1, <1>4, <1>5
  <1>7. ArpRight(arpTable', arpHeard)
    BY <1>2, <1>4, <1>5, <1>6, ArpAge
  <1>8. ArpInv'
    BY <1>1, <1>2, <1>7 DEF ArpInv, Arp!SentToItsHost
  <1>9. ASSUME NEW i \in ArpIndex, arpTable[i].q # "none", arpTable'[i].q # arpTable[i].q
        PROVE  arpTable[i].ctime + 1 >= ArpMaxPending /\ arpTable'[i] = ArpEmpty
    <2>1. arpTable[i].st = "PENDING"
      BY <1>2, <1>9 DEF ArpRight, ArpEntryRight
    <2> QED
      BY <1>4, <1>5, <1>9, <2>1
  <1>10. Arp!WaitingKept
    BY <1>9 DEF Arp!WaitingKept, Arp!Index, Arp!None, Arp!Empty, ArpIndex, ArpEmpty
  <1> QED
    BY <1>8, <1>10

\* Entries in which no packet waits are cleared (etharp_cleanup_netif and
\* etharp_remove_static_entry).
LEMMA ArpClear ==
    ASSUME ArpInv, NEW F, \A i \in F \cap ArpIndex : arpTable[i].q = "none",
           arpTable' = [i \in ArpIndex |-> IF i \in F THEN ArpEmpty ELSE arpTable[i]],
           arpOut' = {}, arpHint' = arpHint, arpHeard' = arpHeard
    PROVE  ArpInv' /\ Arp!WaitingKept
  <1>1. /\ ArpRight(arpTable, arpHeard) /\ arpHint \in ArpIndex /\ arpHeard \in ArpAnnounced
        /\ arpTable \in [ArpIndex -> ArpEntry]
    BY DEF ArpInv, ArpRight
  <1>2. 0 \in 0..(ArpMaxAge - 1)
    BY ArpConstants DEF Arp!EtharpAssumption
  <1>3. ArpEmpty \in ArpEntry
    BY <1>2 DEF ArpEmpty, ArpEntry
  <1>4. /\ arpTable' \in [ArpIndex -> ArpEntry]
        /\ \A i \in ArpIndex : arpTable'[i] = ArpEmpty \/ arpTable'[i] = arpTable[i]
        /\ \A i \in ArpIndex : arpTable[i].q # "none" => arpTable'[i].q = arpTable[i].q
    BY <1>1, <1>3
  <1>5. ArpRight(arpTable', arpHeard)
    BY <1>1, <1>4, ArpAge
  <1>6. Arp!WaitingKept
    BY <1>4 DEF Arp!WaitingKept, Arp!Index, Arp!None, ArpIndex
  <1> QED
    BY <1>1, <1>5, <1>6 DEF ArpInv, Arp!SentToItsHost

\* Every step keeps the table right and gives up no packet that could be kept.
LEMMA ArpNext ==
    ASSUME ArpInv, [Arp!Next]_(Arp!vars)
    PROVE  ArpInv' /\ Arp!WaitingKept
  <1>0. ArpRight(arpTable, arpHeard)
    BY DEF ArpInv
  <1>1. CASE Arp!etharp_tmr
    BY <1>1, ArpTimer
  <1>2. CASE Arp!etharp_cleanup_netif
    <2> DEFINE F == {i \in ArpIndex : arpTable[i].st # "EMPTY" /\ arpTable[i].netif}
    <2>1. /\ arpTable' = [i \in ArpIndex |-> IF i \in F THEN ArpEmpty ELSE arpTable[i]]
          /\ arpOut' = {} /\ arpHint' = arpHint /\ arpHeard' = arpHeard
      BY <1>2 DEF Arp!etharp_cleanup_netif, Arp!etharp_free_entry, Arp!Empty, Arp!None, Arp!Index,
                  ArpIndex, ArpEmpty
    <2>2. \A i \in F \cap ArpIndex : arpTable[i].q = "none"
      BY <1>0 DEF ArpRight, ArpEntryRight
    <2> HIDE DEF F
    <2> QED
      BY <2>1, <2>2, ArpClear
  <1>3. CASE Arp!Static
    <2>1. PICK ip \in ArpHosts : \/ \E m \in ArpMacs : Arp!etharp_add_static_entry(ip, m)
                                 \/ Arp!etharp_remove_static_entry(ip)
      BY <1>3 DEF Arp!Static
    <2>2. CASE \E m \in ArpMacs : Arp!etharp_add_static_entry(ip, m)
      BY <2>2, ArpUpdate DEF Arp!etharp_add_static_entry
    <2>3. CASE Arp!etharp_remove_static_entry(ip)
      <3> DEFINE F == {i \in Arp!etharp_find_entry(ip, TRUE, FALSE) : arpTable[i].st = "STATIC"}
      <3>1. /\ arpTable' = [i \in ArpIndex |-> IF i \in F THEN ArpEmpty ELSE arpTable[i]]
            /\ arpOut' = {} /\ arpHint' = arpHint /\ arpHeard' = arpHeard
        BY <2>3 DEF Arp!etharp_remove_static_entry, Arp!etharp_free_entry, Arp!Empty, Arp!None,
                    Arp!Index, ArpIndex, ArpEmpty
      <3>2. \A i \in F \cap ArpIndex : arpTable[i].q = "none"
        BY <1>0 DEF ArpRight, ArpEntryRight
      <3> HIDE DEF F
      <3> QED
        BY <3>1, <3>2, ArpClear
    <2> QED
      BY <2>1, <2>2, <2>3
  <1>4. CASE Arp!Output
    BY <1>4, ArpOutput
  <1>5. CASE Arp!ethernet_input
    <2>1. PICK ip \in ArpHosts, m \in ArpMacs :
            \/ \E for_us \in BOOLEAN : Arp!etharp_arp_input(ip, m, for_us)
            \/ Arp!etharp_ip_input(ip, m)
      BY <1>5 DEF Arp!ethernet_input
    <2>2. CASE Arp!etharp_ip_input(ip, m)
      BY <2>2, ArpUpdate DEF Arp!etharp_ip_input
    <2>3. ASSUME NEW for_us \in BOOLEAN, Arp!etharp_arp_input(ip, m, for_us)
          PROVE  ArpInv' /\ Arp!WaitingKept
      <3>1. (~for_us) \in BOOLEAN
        OBVIOUS
      <3> QED
        BY <2>3, <3>1, ArpUpdate DEF Arp!etharp_arp_input
    <2> QED
      BY <2>1, <2>2, <2>3
  <1>6. CASE UNCHANGED Arp!vars
    <2>1. /\ arpTable' = arpTable /\ arpHint' = arpHint /\ arpOut' = arpOut
          /\ arpHeard' = arpHeard
      BY <1>6 DEF Arp!vars
    <2> QED
      BY <2>1 DEF ArpInv, Arp!SentToItsHost, Arp!WaitingKept
  <1> QED
    BY <1>1, <1>2, <1>3, <1>4, <1>5, <1>6 DEF Arp!Next

\* What the run checks follows from the invariant.
LEMMA ArpImplies ==
    ArpInv => Arp!TypeOK /\ Arp!SentToItsHost /\ Arp!Consistent
  <1> SUFFICES ASSUME ArpInv PROVE Arp!TypeOK /\ Arp!SentToItsHost /\ Arp!Consistent
    OBVIOUS
  <1>1. /\ arpTable \in [ArpIndex -> ArpEntry] /\ arpHint \in ArpIndex
        /\ \A i \in ArpIndex : ArpEntryRight(arpTable[i], arpHeard)
        /\ \A i, j \in ArpIndex : arpTable[i].st # "EMPTY" /\ arpTable[j].st # "EMPTY"
                                  /\ arpTable[i].ip = arpTable[j].ip => i = j
    BY DEF ArpInv, ArpRight
  <1>2. Arp!TypeOK
    BY <1>1 DEF Arp!TypeOK, Arp!Index, Arp!Stable, Arp!None, ArpIndex, ArpEntry, ArpStable,
                ArpEntryRight
  <1>3. Arp!Consistent
    BY <1>1 DEF Arp!Consistent, Arp!Of, Arp!Index, Arp!Stable, ArpIndex, ArpStable, ArpEntryRight
  <1> QED
    BY <1>2, <1>3 DEF ArpInv

-----------------------------------------------------------------------------
(***************************************************************************)
(* TcpPcbs.  Two instances, so everything is stated of app, last, addrs    *)
(* and prios.  A block is in the list of its state, no two blocks that     *)
(* applications bound can get the same connection, and in a server that    *)
(* binds to any address all connections have the interface's.  The one     *)
(* that binds to the interface's address has one address for ever:         *)
(* netif_set_ipaddr takes listeners to the new address but leaves what is  *)
(* only bound, so the two could meet there.                                *)
(***************************************************************************)

PcbBlock == 1..PcbBlocks

PcbStates == {"FREE", "CLOSED", "LISTEN", "ACTIVE", "TIME_WAIT"}
PcbNames == {"listen", "bound", "active", "tw"}
PcbEntry(addrs) == [state : PcbStates, ip : addrs \cup {0}, port : PcbPorts \cup Nat, prio : Nat,
                    tmr : Nat]
PcbLists == [listen : Seq(PcbBlock), bound : Seq(PcbBlock), active : Seq(PcbBlock),
             tw : Seq(PcbBlock)]

PcbTypes(last, addrs) ==
    /\ pcbTable \in [PcbBlock -> PcbEntry(addrs)]
    /\ \A i \in PcbBlock : pcbTable[i].tmr <= pcbClock
    /\ pcbLists \in PcbLists
    /\ pcbPort \in PcbFirst..last
    /\ pcbClock \in Nat
    /\ pcbAddr \in addrs

\* The time since the last segment of the block i.
PcbIdle(i) == pcbClock - pcbTable[i].tmr

\* TCP_RMV: what is left of a list when the blocks in S are taken out.
LEMMA PcbWithout ==
    ASSUME NEW app, NEW last, NEW addrs, NEW prios,
           NEW s \in Seq(PcbBlock), Distinct(s), NEW S
    PROVE  LET r == Pcbs(app, last, addrs, prios)!Without(s, S)
           IN  /\ r \in Seq(PcbBlock)
               /\ Distinct(r)
               /\ ToSet(r) = ToSet(s) \ S
  <1> DEFINE n == Len(s)
             V == Seq(PcbBlock)
             F == CHOOSE f : f = [k \in 0..n |-> IF k = 0 THEN <<>>
                                  ELSE IF s[k] \in S THEN f[k - 1] ELSE Append(f[k - 1], s[k])]
             step == [k \in 1..n |-> [r \in V |-> IF s[k] \in S THEN r ELSE Append(r, s[k])]]
  <1>1. Pcbs(app, last, addrs, prios)!Without(s, S) = F[n]
    BY DEF Pcbs!Without
  <1>2. F[0] = <<>>
        /\ \A k \in 1..n : F[k] = IF s[k] \in S THEN F[k - 1] ELSE Append(F[k - 1], s[k])
    <2>1. n \in Nat /\ <<>> \in V /\ \A k \in 1..n : s[k] \in PcbBlock
      OBVIOUS
    <2>2. \A k \in 1..n, r \in V : (IF s[k] \in S THEN r ELSE Append(r, s[k])) \in V
      BY <2>1
    <2>3. step \in [1..n -> [V -> V]]
      BY <2>2
    <2> HIDE DEF step, V, n
    <2>4. PICK g : Steps(g, V, <<>>, n, step)
      BY <2>1, <2>3, Stepwise
    <2>5. ASSUME NEW k \in 0..n
          PROVE  g[k] = IF k = 0 THEN <<>>
                        ELSE IF s[k] \in S THEN g[k - 1] ELSE Append(g[k - 1], s[k])
      <3>1. CASE k = 0
        BY <3>1, <2>4 DEF Steps
      <3>2. CASE k # 0
        <4>1. k \in 1..n /\ k - 1 \in 0..n
          BY <3>2, <2>1
        <4>2. g[k - 1] \in V /\ g[k] = step[k][g[k - 1]]
          BY <4>1, <2>4 DEF Steps
        <4> QED
          BY <4>1, <4>2, <3>2 DEF step
      <3> QED
        BY <3>1, <3>2
    <2>6. g = [k \in 0..n |-> IF k = 0 THEN <<>>
                              ELSE IF s[k] \in S THEN g[k - 1] ELSE Append(g[k - 1], s[k])]
      BY <2>4, <2>5 DEF Steps
    <2>7. F = [k \in 0..n |-> IF k = 0 THEN <<>>
                              ELSE IF s[k] \in S THEN F[k - 1] ELSE Append(F[k - 1], s[k])]
      BY <2>6, Zenon
    <2> HIDE DEF F
    <2>8. 0 \in 0..n /\ \A k \in 1..n : k \in 0..n /\ k # 0
      BY <2>1
    <2> QED
      BY <2>8, <2>7, Zenon
  <1> HIDE DEF F
  <1> DEFINE Right(k) == /\ F[k] \in Seq(PcbBlock)
                         /\ Distinct(F[k])
                         /\ ToSet(F[k]) = {s[j] : j \in 1..k} \ S
  <1>3. n \in Nat /\ DOMAIN s = 1..n /\ \A k \in 1..n : s[k] \in PcbBlock
    OBVIOUS
  <1>4. Right(0)
    <2>1. <<>> \in Seq(PcbBlock) /\ Distinct(<<>>) /\ ToSet(<<>>) = {} /\ 1..0 = {}
      BY DEF Distinct, ToSet
    <2> QED
      BY <2>1, <1>2
  <1>5. ASSUME NEW k \in 1..n, Right(k - 1) PROVE Right(k)
    <2>1. {s[j] : j \in 1..k} = {s[j] : j \in 1..(k - 1)} \cup {s[k]}
      <3>1. \A j : j \in 1..k <=> j \in 1..(k - 1) \/ j = k
        BY <1>3
      <3> QED
        BY <3>1
    <2>2. s[k] \notin {s[j] : j \in 1..(k - 1)}
      BY <1>3 DEF Distinct
    <2>3. CASE s[k] \in S
      <3>1. F[k] = F[k - 1]
        BY <1>2, <2>3
      <3> QED
        BY <3>1, <2>1, <2>3, <1>5
    <2>4. CASE s[k] \notin S
      <3>1. F[k] = Append(F[k - 1], s[k])
        BY <1>2, <2>4
      <3>2. /\ F[k] \in Seq(PcbBlock)
            /\ ToSet(F[k]) = ToSet(F[k - 1]) \cup {s[k]}
            /\ Distinct(F[k])
        BY <3>1, <1>3, <1>5, <2>2, AppendElements
      <3> QED
        BY <3>2, <2>1, <2>4, <1>5
    <2> QED
      BY <2>3, <2>4
  <1> DEFINE G == {k \in 0..n : Right(k)}
  <1>6. G = 0..n
    <2>1. 0 \in G /\ \A k \in 1..n : k - 1 \in G => k \in G
      <3> HIDE DEF Right
      <3> QED
        BY <1>3, <1>4, <1>5
    <2>2. G \in SUBSET (0..n)
      OBVIOUS
    <2> HIDE DEF G
    <2> QED
      BY <2>1, <2>2, <1>3, CountUp
  <1>7. Right(n)
    <2> HIDE DEF Right
    <2> QED
      BY <1>3, <1>6
  <1>8. {s[j] : j \in 1..n} = ToSet(s)
    BY <1>3 DEF ToSet
  <1> QED
    BY <1>1, <1>7, <1>8

\* tcp_kill_timewait finds a block that waits for at least as long as all others, if there is one.
LEMMA PcbTimewait ==
    ASSUME NEW app, NEW last, NEW addrs, NEW prios, PcbTypes(last, addrs)
    PROVE  LET b == Pcbs(app, last, addrs, prios)!tcp_kill_timewait
           IN  IF pcbLists.tw = <<>> THEN b = 0
               ELSE /\ b \in ToSet(pcbLists.tw)
                    /\ \A i \in ToSet(pcbLists.tw) : PcbIdle(i) <= PcbIdle(b)
  <1> DEFINE s == pcbLists.tw
             n == Len(s)
             V == PcbBlock \cup {0}
             Better(i, b) == b = 0 \/ PcbIdle(i) >= PcbIdle(b)
             F == CHOOSE f : f = [k \in 0..n |-> IF k = 0 THEN 0
                                  ELSE IF Better(s[k], f[k - 1]) THEN s[k] ELSE f[k - 1]]
             step == [k \in 1..n |-> [b \in V |-> IF Better(s[k], b) THEN s[k] ELSE b]]
  <1>1. Pcbs(app, last, addrs, prios)!tcp_kill_timewait = F[n]
    BY DEF Pcbs!tcp_kill_timewait, Pcbs!Scan, Pcbs!Idle, PcbIdle
  <1>2. /\ n \in Nat /\ 0 \in V /\ DOMAIN s = 1..n /\ \A k \in 1..n : s[k] \in PcbBlock
        /\ \A k \in 1..n : k \in 0..n /\ k - 1 \in 0..n /\ k # 0
        /\ \A k \in 0..n : k = 0 \/ k \in 1..n
    BY DEF PcbTypes, PcbLists
  <1>3. F[0] = 0 /\ \A k \in 1..n : F[k] = IF Better(s[k], F[k - 1]) THEN s[k] ELSE F[k - 1]
    <2>1. step \in [1..n -> [V -> V]]
      <3> HIDE DEF Better, s, n
      <3> QED
        BY <1>2
    <2> HIDE DEF step, V, n, Better, s
    <2>2. PICK g : Steps(g, V, 0, n, step)
      BY <1>2, <2>1, Stepwise
    <2>3. ASSUME NEW k \in 0..n
          PROVE  g[k] = IF k = 0 THEN 0 ELSE IF Better(s[k], g[k - 1]) THEN s[k] ELSE g[k - 1]
      <3>1. CASE k = 0
        BY <3>1, <2>2 DEF Steps
      <3>2. CASE k \in 1..n
        <4>1. g[k - 1] \in V /\ g[k] = step[k][g[k - 1]]
          BY <1>2, <3>2, <2>2 DEF Steps
        <4> QED
          BY <4>1, <3>2, <1>2 DEF step
      <3> QED
        BY <3>1, <3>2, <1>2
    <2>4. g = [k \in 0..n |-> IF k = 0 THEN 0
                              ELSE IF Better(s[k], g[k - 1]) THEN s[k] ELSE g[k - 1]]
      BY <2>2, <2>3 DEF Steps
    <2>5. F = [k \in 0..n |-> IF k = 0 THEN 0
                              ELSE IF Better(s[k], F[k - 1]) THEN s[k] ELSE F[k - 1]]
      BY <2>4, Zenon
    <2> HIDE DEF F
    <2>6. 0 \in 0..n
      BY <1>2
    <2> QED
      BY <1>2, <2>5, <2>6, Zenon
  <1> HIDE DEF F
  <1> DEFINE Right(k) == IF k = 0 THEN F[k] = 0
                         ELSE /\ \E m \in 1..k : F[k] = s[m]
                              /\ \A m \in 1..k : PcbIdle(s[m]) <= PcbIdle(F[k])
  <1> HIDE DEF s, n
  <1>a. \A i \in PcbBlock : PcbIdle(i) \in Int
    BY DEF PcbTypes, PcbEntry, PcbIdle
  <1> HIDE DEF PcbIdle

  <1>4. Right(0)
    BY <1>3
  <1>5. ASSUME NEW k \in 1..n, Right(k - 1) PROVE Right(k)
    <2>1. \A m : m \in 1..k <=> m \in 1..(k - 1) \/ m = k
      BY <1>2
    <2>2. \A m \in 1..k : m \in 1..n
      BY <1>2
    <2>3. CASE k = 1
      <3>1. F[k] = s[k]
        BY <1>3, <1>5, <2>3
      <3> QED
        BY <3>1, <2>3, <1>2, <1>a
    <2>4. CASE k # 1
      <3>1. k - 1 # 0
        BY <2>4
      <3>2. PICK m \in 1..(k - 1) : F[k - 1] = s[m]
        BY <3>1, <1>5
      <3>3. F[k - 1] \in PcbBlock /\ s[k] \in PcbBlock /\ F[k - 1] # 0
            /\ \A j \in 1..k : s[j] \in PcbBlock
        <4>1. m \in 1..n /\ \A i \in PcbBlock : i # 0
          BY <3>2, <2>1, <2>2 DEF PcbBlock
        <4> QED
          BY <4>1, <3>2, <1>2, <2>2
      <3>4. \A j \in 1..(k - 1) : PcbIdle(s[j]) <= PcbIdle(F[k - 1])
        BY <3>1, <1>5
      <3>5. CASE PcbIdle(s[k]) >= PcbIdle(F[k - 1])
        <4>1. F[k] = s[k]
          BY <1>3, <3>5
        <4>2. \A j \in 1..k : PcbIdle(s[j]) <= PcbIdle(F[k])
          BY <4>1, <3>3, <3>4, <3>5, <2>1, <1>a
        <4> QED
          BY <4>1, <4>2, <1>2
      <3>6. CASE ~(PcbIdle(s[k]) >= PcbIdle(F[k - 1]))
        <4>1. F[k] = F[k - 1]
          BY <1>3, <3>3, <3>6
        <4>2. \A j \in 1..k : PcbIdle(s[j]) <= PcbIdle(F[k])
          BY <4>1, <3>3, <3>4, <3>6, <2>1, <1>a
        <4> QED
          BY <4>1, <4>2, <3>2, <2>1, <1>2
      <3> QED
        BY <3>5, <3>6
    <2> QED
      BY <2>3, <2>4
  <1> DEFINE G == {k \in 0..n : Right(k)}
  <1>6. Right(n)
    <2> HIDE DEF Right
    <2>1. 0 \in G /\ \A k \in 1..n : k - 1 \in G => k \in G
      BY <1>2, <1>4, <1>5
    <2>2. G \in SUBSET (0..n)
      OBVIOUS
    <2>3. G = 0..n
      <3> HIDE DEF G
      <3> QED
        BY <2>1, <2>2, <1>2, CountUp
    <2> QED
      BY <2>3, <1>2
  <1>7. ToSet(s) = {s[k] : k \in 1..n}
    BY <1>2 DEF ToSet
  <1>8. s = <<>> <=> n = 0
    BY DEF PcbTypes, PcbLists, s, n
  <1> QED
    BY <1>1, <1>6, <1>7, <1>8, <1>2 DEF s

\* tcp_kill_prio finds a block of no higher priority that has been idle for at least as long as all
\* others of its priority or a lower one, and none only when all have a higher priority.
LEMMA PcbLowest ==
    ASSUME NEW app, NEW last, NEW addrs, NEW prios, PcbTypes(last, addrs),
           NEW prio \in Nat
    PROVE  LET b == Pcbs(app, last, addrs, prios)!tcp_kill_prio(prio)
           IN  IF b = 0 THEN \A i \in ToSet(pcbLists.active) : pcbTable[i].prio > prio
               ELSE /\ b \in ToSet(pcbLists.active)
                    /\ pcbTable[b].prio <= prio
                    /\ \A i \in ToSet(pcbLists.active) :
                          pcbTable[i].prio <= pcbTable[b].prio => PcbIdle(i) <= PcbIdle(b)
  <1> DEFINE s == pcbLists.active
             n == Len(s)
             V == PcbBlock \cup {0}
             Better(i, b) == /\ pcbTable[i].prio <= prio
                             /\ b # 0 => /\ pcbTable[i].prio <= pcbTable[b].prio
                                         /\ PcbIdle(i) >= PcbIdle(b)
             F == CHOOSE f : f = [k \in 0..n |-> IF k = 0 THEN 0
                                  ELSE IF Better(s[k], f[k - 1]) THEN s[k] ELSE f[k - 1]]
             step == [k \in 1..n |-> [b \in V |-> IF Better(s[k], b) THEN s[k] ELSE b]]
  <1>1. Pcbs(app, last, addrs, prios)!tcp_kill_prio(prio) = F[n]
    BY DEF Pcbs!tcp_kill_prio, Pcbs!Scan, Pcbs!Idle, PcbIdle
  <1>2. /\ n \in Nat /\ 0 \in V /\ DOMAIN s = 1..n /\ \A k \in 1..n : s[k] \in PcbBlock
        /\ \A k \in 1..n : k \in 0..n /\ k - 1 \in 0..n /\ k # 0
        /\ \A k \in 0..n : k = 0 \/ k \in 1..n
    BY DEF PcbTypes, PcbLists
  <1>3. F[0] = 0 /\ \A k \in 1..n : F[k] = IF Better(s[k], F[k - 1]) THEN s[k] ELSE F[k - 1]
    <2>1. step \in [1..n -> [V -> V]]
      <3> HIDE DEF Better, s, n
      <3> QED
        BY <1>2
    <2> HIDE DEF step, V, n, Better, s
    <2>2. PICK g : Steps(g, V, 0, n, step)
      BY <1>2, <2>1, Stepwise
    <2>3. ASSUME NEW k \in 0..n
          PROVE  g[k] = IF k = 0 THEN 0 ELSE IF Better(s[k], g[k - 1]) THEN s[k] ELSE g[k - 1]
      <3>1. CASE k = 0
        BY <3>1, <2>2 DEF Steps
      <3>2. CASE k \in 1..n
        <4>1. g[k - 1] \in V /\ g[k] = step[k][g[k - 1]]
          BY <1>2, <3>2, <2>2 DEF Steps
        <4> QED
          BY <4>1, <3>2, <1>2 DEF step
      <3> QED
        BY <3>1, <3>2, <1>2
    <2>4. g = [k \in 0..n |-> IF k = 0 THEN 0
                              ELSE IF Better(s[k], g[k - 1]) THEN s[k] ELSE g[k - 1]]
      BY <2>2, <2>3 DEF Steps
    <2>5. F = [k \in 0..n |-> IF k = 0 THEN 0
                              ELSE IF Better(s[k], F[k - 1]) THEN s[k] ELSE F[k - 1]]
      BY <2>4, Zenon
    <2> HIDE DEF F
    <2>6. 0 \in 0..n
      BY <1>2
    <2> QED
      BY <1>2, <2>5, <2>6, Zenon
  <1> HIDE DEF F
  <1> DEFINE Right(k) == IF F[k] = 0 THEN \A m \in 1..k : pcbTable[s[m]].prio > prio
                         ELSE /\ \E m \in 1..k : F[k] = s[m]
                              /\ pcbTable[F[k]].prio <= prio
                              /\ \A m \in 1..k : pcbTable[s[m]].prio <= pcbTable[F[k]].prio
                                                 => PcbIdle(s[m]) <= PcbIdle(F[k])
  <1> HIDE DEF s, n
  <1>a. \A i \in PcbBlock : PcbIdle(i) \in Int /\ pcbTable[i].prio \in Nat /\ i # 0
    BY DEF PcbTypes, PcbEntry, PcbIdle, PcbBlock
  <1> HIDE DEF PcbIdle

  <1>4. Right(0)
    BY <1>3
  <1>5. ASSUME NEW k \in 1..n, Right(k - 1) PROVE Right(k)
    <2>1. \A m : m \in 1..k <=> m \in 1..(k - 1) \/ m = k
      BY <1>2
    <2>2. \A m \in 1..k : m \in 1..n
      BY <1>2
    <2>3. /\ \A m \in 1..k : s[m] \in PcbBlock
          /\ s[k] \in PcbBlock /\ s[k] # 0
          /\ F[k - 1] # 0 => F[k - 1] \in PcbBlock
      BY <2>1, <2>2, <1>2, <1>5, <1>a
    <2>4. CASE Better(s[k], F[k - 1])
      <3>1. F[k] = s[k]
        BY <1>3, <2>4
      <3>2. ASSUME NEW m \in 1..k, pcbTable[s[m]].prio <= pcbTable[s[k]].prio
            PROVE  PcbIdle(s[m]) <= PcbIdle(s[k])
        <4>1. CASE m = k
          BY <4>1, <2>3, <1>a
        <4>2. CASE m \in 1..(k - 1) /\ F[k - 1] = 0
          BY <4>2, <3>2, <2>3, <2>4, <1>5, <1>a
        <4>3. CASE m \in 1..(k - 1) /\ F[k - 1] # 0
          <5>1. pcbTable[s[m]].prio <= pcbTable[F[k - 1]].prio
            BY <4>3, <3>2, <2>3, <2>4, <1>a
          <5>2. PcbIdle(s[m]) <= PcbIdle(F[k - 1])
            BY <5>1, <4>3, <1>5
          <5> QED
            BY <5>2, <4>3, <2>3, <2>4, <1>a
        <4> QED
          BY <4>1, <4>2, <4>3, <2>1
      <3> QED
        BY <3>1, <3>2, <2>1, <2>3, <2>4
    <2>5. CASE ~Better(s[k], F[k - 1]) /\ F[k - 1] = 0
      <3>1. F[k] = 0 /\ pcbTable[s[k]].prio > prio
        BY <1>3, <2>3, <2>5, <1>a
      <3> QED
        BY <3>1, <2>1, <2>5, <1>5
    <2>6. CASE ~Better(s[k], F[k - 1]) /\ F[k - 1] # 0
      <3>1. F[k] = F[k - 1]
        BY <1>3, <2>6
      <3>2. /\ \E m \in 1..(k - 1) : F[k] = s[m]
            /\ pcbTable[F[k]].prio <= prio
            /\ \A m \in 1..(k - 1) : pcbTable[s[m]].prio <= pcbTable[F[k]].prio
                                     => PcbIdle(s[m]) <= PcbIdle(F[k])
        BY <3>1, <2>6, <1>5
      <3>3. pcbTable[s[k]].prio <= pcbTable[F[k]].prio => PcbIdle(s[k]) <= PcbIdle(F[k])
        BY <3>1, <3>2, <2>3, <2>6, <1>a
      <3> QED
        BY <3>1, <3>2, <3>3, <2>1, <2>6
    <2> QED
      BY <2>4, <2>5, <2>6
  <1> DEFINE G == {k \in 0..n : Right(k)}
  <1>6. Right(n)
    <2> HIDE DEF Right
    <2>1. 0 \in G /\ \A k \in 1..n : k - 1 \in G => k \in G
      BY <1>2, <1>4, <1>5
    <2>2. G \in SUBSET (0..n)
      OBVIOUS
    <2>3. G = 0..n
      <3> HIDE DEF G
      <3> QED
        BY <2>1, <2>2, <1>2, CountUp
    <2> QED
      BY <2>3, <1>2
  <1>7. ToSet(s) = {s[k] : k \in 1..n}
    BY <1>2 DEF ToSet
  <1>8. F[n] = 0 => \A i \in ToSet(s) : pcbTable[i].prio > prio
    BY <1>6, <1>7
  <1>9. F[n] # 0 => /\ F[n] \in ToSet(s)
                    /\ pcbTable[F[n]].prio <= prio
                    /\ \A i \in ToSet(s) :
                          pcbTable[i].prio <= pcbTable[F[n]].prio => PcbIdle(i) <= PcbIdle(F[n])
    BY <1>6, <1>7
  <1> QED
    BY <1>1, <1>8, <1>9 DEF s

\* tcp_new_port gives a port of its range that no block in a list has, and none only when all are
\* in use.
LEMMA PcbNewPort ==
    ASSUME NEW app, NEW last \in Nat, NEW addrs, NEW prios, PcbTypes(last, addrs),
           PcbFirst \in Nat \ {0}
    PROVE  LET new == Pcbs(app, last, addrs, prios)!tcp_new_port
               used == Pcbs(app, last, addrs, prios)!InUse
           IN  /\ new.last \in PcbFirst..last
               /\ new.port = 0 => PcbFirst..last \subseteq used
               /\ new.port # 0 => new.port \in (PcbFirst..last) \ used
  <1> DEFINE new == Pcbs(app, last, addrs, prios)!tcp_new_port
             used == Pcbs(app, last, addrs, prios)!InUse
             w == last - PcbFirst
             Succ(q) == IF q = last THEN PcbFirst ELSE q + 1
             F == CHOOSE f : f = [m \in 0..w |-> IF m = 0 THEN Succ(pcbPort) ELSE Succ(f[m - 1])]
             Try(m) == IF pcbPort + 1 + m <= last THEN pcbPort + 1 + m ELSE pcbPort + m - w
             ok == {m \in 0..w : F[m] \notin used}
             least == CHOOSE m \in ok : \A k \in ok : m <= k
  <1>1. new = IF ok = {} THEN [port |-> 0, last |-> pcbPort]
              ELSE [port |-> F[least], last |-> F[least]]
    BY DEF Pcbs!tcp_new_port, Pcbs!Succ
  <1>2. pcbPort \in PcbFirst..last /\ w \in Nat /\ last = PcbFirst + w
    BY DEF PcbTypes
  <1> HIDE DEF new, used
  <1>3. \A m \in 0..w : F[m] = Try(m)
    <2> DEFINE g == [m \in 0..w |-> Try(m)]
    <2>1. ASSUME NEW m \in 0..w
          PROVE  Try(m) = IF m = 0 THEN Succ(pcbPort) ELSE Succ(g[m - 1])
      <3>1. CASE m = 0
        BY <3>1, <1>2
      <3>2. CASE m # 0
        <4>1. m - 1 \in 0..w
          BY <3>2, <1>2
        <4>2. g[m - 1] = Try(m - 1)
          BY <4>1
        <4>3. Try(m) = Succ(Try(m - 1))
          BY <3>2, <1>2
        <4> HIDE DEF Try, Succ, g
        <4> QED
          BY <4>2, <4>3, <3>2
      <3> QED
        BY <3>1, <3>2
    <2>2. \A m \in 0..w : g[m] = Try(m)
      OBVIOUS
    <2> HIDE DEF Try, Succ, w
    <2>3. g = [m \in 0..w |-> IF m = 0 THEN Succ(pcbPort) ELSE Succ(g[m - 1])]
      BY <2>1, Zenon
    <2> HIDE DEF g
    <2>4. F = [m \in 0..w |-> IF m = 0 THEN Succ(pcbPort) ELSE Succ(F[m - 1])]
      BY <2>3, Zenon
    <2> HIDE DEF F
    <2> DEFINE G == {m \in 0..w : F[m] = g[m]}
    <2>5. 0 \in 0..w /\ \A m \in 1..w : m \in 0..w /\ m - 1 \in 0..w /\ m # 0
      BY <1>2
    <2>6. 0 \in G
      <3>1. F[0] = Succ(pcbPort) /\ g[0] = Succ(pcbPort)
        BY <2>3, <2>4, <2>5, Zenon
      <3> QED
        BY <3>1, <2>5
    <2>7. ASSUME NEW m \in 1..w, m - 1 \in G PROVE m \in G
      <3>1. F[m - 1] = g[m - 1]
        BY <2>7
      <3>2. F[m] = Succ(F[m - 1]) /\ g[m] = Succ(g[m - 1])
        BY <2>3, <2>4, <2>5, Zenon
      <3> QED
        BY <3>1, <3>2, <2>5
    <2>8. G \in SUBSET (0..w)
      OBVIOUS
    <2>9. G = 0..w
      <3> HIDE DEF G
      <3> QED
        BY <2>6, <2>7, <2>8, <1>2, CountUp
    <2> QED
      BY <2>2, <2>9
  <1> HIDE DEF F
  <1>4. \A m \in 0..w : Try(m) \in PcbFirst..last
    BY <1>2
  <1>5. CASE ok = {}
    <2>1. new.port = 0 /\ new.last = pcbPort
      BY <1>1, <1>5
    <2>2. ASSUME NEW q \in PcbFirst..last PROVE q \in used
      <3> DEFINE m == IF q > pcbPort THEN q - pcbPort - 1 ELSE q - pcbPort + w
      <3>1. m \in 0..w /\ Try(m) = q
        BY <1>2
      <3> HIDE DEF m
      <3> QED
        BY <3>1, <1>3, <1>5
    <2>3. PcbFirst..last \subseteq used
      BY <2>2
    <2> HIDE DEF ok, least, w
    <2> QED
      BY <2>1, <2>3, <1>2 DEF new, used
  <1>6. CASE ok # {}
    <2>1. \E m \in ok : \A k \in ok : m <= k
      <3>1. ok \in SUBSET Nat
        BY <1>2
      <3> HIDE DEF ok
      <3> QED
        BY <3>1, <1>6, LeastElement
    <2>2. least \in ok
      <3> HIDE DEF ok
      <3> QED
        BY <2>1
    <2>3. F[least] = Try(least) /\ F[least] \notin used /\ Try(least) \in PcbFirst..last
      BY <2>2, <1>3, <1>4
    <2>4. new.port = F[least] /\ new.last = F[least]
      BY <1>1, <1>6
    <2>5. \A q \in PcbFirst..last : q # 0
      BY <1>2
    <2> HIDE DEF ok, least, w, Try
    <2> QED
      BY <2>3, <2>4, <2>5 DEF new, used
  <1> QED
    BY <1>5, <1>6

\* The list that the block with the entry e is in, if any.
PcbPlace(e) == IF e.state = "LISTEN" THEN "listen"
               ELSE IF e.state = "ACTIVE" THEN "active"
               ELSE IF e.state = "TIME_WAIT" THEN "tw"
               ELSE IF e.state = "CLOSED" /\ e.port # 0 THEN "bound"
               ELSE "none"

\* Four lists without repetitions.
PcbOnce(ls) == ls \in PcbLists /\ \A l \in PcbNames : Distinct(ls[l])

\* A block is in the list of its state.
PcbPlaced(t, ls) == \A i \in PcbBlock, l \in PcbNames : i \in ToSet(ls[l]) <=> PcbPlace(t[i]) = l

\* An application bound the block.
PcbBound(e) == PcbPlace(e) \in {"bound", "listen"}

\* No two blocks that applications bound have the same port, except at two different addresses.
PcbExclusive(t) ==
    \A i, j \in PcbBlock :
        i # j /\ PcbBound(t[i]) /\ PcbBound(t[j]) /\ t[i].port = t[j].port /\ t[i].port # 0
        => t[i].ip # t[j].ip /\ t[i].ip # 0 /\ t[j].ip # 0

\* In a server that binds to any address only connections have one, the interface's.
PcbOurs(app, t, a) ==
    app \/ \A i \in PcbBlock : /\ t[i].state \in {"CLOSED", "LISTEN"} => t[i].ip = 0
                               /\ t[i].state = "ACTIVE" => t[i].ip = a

\* Entries of the table at the time c.
PcbTable(addrs, t, c) == t \in [PcbBlock -> PcbEntry(addrs)] /\ \A i \in PcbBlock : t[i].tmr <= c

\* What is true of a table and lists at the time c, when the interface has the address a.
PcbRight(app, addrs, t, ls, c, a) ==
    /\ PcbTable(addrs, t, c)
    /\ PcbOnce(ls)
    /\ PcbPlaced(t, ls)
    /\ PcbExclusive(t)
    /\ PcbOurs(app, t, a)

\* The invariant of an instance.
PcbInv(app, last, addrs) ==
    /\ PcbRight(app, addrs, pcbTable, pcbLists, pcbClock, pcbAddr)
    /\ pcbPort \in PcbFirst..last
    /\ pcbClock \in Nat
    /\ pcbAddr \in addrs

\* The invariant has the types that the scans and tcp_new_port need.
LEMMA PcbInvTypes ==
    ASSUME NEW app, NEW last, NEW addrs, PcbInv(app, last, addrs)
    PROVE  PcbTypes(last, addrs)
  BY DEF PcbInv, PcbRight, PcbTable, PcbOnce, PcbTypes

\* The lists ls2 are the lists ls with the block i put into the list l.
PcbAdded(ls, ls2, l, i) ==
    /\ PcbOnce(ls2)
    /\ \A m \in PcbNames : ToSet(ls2[m]) = IF m = l THEN ToSet(ls[m]) \cup {i} ELSE ToSet(ls[m])

\* The lists ls2 are the lists ls with the block i taken out of the list l.
PcbDropped(ls, ls2, l, i) ==
    /\ PcbOnce(ls2)
    /\ \A m \in PcbNames : ToSet(ls2[m]) = IF m = l THEN ToSet(ls[m]) \ {i} ELSE ToSet(ls[m])

\* TCP_REG.
LEMMA PcbReg ==
    ASSUME NEW app, NEW last, NEW addrs, NEW prios,
           NEW ls, PcbOnce(ls), NEW l \in PcbNames, NEW i \in PcbBlock, i \notin ToSet(ls[l])
    PROVE  PcbAdded(ls, Pcbs(app, last, addrs, prios)!Reg(ls, l, i), l, i)
  <1> DEFINE r == Pcbs(app, last, addrs, prios)!Reg(ls, l, i)
             s == <<i>> \o ls[l]
  <1>1. r = [ls EXCEPT ![l] = s]
    BY DEF Pcbs!Reg
  <1>2. ls[l] \in Seq(PcbBlock) /\ Distinct(ls[l])
    BY DEF PcbOnce, PcbLists, PcbNames
  <1>3. s \in Seq(PcbBlock) /\ Distinct(s) /\ ToSet(s) = ToSet(ls[l]) \cup {i}
    BY <1>2, PushElements
  <1> HIDE DEF r, s
  <1>4. r \in PcbLists /\ \A m \in PcbNames : r[m] = IF m = l THEN s ELSE ls[m]
    BY <1>1, <1>3 DEF PcbOnce, PcbLists, PcbNames
  <1> QED
    BY <1>3, <1>4 DEF PcbAdded, PcbDropped, PcbOnce, r

\* TCP_RMV.
LEMMA PcbRmv ==
    ASSUME NEW app, NEW last, NEW addrs, NEW prios,
           NEW ls, PcbOnce(ls), NEW l \in PcbNames, NEW i
    PROVE  PcbDropped(ls, Pcbs(app, last, addrs, prios)!Rmv(ls, l, i), l, i)
  <1> DEFINE r == Pcbs(app, last, addrs, prios)!Rmv(ls, l, i)
             s == Pcbs(app, last, addrs, prios)!Without(ls[l], {i})
  <1>1. r = [ls EXCEPT ![l] = s]
    BY DEF Pcbs!Rmv
  <1>2. ls[l] \in Seq(PcbBlock) /\ Distinct(ls[l])
    BY DEF PcbOnce, PcbLists, PcbNames
  <1>3. s \in Seq(PcbBlock) /\ Distinct(s) /\ ToSet(s) = ToSet(ls[l]) \ {i}
    <2>1. s \in Seq(PcbBlock)
      BY <1>2, PcbWithout
    <2>2. Distinct(s)
      BY <1>2, PcbWithout
    <2>3. ToSet(s) = ToSet(ls[l]) \ {i}
      BY <1>2, PcbWithout
    <2> QED
      BY <2>1, <2>2, <2>3
  <1> HIDE DEF r, s
  <1>4. r \in PcbLists /\ \A m \in PcbNames : r[m] = IF m = l THEN s ELSE ls[m]
    BY <1>1, <1>3 DEF PcbOnce, PcbLists, PcbNames
  <1> QED
    BY <1>3, <1>4 DEF PcbAdded, PcbDropped, PcbOnce, r

\* tcp_abandon.
LEMMA PcbAbandon ==
    ASSUME NEW app, NEW last, NEW addrs, NEW prios, NEW c \in Nat, NEW a,
           PcbRight(app, addrs, pcbTable, pcbLists, c, a),
           NEW S, \A i \in PcbBlock \cap S : pcbTable[i].state \in {"ACTIVE", "TIME_WAIT"}
    PROVE  LET r == Pcbs(app, last, addrs, prios)!Abandon(pcbTable, pcbLists, S)
           IN  /\ PcbRight(app, addrs, r[1], r[2], c, a)
               /\ \A i \in PcbBlock : r[1][i] = IF i \in S
                                                THEN [state |-> "FREE", ip |-> 0, port |-> 0,
                                                      prio |-> 0, tmr |-> 0]
                                                ELSE pcbTable[i]
  <1> DEFINE r == Pcbs(app, last, addrs, prios)!Abandon(pcbTable, pcbLists, S)
             t == r[1]
             ls == r[2]
             free == [state |-> "FREE", ip |-> 0, port |-> 0, prio |-> 0, tmr |-> 0]
             sa == Pcbs(app, last, addrs, prios)!Without(pcbLists.active, S)
             sw == Pcbs(app, last, addrs, prios)!Without(pcbLists.tw, S)
  <1>1. t = [i \in PcbBlock |-> IF i \in S THEN free ELSE pcbTable[i]]
        /\ ls = [pcbLists EXCEPT !.active = sa, !.tw = sw]
    BY DEF Pcbs!Abandon, Pcbs!Block, Pcbs!FREE, PcbBlock
  <1>2. /\ pcbLists.active \in Seq(PcbBlock) /\ Distinct(pcbLists.active)
        /\ pcbLists.tw \in Seq(PcbBlock) /\ Distinct(pcbLists.tw)
    BY DEF PcbRight, PcbOnce, PcbLists, PcbNames
  <1>3. /\ sa \in Seq(PcbBlock) /\ Distinct(sa) /\ ToSet(sa) = ToSet(pcbLists.active) \ S
        /\ sw \in Seq(PcbBlock) /\ Distinct(sw) /\ ToSet(sw) = ToSet(pcbLists.tw) \ S
    <2>1. sa \in Seq(PcbBlock) /\ sw \in Seq(PcbBlock)
      BY <1>2, PcbWithout
    <2>2. Distinct(sa) /\ Distinct(sw)
      BY <1>2, PcbWithout
    <2>3. ToSet(sa) = ToSet(pcbLists.active) \ S
      BY <1>2, PcbWithout
    <2>4. ToSet(sw) = ToSet(pcbLists.tw) \ S
      BY <1>2, PcbWithout
    <2> QED
      BY <2>1, <2>2, <2>3, <2>4
  <1> HIDE DEF r, sa, sw
  <1>4. /\ ls \in PcbLists
        /\ \A m \in PcbNames :
              ls[m] = IF m = "active" THEN sa ELSE IF m = "tw" THEN sw ELSE pcbLists[m]
    BY <1>1, <1>3 DEF PcbRight, PcbOnce, PcbLists, PcbNames
  <1>5. PcbOnce(ls)
    BY <1>3, <1>4 DEF PcbOnce, PcbRight
  <1>6. \A i \in PcbBlock : t[i] = IF i \in S THEN free ELSE pcbTable[i]
    BY <1>1
  <1>7. PcbTable(addrs, t, c)
    <2>1. free \in PcbEntry(addrs) /\ free.tmr <= c
      BY DEF PcbEntry, PcbStates
    <2> HIDE DEF free
    <2> QED
      BY <2>1, <1>1 DEF PcbTable, PcbRight
  <1>8. PcbPlaced(t, ls)
    <2>1. PcbPlaced(pcbTable, pcbLists)
      BY DEF PcbRight
    <2> SUFFICES ASSUME NEW i \in PcbBlock, NEW l \in PcbNames
                 PROVE  i \in ToSet(ls[l]) <=> PcbPlace(t[i]) = l
      BY DEF PcbPlaced
    <2>2. i \in ToSet(pcbLists[l]) <=> PcbPlace(pcbTable[i]) = l
      BY <2>1 DEF PcbPlaced
    <2>3. CASE i \in S
      <3>1. PcbPlace(t[i]) = "none" /\ l # "none"
        BY <2>3, <1>6 DEF PcbPlace, PcbNames
      <3>2. PcbPlace(pcbTable[i]) \in {"active", "tw"}
        BY <2>3 DEF PcbPlace
      <3>3. CASE l \in {"active", "tw"}
        BY <3>3, <3>1, <1>3, <1>4, <2>3
      <3>4. CASE l \notin {"active", "tw"}
        BY <3>4, <3>1, <3>2, <1>4, <2>2
      <3> QED
        BY <3>3, <3>4
    <2>4. CASE i \notin S
      <3>1. t[i] = pcbTable[i]
        BY <2>4, <1>6
      <3> QED
        BY <3>1, <2>2, <2>4, <1>3, <1>4
    <2> QED
      BY <2>3, <2>4
  <1>9. PcbExclusive(t)
    <2>1. \A i \in PcbBlock : PcbBound(t[i]) => t[i] = pcbTable[i]
      BY <1>6 DEF PcbBound, PcbPlace
    <2> QED
      BY <2>1 DEF PcbExclusive, PcbRight
  <1>10. PcbOurs(app, t, a)
    <2>1. \A i \in PcbBlock : t[i].state # "FREE" => t[i] = pcbTable[i]
      BY <1>6
    <2> QED
      BY <2>1 DEF PcbOurs, PcbRight
  <1>11. PcbRight(app, addrs, r[1], r[2], c, a)
    BY <1>5, <1>7, <1>8, <1>9, <1>10 DEF PcbRight
  <1> QED
    BY <1>6, <1>11 DEF r

\* What MCTablesAssumption says of an instance.
PcbInstance(app, last, addrs, prios) ==
    /\ app \in BOOLEAN /\ last \in Nat /\ PcbFirst <= last
    /\ 0 \notin addrs /\ prios \subseteq Nat
    /\ app => \E x : addrs = {x}

\* What MCTablesAssumption says of the constants of the control blocks.
LEMMA PcbConstants ==
    /\ PcbBlocks \in Nat \ {0} /\ PcbFirst \in Nat \ {0} /\ 0 \notin PcbPorts
    /\ PcbMsl2 \in Nat /\ PcbTicks \in Nat
    /\ PcbInstance(FALSE, SrvLast, SrvAddrs, SrvPrios)
    /\ PcbInstance(TRUE, AppLast, {AppAddr}, AppPrios)
  BY MCTablesAssumption DEF PcbInstance, Pcbs!PcbsAssumption

\* The lists ls2 are the lists ls with the block i in the list m and in no other.
PcbMoved(ls, ls2, i, m) ==
    /\ PcbOnce(ls2)
    /\ \A l \in PcbNames :
          ToSet(ls2[l]) = IF l = m THEN ToSet(ls[l]) \cup {i} ELSE ToSet(ls[l]) \ {i}

\* A block that keeps the place its state says is not moved.
LEMMA PcbStays ==
    ASSUME NEW t, NEW ls, PcbOnce(ls), PcbPlaced(t, ls), NEW i \in PcbBlock
    PROVE  PcbMoved(ls, ls, i, PcbPlace(t[i]))
  BY DEF PcbMoved, PcbPlaced

\* TCP_REG of a block in no list.
LEMMA PcbEnters ==
    ASSUME NEW app, NEW last, NEW addrs, NEW prios,
           NEW t, NEW ls, PcbOnce(ls), PcbPlaced(t, ls), NEW i \in PcbBlock,
           PcbPlace(t[i]) = "none", NEW m \in PcbNames
    PROVE  PcbMoved(ls, Pcbs(app, last, addrs, prios)!Reg(ls, m, i), i, m)
  <1> DEFINE r == Pcbs(app, last, addrs, prios)!Reg(ls, m, i)
  <1>1. \A l \in PcbNames : i \notin ToSet(ls[l])
    BY DEF PcbPlaced, PcbNames
  <1>2. PcbAdded(ls, r, m, i)
    BY <1>1, PcbReg
  <1> HIDE DEF r
  <1>3. PcbMoved(ls, r, i, m)
    BY <1>1, <1>2 DEF PcbMoved, PcbAdded
  <1> QED
    BY <1>3 DEF r

\* TCP_RMV from the list that the block is in.
LEMMA PcbLeaves ==
    ASSUME NEW app, NEW last, NEW addrs, NEW prios,
           NEW t, NEW ls, PcbOnce(ls), PcbPlaced(t, ls), NEW i \in PcbBlock,
           NEW m \in PcbNames, PcbPlace(t[i]) = m
    PROVE  PcbMoved(ls, Pcbs(app, last, addrs, prios)!Rmv(ls, m, i), i, "none")
  <1> DEFINE r == Pcbs(app, last, addrs, prios)!Rmv(ls, m, i)
  <1>1. \A l \in PcbNames : l # m => i \notin ToSet(ls[l])
    BY DEF PcbPlaced
  <1>2. PcbDropped(ls, r, m, i)
    BY PcbRmv
  <1> HIDE DEF r
  <1>3. PcbMoved(ls, r, i, "none")
    BY <1>1, <1>2 DEF PcbMoved, PcbNames, PcbDropped
  <1> QED
    BY <1>3 DEF r

\* TCP_RMV and TCP_REG: from one list to another.
LEMMA PcbMoves ==
    ASSUME NEW app, NEW last, NEW addrs, NEW prios,
           NEW t, NEW ls, PcbOnce(ls), PcbPlaced(t, ls), NEW i \in PcbBlock,
           NEW l \in PcbNames, PcbPlace(t[i]) = l, NEW m \in PcbNames
    PROVE  PcbMoved(ls, Pcbs(app, last, addrs, prios)!Reg(
                           Pcbs(app, last, addrs, prios)!Rmv(ls, l, i), m, i), i, m)
  <1> DEFINE q == Pcbs(app, last, addrs, prios)!Rmv(ls, l, i)
             r == Pcbs(app, last, addrs, prios)!Reg(q, m, i)
  <1>1. PcbMoved(ls, q, i, "none")
    BY PcbLeaves
  <1> HIDE DEF q
  <1>2. PcbOnce(q) /\ \A k \in PcbNames : ToSet(q[k]) = ToSet(ls[k]) \ {i}
    BY <1>1 DEF PcbMoved, PcbNames
  <1>3. i \notin ToSet(q[m])
    BY <1>2
  <1>4. PcbAdded(q, r, m, i)
    BY <1>2, <1>3, PcbReg
  <1> HIDE DEF r
  <1>5. PcbMoved(ls, r, i, m)
    BY <1>2, <1>4 DEF PcbMoved, PcbAdded
  <1> QED
    BY <1>5 DEF r, q

\* One entry changes, and its block moves to the list of its new state.
LEMMA PcbChange ==
    ASSUME NEW app, NEW addrs, NEW t, NEW ls, NEW c, NEW a, PcbRight(app, addrs, t, ls, c, a),
           NEW i \in PcbBlock, NEW e \in PcbEntry(addrs), e.tmr <= c,
           NEW ls2, PcbMoved(ls, ls2, i, PcbPlace(e)),
           PcbBound(e) /\ e.port # 0
           => \A j \in PcbBlock : j # i /\ PcbBound(t[j]) /\ t[j].port = e.port
                                  => t[j].ip # e.ip /\ t[j].ip # 0 /\ e.ip # 0,
           \/ app
           \/ e.state \in {"CLOSED", "LISTEN"} /\ e.ip = 0
           \/ e.state = "ACTIVE" /\ e.ip = a
           \/ e.state \in {"FREE", "TIME_WAIT"}
    PROVE  PcbRight(app, addrs, [t EXCEPT ![i] = e], ls2, c, a)
  <1> DEFINE u == [t EXCEPT ![i] = e]
  <1>1. t \in [PcbBlock -> PcbEntry(addrs)] /\ \A j \in PcbBlock : t[j].tmr <= c
    BY DEF PcbRight, PcbTable
  <1>2. u \in [PcbBlock -> PcbEntry(addrs)] /\ \A j \in PcbBlock : u[j] = IF j = i THEN e ELSE t[j]
    BY <1>1
  <1> HIDE DEF u
  <1>3. PcbTable(addrs, u, c)
    BY <1>1, <1>2 DEF PcbTable
  <1>4. PcbPlaced(u, ls2)
    <2> SUFFICES ASSUME NEW j \in PcbBlock, NEW l \in PcbNames
                 PROVE  j \in ToSet(ls2[l]) <=> PcbPlace(u[j]) = l
      BY DEF PcbPlaced
    <2>1. j \in ToSet(ls[l]) <=> PcbPlace(t[j]) = l
      BY DEF PcbRight, PcbPlaced
    <2>2. ToSet(ls2[l]) = IF l = PcbPlace(e) THEN ToSet(ls[l]) \cup {i} ELSE ToSet(ls[l]) \ {i}
      BY DEF PcbMoved
    <2>3. CASE j = i
      BY <2>2, <2>3, <1>2
    <2>4. CASE j # i
      BY <2>1, <2>2, <2>4, <1>2
    <2> QED
      BY <2>3, <2>4
  <1>5. PcbExclusive(u)
    <2> SUFFICES ASSUME NEW j \in PcbBlock, NEW k \in PcbBlock,
                        j # k, PcbBound(u[j]), PcbBound(u[k]), u[j].port = u[k].port, u[j].port # 0
                 PROVE  u[j].ip # u[k].ip /\ u[j].ip # 0 /\ u[k].ip # 0
      BY DEF PcbExclusive
    <2>1. CASE j = i
      BY <2>1, <1>2
    <2>2. CASE k = i
      BY <2>2, <1>2
    <2>3. CASE j # i /\ k # i
      BY <2>3, <1>2 DEF PcbRight, PcbExclusive
    <2> QED
      BY <2>1, <2>2, <2>3
  <1>6. PcbOurs(app, u, a)
    <2> SUFFICES ASSUME ~app, NEW j \in PcbBlock
                 PROVE  /\ u[j].state \in {"CLOSED", "LISTEN"} => u[j].ip = 0
                        /\ u[j].state = "ACTIVE" => u[j].ip = a
      BY DEF PcbOurs
    <2>1. CASE j = i
      BY <2>1, <1>2
    <2>2. CASE j # i
      BY <2>2, <1>2 DEF PcbRight, PcbOurs
    <2> QED
      BY <2>1, <2>2
  <1>7. PcbOnce(ls2)
    BY DEF PcbMoved
  <1> QED
    BY <1>3, <1>4, <1>5, <1>6, <1>7 DEF PcbRight, u

\* tcp_alloc frees only for want of memory: a connection in TIME_WAIT that is idle for at least as
\* long as the others, or, if there is none, one of no higher priority.
LEMMA PcbVictims ==
    ASSUME NEW app, NEW last, NEW addrs, NEW prios, PcbInv(app, last, addrs), NEW prio \in Nat,
           NEW v \in Pcbs(app, last, addrs, prios)!Victims(prio)
    PROVE  /\ v \in PcbBlock
           /\ Pcbs(app, last, addrs, prios)!Unused = {}
           /\ \/ /\ pcbTable[v].state = "TIME_WAIT"
                 /\ \A i \in ToSet(pcbLists.tw) : PcbIdle(i) <= PcbIdle(v)
              \/ /\ pcbTable[v].state = "ACTIVE"
                 /\ pcbLists.tw = <<>>
                 /\ pcbTable[v].prio <= prio
                 /\ \A i \in ToSet(pcbLists.active) :
                       pcbTable[i].prio <= pcbTable[v].prio => PcbIdle(i) <= PcbIdle(v)
  <1> DEFINE tw == Pcbs(app, last, addrs, prios)!tcp_kill_timewait
             kp == Pcbs(app, last, addrs, prios)!tcp_kill_prio(prio)
             un == Pcbs(app, last, addrs, prios)!Unused
  <1>1. un = {} /\ v # 0 /\ v = IF tw # 0 THEN tw ELSE kp
    <2> HIDE DEF tw, kp, un
    <2>1. v \in IF un # {} THEN {} ELSE {IF tw # 0 THEN tw ELSE kp} \ {0}
      BY DEF Pcbs!Victims, tw, kp, un
    <2> QED
      BY <2>1
  <1>2. PcbTypes(last, addrs)
    BY PcbInvTypes
  <1>3. IF pcbLists.tw = <<>> THEN tw = 0
        ELSE tw \in ToSet(pcbLists.tw) /\ \A i \in ToSet(pcbLists.tw) : PcbIdle(i) <= PcbIdle(tw)
    BY <1>2, PcbTimewait
  <1>4. IF kp = 0 THEN \A i \in ToSet(pcbLists.active) : pcbTable[i].prio > prio
        ELSE /\ kp \in ToSet(pcbLists.active)
             /\ pcbTable[kp].prio <= prio
             /\ \A i \in ToSet(pcbLists.active) :
                   pcbTable[i].prio <= pcbTable[kp].prio => PcbIdle(i) <= PcbIdle(kp)
    BY <1>2, PcbLowest
  <1> HIDE DEF tw, kp
  <1>5. /\ \A s \in {"active", "tw"} : pcbLists[s] \in Seq(PcbBlock)
        /\ \A i \in PcbBlock : /\ i \in ToSet(pcbLists.tw) <=> PcbPlace(pcbTable[i]) = "tw"
                               /\ i \in ToSet(pcbLists.active) <=> PcbPlace(pcbTable[i]) = "active"
    BY DEF PcbInv, PcbRight, PcbOnce, PcbLists, PcbPlaced, PcbNames
  <1>6. /\ \A i \in ToSet(pcbLists.tw) : i \in PcbBlock
        /\ \A i \in ToSet(pcbLists.active) : i \in PcbBlock
    BY <1>5 DEF ToSet
  <1>7. CASE tw # 0
    <2>1. v \in ToSet(pcbLists.tw) /\ \A i \in ToSet(pcbLists.tw) : PcbIdle(i) <= PcbIdle(v)
      BY <1>1, <1>3, <1>7
    <2>2. v \in PcbBlock /\ pcbTable[v].state = "TIME_WAIT"
      BY <2>1, <1>5, <1>6 DEF PcbPlace
    <2> QED
      BY <2>1, <2>2, <1>1
  <1>8. CASE tw = 0
    <2>1. v = kp /\ v # 0
      BY <1>1, <1>8
    <2>2. pcbLists.tw = <<>>
      <3>1. 0 \notin ToSet(pcbLists.tw)
        BY <1>6 DEF PcbBlock
      <3> QED
        BY <3>1, <1>3, <1>8
    <2>3. v \in ToSet(pcbLists.active)
      BY <2>1, <1>4
    <2>4. v \in PcbBlock /\ pcbTable[v].state = "ACTIVE"
      BY <2>3, <1>5, <1>6 DEF PcbPlace
    <2>5. /\ pcbTable[v].prio <= prio
          /\ \A i \in ToSet(pcbLists.active) :
                pcbTable[i].prio <= pcbTable[v].prio => PcbIdle(i) <= PcbIdle(v)
      BY <2>1, <1>4
    <2> QED
      BY <2>2, <2>4, <2>5, <1>1
  <1> QED
    BY <1>7, <1>8

\* The entry of a block in no use, and of one that tcp_alloc gives.
PcbFree == [state |-> "FREE", ip |-> 0, port |-> 0, prio |-> 0, tmr |-> 0]
PcbNew(prio, c) == [PcbFree EXCEPT !.state = "CLOSED", !.prio = prio, !.tmr = c]

\* A block in no use.
LEMMA PcbFreeEntry ==
    ASSUME NEW addrs
    PROVE  PcbFree \in PcbEntry(addrs) /\ PcbFree.tmr = 0 /\ PcbPlace(PcbFree) = "none"
  BY DEF PcbFree, PcbEntry, PcbStates, PcbPlace

\* tcp_alloc: the table and the lists stay right, and the new block is in none of them.
LEMMA PcbAlloc ==
    ASSUME NEW app, NEW last, NEW addrs, NEW prios, PcbInv(app, last, addrs), NEW prio \in Nat
    PROVE  LET a == Pcbs(app, last, addrs, prios)!tcp_alloc(prio)
           IN  /\ PcbRight(app, addrs, a.pcb, a.lists, pcbClock, pcbAddr)
               /\ a.new # 0 => a.new \in PcbBlock /\ a.pcb[a.new] = PcbNew(prio, pcbClock)
  <1> DEFINE al == Pcbs(app, last, addrs, prios)!tcp_alloc(prio)
             v == Pcbs(app, last, addrs, prios)!Victims(prio)
             ab == Pcbs(app, last, addrs, prios)!Abandon(pcbTable, pcbLists, v)
             t == ab[1]
             free == {i \in PcbBlock : t[i].state = "FREE"}
             new == IF free = {} THEN 0 ELSE CHOOSE i \in free : \A j \in free : i <= j
             u == [t EXCEPT ![new] = PcbNew(prio, pcbClock)]
  <1>1. al = [new |-> new, lists |-> ab[2], pcb |-> IF new = 0 THEN t ELSE u]
    BY DEF Pcbs!tcp_alloc, Pcbs!Block, Pcbs!FREE, PcbBlock, PcbNew, PcbFree
  <1>2. PcbRight(app, addrs, pcbTable, pcbLists, pcbClock, pcbAddr) /\ pcbClock \in Nat
    BY DEF PcbInv
  <1>3. \A i \in PcbBlock \cap v : pcbTable[i].state \in {"ACTIVE", "TIME_WAIT"}
    BY PcbVictims
  <1>4. PcbRight(app, addrs, t, ab[2], pcbClock, pcbAddr)
    <2> HIDE DEF v
    <2> QED
      BY <1>2, <1>3, PcbAbandon
  <1> HIDE DEF al, v, ab
  <1> DEFINE Right == /\ PcbRight(app, addrs, al.pcb, al.lists, pcbClock, pcbAddr)
                      /\ al.new # 0 => /\ al.new \in PcbBlock
                                       /\ al.pcb[al.new] = PcbNew(prio, pcbClock)
  <1>5. CASE free = {}
    <2>1. new = 0
      BY <1>5
    <2> HIDE DEF new, t
    <2>2. al.new = 0 /\ al.lists = ab[2] /\ al.pcb = t
      BY <1>1, <2>1
    <2>3. Right
      BY <1>4, <2>2
    <2> QED
      BY <2>3 DEF al
  <1>6. CASE free # {}
    <2>1. new \in free
      <3>1. free \in SUBSET Nat
        BY PcbConstants DEF PcbBlock
      <3> HIDE DEF free
      <3>2. \E i \in free : \A j \in free : i <= j
        BY <3>1, <1>6, LeastElement
      <3> QED
        BY <3>2, <1>6
    <2> HIDE DEF new
    <2>2. new \in PcbBlock /\ t[new].state = "FREE" /\ new # 0
      BY <2>1 DEF PcbBlock
    <2> HIDE DEF t, free
    <2> DEFINE e == PcbNew(prio, pcbClock)
    <2>3. /\ e \in PcbEntry(addrs) /\ e.tmr <= pcbClock /\ PcbPlace(e) = "none"
          /\ e.state = "CLOSED" /\ e.ip = 0
      <3>1. e = [state |-> "CLOSED", ip |-> 0, port |-> 0, prio |-> prio, tmr |-> pcbClock]
        <4> DEFINE f == [PcbFree EXCEPT !.state = "CLOSED"]
                   g == [f EXCEPT !.prio = prio]
        <4>1. e = [g EXCEPT !.tmr = pcbClock]
          BY DEF PcbNew
        <4>2. f = [state |-> "CLOSED", ip |-> 0, port |-> 0, prio |-> 0, tmr |-> 0]
          BY DEF PcbFree
        <4> HIDE DEF f, e
        <4>3. g = [state |-> "CLOSED", ip |-> 0, port |-> 0, prio |-> prio, tmr |-> 0]
          BY <4>2
        <4> HIDE DEF g
        <4> QED
          BY <4>1, <4>3
      <3> HIDE DEF e
      <3> QED
        BY <3>1, <1>2 DEF PcbEntry, PcbStates, PcbPlace
    <2>4. PcbPlace(t[new]) = "none"
      BY <2>2 DEF PcbPlace
    <2>5. PcbMoved(ab[2], ab[2], new, PcbPlace(e))
      <3>1. PcbOnce(ab[2]) /\ PcbPlaced(t, ab[2])
        BY <1>4 DEF PcbRight
      <3>2. PcbMoved(ab[2], ab[2], new, PcbPlace(t[new]))
        BY <2>2, <3>1, PcbStays
      <3> QED
        BY <3>2, <2>3, <2>4
    <2>6. ~PcbBound(e)
      BY <2>3 DEF PcbBound
    <2> HIDE DEF e
    <2>7. PcbRight(app, addrs, [t EXCEPT ![new] = e], ab[2], pcbClock, pcbAddr)
      BY <1>4, <2>2, <2>3, <2>5, <2>6, PcbChange
    <2>8. [t EXCEPT ![new] = e][new] = e
      BY <1>4, <2>2 DEF PcbRight, PcbTable
    <2>9. al.new = new /\ al.lists = ab[2] /\ al.pcb = [t EXCEPT ![new] = e]
      BY <1>1, <2>2 DEF e
    <2>10. Right
      BY <2>2, <2>7, <2>8, <2>9 DEF e
    <2> QED
      BY <2>10 DEF al
  <1> QED
    BY <1>5, <1>6

\* All blocks are free and all lists are empty.
LEMMA PcbInit ==
    ASSUME NEW app, NEW last, NEW addrs, NEW prios, PcbInstance(app, last, addrs, prios),
           Pcbs(app, last, addrs, prios)!Init
    PROVE  PcbInv(app, last, addrs)
  <1>1. /\ pcbTable = [i \in PcbBlock |-> PcbFree] /\ pcbPort = PcbFirst /\ pcbClock = 0
        /\ pcbLists = [listen |-> <<>>, bound |-> <<>>, active |-> <<>>, tw |-> <<>>]
        /\ pcbAddr \in addrs
    BY DEF Pcbs!Init, Pcbs!Block, Pcbs!FREE, PcbBlock, PcbFree
  <1>2. PcbTable(addrs, pcbTable, pcbClock)
    BY <1>1, PcbFreeEntry DEF PcbTable
  <1>3. PcbOnce(pcbLists) /\ \A l \in PcbNames : ToSet(pcbLists[l]) = {}
    <2>1. <<>> \in Seq(PcbBlock) /\ Distinct(<<>>) /\ ToSet(<<>>) = {}
      BY DEF Distinct, ToSet
    <2> QED
      BY <1>1, <2>1 DEF PcbOnce, PcbLists, PcbNames
  <1>4. PcbPlaced(pcbTable, pcbLists)
    BY <1>1, <1>3, PcbFreeEntry DEF PcbPlaced, PcbNames
  <1>5. PcbExclusive(pcbTable)
    BY <1>1, PcbFreeEntry DEF PcbExclusive, PcbBound
  <1>6. PcbOurs(app, pcbTable, pcbAddr)
    BY <1>1 DEF PcbOurs, PcbFree
  <1>7. pcbPort \in PcbFirst..last /\ pcbClock \in Nat
    BY <1>1, PcbConstants DEF PcbInstance
  <1> QED
    BY <1>1, <1>2, <1>3, <1>4, <1>5, <1>6, <1>7 DEF PcbInv, PcbRight

\* tcp_new: tcp_alloc alone.
LEMMA PcbTcpNew ==
    ASSUME NEW app, NEW last, NEW addrs, NEW prios, PcbInstance(app, last, addrs, prios),
           PcbInv(app, last, addrs), Pcbs(app, last, addrs, prios)!tcp_new
    PROVE  PcbInv(app, last, addrs)'
  <1>1. PICK prio \in prios :
           LET a == Pcbs(app, last, addrs, prios)!tcp_alloc(prio)
           IN  /\ pcbTable' = a.pcb /\ pcbLists' = a.lists
               /\ UNCHANGED <<pcbPort, pcbClock, pcbAddr>>
    BY DEF Pcbs!tcp_new
  <1>2. prio \in Nat
    BY DEF PcbInstance
  <1> QED
    BY <1>1, <1>2, PcbAlloc DEF PcbInv

\* A step that changes one entry, keeps the clock and the address, and moves the block.
LEMMA PcbOneStep ==
    ASSUME NEW app, NEW last, NEW addrs, PcbInv(app, last, addrs),
           NEW i \in PcbBlock, NEW e \in PcbEntry(addrs), e.tmr <= pcbClock,
           PcbMoved(pcbLists, pcbLists', i, PcbPlace(e)),
           PcbBound(e) /\ e.port # 0
           => \A j \in PcbBlock : j # i /\ PcbBound(pcbTable[j]) /\ pcbTable[j].port = e.port
                                  => pcbTable[j].ip # e.ip /\ pcbTable[j].ip # 0 /\ e.ip # 0,
           \/ app
           \/ e.state \in {"CLOSED", "LISTEN"} /\ e.ip = 0
           \/ e.state = "ACTIVE" /\ e.ip = pcbAddr
           \/ e.state \in {"FREE", "TIME_WAIT"},
           pcbTable' = [pcbTable EXCEPT ![i] = e],
           pcbPort' \in PcbFirst..last, UNCHANGED <<pcbClock, pcbAddr>>
    PROVE  PcbInv(app, last, addrs)'
  <1>1. PcbRight(app, addrs, pcbTable, pcbLists, pcbClock, pcbAddr)
    BY DEF PcbInv
  <1>2. PcbRight(app, addrs, [pcbTable EXCEPT ![i] = e], pcbLists', pcbClock, pcbAddr)
    BY <1>1, PcbChange
  <1> QED
    BY <1>2 DEF PcbInv

\* A block that an application bound is in a list, so tcp_bind and tcp_new_port see its port.
LEMMA PcbSeen ==
    ASSUME NEW app, NEW last, NEW addrs, NEW prios, PcbInv(app, last, addrs),
           NEW i \in PcbBlock, PcbBound(pcbTable[i])
    PROVE  i \in Pcbs(app, last, addrs, prios)!All
  <1>1. PcbPlace(pcbTable[i]) \in PcbNames
    BY DEF PcbBound, PcbNames
  <1>2. i \in ToSet(pcbLists[PcbPlace(pcbTable[i])])
    BY <1>1 DEF PcbInv, PcbRight, PcbPlaced
  <1>3. DOMAIN pcbLists = PcbNames
    BY DEF PcbInv, PcbRight, PcbOnce, PcbLists, PcbNames
  <1> QED
    BY <1>1, <1>2, <1>3 DEF Pcbs!All, Pcbs!Elems, ToSet

\* tcp_bind: the block enters the list of bound ones with a port that meets no other.
LEMMA PcbBind ==
    ASSUME NEW app, NEW last, NEW addrs, NEW prios, PcbInstance(app, last, addrs, prios),
           PcbInv(app, last, addrs), Pcbs(app, last, addrs, prios)!tcp_bind
    PROVE  PcbInv(app, last, addrs)'
  <1> DEFINE new == Pcbs(app, last, addrs, prios)!tcp_new_port
  <1>1. PICK i \in PcbBlock, ip \in IF app THEN {0, pcbAddr} ELSE {0}, p \in PcbPorts \cup {0} :
           LET port == IF p = 0 THEN new.port ELSE p
           IN  /\ pcbTable[i].state = "CLOSED" /\ pcbTable[i].port = 0
               /\ pcbPort' = IF p = 0 THEN new.last ELSE pcbPort
               /\ IF port # 0 /\ ~Pcbs(app, last, addrs, prios)!Taken(ip, port)
                  THEN /\ pcbTable' = [pcbTable EXCEPT ![i].ip = IF ip = 0 THEN @ ELSE ip, ![i].port = port]
                       /\ pcbLists' = Pcbs(app, last, addrs, prios)!Reg(pcbLists, "bound", i)
                  ELSE UNCHANGED <<pcbTable, pcbLists>>
               /\ UNCHANGED <<pcbClock, pcbAddr>>
    BY DEF Pcbs!tcp_bind, Pcbs!Block, PcbBlock
  <1>2. PcbTypes(last, addrs)
    BY PcbInvTypes
  <1>3. /\ new.last \in PcbFirst..last
        /\ new.port \in Nat
    BY <1>2, PcbNewPort, PcbConstants DEF PcbInstance
  <1> HIDE DEF new
  <1> DEFINE port == IF p = 0 THEN new.port ELSE p
             ip2 == IF ip = 0 THEN pcbTable[i].ip ELSE ip
             e == [pcbTable[i] EXCEPT !.ip = ip2, !.port = port]
  <1>4. pcbPort' \in PcbFirst..last /\ UNCHANGED <<pcbClock, pcbAddr>>
    BY <1>1, <1>3 DEF PcbInv
  <1>5. CASE port # 0 /\ ~Pcbs(app, last, addrs, prios)!Taken(ip, port)
    <2>1. /\ pcbTable \in [PcbBlock -> PcbEntry(addrs)] /\ pcbTable[i] \in PcbEntry(addrs)
          /\ pcbTable[i].tmr <= pcbClock /\ pcbAddr \in addrs
      BY <1>2 DEF PcbTypes
    <2>2. pcbTable' = [pcbTable EXCEPT ![i].ip = ip2, ![i].port = port]
      BY <1>1, <1>5
    <2>3. port \in PcbPorts \cup Nat /\ ip2 \in addrs \cup {0}
      BY <1>3, <2>1 DEF PcbEntry
    <2> HIDE DEF port, ip2
    <2>4. pcbTable' = [pcbTable EXCEPT ![i] = e]
      BY <2>1, <2>2
    <2>5. /\ e \in PcbEntry(addrs) /\ e.tmr <= pcbClock /\ e.state = "CLOSED"
          /\ e.ip = ip2 /\ e.port = port
      BY <1>1, <2>1, <2>3 DEF PcbEntry
    <2> HIDE DEF e
    <2>6. PcbPlace(e) = "bound" /\ PcbPlace(pcbTable[i]) = "none"
      BY <1>1, <1>5, <2>5 DEF PcbPlace
    <2>7. PcbMoved(pcbLists, pcbLists', i, "bound")
      <3>1. PcbOnce(pcbLists) /\ PcbPlaced(pcbTable, pcbLists)
        BY DEF PcbInv, PcbRight
      <3>2. PcbMoved(pcbLists, Pcbs(app, last, addrs, prios)!Reg(pcbLists, "bound", i), i, "bound")
        BY <3>1, <2>6, PcbEnters DEF PcbNames
      <3> QED
        BY <3>2, <1>1, <1>5 DEF port
    <2>8. \A j \in PcbBlock : j # i /\ PcbBound(pcbTable[j]) /\ pcbTable[j].port = e.port
                              => pcbTable[j].ip # e.ip /\ pcbTable[j].ip # 0 /\ e.ip # 0
      <3> SUFFICES ASSUME NEW j \in PcbBlock, PcbBound(pcbTable[j]), pcbTable[j].port = port
                   PROVE  pcbTable[j].ip # ip2 /\ pcbTable[j].ip # 0 /\ ip2 # 0
        BY <2>5
      <3>1. j \in Pcbs(app, last, addrs, prios)!All
        BY PcbSeen
      <3>2. ~(pcbTable[j].ip = 0 \/ ip = 0 \/ pcbTable[j].ip = ip)
        BY <3>1, <1>5 DEF Pcbs!Taken, Pcbs!InTheWay
      <3> QED
        BY <3>2 DEF ip2
    <2>9. app \/ e.ip = 0
      <3> SUFFICES ASSUME ~app PROVE e.ip = 0
        OBVIOUS
      <3>1. ip = 0
        BY <1>1
      <3>2. pcbTable[i].ip = 0
        BY <1>1 DEF PcbInv, PcbRight, PcbOurs
      <3> QED
        BY <3>1, <3>2, <2>5 DEF ip2
    <2> QED
      BY <1>4, <2>4, <2>5, <2>6, <2>7, <2>8, <2>9, PcbOneStep
  <1>6. CASE ~(port # 0 /\ ~Pcbs(app, last, addrs, prios)!Taken(ip, port))
    <2>1. UNCHANGED <<pcbTable, pcbLists>>
      BY <1>1, <1>6
    <2> QED
      BY <1>4, <2>1 DEF PcbInv
  <1> QED
    BY <1>5, <1>6

\* tcp_listen_with_backlog: the block that takes the place of the bound one keeps address and port.
LEMMA PcbListen ==
    ASSUME NEW app, NEW last, NEW addrs, NEW prios, PcbInstance(app, last, addrs, prios),
           PcbInv(app, last, addrs), Pcbs(app, last, addrs, prios)!tcp_listen_with_backlog
    PROVE  PcbInv(app, last, addrs)'
  <1>1. PICK i \in PcbBlock, j \in PcbBlock :
           /\ pcbTable[j].state = "FREE" /\ pcbTable[i].state = "CLOSED"
           /\ pcbTable' = [pcbTable EXCEPT ![j] = [pcbTable[i] EXCEPT !.state = "LISTEN", !.tmr = 0],
                                           ![i] = PcbFree]
           /\ pcbLists' = Pcbs(app, last, addrs, prios)!Reg(
                             IF pcbTable[i].port # 0
                             THEN Pcbs(app, last, addrs, prios)!Rmv(pcbLists, "bound", i)
                             ELSE pcbLists, "listen", j)
           /\ UNCHANGED <<pcbPort, pcbClock, pcbAddr>>
    BY DEF Pcbs!tcp_listen_with_backlog, Pcbs!ListenLists, Pcbs!Unused, Pcbs!Block, Pcbs!FREE,
           PcbBlock, PcbFree
  <1> DEFINE t == [pcbTable EXCEPT ![i] = PcbFree]
             q == IF pcbTable[i].port # 0
                  THEN Pcbs(app, last, addrs, prios)!Rmv(pcbLists, "bound", i) ELSE pcbLists
             e == [pcbTable[i] EXCEPT !.state = "LISTEN", !.tmr = 0]
  <1>2. /\ PcbRight(app, addrs, pcbTable, pcbLists, pcbClock, pcbAddr)
        /\ pcbTable \in [PcbBlock -> PcbEntry(addrs)] /\ pcbTable[i] \in PcbEntry(addrs)
        /\ PcbOnce(pcbLists) /\ PcbPlaced(pcbTable, pcbLists) /\ pcbClock \in Nat
    BY DEF PcbInv, PcbRight, PcbTable
  <1>3. PcbMoved(pcbLists, q, i, "none")
    <2>1. CASE pcbTable[i].port # 0
      <3>1. PcbPlace(pcbTable[i]) = "bound"
        BY <1>1, <2>1 DEF PcbPlace
      <3> QED
        BY <3>1, <2>1, <1>2, PcbLeaves DEF PcbNames
    <2>2. CASE pcbTable[i].port = 0
      <3>1. PcbPlace(pcbTable[i]) = "none"
        BY <1>1, <2>2 DEF PcbPlace
      <3>2. PcbMoved(pcbLists, pcbLists, i, PcbPlace(pcbTable[i]))
        BY <1>2, PcbStays
      <3> QED
        BY <3>1, <3>2, <2>2
    <2> QED
      BY <2>1, <2>2
  <1>4. /\ e \in PcbEntry(addrs) /\ e.state = "LISTEN" /\ e.tmr = 0
        /\ e.ip = pcbTable[i].ip /\ e.port = pcbTable[i].port
    BY <1>2 DEF PcbEntry, PcbStates
  <1>5. i # j
    BY <1>1
  <1> HIDE DEF e
  <1>6. pcbTable' = [t EXCEPT ![j] = e]
    BY <1>1, <1>2, <1>5 DEF e
  <1>7. pcbLists' = Pcbs(app, last, addrs, prios)!Reg(q, "listen", j)
    BY <1>1
  <1>8. PcbFree \in PcbEntry(addrs) /\ PcbFree.tmr <= pcbClock /\ PcbFree.state = "FREE"
        /\ PcbPlace(PcbFree) = "none" /\ ~PcbBound(PcbFree)
    BY <1>2, PcbFreeEntry DEF PcbBound, PcbFree
  <1>9. /\ t \in [PcbBlock -> PcbEntry(addrs)]
        /\ \A k \in PcbBlock : t[k] = IF k = i THEN PcbFree ELSE pcbTable[k]
    BY <1>2, <1>8
  <1> HIDE DEF q
  <1>10. PcbRight(app, addrs, t, q, pcbClock, pcbAddr)
    <2>1. PcbMoved(pcbLists, q, i, PcbPlace(PcbFree))
      BY <1>3, <1>8
    <2>2. PcbFree.state \in {"FREE", "TIME_WAIT"}
      BY <1>8
    <2> QED
      BY <1>2, <1>8, <2>1, <2>2, PcbChange
  <1> HIDE DEF t
  <1>11. PcbOnce(q) /\ PcbPlaced(t, q)
    BY <1>10 DEF PcbRight
  <1>12. PcbPlace(e) = "listen" /\ PcbPlace(t[j]) = "none"
    BY <1>1, <1>4, <1>5, <1>9 DEF PcbPlace
  <1>13. PcbMoved(q, pcbLists', j, "listen")
    BY <1>7, <1>11, <1>12, PcbEnters DEF PcbNames
  <1>14. PcbBound(e) /\ e.port # 0
         => \A k \in PcbBlock : k # j /\ PcbBound(t[k]) /\ t[k].port = e.port
                                => t[k].ip # e.ip /\ t[k].ip # 0 /\ e.ip # 0
    <2> SUFFICES ASSUME e.port # 0, NEW k \in PcbBlock, PcbBound(t[k]), t[k].port = e.port
                 PROVE  t[k].ip # e.ip /\ t[k].ip # 0 /\ e.ip # 0
      OBVIOUS
    <2>1. k # i /\ t[k] = pcbTable[k]
      BY <1>8, <1>9
    <2>2. PcbBound(pcbTable[i])
      BY <1>1, <1>4 DEF PcbBound, PcbPlace
    <2> QED
      BY <2>1, <2>2, <1>2, <1>4 DEF PcbRight, PcbExclusive
  <1>15. app \/ e.ip = 0
    BY <1>1, <1>2, <1>4 DEF PcbRight, PcbOurs
  <1>16. PcbRight(app, addrs, [t EXCEPT ![j] = e], pcbLists', pcbClock, pcbAddr)
    <2>1. e.tmr <= pcbClock /\ PcbMoved(q, pcbLists', j, PcbPlace(e))
      BY <1>2, <1>4, <1>12, <1>13
    <2>2. \/ app
          \/ e.state \in {"CLOSED", "LISTEN"} /\ e.ip = 0
      BY <1>4, <1>15
    <2> QED
      BY <2>1, <2>2, <1>4, <1>10, <1>14, PcbChange
  <1> QED
    BY <1>1, <1>6, <1>16 DEF PcbInv

\* What the lists say of the state of a block, and the types of what it keeps.
LEMMA PcbListed ==
    ASSUME NEW app, NEW last, NEW addrs, PcbInv(app, last, addrs)
    PROVE  /\ \A l \in PcbNames : ToSet(pcbLists[l]) \subseteq PcbBlock
           /\ \A i \in PcbBlock : /\ i \in ToSet(pcbLists.listen) <=> pcbTable[i].state = "LISTEN"
                                  /\ i \in ToSet(pcbLists.active) <=> pcbTable[i].state = "ACTIVE"
                                  /\ i \in ToSet(pcbLists.tw) <=> pcbTable[i].state = "TIME_WAIT"
                                  /\ i \in ToSet(pcbLists.bound)
                                     <=> pcbTable[i].state = "CLOSED" /\ pcbTable[i].port # 0
           /\ pcbTable \in [PcbBlock -> PcbEntry(addrs)]
           /\ \A i \in PcbBlock : pcbTable[i] \in PcbEntry(addrs) /\ pcbTable[i].tmr <= pcbClock
           /\ PcbOnce(pcbLists) /\ PcbPlaced(pcbTable, pcbLists)
           /\ pcbClock \in Nat /\ pcbAddr \in addrs /\ pcbPort \in PcbFirst..last
  <1>1. /\ PcbOnce(pcbLists) /\ PcbPlaced(pcbTable, pcbLists)
        /\ pcbTable \in [PcbBlock -> PcbEntry(addrs)]
        /\ \A i \in PcbBlock : pcbTable[i] \in PcbEntry(addrs) /\ pcbTable[i].tmr <= pcbClock
        /\ pcbClock \in Nat /\ pcbAddr \in addrs /\ pcbPort \in PcbFirst..last
    BY DEF PcbInv, PcbRight, PcbTable
  <1>2. \A l \in PcbNames : ToSet(pcbLists[l]) \subseteq PcbBlock
    <2>1. \A l \in PcbNames : pcbLists[l] \in Seq(PcbBlock)
      BY <1>1 DEF PcbOnce, PcbLists, PcbNames
    <2> QED
      BY <2>1 DEF ToSet
  <1>3. \A i \in PcbBlock : /\ i \in ToSet(pcbLists.listen) <=> PcbPlace(pcbTable[i]) = "listen"
                            /\ i \in ToSet(pcbLists.active) <=> PcbPlace(pcbTable[i]) = "active"
                            /\ i \in ToSet(pcbLists.tw) <=> PcbPlace(pcbTable[i]) = "tw"
                            /\ i \in ToSet(pcbLists.bound) <=> PcbPlace(pcbTable[i]) = "bound"
    BY <1>1 DEF PcbPlaced, PcbNames
  <1>4. ASSUME NEW i \in PcbBlock
        PROVE  /\ i \in ToSet(pcbLists.listen) <=> pcbTable[i].state = "LISTEN"
               /\ i \in ToSet(pcbLists.active) <=> pcbTable[i].state = "ACTIVE"
               /\ i \in ToSet(pcbLists.tw) <=> pcbTable[i].state = "TIME_WAIT"
               /\ i \in ToSet(pcbLists.bound) <=> pcbTable[i].state = "CLOSED" /\ pcbTable[i].port # 0
    BY <1>3 DEF PcbPlace
  <1> QED
    BY <1>1, <1>2, <1>4

\* tcp_connect: the block leaves the bound ones and becomes active, or stays in no list.
LEMMA PcbConnect ==
    ASSUME NEW app, NEW last, NEW addrs, NEW prios, PcbInstance(app, last, addrs, prios),
           PcbInv(app, last, addrs), Pcbs(app, last, addrs, prios)!tcp_connect
    PROVE  PcbInv(app, last, addrs)'
  <1> DEFINE gives == Pcbs(app, last, addrs, prios)!tcp_new_port
             new(i) == IF pcbTable[i].port = 0 THEN gives
                       ELSE [port |-> pcbTable[i].port, last |-> pcbPort]
  <1>1. PICK i \in PcbBlock :
           /\ app /\ pcbTable[i].state = "CLOSED"
           /\ pcbTable' = [pcbTable EXCEPT ![i].ip = IF @ = 0 THEN pcbAddr ELSE @,
                                           ![i].port = new(i).port,
                                           ![i].state = IF new(i).port # 0 THEN "ACTIVE" ELSE @]
           /\ pcbLists' = IF new(i).port # 0
                          THEN Pcbs(app, last, addrs, prios)!Reg(
                                  IF pcbTable[i].port # 0
                                  THEN Pcbs(app, last, addrs, prios)!Rmv(pcbLists, "bound", i)
                                  ELSE pcbLists, "active", i)
                          ELSE pcbLists
           /\ pcbPort' = new(i).last
           /\ UNCHANGED <<pcbClock, pcbAddr>>
    BY DEF Pcbs!tcp_connect, Pcbs!Block, PcbBlock
  <1>2. /\ pcbTable \in [PcbBlock -> PcbEntry(addrs)] /\ pcbTable[i] \in PcbEntry(addrs)
        /\ pcbTable[i].tmr <= pcbClock /\ pcbAddr \in addrs /\ pcbPort \in PcbFirst..last
        /\ PcbOnce(pcbLists) /\ PcbPlaced(pcbTable, pcbLists)
    BY PcbListed
  <1>3. gives.last \in PcbFirst..last /\ gives.port \in Nat
    BY PcbInvTypes, PcbNewPort, PcbConstants DEF PcbInstance
  <1> HIDE DEF gives
  <1> DEFINE port == new(i).port
             ip == IF pcbTable[i].ip = 0 THEN pcbAddr ELSE pcbTable[i].ip
             state == IF port # 0 THEN "ACTIVE" ELSE "CLOSED"
             e == [pcbTable[i] EXCEPT !.ip = ip, !.port = port, !.state = state]
  <1>4. /\ new(i).last \in PcbFirst..last /\ port \in PcbPorts \cup Nat
        /\ pcbTable[i].port # 0 => port # 0
        /\ ip \in addrs \cup {0} /\ state \in PcbStates
    BY <1>2, <1>3 DEF PcbEntry, PcbStates
  <1>5. pcbTable' = [pcbTable EXCEPT ![i].ip = ip, ![i].port = port, ![i].state = state]
    BY <1>1
  <1>6. pcbLists' = IF port # 0
                    THEN Pcbs(app, last, addrs, prios)!Reg(
                            IF pcbTable[i].port # 0
                            THEN Pcbs(app, last, addrs, prios)!Rmv(pcbLists, "bound", i)
                            ELSE pcbLists, "active", i)
                    ELSE pcbLists
    BY <1>1
  <1>7. state = IF port # 0 THEN "ACTIVE" ELSE "CLOSED"
    OBVIOUS
  <1>8. pcbPort' \in PcbFirst..last /\ UNCHANGED <<pcbClock, pcbAddr>>
    BY <1>1, <1>4
  <1> HIDE DEF port, ip, state
  <1>9. pcbTable' = [pcbTable EXCEPT ![i] = e]
    BY <1>2, <1>5
  <1>10. /\ e \in PcbEntry(addrs) /\ e.tmr <= pcbClock /\ e.state = state /\ e.port = port
    BY <1>2, <1>4 DEF PcbEntry
  <1> HIDE DEF e
  <1>11. PcbMoved(pcbLists, pcbLists', i, PcbPlace(e)) /\ ~PcbBound(e)
    <2>1. CASE port = 0
      <3>1. PcbPlace(e) = "none" /\ PcbPlace(pcbTable[i]) = "none" /\ pcbLists' = pcbLists
        BY <1>1, <1>4, <1>6, <1>7, <1>10, <2>1 DEF PcbPlace
      <3>2. PcbMoved(pcbLists, pcbLists, i, PcbPlace(pcbTable[i]))
        BY <1>2, PcbStays
      <3> QED
        BY <3>1, <3>2 DEF PcbBound
    <2>2. CASE port # 0 /\ pcbTable[i].port = 0
      <3>1. PcbPlace(e) = "active" /\ PcbPlace(pcbTable[i]) = "none"
        BY <1>1, <1>7, <1>10, <2>2 DEF PcbPlace
      <3>2. pcbLists' = Pcbs(app, last, addrs, prios)!Reg(pcbLists, "active", i)
        BY <1>6, <2>2
      <3>3. PcbMoved(pcbLists, pcbLists', i, "active")
        BY <1>2, <3>1, <3>2, PcbEnters DEF PcbNames
      <3> QED
        BY <3>1, <3>3 DEF PcbBound
    <2>3. CASE port # 0 /\ pcbTable[i].port # 0
      <3>1. PcbPlace(e) = "active" /\ PcbPlace(pcbTable[i]) = "bound"
        BY <1>1, <1>7, <1>10, <2>3 DEF PcbPlace
      <3>2. pcbLists' = Pcbs(app, last, addrs, prios)!Reg(
                           Pcbs(app, last, addrs, prios)!Rmv(pcbLists, "bound", i), "active", i)
        BY <1>6, <2>3
      <3>3. PcbMoved(pcbLists, pcbLists', i, "active")
        BY <1>2, <3>1, <3>2, PcbMoves DEF PcbNames
      <3> QED
        BY <3>1, <3>3 DEF PcbBound
    <2> QED
      BY <2>1, <2>2, <2>3
  <1> QED
    BY <1>1, <1>8, <1>9, <1>10, <1>11, PcbOneStep

\* tcp_close of a block that is bound, listens or is in no list.
LEMMA PcbClose ==
    ASSUME NEW app, NEW last, NEW addrs, NEW prios,
           PcbInv(app, last, addrs), Pcbs(app, last, addrs, prios)!tcp_close
    PROVE  PcbInv(app, last, addrs)'
  <1>1. PICK i \in PcbBlock :
           /\ pcbTable[i].state \in {"CLOSED", "LISTEN"}
           /\ pcbTable' = [pcbTable EXCEPT ![i] = PcbFree]
           /\ pcbLists' = IF pcbTable[i].state = "LISTEN"
                          THEN Pcbs(app, last, addrs, prios)!Rmv(pcbLists, "listen", i)
                          ELSE IF pcbTable[i].port # 0
                               THEN Pcbs(app, last, addrs, prios)!Rmv(pcbLists, "bound", i)
                               ELSE pcbLists
           /\ UNCHANGED <<pcbPort, pcbClock, pcbAddr>>
    BY DEF Pcbs!tcp_close, Pcbs!Block, Pcbs!FREE, PcbBlock, PcbFree
  <1>2. /\ PcbOnce(pcbLists) /\ PcbPlaced(pcbTable, pcbLists) /\ pcbPort \in PcbFirst..last
        /\ pcbClock \in Nat
    BY PcbListed
  <1>3. PcbFree \in PcbEntry(addrs) /\ PcbFree.tmr <= pcbClock /\ PcbFree.state = "FREE"
        /\ PcbPlace(PcbFree) = "none" /\ ~PcbBound(PcbFree)
    BY <1>2, PcbFreeEntry DEF PcbBound, PcbFree
  <1>4. PcbMoved(pcbLists, pcbLists', i, "none")
    <2>1. CASE pcbTable[i].state = "LISTEN"
      <3>1. PcbPlace(pcbTable[i]) = "listen"
        BY <2>1 DEF PcbPlace
      <3> QED
        BY <3>1, <2>1, <1>1, <1>2, PcbLeaves DEF PcbNames
    <2>2. CASE pcbTable[i].state = "CLOSED" /\ pcbTable[i].port # 0
      <3>1. PcbPlace(pcbTable[i]) = "bound"
        BY <2>2 DEF PcbPlace
      <3> QED
        BY <3>1, <2>2, <1>1, <1>2, PcbLeaves DEF PcbNames
    <2>3. CASE pcbTable[i].state = "CLOSED" /\ pcbTable[i].port = 0
      <3>1. PcbPlace(pcbTable[i]) = "none" /\ pcbLists' = pcbLists
        BY <2>3, <1>1 DEF PcbPlace
      <3>2. PcbMoved(pcbLists, pcbLists, i, PcbPlace(pcbTable[i]))
        BY <1>2, PcbStays
      <3> QED
        BY <3>1, <3>2
    <2> QED
      BY <2>1, <2>2, <2>3, <1>1
  <1>5. PcbMoved(pcbLists, pcbLists', i, PcbPlace(PcbFree)) /\ pcbPort' \in PcbFirst..last
        /\ UNCHANGED <<pcbClock, pcbAddr>>
    BY <1>1, <1>2, <1>3, <1>4
  <1> QED
    BY <1>1, <1>3, <1>5, PcbOneStep

\* tcp_listen_input: tcp_alloc, then the new block becomes active.
LEMMA PcbListenInput ==
    ASSUME NEW app, NEW last, NEW addrs, NEW prios, PcbInstance(app, last, addrs, prios),
           PcbInv(app, last, addrs), Pcbs(app, last, addrs, prios)!tcp_listen_input
    PROVE  PcbInv(app, last, addrs)'
  <1>1. PICK l \in ToSet(pcbLists.listen) :
           LET a == Pcbs(app, last, addrs, prios)!tcp_alloc(pcbTable[l].prio)
           IN  /\ pcbTable' = IF a.new = 0 THEN a.pcb
                              ELSE [a.pcb EXCEPT ![a.new].state = "ACTIVE", ![a.new].ip = pcbAddr,
                                                 ![a.new].port = pcbTable[l].port]
               /\ pcbLists' = IF a.new = 0 THEN a.lists
                              ELSE Pcbs(app, last, addrs, prios)!Reg(a.lists, "active", a.new)
               /\ UNCHANGED <<pcbPort, pcbClock, pcbAddr>>
    BY DEF Pcbs!tcp_listen_input, Pcbs!Elems, ToSet
  <1> DEFINE a == Pcbs(app, last, addrs, prios)!tcp_alloc(pcbTable[l].prio)
             i == a.new
             t == a.pcb
             e == [t[i] EXCEPT !.state = "ACTIVE", !.ip = pcbAddr, !.port = pcbTable[l].port]
  <1>2. l \in PcbBlock /\ pcbTable[l].prio \in Nat /\ pcbTable[l].port \in PcbPorts \cup Nat
        /\ pcbAddr \in addrs /\ pcbPort \in PcbFirst..last /\ pcbClock \in Nat
    BY PcbListed DEF PcbNames, PcbEntry
  <1>3. /\ PcbRight(app, addrs, a.pcb, a.lists, pcbClock, pcbAddr)
        /\ a.new # 0 => a.new \in PcbBlock /\ a.pcb[a.new] = PcbNew(pcbTable[l].prio, pcbClock)
    BY <1>2, PcbAlloc
  <1> HIDE DEF a
  <1>4. CASE i = 0
    <2>1. pcbTable' = a.pcb /\ pcbLists' = a.lists
      BY <1>1, <1>4 DEF a
    <2> QED
      BY <2>1, <1>1, <1>3 DEF PcbInv
  <1>5. CASE i # 0
    <2>1. i \in PcbBlock /\ t \in [PcbBlock -> PcbEntry(addrs)] /\ t[i] \in PcbEntry(addrs)
          /\ t[i].tmr <= pcbClock
      BY <1>3, <1>5 DEF PcbRight, PcbTable
    <2>2. PcbPlace(t[i]) = "none"
      BY <1>3, <1>5 DEF PcbPlace, PcbNew, PcbFree
    <2>3. pcbTable' = [t EXCEPT ![i].state = "ACTIVE", ![i].ip = pcbAddr, ![i].port = pcbTable[l].port]
          /\ pcbLists' = Pcbs(app, last, addrs, prios)!Reg(a.lists, "active", i)
      BY <1>1, <1>5 DEF a
    <2> HIDE DEF i, t
    <2>4. pcbTable' = [t EXCEPT ![i] = e]
      BY <2>1, <2>3
    <2>5. e \in PcbEntry(addrs) /\ e.tmr <= pcbClock /\ e.state = "ACTIVE" /\ e.ip = pcbAddr
      BY <1>2, <2>1 DEF PcbEntry, PcbStates
    <2> HIDE DEF e
    <2>6. PcbPlace(e) = "active" /\ ~PcbBound(e)
      BY <2>5 DEF PcbPlace, PcbBound
    <2>7. PcbRight(app, addrs, t, a.lists, pcbClock, pcbAddr)
      BY <1>3 DEF t
    <2>8. PcbOnce(a.lists) /\ PcbPlaced(t, a.lists)
      BY <2>7 DEF PcbRight
    <2>9. PcbMoved(a.lists, pcbLists', i, PcbPlace(e))
      BY <2>1, <2>2, <2>3, <2>6, <2>8, PcbEnters DEF PcbNames
    <2>10. PcbRight(app, addrs, [t EXCEPT ![i] = e], pcbLists', pcbClock, pcbAddr)
      BY <2>1, <2>5, <2>6, <2>7, <2>9, PcbChange
    <2> QED
      BY <1>1, <1>2, <2>4, <2>10 DEF PcbInv
  <1> QED
    BY <1>4, <1>5

\* A segment keeps a connection, ends it or brings it into TIME_WAIT.
LEMMA PcbSegment ==
    ASSUME NEW app, NEW last, NEW addrs, NEW prios,
           PcbInv(app, last, addrs), Pcbs(app, last, addrs, prios)!Segment
    PROVE  PcbInv(app, last, addrs)'
  <1>1. PICK i \in ToSet(pcbLists.active), s \in {"ACTIVE", "TIME_WAIT", "FREE"} :
           /\ pcbTable' = [pcbTable EXCEPT ![i] = IF s = "FREE" THEN PcbFree
                                                  ELSE [@ EXCEPT !.state = s, !.tmr = pcbClock]]
           /\ pcbLists' = CASE s = "ACTIVE" -> pcbLists
                            [] s = "TIME_WAIT" -> Pcbs(app, last, addrs, prios)!Reg(
                                  Pcbs(app, last, addrs, prios)!Rmv(pcbLists, "active", i), "tw", i)
                            [] OTHER -> Pcbs(app, last, addrs, prios)!Rmv(pcbLists, "active", i)
           /\ UNCHANGED <<pcbPort, pcbClock, pcbAddr>>
    BY DEF Pcbs!Segment, Pcbs!Elems, Pcbs!FREE, PcbFree, ToSet
  <1>2. /\ i \in PcbBlock /\ pcbTable[i].state = "ACTIVE"
        /\ pcbTable \in [PcbBlock -> PcbEntry(addrs)] /\ pcbTable[i] \in PcbEntry(addrs)
        /\ PcbOnce(pcbLists) /\ PcbPlaced(pcbTable, pcbLists)
        /\ pcbClock \in Nat /\ pcbPort \in PcbFirst..last
    BY PcbListed DEF PcbNames
  <1>3. PcbPlace(pcbTable[i]) = "active"
    BY <1>2 DEF PcbPlace
  <1>4. pcbPort' \in PcbFirst..last /\ UNCHANGED <<pcbClock, pcbAddr>>
    BY <1>1, <1>2
  <1>5. app \/ pcbTable[i].ip = pcbAddr
    BY <1>2 DEF PcbInv, PcbRight, PcbOurs
  <1>6. CASE s = "FREE"
    <2>1. pcbTable' = [pcbTable EXCEPT ![i] = PcbFree]
          /\ pcbLists' = Pcbs(app, last, addrs, prios)!Rmv(pcbLists, "active", i)
      BY <1>1, <1>6
    <2>2. PcbFree \in PcbEntry(addrs) /\ PcbFree.tmr <= pcbClock /\ PcbFree.state = "FREE"
          /\ PcbPlace(PcbFree) = "none" /\ ~PcbBound(PcbFree)
      BY <1>2, PcbFreeEntry DEF PcbBound, PcbFree
    <2>3. PcbMoved(pcbLists, pcbLists', i, PcbPlace(PcbFree))
      BY <1>2, <1>3, <2>1, <2>2, PcbLeaves DEF PcbNames
    <2> QED
      BY <1>2, <1>4, <2>1, <2>2, <2>3, PcbOneStep
  <1>7. CASE s # "FREE"
    <2> DEFINE e == [pcbTable[i] EXCEPT !.state = s, !.tmr = pcbClock]
    <2>1. pcbTable' = [pcbTable EXCEPT ![i] = e]
      BY <1>1, <1>2, <1>7
    <2>2. /\ e \in PcbEntry(addrs) /\ e.tmr <= pcbClock /\ e.state = s
          /\ e.ip = pcbTable[i].ip
      <3>1. s \in PcbStates
        BY DEF PcbStates
      <3>2. /\ e \in PcbEntry(addrs) /\ e.tmr = pcbClock /\ e.state = s
            /\ e.ip = pcbTable[i].ip
        BY <3>1, <1>2 DEF PcbEntry
      <3> QED
        BY <3>2, <1>2
    <2> HIDE DEF e
    <2>3. ~PcbBound(e)
      BY <1>7, <2>2 DEF PcbBound, PcbPlace
    <2>4. \/ app
          \/ e.state = "ACTIVE" /\ e.ip = pcbAddr
          \/ e.state \in {"FREE", "TIME_WAIT"}
      <3>1. s = "ACTIVE" \/ s = "TIME_WAIT"
        BY <1>7
      <3> QED
        BY <3>1, <1>5, <2>2
    <2>5. PcbMoved(pcbLists, pcbLists', i, PcbPlace(e))
      <3>1. CASE s = "ACTIVE"
        <4>1. PcbPlace(e) = PcbPlace(pcbTable[i]) /\ pcbLists' = pcbLists
          BY <3>1, <1>1, <1>3, <2>2 DEF PcbPlace
        <4>2. PcbMoved(pcbLists, pcbLists, i, PcbPlace(pcbTable[i]))
          BY <1>2, PcbStays
        <4> QED
          BY <4>1, <4>2
      <3>2. CASE s = "TIME_WAIT"
        <4>1. PcbPlace(e) = "tw"
          BY <3>2, <2>2 DEF PcbPlace
        <4>2. pcbLists' = Pcbs(app, last, addrs, prios)!Reg(
                             Pcbs(app, last, addrs, prios)!Rmv(pcbLists, "active", i), "tw", i)
          BY <3>2, <1>1
        <4>3. PcbMoved(pcbLists, pcbLists', i, "tw")
          BY <4>2, <1>2, <1>3, PcbMoves DEF PcbNames
        <4> QED
          BY <4>1, <4>3
      <3> QED
        BY <3>1, <3>2, <1>7
    <2> QED
      BY <1>2, <1>4, <2>1, <2>2, <2>3, <2>4, <2>5, PcbOneStep
  <1> QED
    BY <1>6, <1>7

\* tcp_timewait_input sets the time of a block and nothing else.
LEMMA PcbTimewaitInput ==
    ASSUME NEW app, NEW last, NEW addrs, NEW prios,
           PcbInv(app, last, addrs), Pcbs(app, last, addrs, prios)!tcp_timewait_input
    PROVE  PcbInv(app, last, addrs)'
  <1>1. PICK i \in ToSet(pcbLists.tw) :
           /\ pcbTable' = [pcbTable EXCEPT ![i].tmr = pcbClock]
           /\ UNCHANGED <<pcbLists, pcbPort, pcbClock, pcbAddr>>
    BY DEF Pcbs!tcp_timewait_input, Pcbs!Elems, ToSet
  <1> DEFINE e == [pcbTable[i] EXCEPT !.tmr = pcbClock]
  <1>2. /\ i \in PcbBlock /\ pcbTable[i].state = "TIME_WAIT"
        /\ pcbTable \in [PcbBlock -> PcbEntry(addrs)] /\ pcbTable[i] \in PcbEntry(addrs)
        /\ PcbOnce(pcbLists) /\ PcbPlaced(pcbTable, pcbLists)
        /\ pcbClock \in Nat /\ pcbPort \in PcbFirst..last
    BY PcbListed DEF PcbNames
  <1>3. pcbTable' = [pcbTable EXCEPT ![i] = e]
    BY <1>1, <1>2
  <1>4. e \in PcbEntry(addrs) /\ e.tmr <= pcbClock /\ e.state = "TIME_WAIT"
    BY <1>2 DEF PcbEntry
  <1> HIDE DEF e
  <1>5. PcbPlace(e) = PcbPlace(pcbTable[i]) /\ ~PcbBound(e)
    BY <1>2, <1>4 DEF PcbPlace, PcbBound
  <1>6. PcbMoved(pcbLists, pcbLists, i, PcbPlace(pcbTable[i]))
    BY <1>2, PcbStays
  <1>7. PcbMoved(pcbLists, pcbLists', i, PcbPlace(e)) /\ pcbPort' \in PcbFirst..last
        /\ UNCHANGED <<pcbClock, pcbAddr>>
    BY <1>1, <1>2, <1>5, <1>6
  <1> QED
    BY <1>2, <1>3, <1>4, <1>5, <1>7, PcbOneStep

\* tcp_slowtmr: the blocks whose wait is over leave.
LEMMA PcbSlowtmr ==
    ASSUME NEW app, NEW last, NEW addrs, NEW prios,
           PcbInv(app, last, addrs), Pcbs(app, last, addrs, prios)!tcp_slowtmr
    PROVE  PcbInv(app, last, addrs)'
  <1> DEFINE over == {i \in ToSet(pcbLists.tw) : pcbClock + 1 - pcbTable[i].tmr > PcbMsl2}
             ab == Pcbs(app, last, addrs, prios)!Abandon(pcbTable, pcbLists, over)
  <1>1. /\ pcbClock' = pcbClock + 1 /\ pcbTable' = ab[1] /\ pcbLists' = ab[2]
        /\ UNCHANGED <<pcbPort, pcbAddr>>
    BY DEF Pcbs!tcp_slowtmr, Pcbs!Elems, ToSet
  <1>2. PcbRight(app, addrs, pcbTable, pcbLists, pcbClock + 1, pcbAddr)
    <2>1. PcbTable(addrs, pcbTable, pcbClock) /\ pcbClock \in Nat
      BY DEF PcbInv, PcbRight
    <2>2. PcbTable(addrs, pcbTable, pcbClock + 1)
      BY <2>1 DEF PcbTable, PcbEntry
    <2> QED
      BY <2>2 DEF PcbInv, PcbRight
  <1>3. \A i \in PcbBlock \cap over : pcbTable[i].state \in {"ACTIVE", "TIME_WAIT"}
    BY PcbListed
  <1>4. pcbClock + 1 \in Nat
    BY DEF PcbInv
  <1> HIDE DEF over
  <1>5. PcbRight(app, addrs, ab[1], ab[2], pcbClock + 1, pcbAddr)
    BY <1>2, <1>3, <1>4, PcbAbandon
  <1> HIDE DEF ab
  <1> QED
    BY <1>1, <1>4, <1>5 DEF PcbInv

\* netif_set_ipaddr: every connection has the old address, so none is left.
LEMMA PcbSetIpaddr ==
    ASSUME NEW app, NEW last, NEW addrs, NEW prios, PcbInstance(app, last, addrs, prios),
           PcbInv(app, last, addrs), Pcbs(app, last, addrs, prios)!netif_set_ipaddr
    PROVE  PcbInv(app, last, addrs)'
  <1> DEFINE old == Pcbs(app, last, addrs, prios)!OfOldAddress
             ab == Pcbs(app, last, addrs, prios)!Abandon(pcbTable, pcbLists, old)
  <1>1. PICK a \in addrs \ {pcbAddr} :
           /\ pcbAddr' = a /\ pcbLists' = ab[2]
           /\ pcbTable' = [i \in PcbBlock |->
                             IF i \in ToSet(pcbLists.listen) /\ pcbTable[i].ip = pcbAddr
                             THEN [pcbTable[i] EXCEPT !.ip = a] ELSE ab[1][i]]
           /\ UNCHANGED <<pcbPort, pcbClock>>
    BY DEF Pcbs!netif_set_ipaddr, Pcbs!Elems, Pcbs!Block, PcbBlock, ToSet
  <1>2. ~app
    BY <1>1 DEF PcbInstance, PcbInv
  <1>3. \A i \in PcbBlock : i \in old <=> pcbTable[i].state = "ACTIVE"
    <2>1. \A i \in PcbBlock : i \in old <=> i \in ToSet(pcbLists.active) /\ pcbTable[i].ip = pcbAddr
      BY DEF Pcbs!OfOldAddress, Pcbs!Elems, ToSet
    <2> HIDE DEF old
    <2>2. \A i \in PcbBlock : pcbTable[i].state = "ACTIVE" => pcbTable[i].ip = pcbAddr
      BY <1>2 DEF PcbInv, PcbRight, PcbOurs
    <2> QED
      BY <2>1, <2>2, PcbListed
  <1> HIDE DEF old
  <1>4. \A i \in PcbBlock \cap old : pcbTable[i].state \in {"ACTIVE", "TIME_WAIT"}
    BY <1>3
  <1>5. PcbRight(app, addrs, pcbTable, pcbLists, pcbClock, pcbAddr) /\ pcbClock \in Nat
    BY DEF PcbInv
  <1>6. /\ PcbRight(app, addrs, ab[1], ab[2], pcbClock, pcbAddr)
        /\ \A i \in PcbBlock : ab[1][i] = IF i \in old THEN PcbFree ELSE pcbTable[i]
    BY <1>4, <1>5, PcbAbandon DEF PcbFree
  <1> HIDE DEF ab
  <1>7. pcbTable' = ab[1]
    <2>1. \A i \in ToSet(pcbLists.listen) \cap PcbBlock : pcbTable[i].ip # pcbAddr
      <3>1. \A i \in ToSet(pcbLists.listen) \cap PcbBlock : pcbTable[i].ip = 0
        BY <1>2, PcbListed DEF PcbInv, PcbRight, PcbOurs
      <3>2. pcbAddr # 0
        BY DEF PcbInv, PcbInstance
      <3> QED
        BY <3>1, <3>2
    <2>2. pcbTable' = [i \in PcbBlock |-> ab[1][i]]
      BY <1>1, <2>1
    <2> QED
      BY <2>2, <1>6 DEF PcbRight, PcbTable
  <1>8. PcbOurs(app, pcbTable', a)
    <2> SUFFICES ASSUME NEW i \in PcbBlock
                 PROVE  /\ ab[1][i].state \in {"CLOSED", "LISTEN"} => ab[1][i].ip = 0
                        /\ ab[1][i].state = "ACTIVE" => ab[1][i].ip = a
      BY <1>7 DEF PcbOurs
    <2>1. ab[1][i].state \in {"CLOSED", "LISTEN"} => ab[1][i].ip = 0
      BY <1>2, <1>6 DEF PcbRight, PcbOurs
    <2>2. ab[1][i].state # "ACTIVE"
      BY <1>3, <1>6 DEF PcbFree
    <2> QED
      BY <2>1, <2>2
  <1> QED
    BY <1>1, <1>6, <1>7, <1>8 DEF PcbInv, PcbRight

\* Every step of an instance keeps its invariant.
LEMMA PcbNext ==
    ASSUME NEW app, NEW last, NEW addrs, NEW prios, PcbInstance(app, last, addrs, prios),
           PcbInv(app, last, addrs),
           [Pcbs(app, last, addrs, prios)!Next]_(Pcbs(app, last, addrs, prios)!vars)
    PROVE  PcbInv(app, last, addrs)'
  <1>1. CASE UNCHANGED Pcbs(app, last, addrs, prios)!vars
    BY <1>1 DEF Pcbs!vars, PcbInv
  <1>2. CASE Pcbs(app, last, addrs, prios)!Calls
    BY <1>2, PcbTcpNew, PcbBind, PcbListen, PcbConnect, PcbClose DEF Pcbs!Calls
  <1>3. CASE \/ Pcbs(app, last, addrs, prios)!tcp_listen_input
             \/ Pcbs(app, last, addrs, prios)!Segment
             \/ Pcbs(app, last, addrs, prios)!tcp_timewait_input
             \/ Pcbs(app, last, addrs, prios)!tcp_slowtmr
             \/ Pcbs(app, last, addrs, prios)!netif_set_ipaddr
    BY <1>3, PcbListenInput, PcbSegment, PcbTimewaitInput, PcbSlowtmr, PcbSetIpaddr
  <1> QED
    BY <1>1, <1>2, <1>3 DEF Pcbs!Next

\* What BlocksSound asks of an instance follows from the invariant.
LEMMA PcbImplies ==
    ASSUME NEW app, NEW last, NEW addrs, NEW prios, PcbInstance(app, last, addrs, prios),
           PcbInv(app, last, addrs)
    PROVE  /\ Pcbs(app, last, addrs, prios)!TypeOK
           /\ Pcbs(app, last, addrs, prios)!ListsIntact
           /\ Pcbs(app, last, addrs, prios)!KillsTheOldest
           /\ app \/ Pcbs(app, last, addrs, prios)!AddressIsOurs
           /\ Pcbs(app, last, addrs, prios)!PortsExclusive
           /\ Pcbs(app, last, addrs, prios)!PortIsFree
  <1> USE DEF PcbBlock
  <1>1. Pcbs(app, last, addrs, prios)!TypeOK
    BY PcbListed DEF Pcbs!TypeOK, Pcbs!Block, PcbEntry, PcbStates
  <1>2. Pcbs(app, last, addrs, prios)!ListsIntact
    <2>1. \A l \in DOMAIN pcbLists :
             \A j, k \in DOMAIN pcbLists[l] : pcbLists[l][j] = pcbLists[l][k] => j = k
      <3>1. /\ DOMAIN pcbLists = PcbNames
            /\ \A l \in PcbNames : pcbLists[l] \in Seq(PcbBlock) /\ Distinct(pcbLists[l])
        BY PcbListed DEF PcbOnce, PcbLists, PcbNames
      <3> QED
        BY <3>1 DEF Distinct
    <2> QED
      BY <2>1, PcbListed DEF Pcbs!ListsIntact, Pcbs!Block, Pcbs!Elems, ToSet
  <1>3. Pcbs(app, last, addrs, prios)!KillsTheOldest
    <2> SUFFICES ASSUME NEW prio \in prios, NEW v \in Pcbs(app, last, addrs, prios)!Victims(prio)
                 PROVE  /\ Pcbs(app, last, addrs, prios)!Unused = {}
                        /\ IF pcbTable[v].state = "TIME_WAIT"
                           THEN \A i \in ToSet(pcbLists.tw) : PcbIdle(i) <= PcbIdle(v)
                           ELSE /\ pcbTable[v].state = "ACTIVE" /\ pcbLists.tw = <<>>
                                /\ pcbTable[v].prio <= prio
                                /\ \A i \in ToSet(pcbLists.active) :
                                      pcbTable[i].prio <= pcbTable[v].prio => PcbIdle(i) <= PcbIdle(v)
      BY DEF Pcbs!KillsTheOldest, Pcbs!Elems, Pcbs!Idle, PcbIdle, ToSet
    <2>1. prio \in Nat
      BY DEF PcbInstance
    <2> QED
      BY <2>1, PcbVictims
  <1>4. app \/ Pcbs(app, last, addrs, prios)!AddressIsOurs
    <2>1. app \/ \A i \in ToSet(pcbLists.active) : pcbTable[i].ip = pcbAddr
      <3>1. ToSet(pcbLists.active) \subseteq PcbBlock
        BY PcbListed DEF PcbNames
      <3> QED
        BY <3>1, PcbListed DEF PcbInv, PcbRight, PcbOurs
    <2> QED
      BY <2>1 DEF Pcbs!AddressIsOurs, Pcbs!Elems, ToSet
  <1>5. Pcbs(app, last, addrs, prios)!PortsExclusive
    <2>1. ASSUME NEW i \in ToSet(pcbLists.bound) \cup ToSet(pcbLists.listen)
          PROVE  i \in PcbBlock /\ PcbBound(pcbTable[i])
      <3>1. i \in PcbBlock
        BY PcbListed DEF PcbNames
      <3> QED
        BY <3>1, PcbListed DEF PcbBound, PcbPlace
    <2>2. \A i, j \in ToSet(pcbLists.bound) \cup ToSet(pcbLists.listen) :
             i # j /\ pcbTable[i].port = pcbTable[j].port /\ pcbTable[i].port # 0
             => pcbTable[i].ip # pcbTable[j].ip /\ 0 \notin {pcbTable[i].ip, pcbTable[j].ip}
      BY <2>1 DEF PcbInv, PcbRight, PcbExclusive
    <2> QED
      BY <2>2 DEF Pcbs!PortsExclusive, Pcbs!Elems, ToSet
  <1>6. Pcbs(app, last, addrs, prios)!PortIsFree
    <2> DEFINE new == Pcbs(app, last, addrs, prios)!tcp_new_port
               used == Pcbs(app, last, addrs, prios)!InUse
    <2>1. /\ new.port = 0 => PcbFirst..last \subseteq used
          /\ new.port # 0 => new.port \in (PcbFirst..last) \ used
      BY PcbInvTypes, PcbNewPort, PcbConstants DEF PcbInstance
    <2> QED
      BY <2>1 DEF Pcbs!PortIsFree
  <1> QED
    BY <1>1, <1>2, <1>3, <1>4, <1>5, <1>6

-----------------------------------------------------------------------------
(***************************************************************************)
(* The run's specification: at any time one of the components.             *)
(***************************************************************************)

\* A component that is proved about keeps its invariant while a behaviour is about it.
TablesInv ==
    /\ On("link") => LinkInv
    /\ On("mem") => MemInv
    /\ On("rx") => RxInv
    /\ On("tx") => TxInv
    /\ On("arp") => ArpInv
    /\ On("blocks") => PcbInv(FALSE, SrvLast, SrvAddrs)
    /\ On("ports") => PcbInv(TRUE, AppLast, {AppAddr})

\* Each component starts in its invariant.
LEMMA TablesInit ==
    Init => TablesInv
  <1> SUFFICES ASSUME Init PROVE TablesInv
    OBVIOUS
  <1>1. /\ On("link") => Link!Init
        /\ On("mem") => Mem!Init
        /\ On("rx") => Rx!Init
        /\ On("tx") => Tx!Init
        /\ On("arp") => Arp!Init
        /\ On("blocks") => Pcbs(FALSE, SrvLast, SrvAddrs, SrvPrios)!Init
        /\ On("ports") => Pcbs(TRUE, AppLast, {AppAddr}, AppPrios)!Init
    BY DEF Init, On
  <1>2. On("blocks") => PcbInv(FALSE, SrvLast, SrvAddrs)
    BY <1>1, PcbConstants, PcbInit
  <1>3. On("ports") => PcbInv(TRUE, AppLast, {AppAddr})
    BY <1>1, PcbConstants, PcbInit
  <1> QED
    BY <1>1, <1>2, <1>3, LinkInit, MemInit, RxInit, TxInit, ArpInit DEF TablesInv

\* A step of one component leaves "unit" alone, so it is a step of this component
\* or no step of it at all.
LEMMA TablesStep ==
    ASSUME [Next]_<<unit, pool>>
    PROVE  /\ unit' = unit
           /\ On("link") => [Link!Next]_(Link!vars)
           /\ On("mem") => [Mem!Next]_(Mem!vars)
           /\ On("rx") => [Rx!Next]_(Rx!vars)
           /\ On("tx") => [Tx!Next]_(Tx!vars)
           /\ On("arp") => [Arp!Next]_(Arp!vars)
           /\ On("blocks") =>
                 [Pcbs(FALSE, SrvLast, SrvAddrs, SrvPrios)!Next]_(Pcbs(FALSE, SrvLast, SrvAddrs, SrvPrios)!vars)
           /\ On("ports") =>
                 [Pcbs(TRUE, AppLast, {AppAddr}, AppPrios)!Next]_(Pcbs(TRUE, AppLast, {AppAddr}, AppPrios)!vars)
  <1>1. CASE UNCHANGED <<unit, pool>>
    BY <1>1 DEF pool, Link!vars, Mem!vars, Rx!vars, Tx!vars, Arp!vars, Pcbs!vars
  <1>2. CASE Next
    <2>1. unit' = unit
      BY <1>2 DEF Next, Same3, Same4, Same5, Same6, Same7, Same8, Same9, Same10, Same11, Same12,
                  Same13
    <2>2. /\ On("link") => Link!Next
          /\ On("mem") => Mem!Next
          /\ On("rx") => Rx!Next
          /\ On("tx") => Tx!Next
          /\ On("arp") => Arp!Next
          /\ On("blocks") => Pcbs(FALSE, SrvLast, SrvAddrs, SrvPrios)!Next
          /\ On("ports") => Pcbs(TRUE, AppLast, {AppAddr}, AppPrios)!Next
      BY <1>2 DEF Next, On
    <2> QED
      BY <2>1, <2>2
  <1> QED
    BY <1>1, <1>2

\* Each step keeps the invariant of the component it belongs to.
LEMMA TablesNext ==
    TablesInv /\ [Next]_<<unit, pool>> => TablesInv'
  <1> SUFFICES ASSUME TablesInv, [Next]_<<unit, pool>> PROVE TablesInv'
    OBVIOUS
  <1>1. /\ unit' = unit
        /\ On("link") => [Link!Next]_(Link!vars)
        /\ On("mem") => [Mem!Next]_(Mem!vars)
        /\ On("rx") => [Rx!Next]_(Rx!vars)
        /\ On("tx") => [Tx!Next]_(Tx!vars)
        /\ On("arp") => [Arp!Next]_(Arp!vars)
        /\ On("blocks") =>
              [Pcbs(FALSE, SrvLast, SrvAddrs, SrvPrios)!Next]_(Pcbs(FALSE, SrvLast, SrvAddrs, SrvPrios)!vars)
        /\ On("ports") =>
              [Pcbs(TRUE, AppLast, {AppAddr}, AppPrios)!Next]_(Pcbs(TRUE, AppLast, {AppAddr}, AppPrios)!vars)
    BY TablesStep
  <1>2. On("link")' => LinkInv'
    BY <1>1, LinkNext DEF TablesInv, On
  <1>3. On("mem")' => MemInv'
    BY <1>1, MemNext DEF TablesInv, On
  <1>4. On("rx")' => RxInv'
    BY <1>1, RxNext DEF TablesInv, On
  <1>5. On("tx")' => TxInv'
    BY <1>1, TxNext DEF TablesInv, On
  <1>6. On("arp")' => ArpInv'
    BY <1>1, ArpNext DEF TablesInv, On
  <1>7. On("blocks")' => PcbInv(FALSE, SrvLast, SrvAddrs)'
    BY <1>1, PcbConstants, PcbNext DEF TablesInv, On
  <1>8. On("ports")' => PcbInv(TRUE, AppLast, {AppAddr})'
    BY <1>1, PcbConstants, PcbNext DEF TablesInv, On
  <1> QED
    BY <1>2, <1>3, <1>4, <1>5, <1>6, <1>7, <1>8 DEF TablesInv

\* The invariants of the link monitor, of lwIP's heap, of the driver's rings, of the ARP table
\* and of TCP's control blocks hold in every state of the run's specification.
THEOREM TablesInvariance ==
    Spec => []TablesInv
  BY TablesInit, TablesNext, PTL DEF Spec

\* lwip_init.c: whatever the modes of the PHY, the size of the mailbox and the order in
\* which the cable changes and tcpip_thread works off its messages, link flag, lamp and
\* MAC follow the last report, and nothing is let in before the interface is set up.
THEOREM LinkIsSound ==
    Spec => []LinkSound
  <1>1. TablesInv => LinkSound
    BY LinkImplies DEF TablesInv, LinkSound
  <1> QED
    BY <1>1, TablesInvariance, PTL

\* mem.c: whatever the size of the heap, the requests and what other contexts free while
\* mem_malloc searches, blocks tile the heap, blocks in use stay, free neighbours are
\* merged, lfree is at or before the first free block, and mem_malloc fails only when no
\* free block was large enough.
THEOREM MemIsSound ==
    Spec => []MemSound
  <1>1. TablesInv => MemSound
    BY MemImplies DEF TablesInv, MemSound
  <1> QED
    BY <1>1, TablesInvariance, PTL

\* lpc18xx_43xx_emac.c: whatever the numbers of descriptors, buffers and places of the
\* mailbox, and whenever the DMA writes and an allocation fails, every buffer has one
\* owner, the indices describe the ring, what was posted is not overwritten, no frame with
\* an error is posted, and tcpip_thread gets frames in the order of the wire.
THEOREM RxIsSound ==
    Spec => RxSound
  <1>1. TablesInv => (On("rx") => /\ Rx!TypeOK /\ Rx!BufferOnce /\ Rx!RingRight
                                 /\ Rx!PostedIntact /\ Rx!BadDropped)
    BY RxImplies DEF TablesInv
  <1>2. TablesInv /\ [Next]_<<unit, pool>> => [On("rx") => Rx!InOrder]_<<unit, pool>>
    <2> SUFFICES ASSUME TablesInv, [Next]_<<unit, pool>>, ~UNCHANGED <<unit, pool>>, On("rx")
                 PROVE  Rx!InOrder
      OBVIOUS
    <2>1. RxInv /\ [Rx!Next]_(Rx!vars)
      BY TablesStep DEF TablesInv
    <2>2. ~UNCHANGED Rx!vars
      BY TablesStep DEF Rx!vars, pool
    <2> QED
      BY <2>1, <2>2, RxOrder
  <1> QED
    BY <1>1, <1>2, TablesInvariance, PTL DEF Spec, RxSound

\* lpc18xx_43xx_emac.c: whatever the number of descriptors and the lengths of the chains,
\* and whenever the DMA polls while a frame is filled in, the indices describe the ring, a
\* chain is freed once and after it was sent, and the DMA sends whole frames in the order of
\* the calls.
THEOREM TxIsSound ==
    Spec => TxSound
  <1>1. TablesInv => (On("tx") => Tx!TypeOK /\ Tx!RingRight /\ Tx!SentBeforeFreed)
    BY TxImplies DEF TablesInv
  <1>2. TablesInv /\ [Next]_<<unit, pool>> => [On("tx") => Tx!WholeFrames]_<<unit, pool>>
    <2> SUFFICES ASSUME TablesInv, [Next]_<<unit, pool>>, ~UNCHANGED <<unit, pool>>, On("tx")
                 PROVE  Tx!WholeFrames
      OBVIOUS
    <2>1. TxInv /\ [Tx!Next]_(Tx!vars)
      BY TablesStep DEF TablesInv
    <2>2. [Tx!WholeFrames]_(Tx!vars)
      BY <2>1, TxWhole
    <2> QED
      BY <2>2 DEF Tx!WholeFrames, Tx!vars
  <1> QED
    BY <1>1, <1>2, TablesInvariance, PTL DEF Spec, TxSound

\* etharp.c: whatever the number of entries, hosts and ages, whether static entries and
\* learning from traffic are on, and whenever memory fails, an address has one entry, every
\* packet goes to the Ethernet address that its host announced last, also one that waited
\* or used the cached index, and a waiting packet is given up only when its requests are over
\* or nothing else can be recycled.
THEOREM ArpIsSound ==
    Spec => ArpSound
  <1>1. TablesInv => (On("arp") => Arp!TypeOK /\ Arp!SentToItsHost /\ Arp!Consistent)
    BY ArpImplies DEF TablesInv
  <1>2. TablesInv /\ [Next]_<<unit, pool>> => [On("arp") => Arp!WaitingKept]_<<unit, pool>>
    <2> SUFFICES ASSUME TablesInv, [Next]_<<unit, pool>>, On("arp")
                 PROVE  Arp!WaitingKept
      OBVIOUS
    <2>1. ArpInv /\ [Arp!Next]_(Arp!vars)
      BY TablesStep DEF TablesInv
    <2> QED
      BY <2>1, ArpNext
  <1> QED
    BY <1>1, <1>2, TablesInvariance, PTL DEF Spec, ArpSound

\* tcp.c: whatever the number of control blocks, the range of ports, the priorities, the time of
\* TIME_WAIT and the addresses that the server's interface gets, a block is in the list of its
\* state, tcp_alloc kills the oldest and none of a higher priority, no connection keeps an old
\* address, no two bound blocks can get the same connection, and tcp_new_port gives a free port
\* or there is none.
THEOREM BlocksIsSound ==
    Spec => []BlocksSound
  <1>1. TablesInv => BlocksSound
    <2> SUFFICES ASSUME TablesInv PROVE BlocksSound
      OBVIOUS
    <2>1. On("blocks") => /\ Pcbs(FALSE, SrvLast, SrvAddrs, SrvPrios)!TypeOK
                          /\ Pcbs(FALSE, SrvLast, SrvAddrs, SrvPrios)!ListsIntact
                          /\ Pcbs(FALSE, SrvLast, SrvAddrs, SrvPrios)!KillsTheOldest
                          /\ Pcbs(FALSE, SrvLast, SrvAddrs, SrvPrios)!AddressIsOurs
                          /\ Pcbs(FALSE, SrvLast, SrvAddrs, SrvPrios)!PortsExclusive
      BY PcbConstants, PcbImplies DEF TablesInv
    <2>2. On("ports") => /\ Pcbs(TRUE, AppLast, {AppAddr}, AppPrios)!ListsIntact
                         /\ Pcbs(TRUE, AppLast, {AppAddr}, AppPrios)!PortsExclusive
                         /\ Pcbs(TRUE, AppLast, {AppAddr}, AppPrios)!PortIsFree
      BY PcbConstants, PcbImplies DEF TablesInv
    <2> QED
      BY <2>1, <2>2 DEF BlocksSound
  <1> QED
    BY <1>1, TablesInvariance, PTL
=============================================================================
