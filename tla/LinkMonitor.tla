---------------------------- MODULE LinkMonitor -----------------------------
(***************************************************************************)
(* The task vStackIpSetup (lwip_init.c): it starts tcpip_thread, adds the  *)
(* network interface (netif.c, lpc_enetif_init), lets frames in, creates   *)
(* the server and then follows the PHY for ever.  A change of the link is  *)
(* written to the MAC by this task and to the interface by tcpip_thread,   *)
(* through the mailbox that frames and netconn calls use as well.          *)
(*                                                                         *)
(* lpc_etharp_output sends nothing while the interface's link flag is not  *)
(* set: with a flag that stays wrong the RTU is mute.                      *)
(***************************************************************************)
EXTENDS Integers, Sequences

CONSTANTS
  Modes,            \* modes of the link: [fast |-> PHY_LINK_SPEED100, full |-> PHY_LINK_FULLDUPLX]
  Off,              \* no link
  TCPIP_MBOX_SIZE,  \* places of tcpip_thread's mailbox
  Memory,           \* TRUE: tcpip_callback_with_block may find no memory
  Changes           \* bound: changes on the wire

LinkAssumption == /\ Off \notin Modes /\ \A m \in Modes : m \in [fast : BOOLEAN, full : BOOLEAN]
                  /\ TCPIP_MBOX_SIZE \in Nat \ {0} /\ Memory \in BOOLEAN /\ Changes \in Nat

VARIABLES
  phy,      \* what the wire says now
  seen,     \* physts as lpcPHYStsPoll last returned it
  changes,  \* changes on the wire so far
  mac,      \* FES and DM of MAC_CONFIG
  led,      \* output pin 5.12
  netif,    \* lpc_netif: is it listed, has it its address, its flags UP and LINK_UP
  mbox,     \* mailbox of tcpip_thread: "up", "down" and "frame"
  started,  \* [thread: tcpip_thread exists, done: tcpipdone, irq: ETHERNET_IRQn enabled, server: tcp_thread exists]
  prt_ip,   \* is the address printed
  pc        \* place of vStackIpSetup

vars == <<phy, seen, changes, mac, led, netif, mbox, started, prt_ip, pc>>
world == <<phy, changes>>

Init == /\ phy = Off /\ seen = Off /\ changes = 0
        /\ mac = [fast |-> FALSE, full |-> FALSE] /\ led = FALSE
        /\ netif = [listed |-> FALSE, addr |-> FALSE, up |-> FALSE, link |-> FALSE]
        /\ mbox = <<>> /\ prt_ip = FALSE /\ pc = "start"
        /\ started = [thread |-> FALSE, done |-> FALSE, irq |-> FALSE, server |-> FALSE]

TypeOK == /\ {phy, seen} \subseteq Modes \cup {Off} /\ mac \in [fast : BOOLEAN, full : BOOLEAN]
          /\ Len(mbox) <= TCPIP_MBOX_SIZE
          /\ netif \in [listed : BOOLEAN, addr : BOOLEAN, up : BOOLEAN, link : BOOLEAN]

(***************************************************************************)
(* Start.                                                                  *)
(***************************************************************************)
tcpip_init ==
  /\ pc = "start" /\ pc' = "wait" /\ started' = [started EXCEPT !.thread = TRUE]
  /\ UNCHANGED <<world, seen, mac, led, netif, mbox, prt_ip>>

tcpip_init_done_signal ==
  /\ started.thread /\ ~started.done /\ started' = [started EXCEPT !.done = TRUE]
  /\ UNCHANGED <<world, seen, mac, led, netif, mbox, prt_ip, pc>>

\* netif_set_addr gives the address, before the driver has set the flags
netif_set_addr == [netif EXCEPT !.addr = TRUE, !.up = FALSE, !.link = FALSE]

\* lpc_enetif_init: flags with UP, and in low_level_init a MAC for a fast link; without a PHY netif_add fails and the assertion halts
lpc_enetif_init(n) == [n EXCEPT !.up = TRUE]
low_level_init == [fast |-> TRUE, full |-> TRUE]

netif_add ==
  /\ pc = "wait" /\ started.done
  /\ \/ pc' = "added" /\ netif' = lpc_enetif_init(netif_set_addr) /\ mac' = low_level_init
     \/ pc' = "halted" /\ netif' = netif_set_addr /\ UNCHANGED mac
  /\ UNCHANGED <<world, seen, led, mbox, prt_ip, started>>

\* The end of netif_add, netif_set_default and netif_set_up, which finds the flag set
netif_set_up ==
  /\ pc = "added" /\ pc' = "irq" /\ netif' = [netif EXCEPT !.listed = TRUE, !.up = TRUE]
  /\ UNCHANGED <<world, seen, mac, led, mbox, prt_ip, started>>

IrqWhenAdded ==
  /\ pc = "added" /\ pc' = "threads" /\ started' = [started EXCEPT !.irq = TRUE]
  /\ UNCHANGED <<world, seen, mac, led, netif, mbox, prt_ip>>
NVIC_EnableIRQ ==
  /\ pc = "irq" /\ pc' = "threads" /\ started' = [started EXCEPT !.irq = TRUE]
  /\ UNCHANGED <<world, seen, mac, led, netif, mbox, prt_ip>>

stackIp_ThreadInit ==
  /\ pc = "threads" /\ pc' = "poll" /\ started' = [started EXCEPT !.server = TRUE]
  /\ UNCHANGED <<world, seen, mac, led, netif, mbox, prt_ip>>

(***************************************************************************)
(* The loop.                                                               *)
(***************************************************************************)
lpcPHYStsPoll ==
  /\ pc = "poll" /\ seen' = phy
  /\ pc' = IF phy = seen THEN "print" ELSE IF phy = Off THEN "lost" ELSE "found"
  /\ UNCHANGED <<world, mac, led, netif, mbox, prt_ip, started>>

\* The MAC has the speed and the duplex of the PHY before the stack is told
SpeedOnly == [mac EXCEPT !.fast = seen.fast]
SetMac == seen

LinkFound ==
  /\ pc = "found" /\ pc' = "post_up" /\ led' = TRUE /\ prt_ip' = FALSE /\ mac' = SetMac
  /\ UNCHANGED <<world, seen, netif, mbox, started>>

LinkLost ==
  /\ pc = "lost" /\ pc' = "post_down" /\ led' = FALSE
  /\ UNCHANGED <<world, seen, mac, netif, mbox, prt_ip, started>>

\* The message, and how it gets into the mailbox
Told == IF pc = "post_up" THEN "up" ELSE "down"
DropWhenFull == IF Len(mbox) < TCPIP_MBOX_SIZE THEN mbox' = Append(mbox, Told) ELSE UNCHANGED mbox
SysMboxPost == Len(mbox) < TCPIP_MBOX_SIZE /\ mbox' = Append(mbox, Told)

tcpip_callback_with_block ==
  /\ pc \in {"post_up", "post_down"} /\ pc' = "delay"
  /\ \/ SysMboxPost
     \/ Memory /\ UNCHANGED mbox
  /\ UNCHANGED <<world, seen, mac, led, netif, prt_ip, started>>

Delay == /\ pc = "delay" /\ pc' = "print"
         /\ UNCHANGED <<world, seen, mac, led, netif, mbox, prt_ip, started>>

PrintAddress == /\ pc = "print" /\ pc' = "poll" /\ prt_ip' = (prt_ip \/ netif.addr)
                /\ UNCHANGED <<world, seen, mac, led, netif, mbox, started>>

Setup == \/ tcpip_init \/ netif_add \/ netif_set_up \/ NVIC_EnableIRQ \/ stackIp_ThreadInit
Loop == \/ lpcPHYStsPoll \/ LinkFound \/ LinkLost \/ tcpip_callback_with_block \/ Delay \/ PrintAddress

(***************************************************************************)
(* tcpip_thread, the driver and the wire.                                  *)
(***************************************************************************)
SetLink(m) == [netif EXCEPT !.link = IF m = "frame" THEN @ ELSE m = "up"]   \* netif_set_link_up, netif_set_link_down

tcpip_thread ==
  /\ started.done /\ mbox # <<>>
  /\ mbox' = Tail(mbox) /\ netif' = SetLink(Head(mbox))
  /\ UNCHANGED <<world, seen, mac, led, prt_ip, started, pc>>

\* The receive task posts what the interrupt announced, or drops it
tcpip_input ==
  /\ started.irq /\ Len(mbox) < TCPIP_MBOX_SIZE /\ mbox' = Append(mbox, "frame")
  /\ UNCHANGED <<world, seen, mac, led, netif, prt_ip, started, pc>>

Wire == /\ changes < Changes /\ changes' = changes + 1
        /\ \E p \in Modes \cup {Off} : p # phy /\ phy' = p
        /\ UNCHANGED <<seen, mac, led, netif, mbox, prt_ip, started, pc>>

vStackIpSetup == Setup \/ Loop
Thread == tcpip_init_done_signal \/ tcpip_thread
Halted == pc = "halted" /\ UNCHANGED vars   \* sys_assert loops

Next == vStackIpSetup \/ Thread \/ tcpip_input \/ Wire \/ Halted

Spec == Init /\ [][Next]_vars
\* Both tasks run; the receive task is above tcpip_thread's mailbox, so a place may be taken again and again
Live == Spec /\ SF_vars(vStackIpSetup) /\ WF_vars(Thread)

----------------------------------------------------------------------------
Busy == pc \in {"found", "lost", "post_up", "post_down"}
Pending == \E k \in DOMAIN mbox : mbox[k] # "frame"

\* tcpip_callback_with_block(.., 1): when nothing is under way, the interface's link flag, the lamp and the
\* last report of the PHY agree, also when the mailbox was full of frames.
LinkFollows == ~Busy => /\ led = (seen # Off)
                        /\ ~Pending => netif.link = (seen # Off)

\* vStackIpSetup: whenever the stack believes in a link that the PHY has reported, the MAC has its speed and duplex.
MacAgrees == netif.link /\ seen # Off /\ ~Busy => mac = seen

\* vStackIpSetup: no frame reaches tcpip_thread, and no server runs, before the interface is listed with its address.
InputAfterSetup == mbox # <<>> \/ started.server => netif.listed /\ netif.addr /\ netif.up

\* When the wire does not change any more, the link flag becomes what the wire says.
Quiet == changes = Changes /\ started.server
Agrees == netif.link = (phy # Off)
LinkSettles == Quiet ~> Agrees
=============================================================================
