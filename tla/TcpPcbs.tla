------------------------------ MODULE TcpPcbs -------------------------------
(***************************************************************************)
(* The control blocks of TCP (tcp.c): the four lists they are in, the      *)
(* local addresses and ports they own, and what tcp_alloc does when there  *)
(* is no memory for another one: it kills the oldest connection in         *)
(* TIME_WAIT, then the oldest one of the same or a lower priority.         *)
(* netif_set_ipaddr changes the address below them.  What connections send *)
(* and receive is in TcpConnection, TcpSend and TcpReceive.                *)
(***************************************************************************)
EXTENDS Integers, Sequences

CONSTANTS
  N,            \* control blocks that fit into the memory
  Start, End,   \* TCP_LOCAL_PORT_RANGE_START and _END
  Ports,        \* ports that applications bind
  Addrs,        \* addresses the interface may have
  Prios,        \* priorities
  Msl2,         \* 2 * TCP_MSL in ticks
  Ticks,        \* bound: ticks of tcp_slowtmr
  OwnAddress,   \* TRUE: applications may bind to the interface's address, not only to any
  Client,       \* TRUE: applications open connections themselves
  Memory        \* TRUE: tcp_enqueue_flags may find no memory

PcbsAssumption == /\ N \in Nat \ {0} /\ Start \in Nat \ {0} /\ End \in Nat /\ Start <= End
                  /\ Prios \subseteq Nat /\ 0 \notin Ports \cup Addrs /\ {Msl2, Ticks} \subseteq Nat
                  /\ {OwnAddress, Client, Memory} \subseteq BOOLEAN

VARIABLES
  pcb,       \* the blocks: [state, ip (0: any), port (0: none), prio, tmr]
  lists,     \* tcp_listen_pcbs, tcp_bound_pcbs, tcp_active_pcbs, tcp_tw_pcbs
  tcp_port,  \* the local port given last
  ticks,     \* tcp_ticks
  addr       \* the address of the interface

vars == <<pcb, lists, tcp_port, ticks, addr>>

Block == 1..N
FREE == [state |-> "FREE", ip |-> 0, port |-> 0, prio |-> 0, tmr |-> 0]
Elems(s) == {s[k] : k \in DOMAIN s}
\* The list s without the blocks in S
Without(s, S) ==
  LET f[k \in 0..Len(s)] == IF k = 0 THEN <<>>
                            ELSE IF s[k] \in S THEN f[k - 1] ELSE Append(f[k - 1], s[k])
  IN f[Len(s)]
All == UNION {Elems(lists[l]) : l \in DOMAIN lists}

Init == /\ pcb = [i \in Block |-> FREE] /\ tcp_port = Start /\ ticks = 0
        /\ lists = [listen |-> <<>>, bound |-> <<>>, active |-> <<>>, tw |-> <<>>] /\ addr \in Addrs

TypeOK == /\ \A i \in Block : /\ pcb[i].state \in {"FREE", "CLOSED", "LISTEN", "ACTIVE", "TIME_WAIT"}
                              /\ pcb[i].ip \in Addrs \cup {0} /\ pcb[i].tmr <= ticks
          /\ tcp_port \in Start..End

\* TCP_REG and TCP_RMV
Reg(ls, l, i) == [ls EXCEPT ![l] = <<i>> \o @]
Rmv(ls, l, i) == [ls EXCEPT ![l] = Without(@, {i})]

(***************************************************************************)
(* Memory.  Idle(i) is the time since the last segment.                    *)
(***************************************************************************)
Idle(i) == ticks - pcb[i].tmr
Unused == {i \in Block : pcb[i].state = "FREE"}

\* tcp_abandon: the block leaves its list and is freed
Abandon(p, ls, S) ==
  <<[i \in Block |-> IF i \in S THEN FREE ELSE p[i]],
    [ls EXCEPT !.active = Without(@, S), !.tw = Without(@, S)]>>

\* Of a list of candidates the scan keeps the last one that is idle for at least as long as the one before
Scan(s, better(_, _)) ==
  LET f[k \in 0..Len(s)] == IF k = 0 THEN 0
                            ELSE IF better(s[k], f[k - 1]) THEN s[k] ELSE f[k - 1]
  IN f[Len(s)]

tcp_kill_timewait == Scan(lists.tw, LAMBDA i, b : b = 0 \/ Idle(i) >= Idle(b))
KillLowest(prio) ==
  Scan(lists.active, LAMBDA i, b : pcb[i].prio <= prio /\ (b = 0 \/ pcb[i].prio <= pcb[b].prio))
tcp_kill_prio(prio) ==
  Scan(lists.active, LAMBDA i, b : pcb[i].prio <= prio
                                   /\ (b # 0 => pcb[i].prio <= pcb[b].prio /\ Idle(i) >= Idle(b)))

\* The victims of tcp_alloc: nobody while there is memory; the memory of one is enough for the new block
PrioFirst(prio) == IF Unused # {} THEN {}
                   ELSE {IF tcp_kill_prio(prio) # 0 THEN tcp_kill_prio(prio) ELSE tcp_kill_timewait} \ {0}
Victims(prio) == IF Unused # {} THEN {}
                 ELSE {IF tcp_kill_timewait # 0 THEN tcp_kill_timewait ELSE tcp_kill_prio(prio)} \ {0}

\* The state after tcp_alloc: new is the block, 0 when there is none
tcp_alloc(prio) ==
  LET v == Victims(prio)
      a == Abandon(pcb, lists, v)
      free == {i \in Block : a[1][i].state = "FREE"}
      new == IF free = {} THEN 0 ELSE CHOOSE i \in free : \A j \in free : i <= j
  IN [new |-> new, lists |-> a[2],
      pcb |-> IF new = 0 THEN a[1]
              ELSE [a[1] EXCEPT ![new] = [FREE EXCEPT !.state = "CLOSED", !.prio = prio, !.tmr = ticks]]]

(***************************************************************************)
(* Ports.  tcp_new_port tries the ports after the last one in turn.        *)
(***************************************************************************)
InUse == {pcb[i].port : i \in All}
Succ(p) == IF p = End THEN Start ELSE p + 1
StopsEarly ==
  LET try[n \in 0..(End - Start)] == IF n = 0 THEN Succ(tcp_port) ELSE Succ(try[n - 1])
      ok == {n \in 0..(End - Start - 1) : try[n] \notin InUse}
  IN IF ok = {} THEN [port |-> 0, last |-> tcp_port]
     ELSE LET n == CHOOSE m \in ok : \A k \in ok : m <= k IN [port |-> try[n], last |-> try[n]]
tcp_new_port ==
  LET try[n \in 0..(End - Start)] == IF n = 0 THEN Succ(tcp_port) ELSE Succ(try[n - 1])
      ok == {n \in 0..(End - Start) : try[n] \notin InUse}
  IN IF ok = {} THEN [port |-> 0, last |-> tcp_port]
     ELSE LET n == CHOOSE m \in ok : \A k \in ok : m <= k IN [port |-> try[n], last |-> try[n]]

(***************************************************************************)
(* The calls of an application.                                            *)
(***************************************************************************)
tcp_new == \E prio \in Prios :
  LET a == tcp_alloc(prio) IN
  /\ pcb' = a.pcb /\ lists' = a.lists
  /\ UNCHANGED <<tcp_port, ticks, addr>>

\* Does a block of one of the lists have the port at an address that meets ip
InTheWay(S, ip, port) == \E i \in S : pcb[i].port = port /\ (pcb[i].ip = 0 \/ ip = 0 \/ pcb[i].ip = ip)
Unchecked(ip, port) == InTheWay(Elems(lists.bound) \cup Elems(lists.active), ip, port)
Taken(ip, port) == InTheWay(All, ip, port)

tcp_bind == \E i \in Block, ip \in IF OwnAddress THEN {0, addr} ELSE {0}, p \in Ports \cup {0} :
  LET new == tcp_new_port
      port == IF p = 0 THEN new.port ELSE p
  IN /\ pcb[i].state = "CLOSED" /\ pcb[i].port = 0
     /\ tcp_port' = IF p = 0 THEN new.last ELSE tcp_port
     /\ IF port # 0 /\ ~Taken(ip, port)
        THEN pcb' = [pcb EXCEPT ![i].ip = IF ip = 0 THEN @ ELSE ip, ![i].port = port] /\ lists' = Reg(lists, "bound", i)
        ELSE UNCHANGED <<pcb, lists>>
     /\ UNCHANGED <<ticks, addr>>

\* A smaller block takes the place of the bound one, which is freed when there is memory for both
LeavesBound(i, j) == Reg(lists, "listen", j)
ListenLists(i, j) == Reg(IF pcb[i].port # 0 THEN Rmv(lists, "bound", i) ELSE lists, "listen", j)

tcp_listen_with_backlog == \E i \in Block, j \in Unused :
  /\ pcb[i].state = "CLOSED" /\ \A k \in Unused : j <= k
  /\ pcb' = [pcb EXCEPT ![j] = [pcb[i] EXCEPT !.state = "LISTEN", !.tmr = 0], ![i] = FREE]
  /\ lists' = ListenLists(i, j)
  /\ UNCHANGED <<tcp_port, ticks, addr>>

\* With no memory for the SYN the address and the port stay with the block, which is in no list
tcp_connect == \E i \in Block, mem \in IF Memory THEN BOOLEAN ELSE {TRUE} :
  LET new == IF pcb[i].port = 0 THEN tcp_new_port ELSE [port |-> pcb[i].port, last |-> tcp_port]
      sent == mem /\ new.port # 0
  IN /\ Client /\ pcb[i].state = "CLOSED"
     /\ pcb' = [pcb EXCEPT ![i].ip = IF @ = 0 THEN addr ELSE @, ![i].port = new.port,
                           ![i].state = IF sent THEN "ACTIVE" ELSE @]
     /\ lists' = IF sent THEN Reg(IF pcb[i].port # 0 THEN Rmv(lists, "bound", i) ELSE lists, "active", i) ELSE lists
     /\ tcp_port' = new.last
     /\ UNCHANGED <<ticks, addr>>

\* tcp_close_shutdown of a block without a connection
tcp_close == \E i \in Block :
  /\ pcb[i].state \in {"CLOSED", "LISTEN"}
  /\ pcb' = [pcb EXCEPT ![i] = FREE]
  /\ lists' = IF pcb[i].state = "LISTEN" THEN Rmv(lists, "listen", i)
              ELSE IF pcb[i].port # 0 THEN Rmv(lists, "bound", i) ELSE lists
  /\ UNCHANGED <<tcp_port, ticks, addr>>

(***************************************************************************)
(* What the network, the timers and the interface do.                      *)
(***************************************************************************)
\* tcp_listen_input: a SYN makes a block with the listener's priority
tcp_listen_input == \E l \in Elems(lists.listen) :
  LET a == tcp_alloc(pcb[l].prio) IN
  /\ pcb[l].ip \in {0, addr}
  /\ pcb' = IF a.new = 0 THEN a.pcb
            ELSE [a.pcb EXCEPT ![a.new].state = "ACTIVE", ![a.new].ip = addr, ![a.new].port = pcb[l].port]
  /\ lists' = IF a.new = 0 THEN a.lists ELSE Reg(a.lists, "active", a.new)
  /\ UNCHANGED <<tcp_port, ticks, addr>>

\* A segment for a connection (tcp_input), which may end it (tcp_process)
Segment == \E i \in Elems(lists.active), s \in {"ACTIVE", "TIME_WAIT", "FREE"} :
  /\ pcb' = [pcb EXCEPT ![i] = IF s = "FREE" THEN FREE ELSE [@ EXCEPT !.state = s, !.tmr = ticks]]
  /\ lists' = CASE s = "ACTIVE" -> lists
                [] s = "TIME_WAIT" -> Reg(Rmv(lists, "active", i), "tw", i)
                [] OTHER -> Rmv(lists, "active", i)
  /\ UNCHANGED <<tcp_port, ticks, addr>>

\* A FIN that is repeated starts the wait anew
tcp_timewait_input == \E i \in Elems(lists.tw) :
  /\ pcb' = [pcb EXCEPT ![i].tmr = ticks] /\ UNCHANGED <<lists, tcp_port, ticks, addr>>

\* tcp_slowtmr counts and takes out of TIME_WAIT what is over
tcp_slowtmr ==
  LET over == {i \in Elems(lists.tw) : ticks + 1 - pcb[i].tmr > Msl2} IN
  /\ ticks < Ticks /\ ticks' = ticks + 1
  /\ pcb' = Abandon(pcb, lists, over)[1] /\ lists' = Abandon(pcb, lists, over)[2]
  /\ UNCHANGED <<tcp_port, addr>>

\* netif_set_ipaddr: connections of the old address are aborted, listeners go to the new one
ListenersOnly == {}
OfOldAddress == {i \in Elems(lists.active) : pcb[i].ip = addr}

netif_set_ipaddr == \E a \in Addrs \ {addr} :
  LET ab == Abandon(pcb, lists, OfOldAddress) IN
  /\ addr' = a /\ lists' = ab[2]
  /\ pcb' = [i \in Block |-> IF i \in Elems(lists.listen) /\ pcb[i].ip = addr THEN [pcb[i] EXCEPT !.ip = a]
                             ELSE ab[1][i]]
  /\ UNCHANGED <<tcp_port, ticks>>

Calls == \/ tcp_new \/ tcp_bind \/ tcp_listen_with_backlog \/ tcp_connect \/ tcp_close
Next == Calls \/ tcp_listen_input \/ Segment \/ tcp_timewait_input \/ tcp_slowtmr \/ netif_set_ipaddr

Spec == Init /\ [][Next]_vars

----------------------------------------------------------------------------
\* TCP_REG, TCP_RMV: a block is in the list of its state, once, and memory that was given back is in none.
ListsIntact ==
  /\ \A l \in DOMAIN lists : \A j, k \in DOMAIN lists[l] : lists[l][j] = lists[l][k] => j = k
  /\ \A i \in Block : /\ i \in Elems(lists.listen) <=> pcb[i].state = "LISTEN"
                      /\ i \in Elems(lists.active) <=> pcb[i].state = "ACTIVE"
                      /\ i \in Elems(lists.tw) <=> pcb[i].state = "TIME_WAIT"
                      /\ i \in Elems(lists.bound) <=> pcb[i].state = "CLOSED" /\ pcb[i].port # 0

\* tcp_bind: no two blocks that an application bound can get the same connection; those that listen have
\* kept what they bound.
PortsExclusive ==
  \A i, j \in Elems(lists.bound) \cup Elems(lists.listen) :
    i # j /\ pcb[i].port = pcb[j].port /\ pcb[i].port # 0 => pcb[i].ip # pcb[j].ip /\ 0 \notin {pcb[i].ip, pcb[j].ip}

\* netif_set_ipaddr: no connection goes on with an address that the interface has not any more
\* (in a server that binds to any address: bound blocks and those of a failed tcp_connect keep the old one).
AddressIsOurs == \A i \in Elems(lists.active) : pcb[i].ip = addr

\* tcp_alloc kills only for want of memory, a connection in TIME_WAIT before any other, never one of a higher priority
\* than the new one, and one that has been idle for at least as long as all others of its priority or a lower one.
KillsTheOldest == \A prio \in Prios : \A v \in Victims(prio) :
  /\ Unused = {}
  /\ IF pcb[v].state = "TIME_WAIT" THEN \A i \in Elems(lists.tw) : Idle(i) <= Idle(v)
     ELSE /\ pcb[v].state = "ACTIVE" /\ lists.tw = <<>> /\ pcb[v].prio <= prio
          /\ \A i \in Elems(lists.active) : pcb[i].prio <= pcb[v].prio => Idle(i) <= Idle(v)

\* tcp_new_port gives a port of its range that no block in a list has, and none only when all are in use.
PortIsFree == LET port == tcp_new_port.port IN
  IF port = 0 THEN Start..End \subseteq InUse ELSE port \in (Start..End) \ InUse
=============================================================================
