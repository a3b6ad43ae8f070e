-------------------------------- MODULE Udp ---------------------------------
(***************************************************************************)
(* UDP's control blocks (udp.c): binding, connecting and removing them,    *)
(* the demultiplexing of datagrams, which moves the block found to the     *)
(* front of the list, and sending.                                         *)
(***************************************************************************)
EXTENDS Integers, Sequences, SequencesExt

CONSTANTS
  Pcbs,        \* memory for control blocks
  Addrs,       \* addresses this host may have; 0 is IP_ADDR_ANY
  Peers,       \* addresses of other hosts
  PortMin, PortMax,   \* UDP_LOCAL_PORT_RANGE
  Ports,       \* ports bound to, connected to and sent from; 0 is none
  Reuse        \* whether blocks may have SOF_REUSEADDR (SO_REUSE)

UdpAssumption == /\ 0 \notin Addrs \cup Peers \cup Ports /\ Reuse \in BOOLEAN
                        /\ PortMin \in Nat \ {0} /\ PortMax \in Nat /\ PortMin <= PortMax

VARIABLES
  pcb,    \* the control blocks, used or not
  list,   \* udp_pcbs
  port,   \* udp_port
  me,     \* the address of the interface
  ev      \* what the last step delivered, sent or answered (not in the code)

vars == <<pcb, list, port, me, ev>>

Unused == [used |-> FALSE, lip |-> 0, lport |-> 0, rip |-> 0, rport |-> 0, conn |-> FALSE, recv |-> FALSE,
           reuse |-> FALSE]
udp_init == port = PortMin
Init == /\ pcb = [c \in Pcbs |-> Unused] /\ list = <<>> /\ udp_init /\ me \in Addrs /\ ev = <<>>

AllPorts == Ports \cup (PortMin..PortMax) \cup {0}
TypeOK == /\ \A c \in Pcbs : /\ pcb[c].lip \in Addrs \cup {0} /\ pcb[c].rip \in Peers \cup {0}
                             /\ {pcb[c].lport, pcb[c].rport} \subseteq AllPorts
          /\ port \in PortMin..PortMax

Listed(l) == ToSet(l)
InUse(n) == \E c \in Listed(list) : pcb[c].lport = n

(***************************************************************************)
(* Ports and binding.                                                      *)
(***************************************************************************)
NewPortNoWrap == <<port + 1, IF InUse(port + 1) THEN 0 ELSE port + 1>>
\* The next free port of the range after udp_port, and 0 when there is none;
\* paired with the new udp_port
udp_new_port ==
  LET size == PortMax - PortMin + 1
      nth(k) == PortMin + ((port - PortMin + k) % size)
      free == {k \in 1..size : ~InUse(nth(k))}
      k == CHOOSE i \in free : \A j \in free : i <= j
  IN  IF free = {} THEN <<nth(size), 0>> ELSE <<nth(k), nth(k)>>

ConflictIgnoresAny(c, ip, n) == \E o \in Listed(list) \ {c} : pcb[o].lport = n /\ pcb[o].lip = ip
Conflict(c, ip, n) == \E o \in Listed(list) \ {c} :
  /\ ~(Reuse /\ (pcb[c].reuse \/ pcb[o].reuse))
  /\ pcb[o].lport = n /\ (pcb[o].lip = 0 \/ ip = 0 \/ pcb[o].lip = ip)

\* The state [pcb, list, port] after a bind, err: ERR_USE
udp_bind(c, ip, n) ==
  LET new == IF n = 0 THEN udp_new_port ELSE <<port, n>>
      ok == ~Conflict(c, ip, n) /\ new[2] # 0
  IN  [err |-> ~ok, port |-> IF Conflict(c, ip, n) THEN port ELSE new[1],
       pcb |-> IF Conflict(c, ip, n) THEN pcb
               ELSE [pcb EXCEPT ![c].lip = ip, ![c].lport = IF ok THEN new[2] ELSE @],
       list |-> IF ok /\ c \notin Listed(list) THEN <<c>> \o list ELSE list]
\* A block without a port gets one
Bound(c) == IF pcb[c].lport = 0 THEN udp_bind(c, pcb[c].lip, 0)
            ELSE [err |-> FALSE, port |-> port, pcb |-> pcb, list |-> list]

Apply(s, e) == pcb' = s.pcb /\ list' = s.list /\ port' = s.port /\ ev' = e /\ UNCHANGED me
Only(p) == [pcb |-> p, list |-> list, port |-> port]

(***************************************************************************)
(* Operations of the users of UDP.                                         *)
(***************************************************************************)
udp_new == \E c \in Pcbs, r \in IF Reuse THEN BOOLEAN ELSE {FALSE} :
  ~pcb[c].used /\ Apply(Only([pcb EXCEPT ![c] = [Unused EXCEPT !.used = TRUE, !.reuse = r]]), <<>>)
Bind == \E c \in Pcbs, ip \in Addrs \cup {0}, n \in Ports \cup {0} :
  pcb[c].used /\ Apply(udp_bind(c, ip, n), <<>>)
udp_connect == \E c \in Pcbs, ip \in Peers, n \in Ports :
  LET s == Bound(c) IN
  /\ pcb[c].used
  /\ Apply(IF s.err THEN s
           ELSE [s EXCEPT !.pcb[c].rip = ip, !.pcb[c].rport = n, !.pcb[c].conn = TRUE], <<>>)
udp_disconnect == \E c \in Pcbs :
  pcb[c].conn /\ Apply(Only([pcb EXCEPT ![c].rip = 0, ![c].rport = 0, ![c].conn = FALSE]), <<>>)
udp_recv == \E c \in Pcbs :
  pcb[c].used /\ ~pcb[c].recv /\ Apply(Only([pcb EXCEPT ![c].recv = TRUE]), <<>>)

RemoveKeepsListed(c) == [pcb |-> [pcb EXCEPT ![c] = Unused], port |-> port,
                         list |-> IF list # <<>> /\ Head(list) = c THEN Tail(list) ELSE list]
udp_remove(c) == [pcb |-> [pcb EXCEPT ![c] = Unused], port |-> port,
                  list |-> SelectSeq(list, LAMBDA o : o # c)]
Remove_ == \E c \in Pcbs : pcb[c].used /\ Apply(udp_remove(c), <<>>)

(***************************************************************************)
(* Input.  A datagram d = [src, sport, dst, dport]; dst is an address of   *)
(* this host or Broadcast.                                                 *)
(***************************************************************************)
Broadcast == 255
LocalMatch(c, d) == /\ pcb[c].lport = d.dport
                    /\ IF d.dst = Broadcast THEN pcb[c].lip \in {0, me} ELSE pcb[c].lip \in {0, d.dst}
FullMatch(c, d) == /\ LocalMatch(c, d) /\ pcb[c].rport = d.sport /\ pcb[c].rip \in {0, d.src}

DemuxFirst(d) ==
  LET K == {k \in DOMAIN list : LocalMatch(list[k], d)} IN
  IF K = {} THEN <<list, {}>> ELSE <<list, {list[CHOOSE i \in K : \A j \in K : i <= j]}>>
\* The first full match, moved to the front, else the first unconnected block
\* that matches; as the new list and a set of at most one
Demux(d) ==
  LET F == {k \in DOMAIN list : FullMatch(list[k], d)}
      U == {k \in DOMAIN list : LocalMatch(list[k], d) /\ ~pcb[list[k]].conn}
      first(K) == CHOOSE i \in K : \A j \in K : i <= j
  IN  IF F # {} THEN <<<<list[first(F)]>> \o RemoveAt(list, first(F)), {list[first(F)]}>>
      ELSE <<list, IF U = {} THEN {} ELSE {list[first(U)]}>>

\* To the block's callback; without a block, the sender is told unless the
\* datagram was a broadcast
Deliver(d, C) ==
  CASE C # {} -> LET c == CHOOSE x \in C : TRUE IN
                 IF pcb[c].recv THEN [kind |-> "deliver", c |-> c, d |-> d] ELSE <<>>
    [] C = {} /\ d.dst = me -> [kind |-> "unreachable", d |-> d]
    [] OTHER -> <<>>

\* ok: the checksum and the length are right
udp_input == \E s \in Peers, sp \in Ports, t \in Addrs \cup {Broadcast}, dp \in AllPorts \ {0},
               ok \in BOOLEAN :
  LET d == [src |-> s, sport |-> sp, dst |-> t, dport |-> dp] IN
  Apply([pcb |-> pcb, port |-> port, list |-> Demux(d)[1]],
        IF ok THEN Deliver(d, Demux(d)[2]) ELSE <<>>)

(***************************************************************************)
(* Output.                                                                 *)
(***************************************************************************)
SendAnySource(p) == p.lip
\* The source address, 0 when the block is bound to an address lost since
Source(p) == IF p.lip \in {0, me} THEN me ELSE 0

udp_sendto(c, ip, n) ==
  LET s == Bound(c)
      src == Source(s.pcb[c])
  IN  Apply(s, IF s.err \/ src = 0 THEN <<>>
               ELSE [kind |-> "send", c |-> c, src |-> src, sport |-> s.pcb[c].lport, dst |-> ip, dport |-> n])
udp_send == \E c \in Pcbs : pcb[c].conn /\ udp_sendto(c, pcb[c].rip, pcb[c].rport)
SendTo == \E c \in Pcbs, ip \in Peers, n \in Ports : pcb[c].used /\ udp_sendto(c, ip, n)

\* The interface gets another address
Renumber == me' \in Addrs \ {me} /\ ev' = <<>> /\ UNCHANGED <<pcb, list, port>>

Next == \/ udp_new \/ Bind \/ udp_connect \/ udp_disconnect \/ udp_recv \/ Remove_
        \/ udp_input \/ udp_send \/ SendTo \/ Renumber
Spec == Init /\ [][Next]_vars

(***************************************************************************)
(* Properties.                                                             *)
(***************************************************************************)
\* The list holds exactly the blocks with a port, each once, after any sequence
\* of binds, moves to the front and removals (udp_bind, udp_input, udp_remove).
ListIntact == /\ IsInjective(list)
              /\ ToSet(list) = {c \in Pcbs : pcb[c].lport # 0}
              /\ \A c \in ToSet(list) : pcb[c].used

\* Without SO_REUSE no two blocks share a port and an address (udp_bind).  With
\* two local addresses it would take all ports in use: a block that is bound
\* again then keeps its port with the new address, though the bind failed.
NoOverlap == ~Reuse => \A a, b \in ToSet(list) :
  a # b /\ pcb[a].lport = pcb[b].lport => pcb[a].lip # 0 /\ pcb[b].lip # 0 /\ pcb[a].lip # pcb[b].lip

\* A datagram reaches a block bound to its port; a connected block only ever
\* gets datagrams of its peer, and gets them before an unconnected one does,
\* whatever order the list is in (udp_input).
ToItsBlock == LET e == ev' IN e # <<>> /\ e.kind = "deliver" =>
  /\ pcb[e.c].lport = e.d.dport
  /\ pcb[e.c].conn => pcb[e.c].rip = e.d.src /\ pcb[e.c].rport = e.d.sport
  /\ ~pcb[e.c].conn => ~\E o \in ToSet(list) : pcb[o].conn /\ FullMatch(o, e.d)

\* What is sent carries the block's own port and the address the interface has
\* now, although the block was bound to another one (udp_sendto_if).
SentAsBound == LET e == ev' IN e # <<>> /\ e.kind = "send" =>
  e.src = me /\ e.sport # 0 /\ e.sport = pcb'[e.c].lport /\ pcb'[e.c].lip \in {0, me}
=============================================================================
