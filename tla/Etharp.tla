------------------------------- MODULE Etharp -------------------------------
(***************************************************************************)
(* The ARP table of etharp.c and the Ethernet input and output around it:  *)
(* entries that are requested, confirmed, requested again, recycled and    *)
(* aged, and the one packet that each pending entry may hold               *)
(* (ARP_QUEUEING is 0).  Static entries and learning from IP traffic are   *)
(* switched off in opt.h; Features turns them on.                          *)
(***************************************************************************)
EXTENDS Integers, FiniteSets

CONSTANTS
  N,          \* ARP_TABLE_SIZE
  Hosts,      \* addresses of hosts on the network; Gateway is one of them
  Gateway,
  Macs,       \* Ethernet addresses they announce
  Packets,    \* packets under way from the IP layer
  MaxAge,     \* ARP_MAXAGE
  Rerequest,  \* ARP_AGE_REREQUEST_USED
  MaxPending, \* ARP_MAXPENDING
  Features    \* subset of {"static", "trust", "memory", "other"}

None == "none"

EtharpAssumption ==
  /\ {N, MaxAge, Rerequest, MaxPending} \subseteq Nat \ {0}
  /\ MaxPending < Rerequest /\ Rerequest < MaxAge /\ Gateway \in Hosts
  /\ None \notin Hosts \cup Macs \cup Packets
  /\ {"far", "broadcast", "multicast"} \cap Hosts = {}

VARIABLES
  arp,    \* arp_table
  hint,   \* etharp_cached_entry
  out,    \* the IP packets sent by the last step, [p, ip, mac] (not in the code)
  heard   \* the Ethernet address each host announced last (not in the code)

vars == <<arp, hint, out, heard>>

Index == 1..N
Empty == [st |-> "EMPTY", ip |-> None, mac |-> None, q |-> None, ctime |-> 0, netif |-> FALSE]
Init == /\ arp = [i \in Index |-> Empty] /\ hint = 1 /\ out = {}
        /\ heard = [h \in Hosts |-> None]

Stable == {"STABLE", "REREQUESTING", "STATIC"}
TypeOK == /\ arp \in [Index -> [st : {"EMPTY", "PENDING"} \cup Stable, ip : Hosts \cup {None},
                                mac : Macs \cup {None}, q : Packets \cup {None}, ctime : 0..(MaxAge - 1),
                                netif : BOOLEAN]]
          /\ hint \in Index
          /\ \A i \in Index : arp[i].q # None => arp[i].st = "PENDING"

Held == {arp[i].q : i \in Index} \ {None}
Of(ip) == {i \in Index : arp[i].st # "EMPTY" /\ arp[i].ip = ip}

(***************************************************************************)
(* The table.                                                              *)
(***************************************************************************)
etharp_free_entry(e) == Empty

\* The last of the oldest entries among the candidates
Oldest(C) == CHOOSE i \in C :
  \A j \in C : arp[j].ctime < arp[i].ctime \/ (arp[j].ctime = arp[i].ctime /\ j <= i)
\* What is recycled: an empty entry, then stable, pending, pending with a packet
RecyclesPendingFirst(ip) ==
  LET C == {i \in Index : arp[i].st = "PENDING"} IN IF C = {} THEN {} ELSE {Oldest(C)}
Recycled(ip) ==
  LET stable == {i \in Index : arp[i].st \in {"STABLE", "REREQUESTING"}}
      pending == {i \in Index : arp[i].st = "PENDING" /\ arp[i].q = None}
      queued == {i \in Index : arp[i].st = "PENDING" /\ arp[i].q # None}
  IN  CASE stable # {} -> {Oldest(stable)}
        [] stable = {} /\ pending # {} -> {Oldest(pending)}
        [] stable = {} /\ pending = {} /\ queued # {} -> {Oldest(queued)}
        [] OTHER -> {}

\* The index found or made, as a set of at most one; only: FIND_ONLY, hard: TRY_HARD
FindTakesFree(ip, only, hard) ==
  LET free == {i \in Index : arp[i].st = "EMPTY"} IN
  IF free # {} /\ ~only THEN {CHOOSE i \in free : \A j \in free : i <= j}
  ELSE IF Of(ip) # {} THEN Of(ip) ELSE IF only \/ ~hard THEN {} ELSE Recycled(ip)

etharp_find_entry(ip, only, hard) ==
  LET free == {i \in Index : arp[i].st = "EMPTY"} IN
  CASE Of(ip) # {} -> Of(ip)
    [] Of(ip) = {} /\ (only \/ (free = {} /\ ~hard)) -> {}
    [] Of(ip) = {} /\ ~only /\ free # {} -> {CHOOSE i \in free : \A j \in free : i <= j}
    [] OTHER -> Recycled(ip)
\* The entry at index i, cleared and given the address if it was not ip's before
Entry(i, ip) == IF i \in Of(ip) THEN arp[i] ELSE [etharp_free_entry(arp[i]) EXCEPT !.ip = ip]

etharp_send_ip(p, ip, mac) == {[p |-> p, ip |-> ip, mac |-> mac]}

UpdateKeepsMac(ip, mac, only, static) ==
  LET F == etharp_find_entry(ip, only, TRUE)
      e(i) == Entry(i, ip)
  IN  /\ arp' = [i \in Index |-> IF i \notin F THEN arp[i]
                 ELSE [e(i) EXCEPT !.st = IF static THEN "STATIC" ELSE "STABLE", !.netif = TRUE,
                                   !.mac = IF @ = None THEN mac ELSE @, !.ctime = 0, !.q = None]]
      /\ out' = UNION {IF e(i).q = None THEN {} ELSE etharp_send_ip(e(i).q, ip, mac) : i \in F}

\* An address is learned; the packet that waited for it is sent
etharp_update_arp_entry(ip, mac, only, static) ==
  LET F == etharp_find_entry(ip, only, TRUE)
      e(i) == Entry(i, ip)
  IN  /\ arp' = [i \in Index |-> IF i \notin F THEN arp[i]
                 ELSE [e(i) EXCEPT !.st = IF static THEN "STATIC" ELSE "STABLE", !.netif = TRUE,
                                   !.mac = mac, !.ctime = 0, !.q = None]]
      /\ out' = UNION {IF e(i).q = None THEN {} ELSE etharp_send_ip(e(i).q, ip, mac) : i \in F}

\* The 5 second timer
TimerKeepsPending(e) ==
  LET c == e.ctime + 1 IN
  IF e.st \in {"EMPTY", "STATIC"} THEN e
  ELSE IF e.st # "PENDING" /\ c >= MaxAge THEN etharp_free_entry(e)
  ELSE [e EXCEPT !.ctime = IF c < MaxAge THEN c ELSE @, !.st = IF @ = "REREQUESTING" THEN "STABLE" ELSE @]
TimerOffByOne(e) ==
  LET c == e.ctime + 1 IN
  IF e.st \in {"EMPTY", "STATIC"} THEN e
  ELSE IF c > MaxAge \/ (e.st = "PENDING" /\ c >= MaxPending) THEN etharp_free_entry(e)
  ELSE [e EXCEPT !.ctime = c, !.st = IF @ = "REREQUESTING" THEN "STABLE" ELSE @]
Aged(e) ==
  LET c == e.ctime + 1 IN
  IF e.st \in {"EMPTY", "STATIC"} THEN e
  ELSE IF c >= MaxAge \/ (e.st = "PENDING" /\ c >= MaxPending) THEN etharp_free_entry(e)
  ELSE [e EXCEPT !.ctime = c, !.st = IF @ = "REREQUESTING" THEN "STABLE" ELSE @]
etharp_tmr == /\ arp' = [i \in Index |-> Aged(arp[i])]
              /\ out' = {} /\ UNCHANGED <<hint, heard>>

etharp_cleanup_netif ==
  /\ "other" \in Features
  /\ arp' = [i \in Index |-> IF arp[i].st # "EMPTY" /\ arp[i].netif THEN etharp_free_entry(arp[i]) ELSE arp[i]]
  /\ out' = {} /\ UNCHANGED <<hint, heard>>

etharp_add_static_entry(ip, mac) ==
  /\ "static" \in Features
  /\ etharp_update_arp_entry(ip, mac, FALSE, TRUE)
  /\ heard' = [heard EXCEPT ![ip] = mac] /\ UNCHANGED hint
etharp_remove_static_entry(ip) ==
  /\ "static" \in Features
  /\ LET F == {i \in etharp_find_entry(ip, TRUE, FALSE) : arp[i].st = "STATIC"} IN
     F # {} /\ arp' = [i \in Index |-> IF i \in F THEN etharp_free_entry(arp[i]) ELSE arp[i]]
  /\ out' = {} /\ UNCHANGED <<hint, heard>>

(***************************************************************************)
(* Output.  alloc: there was memory for an ARP request, copy: for a copy   *)
(* of the packet.                                                          *)
(***************************************************************************)
Memory == IF "memory" \in Features THEN BOOLEAN ELSE {TRUE}
etharp_request(alloc) == alloc

etharp_output_to_arp_index(i, p, ip, alloc) ==
  /\ out' = etharp_send_ip(p, ip, arp[i].mac)
  /\ arp' = [arp EXCEPT ![i].st = IF @ = "STABLE" /\ arp[i].ctime >= Rerequest /\ etharp_request(alloc)
                                  THEN "REREQUESTING" ELSE @]

\* A pending entry asks again and keeps the packet in place of an older one
etharp_query(p, ip, copy) ==
  LET F == etharp_find_entry(ip, FALSE, TRUE) IN
  IF F = {} THEN out' = {} /\ UNCHANGED <<arp, hint>>
  ELSE \E i \in F : LET e == Entry(i, ip) IN
    IF e.st \in Stable
    THEN out' = etharp_send_ip(p, ip, e.mac) /\ hint' = i /\ UNCHANGED arp
    ELSE /\ arp' = [arp EXCEPT ![i] = [e EXCEPT !.st = "PENDING", !.q = IF copy THEN p ELSE @]]
         /\ out' = {} /\ UNCHANGED hint

OutputTrustsHint(p, dst, alloc, copy) ==
  IF arp[hint].st \in Stable THEN etharp_output_to_arp_index(hint, p, dst, alloc) /\ UNCHANGED hint
  ELSE etharp_query(p, dst, copy)

\* To a unicast next hop: the cached entry, then the table, then a query
OutputUnicast(p, dst, alloc, copy) ==
  LET known == {i \in Of(dst) : arp[i].st \in Stable} IN
  IF arp[hint].st \in Stable /\ arp[hint].ip = dst
  THEN etharp_output_to_arp_index(hint, p, dst, alloc) /\ UNCHANGED hint
  ELSE IF known # {} THEN \E i \in known : etharp_output_to_arp_index(i, p, dst, alloc) /\ hint' = i
  ELSE etharp_query(p, dst, copy)

\* dst: a host, "far" (by the gateway), "broadcast" or "multicast"
etharp_output(p, dst) == \E alloc \in Memory, copy \in Memory :
  /\ p \notin Held /\ UNCHANGED heard
  /\ IF dst \in {"broadcast", "multicast"}
     THEN out' = etharp_send_ip(p, dst, dst) /\ UNCHANGED <<arp, hint>>
     ELSE OutputUnicast(p, IF dst = "far" THEN Gateway ELSE dst, alloc, copy)

(***************************************************************************)
(* Input.  A frame of another kind, or for an interface without an         *)
(* address, changes nothing but is freed.                                  *)
(***************************************************************************)
etharp_arp_input(ip, mac, for_us) ==
  /\ etharp_update_arp_entry(ip, mac, ~for_us, FALSE)
  /\ heard' = [heard EXCEPT ![ip] = mac] /\ UNCHANGED hint
etharp_ip_input(ip, mac) ==
  /\ "trust" \in Features
  /\ etharp_update_arp_entry(ip, mac, TRUE, FALSE)
  /\ heard' = [heard EXCEPT ![ip] = mac] /\ UNCHANGED hint
ethernet_input == \E ip \in Hosts, mac \in Macs :
  \/ \E for_us \in BOOLEAN : etharp_arp_input(ip, mac, for_us)
  \/ etharp_ip_input(ip, mac)

Output == \E p \in Packets, dst \in Hosts \cup {"far", "broadcast", "multicast"} : etharp_output(p, dst)
Static == \E ip \in Hosts :
  \/ \E mac \in Macs : etharp_add_static_entry(ip, mac)
  \/ etharp_remove_static_entry(ip)

Next == etharp_tmr \/ etharp_cleanup_netif \/ Static \/ Output \/ ethernet_input
Spec == Init /\ [][Next]_vars
\* The 5 second timer keeps running (tcpip_thread, arp_timer)
Live == Spec /\ WF_vars(etharp_tmr)

(***************************************************************************)
(* Properties.                                                             *)
(***************************************************************************)
\* An address has at most one entry and an entry that is in use names the
\* Ethernet address its host announced last, whatever was recycled, aged or
\* announced in between (etharp_find_entry, etharp_update_arp_entry).
Consistent == \A i \in Index : arp[i].st # "EMPTY" =>
  /\ Of(arp[i].ip) = {i}
  /\ arp[i].st \in Stable => arp[i].mac = heard[arp[i].ip]

\* Every packet that leaves carries the Ethernet address its next hop announced
\* last, also one that waited in a pending entry or used the cached index.
SentToItsHost == \A s \in out : s.ip \in Hosts => s.mac = heard[s.ip]

\* A packet that waits for an answer is given up only to a newer packet for the
\* same host, to the timer, or when every entry holds a packet: the priority
\* that etharp_find_entry gives to entries with queued packets.
WaitingKept == \A i \in Index : LET p == arp[i].q IN
  p # None /\ arp'[i].q # p /\ ~(\E s \in out' : s.p = p) =>
    \/ arp[i].ctime + 1 >= MaxPending /\ arp'[i] = Empty
    \/ arp'[i].q # None /\ arp'[i].ip = arp[i].ip
    \/ \A j \in Index : arp[j].q # None \/ arp[j].st = "STATIC"

Waits(p) == p \in Held
\* No packet waits for ever: etharp_tmr gives up a pending entry.
WaitEnds == \A p \in Packets : Waits(p) ~> ~Waits(p)

\* Comment in etharp_find_entry on static entries: "they never expire".
StaticKept == [][\A i \in Index : arp[i].st = "STATIC" => arp'[i].st \in {"STATIC", "EMPTY"}]_vars

\* Doc of etharp_cleanup_netif: "Remove all ARP table entries of the specified
\* netif."
CleanedUp == [][etharp_cleanup_netif => \A i \in Index : arp'[i].st = "EMPTY"]_vars
=============================================================================
