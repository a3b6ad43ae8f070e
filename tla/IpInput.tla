------------------------------ MODULE IpInput ------------------------------
(***************************************************************************)
(* ip.c and icmp.c: ip_input checks a datagram and passes it on,           *)
(* icmp_input turns an echo request into its reply in place,               *)
(* icmp_send_response reports errors, ip_output_if writes and sums up a    *)
(* header.  tcpip_thread does each in one go; a datagram is a record of    *)
(* what the code looks at.                                                 *)
(*                                                                         *)
(* Addresses are 0..15: the two high bits are the network, 0 is "any", 15  *)
(* all ones, 14 stands for 224/4.  Reassembly (IpFrag), UDP (Udp) and TCP  *)
(* have modules of their own.                                              *)
(***************************************************************************)
EXTENDS Integers, Sequences

CONSTANTS
  Own,        \* the address of the interface
  Addrs,      \* addresses of received datagrams
  Dests,      \* addresses they are sent to
  Options,    \* whether their headers have options, TRUE or FALSE
  Chks,       \* checksums of echo requests
  Words,      \* sums of a header of ours without its identification
  IdRange     \* values of ip_id, 2^16 in the code

IpAssumption ==
  /\ {Own} \cup Addrs \cup Dests \subseteq 0..15 /\ Options \subseteq BOOLEAN
  /\ Chks \subseteq 0..65535 /\ Words \subseteq Nat /\ IdRange \in 1..65536

VARIABLES
  up,      \* NETIF_FLAG_UP
  ip_id,
  job      \* <<>> or what was done last

vars == <<up, ip_id, job>>

Odds == {"version", "length", "checksum"}     \* what may be wrong with the header
Bodies == {"udp", "tcp", "unknown", "tiny", "short", "echo", "corrupt", "answer"}

\* frag: not a fragment, one that completes nothing, one that completes a datagram.
\* room: there is place for the headers before the data.
Packets ==
  {k \in [odd : Odds \cup {"none"}, src : Addrs, dst : Dests, frag : {"no", "kept", "last"},
          body : Bodies, opts : Options, room : BOOLEAN, chk : Chks, big : BOOLEAN] :
     /\ k.body # "echo" => k.chk = CHOOSE c \in Chks : TRUE
     /\ k.body \notin {"echo", "corrupt"} => k.room /\ ~k.big
     /\ k.odd # "none" => k.frag = "no" /\ k.body = "echo"}

(***************************************************************************)
(* ip_addr.c                                                               *)
(***************************************************************************)
ip_addr_isbroadcast(a) ==
  \/ a \in {0, 15}
  \/ a # Own /\ a \div 4 = Own \div 4 /\ a % 4 = 3
ip_addr_ismulticast(a) == a = 14
Group(a) == ip_addr_isbroadcast(a) \/ ip_addr_ismulticast(a)

\* One interface, which is the default one as well
ip_route == up

(***************************************************************************)
(* What became of pbufs and what was sent: pbufs freed, allocated; the     *)
(* layer that has taken the datagram over; a message sent.                 *)
(***************************************************************************)
Fate == [freed |-> 0, alloc |-> 0, given |-> "none", out |-> <<>>]
Free(f) == [f EXCEPT !.freed = @ + 1]
Given(to) == [Fate EXCEPT !.given = to]

\* The message quotes the datagram in a pbuf of its own
icmp_send_response(k, mem) ==
  CASE ~mem -> Fate
    [] mem /\ ~ip_route -> [Fate EXCEPT !.alloc = 1, !.freed = 1]
    [] mem /\ ip_route -> [Fate EXCEPT !.alloc = 1, !.freed = 1,
         !.out = <<[type |-> "error", src |-> Own, dst |-> k.src, hlen |-> 20, summed |-> 20]>>]

UpdatePlain(chk) == (chk + 8) % 65536

\* The type changes from 8 to 0, so the checksum grows by 8, with its carry
Update(chk) == IF chk >= 65535 - 8 THEN (chk + 8 + 1) % 65536 ELSE chk + 8

\* The reply: addresses exchanged, a new checksum over IP_HLEN bytes
Reply(k) == [type |-> "reply", src |-> k.dst, dst |-> k.src, hlen |-> IF k.opts THEN 24 ELSE 20,
             summed |-> 20, chk |-> Update(k.chk), big |-> k.big]

EchoLeaks(k, mem) ==
  CASE k.room -> Free([Fate EXCEPT !.out = <<Reply(k)>>])
    [] OTHER -> IF mem THEN [Fate EXCEPT !.alloc = 1, !.freed = 1, !.out = <<Reply(k)>>] ELSE Fate

\* Without room for the headers the request is copied to a pbuf that has it
Echo(k, mem) ==
  CASE k.room -> Free([Fate EXCEPT !.out = <<Reply(k)>>])
    [] ~k.room /\ mem -> [Fate EXCEPT !.alloc = 1, !.freed = 2, !.out = <<Reply(k)>>]
    [] ~k.room /\ ~mem -> Free(Fate)

\* LWIP_BROADCAST_PING is 1, LWIP_MULTICAST_PING 0
icmp_input(k, mem) ==
  IF k.body = "echo" /\ ~ip_addr_ismulticast(k.dst) THEN Echo(k, mem) ELSE Free(Fate)

Unknown(k, mem) == Free(IF Group(k.dst) THEN Fate ELSE icmp_send_response(k, mem))
UnknownAlways(k, mem) == Free(icmp_send_response(k, mem))

\* What ip_input drops: a bad header, a source that is no host, not for us
Dropped(k) == \/ k.odd # "none"
              \/ Group(k.src)
              \/ ~(up /\ (k.dst = Own \/ ip_addr_isbroadcast(k.dst)))

ip_input(k, mem) ==
  CASE Dropped(k) -> Free(Fate)
    [] ~Dropped(k) /\ k.frag = "kept" -> Given("reass")
    [] ~Dropped(k) /\ k.frag # "kept" /\ k.body \in {"udp", "tcp"} -> Given(k.body)
    [] ~Dropped(k) /\ k.frag # "kept" /\ k.body = "unknown" -> Unknown(k, mem)
    [] OTHER -> icmp_input(k, mem)

InlineOnce(acc) == 65535 - (((acc \div 65536) + (acc % 65536)) % 65536)

\* chk_sum of ip_output_if: two folds, the second one without a mask
Inline(acc) == LET once == (acc \div 65536) + (acc % 65536)
                   twice == (once \div 65536) + once
               IN  65535 - (twice % 65536)

-----------------------------------------------------------------------------
Init == up = TRUE /\ ip_id = 0 /\ job = <<>>

Receive == /\ job = <<>>
           /\ \E k \in Packets, mem \in BOOLEAN :
                LET f == ip_input(k, mem) IN
                /\ job' = <<[op |-> "in", packet |-> k, fate |-> f]>>
                /\ ip_id' = IF f.out # <<>> /\ f.out[1].type = "error" THEN (ip_id + 1) % IdRange
                            ELSE ip_id
           /\ UNCHANGED up

\* A datagram of an upper layer
ip_output == /\ job = <<>> /\ ip_route
             /\ \E w \in Words : job' = <<[op |-> "out", acc |-> w + ip_id, chk |-> Inline(w + ip_id)]>>
             /\ ip_id' = (ip_id + 1) % IdRange /\ UNCHANGED up

Done == job # <<>> /\ job' = <<>> /\ UNCHANGED <<up, ip_id>>

\* netif_set_up, netif_set_down
netif_set == job = <<>> /\ up' = ~up /\ UNCHANGED <<ip_id, job>>

Next == Receive \/ ip_output \/ Done \/ netif_set

Spec == Init /\ [][Next]_vars

-----------------------------------------------------------------------------
Sent == IF job # <<>> /\ job[1].op = "in" THEN job[1].fate.out ELSE <<>>

\* ip_input, icmp_input: on every path the pbuf that came in is freed once or
\* taken over by one layer, and pbufs allocated for an answer are freed.
Released ==
  job # <<>> /\ job[1].op = "in" =>
    LET f == job[1].fate IN 1 + f.alloc = f.freed + (IF f.given = "none" THEN 0 ELSE 1)

\* ip_input: an error message answers only what came from one host to one host.
ErrorsToHosts ==
  Sent # <<>> /\ Sent[1].type = "error" => ~Group(job[1].packet.src) /\ ~Group(job[1].packet.dst)

\* icmp_input: a reply passes the checks that ip_input and icmp_input make of a
\* datagram: a source that is one host ("broadcast or multicast packet source
\* address? Compliant with RFC 1122"), a checksum over the whole header, and a
\* checksum that is right for the type 0 when it was right for the type 8.
ReplyAcceptable ==
  Sent # <<>> /\ Sent[1].type = "reply" =>
    /\ ~Group(Sent[1].src) /\ Sent[1].summed = Sent[1].hlen
    /\ (Sent[1].chk - job[1].packet.chk - 8) % 65535 = 0

\* ip_output_if: the checksum built up with the header is the one of its words.
HeaderSummed ==
  job # <<>> /\ job[1].op = "out" => (job[1].chk + job[1].acc) % 65535 = 0
=============================================================================
