-------------------------------- MODULE Dhcp --------------------------------
(***************************************************************************)
(* The DHCP client (dhcp.c): its states, the requests it sends, the        *)
(* retries driven by dhcp_fine_tmr and the lease driven by                 *)
(* dhcp_coarse_tmr, against a server over a network that loses and repeats *)
(* messages.  LWIP_DHCP is 0 in this firmware, which has a fixed address;  *)
(* the module stands for the file as it is.                                *)
(*                                                                         *)
(* request_timeout is armed or not (its length does not matter), t1 and t2 *)
(* count coarse ticks in a word of TW values, transaction ids wrap at XW.  *)
(***************************************************************************)
EXTENDS Integers, Sequences, FiniteSets

CONSTANTS
  Addrs,      \* addresses the server hands out; 0 is IP_ADDR_ANY
  Leases,     \* lease times in coarse ticks; Infinite is 0xffffffff
  Infinite,
  TW,         \* values of t1_timeout and t2_timeout, u16_t
  XW,         \* values of the transaction id
  Tries,      \* number of tries in REQUESTING, REBINDING and REBOOTING
  ServerId,   \* whether an offer names its server: subset of BOOLEAN
  Net,        \* bound: replies on their way
  Occupied,   \* addresses some other host uses, which answers ARP
  Env         \* what else may happen, a subset of
              \* {"ticks", "restart", "stop", "release", "link", "memory", "nak"}

DhcpAssumption == /\ {TW, XW, Tries} \subseteq Nat \ {0} /\ 0 \notin Addrs
                         /\ ServerId \subseteq BOOLEAN /\ Occupied \subseteq Addrs

VARIABLES
  d,     \* struct dhcp
  nif,   \* [ip, up] of the interface
  sent,  \* requests on their way to the server
  recv,  \* replies on their way to the client
  good   \* the addresses acknowledged and neither refused nor released since (not in the code)

vars == <<d, nif, sent, recv, good>>

Off == [st |-> "OFF", tries |-> 0, rt |-> FALSE, xid |-> 0, off |-> 0, t1 |-> 0, t2 |-> 0,
        l1 |-> 0, l2 |-> 0]
Init == /\ d = Off /\ nif = [ip |-> 0, up |-> FALSE] /\ sent = {} /\ recv = {} /\ good = {}

States == {"OFF", "REQUESTING", "REBOOTING", "REBINDING", "RENEWING", "SELECTING", "CHECKING", "BOUND",
           "BACKING_OFF"}
TypeOK == /\ d.st \in States /\ d.tries \in 0..(Tries + 2) /\ d.xid \in 0..(XW - 1)
          /\ {d.off, nif.ip} \subseteq Addrs \cup {0} /\ good \subseteq Addrs /\ {d.t1, d.t2} \subseteq 0..(TW - 1)

(***************************************************************************)
(* Building and sending a message.  Each operation takes and yields        *)
(* s = [d, nif, out].                                                      *)
(***************************************************************************)
dhcp_set_state(s, st) == IF s.d.st = st THEN s
                         ELSE [s EXCEPT !.d.st = st, !.d.tries = 0, !.d.rt = FALSE]

\* A new transaction id with the first try; ok: there was memory for the message
dhcp_create_msg(s, ok, type, requested) ==
  LET x == IF s.d.tries = 0 THEN (s.d.xid + 1) % XW ELSE s.d.xid
      ci == IF type = "DECLINE" \/ (type = "REQUEST" /\ s.d.st \in {"RENEWING", "REBINDING"})
            THEN s.nif.ip ELSE 0
  IN  IF ~ok THEN s
      ELSE [s EXCEPT !.d.xid = x, !.out = @ \cup {[type |-> type, xid |-> x, req |-> requested, ci |-> ci]}]

\* tries is counted and the timer armed, whether or not the message could be sent
Armed(s) == [s EXCEPT !.d.tries = IF @ < Tries + 2 THEN @ + 1 ELSE @, !.d.rt = TRUE]

DiscoverOnce(s, ok) ==
  dhcp_create_msg(dhcp_set_state([s EXCEPT !.d.off = 0], "SELECTING"), ok, "DISCOVER", 0)
ArmedIfSent(s, ok) == IF ok THEN Armed(DiscoverOnce(s, ok)) ELSE DiscoverOnce(s, ok)

dhcp_discover(s, ok) ==
  Armed(dhcp_create_msg(dhcp_set_state([s EXCEPT !.d.off = 0], "SELECTING"), ok, "DISCOVER", 0))
dhcp_select(s, ok) ==
  Armed(dhcp_create_msg(dhcp_set_state(s, "REQUESTING"), ok, "REQUEST", s.d.off))
dhcp_check(s) == Armed(dhcp_set_state(s, "CHECKING"))
dhcp_decline(s, ok) ==
  Armed(dhcp_create_msg(dhcp_set_state(s, "BACKING_OFF"), ok, "DECLINE", s.d.off))
dhcp_renew(s, ok) == Armed(dhcp_create_msg(dhcp_set_state(s, "RENEWING"), ok, "REQUEST", 0))
dhcp_rebind(s, ok) == Armed(dhcp_create_msg(dhcp_set_state(s, "REBINDING"), ok, "REQUEST", 0))
dhcp_reboot(s, ok) == Armed(dhcp_create_msg(dhcp_set_state(s, "REBOOTING"), ok, "REQUEST", s.d.off))
dhcp_release(s, ok) ==
  LET r == dhcp_create_msg([dhcp_set_state(s, "OFF") EXCEPT !.d.off = 0, !.d.l1 = 0, !.d.l2 = 0],
                           ok, "RELEASE", 0)
  IN  [Armed(r) EXCEPT !.nif = [ip |-> 0, up |-> FALSE]]

NakKeepsInterface(s, ok) == dhcp_discover(dhcp_set_state(s, "BACKING_OFF"), ok)

dhcp_handle_nak(s, ok) ==
  dhcp_discover(dhcp_set_state([s EXCEPT !.nif = [ip |-> 0, up |-> FALSE]], "BACKING_OFF"), ok)

dhcp_handle_offer(s, ok, m) == IF m.id THEN dhcp_select([s EXCEPT !.d.off = m.ip], ok) ELSE s

dhcp_handle_ack(s, m) ==
  [s EXCEPT !.d.l1 = m.lease \div 2, !.d.l2 = m.lease, !.d.off = m.ip]

BindUncapped(s) ==
  dhcp_set_state([s EXCEPT !.d.t1 = s.d.l1, !.d.t2 = s.d.l2, !.nif = [ip |-> s.d.off, up |-> TRUE]], "BOUND")

\* The timers of a lease; an infinite one leaves them as they are
dhcp_bind(s) ==
  LET t(l, old) == IF l = Infinite THEN old ELSE IF l > TW - 1 THEN TW - 1 ELSE IF l = 0 THEN 1 ELSE l
      t1 == t(s.d.l1, s.d.t1)
      t2 == t(s.d.l2, s.d.t2)
  IN  dhcp_set_state([s EXCEPT !.d.t1 = IF t1 >= t2 /\ t2 > 0 THEN 0 ELSE t1, !.d.t2 = t2,
                               !.nif = [ip |-> s.d.off, up |-> TRUE]], "BOUND")

(***************************************************************************)
(* Actions of the client.                                                  *)
(***************************************************************************)
S == [d |-> d, nif |-> nif, out |-> {}]
\* With a new transaction the replies of that id, from XW transactions ago, are
\* gone, and so are earlier requests: the server answered them before or never
Apply(s, rest, g) ==
  /\ d' = s.d /\ nif' = s.nif /\ good' = g
  /\ sent' = IF s.d.xid = d.xid THEN sent \cup s.out ELSE {m \in s.out : m.xid = s.d.xid}
  /\ recv' = IF s.d.xid = d.xid THEN rest ELSE {m \in rest : m.xid # s.d.xid}
Ok == IF "memory" \in Env THEN BOOLEAN ELSE {TRUE}

\* memset of the structure; the transaction id is a static of dhcp_create_msg
dhcp_start == \E ok \in Ok :
  LET s == [S EXCEPT !.d = [Off EXCEPT !.xid = d.xid]] IN
  /\ d.st = "OFF" \/ "restart" \in Env
  /\ Apply(IF ok THEN dhcp_discover(s, ok) ELSE s, recv, good)
dhcp_stop == "stop" \in Env /\ d.st # "OFF" /\ Apply(dhcp_set_state(S, "OFF"), recv, good)
Release == "release" \in Env /\ d.st # "OFF" /\ \E ok \in Ok : Apply(dhcp_release(S, ok), recv, {})

dhcp_network_changed == \E ok \in Ok :
  /\ "link" \in Env /\ d.st # "OFF"
  /\ LET s == [S EXCEPT !.d.tries = 0] IN
     Apply(IF d.st \in {"REBINDING", "RENEWING", "BOUND", "REBOOTING"}
           THEN dhcp_reboot([s EXCEPT !.nif.up = FALSE], ok) ELSE dhcp_discover(s, ok), recv, good)

\* dhcp_fine_tmr: request_timeout ran out
dhcp_timeout == \E ok \in Ok :
  LET s == [S EXCEPT !.d.rt = FALSE]
      giveUp == dhcp_discover(dhcp_release(s, ok), ok)
  IN  /\ d.rt
      /\ CASE d.st \in {"BACKING_OFF", "SELECTING"} -> Apply(dhcp_discover(s, ok), recv, good)
           [] d.st = "REQUESTING" -> IF d.tries <= Tries THEN Apply(dhcp_select(s, ok), recv, good)
                                     ELSE Apply(giveUp, recv, {})
           [] d.st = "CHECKING"   -> IF d.tries <= 1 THEN Apply(dhcp_check(s), recv, good)
                                     ELSE Apply(dhcp_bind(s), recv, good)
           [] d.st = "RENEWING"   -> Apply(dhcp_renew(s, ok), recv, good)
           [] d.st = "REBINDING"  -> IF d.tries <= Tries THEN Apply(dhcp_rebind(s, ok), recv, good)
                                     ELSE Apply(giveUp, recv, {})
           [] d.st = "REBOOTING"  -> IF d.tries < Tries THEN Apply(dhcp_reboot(s, ok), recv, good)
                                     ELSE Apply(dhcp_discover(s, ok), recv, good)
           [] OTHER -> Apply(s, recv, good)

Dec(t) == (t - 1) % TW
Leased == d.st \in {"REQUESTING", "BOUND", "RENEWING"}
dhcp_coarse_tmr == \E ok \in Ok :
  /\ "ticks" \in Env /\ d.st # "OFF"
  /\ CASE d.t2 = 1 -> LET s == [S EXCEPT !.d.t2 = 0] IN
                      Apply(IF Leased THEN dhcp_rebind(s, ok) ELSE s, recv, good)
       [] d.t2 # 1 /\ d.t1 = 1 -> LET s == [S EXCEPT !.d.t2 = Dec(@), !.d.t1 = 0] IN
                                  Apply(IF Leased THEN dhcp_renew(s, ok) ELSE s, recv, good)
       [] OTHER -> Apply([S EXCEPT !.d.t2 = Dec(@), !.d.t1 = Dec(@)], recv, good)

\* The first occurrence of an option counts
dhcp_parse_reply(opts) ==
  [k \in {o[1] : o \in {opts[i] : i \in DOMAIN opts}} |->
     opts[CHOOSE i \in DOMAIN opts : opts[i][1] = k /\ \A j \in 1..(i - 1) : opts[j][1] # k][2]]

Handle(m, kept, ok) ==
  LET o == dhcp_parse_reply(m.opts)
      msg == [ip |-> m.yiaddr, lease |-> IF "lease" \in DOMAIN o THEN o["lease"] ELSE d.l2,
              id |-> "id" \in DOMAIN o]
  IN  CASE m.xid # d.xid -> Apply(S, kept, good)
        [] m.xid = d.xid /\ o["type"] = "ACK" /\ d.st = "REQUESTING" ->
             Apply(dhcp_check(dhcp_handle_ack(S, msg)), kept, good \cup {m.yiaddr})
        [] m.xid = d.xid /\ o["type"] = "ACK" /\ d.st \in {"REBOOTING", "REBINDING", "RENEWING"} ->
             Apply(dhcp_bind(S), kept, good \cup {m.yiaddr})
        [] m.xid = d.xid /\ o["type"] = "NAK" /\ d.st \in {"REBOOTING", "REQUESTING", "REBINDING", "RENEWING"} ->
             Apply(dhcp_handle_nak(S, ok), kept, {})
        [] m.xid = d.xid /\ o["type"] = "OFFER" /\ d.st = "SELECTING" ->
             Apply(dhcp_handle_offer([S EXCEPT !.d.rt = FALSE], ok, msg), kept, good)
        [] OTHER -> Apply(S, kept, good)

\* Nothing is received when the socket is closed
dhcp_recv == \E m \in recv, kept \in BOOLEAN, ok \in Ok :
  d.st # "OFF" /\ Handle(m, IF kept THEN recv ELSE recv \ {m}, ok)

dhcp_arp_reply(a, ok) == /\ d.st = "CHECKING" /\ a = d.off
                         /\ Apply(dhcp_decline(S, ok), recv, good)
ArpReply == \E a \in Occupied, ok \in Ok : dhcp_arp_reply(a, ok)

(***************************************************************************)
(* The network and the server (external).                                  *)
(***************************************************************************)
Reply(m, type, a, opts) ==
  /\ Cardinality(recv) < Net
  /\ recv' = recv \cup {[xid |-> m.xid, yiaddr |-> a, opts |-> <<<<"type", type>>>> \o opts]}
  /\ sent' = sent \ {m} /\ UNCHANGED <<d, nif, good>>
OfferTo(m) == \E a \in Addrs, id \in ServerId :
  m.type = "DISCOVER" /\ Reply(m, "OFFER", a, IF id THEN <<<<"id", 1>>>> ELSE <<>>)
AcknowledgeTo(m) == \E a \in Addrs, l \in Leases :
  m.type = "REQUEST" /\ a \in {m.req, m.ci} /\ Reply(m, "ACK", a, <<<<"lease", l>>, <<"id", 1>>>>)
Offer == \E m \in sent : OfferTo(m)
Acknowledge == \E m \in sent : AcknowledgeTo(m)
Refuse == \E m \in sent : "nak" \in Env /\ m.type = "REQUEST" /\ Reply(m, "NAK", 0, <<<<"id", 1>>>>)
Lost == \E m \in sent \cup recv : /\ sent' = sent \ {m} /\ recv' = recv \ {m}
                                  /\ UNCHANGED <<d, nif, good>>

Next == \/ dhcp_start \/ dhcp_stop \/ Release \/ dhcp_network_changed \/ dhcp_timeout \/ dhcp_coarse_tmr
        \/ dhcp_recv \/ ArpReply \/ Offer \/ Acknowledge \/ Refuse \/ Lost
\* The timer task runs, and of the messages of a transaction repeated for ever
\* some arrive: the network loses messages, but not every one
Taken(m) == m \in recv /\ d.st # "OFF" /\ Handle(m, recv \ {m}, TRUE)
Fairness == /\ WF_vars(dhcp_start) /\ WF_vars(dhcp_timeout)
            /\ SF_vars(\E m \in sent : m.xid = d.xid /\ OfferTo(m))
            /\ SF_vars(\E m \in sent : m.xid = d.xid /\ AcknowledgeTo(m))
            /\ \A st \in {"SELECTING", "REQUESTING"} :
                 SF_vars(\E m \in recv : m.xid = d.xid /\ d.st = st /\ Taken(m))
            /\ WF_vars(\E m \in recv : m.xid # d.xid /\ Taken(m))
Spec == Init /\ [][Next]_vars
Live == Spec /\ Fairness

(***************************************************************************)
(* Properties.                                                             *)
(***************************************************************************)
\* The interface is up only with an address that the server acknowledged and
\* that was neither refused nor released since (dhcp_recv, dhcp_bind): old
\* replies, repeated ones and refusals in any order change nothing.
OnlyGranted == nif.up => nif.ip \in good

\* Doc of dhcp_fine_tmr: "This timer checks whether an outstanding DHCP request
\* is timed out": while the client waits for an answer its timer runs.
NeverStuck == d.st \notin {"OFF", "BOUND"} => d.rt

\* Comment in dhcp_bind, "temporary DHCP lease?": only a temporary lease is
\* ever renewed.
InfiniteKept == [][d.st = "BOUND" /\ d.l2 = Infinite => d'.st \notin {"RENEWING", "REBINDING"}]_vars

\* A client that discovers is bound in the end, whatever messages are lost or
\* repeated, as long as not all of them are (dhcp_timeout and its retries).
GetsAddress == (d.st = "SELECTING") ~> (d.st = "BOUND")
=============================================================================
