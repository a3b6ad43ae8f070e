--------------------------- MODULE TcpConnection ---------------------------
(***************************************************************************)
(* Opening and closing a TCP connection: tcp_connect, tcp_close,           *)
(* tcp_shutdown and tcp_abandon (tcp.c), tcp_listen_input, tcp_process and *)
(* tcp_timewait_input (tcp_in.c), tcp_rst and tcp_keepalive (tcp_out.c)    *)
(* and the timeouts of tcp_slowtmr, at both ends of a connection over a    *)
(* network that loses, reorders and repeats segments.                      *)
(*                                                                         *)
(* End "c" connects, a control block of end "s" is made by its listener.   *)
(* The application of each end writes bytes, reads, closes and aborts.     *)
(* Windows, congestion and out-of-sequence queues are in TcpSend and       *)
(* TcpReceive: here a segment leaves while it fits the window Wnd, and one *)
(* that is not the next expected counts as lost.                           *)
(***************************************************************************)
EXTENDS Integers, Sequences, SequencesExt, FiniteSets

CONSTANTS
  DataC, DataS,  \* bytes the application of an end writes in a connection at most
  Wnd,      \* sequence numbers that may be in flight
  MaxRtx,   \* TCP_MAXRTX and TCP_SYNMAXRTX; nrtx = MaxRtx + 1 stands for all that is past it
  Gens,     \* bound: connections opened one after the other
  Ticks,    \* tcp_ticks added to the initial sequence number of each
  KeepMax,  \* keepalive probes before the connection is given up; 0: SOF_KEEPALIVE off
  Aborts,   \* the applications may abort, and refuse a connection
  Dups,     \* the network may repeat segments
  MaxNet    \* bound: segments on their way

TcpConnectionAssumption ==
  /\ {Wnd, MaxRtx, Gens, Ticks, MaxNet} \subseteq Nat \ {0} /\ KeepMax \in Nat
  /\ {DataC, DataS} \subseteq Nat /\ {Aborts, Dups} \subseteq BOOLEAN

VARIABLES
  pcb,   \* [end -> control block]
  iss,   \* [end -> last initial sequence number]
  net,   \* segments on their way
  wrote  \* [end -> bytes written in each connection, by its iss] (not in the code)

vars == <<pcb, iss, net, wrote>>
Ends == {"c", "s"}
Peer(e) == IF e = "c" THEN "s" ELSE "c"

\* err: the error callback was called; got, eof, irs, lost are not in the code
Fresh == [st |-> "CLOSED", nxt |-> 0, last |-> 0, lbb |-> 0, rcv |-> 0, unsent |-> <<>>,
          unacked |-> <<>>, nrtx |-> 0, rxc |-> FALSE, unread |-> FALSE, ack |-> FALSE,
          keep |-> 0, got |-> 0, irs |-> 0, eof |-> FALSE, err |-> FALSE,
          lost |-> FALSE]

Init == /\ pcb = [e \in Ends |-> Fresh] /\ net = {}
        /\ iss = [e \in Ends |-> IF e = "c" THEN 0 ELSE 100]
        /\ wrote = [e \in Ends |-> << >>]

Open == {"SYN_RCVD", "ESTABLISHED", "CLOSE_WAIT"}
Synced == {"ESTABLISHED", "CLOSE_WAIT", "FIN_WAIT_1", "FIN_WAIT_2", "CLOSING", "LAST_ACK"}
SegLen(s) == s.len + (IF s.f \cap {"SYN", "FIN"} # {} THEN 1 ELSE 0)

TypeOK ==
  /\ \A e \in Ends :
       /\ pcb[e].st \in Synced \cup {"CLOSED", "SYN_SENT", "SYN_RCVD", "TIME_WAIT"}
       /\ pcb[e].last <= pcb[e].nxt /\ pcb[e].nxt <= pcb[e].lbb
       /\ pcb[e].nrtx <= MaxRtx + 1 /\ pcb[e].keep <= KeepMax
  /\ Cardinality(net) <= MaxNet

(***************************************************************************)
(* tcp_out.c.  An operation yields x, the control block, and out, the      *)
(* segments it sends.                                                      *)
(***************************************************************************)
Do(x, out) == [x |-> x, out |-> out]
Wire(x, s) == [s EXCEPT !.f = IF x.st = "SYN_SENT" THEN @ ELSE @ \cup {"ACK"}]
              @@ [ack |-> IF x.st = "SYN_SENT" THEN 0 ELSE x.rcv]
Rst(seq, ack) == {[seq |-> seq, ack |-> ack, f |-> {"RST", "ACK"}, len |-> 0]}
tcp_rst(m) == Rst(m.ack, m.seq + SegLen(m))    \* the answer to segment m
tcp_send_empty_ack(x) == {Wire(x, [seq |-> x.nxt, f |-> {}, len |-> 0])}
tcp_keepalive(x) == {Wire(x, [seq |-> x.nxt - 1, f |-> {}, len |-> 0])}

EnqueueDataOnly(x, f, n) ==
  [x EXCEPT !.unsent = Append(@, [seq |-> x.lbb, f |-> f, len |-> n]), !.lbb = @ + n]

Enqueue(x, f, n) ==
  LET s == [seq |-> x.lbb, f |-> f, len |-> n]
  IN  [x EXCEPT !.unsent = Append(@, s), !.lbb = @ + SegLen(s)]

\* What fits the window is sent; an acknowledgement that is due goes with it or alone
tcp_output(x) ==
  LET fits == {k \in 1..Len(x.unsent) :
                 x.unsent[k].seq + x.unsent[k].len - x.last <= Wnd \/ "SYN" \in x.unsent[k].f}
      n == IF \A k \in 1..Len(x.unsent) : k \in fits THEN Len(x.unsent)
           ELSE (CHOOSE k \in 1..Len(x.unsent) : k \notin fits /\ \A j \in 1..(k - 1) : j \in fits) - 1
      sent == SubSeq(x.unsent, 1, n)
      end == IF n = 0 THEN x.nxt ELSE sent[n].seq + SegLen(sent[n])
      y == [x EXCEPT !.unacked = @ \o sent, !.unsent = SubSeq(@, n + 1, Len(@)), !.ack = FALSE,
                     !.nxt = IF end > @ THEN end ELSE @]
  IN  Do(y, {Wire(x, sent[k]) : k \in 1..n} \cup (IF n = 0 /\ x.ack THEN tcp_send_empty_ack(x) ELSE {}))

(***************************************************************************)
(* tcp.c                                                                   *)
(***************************************************************************)
Removed(x) == [x EXCEPT !.st = "CLOSED", !.unsent = <<>>, !.unacked = <<>>, !.ack = FALSE, !.nrtx = 0,
                        !.keep = 0, !.unread = FALSE]
tcp_pcb_purge(x) == [x EXCEPT !.unsent = <<>>, !.unacked = <<>>, !.nrtx = 0]

tcp_abandon(x, reset) ==
  IF x.st = "TIME_WAIT" THEN Do(Removed(x), {})
  ELSE Do([Removed(x) EXCEPT !.err = TRUE], IF reset THEN Rst(x.nxt, x.rcv) ELSE {})

tcp_connect(x, i) ==
  tcp_output(Enqueue([Fresh EXCEPT !.st = "SYN_SENT", !.nxt = i, !.last = i, !.lbb = i], {"SYN"}, 0))

tcp_send_fin(x) ==
  IF x.unsent # <<>> /\ Last(x.unsent).f = {}
  THEN [x EXCEPT !.unsent[Len(x.unsent)].f = {"FIN"}, !.lbb = @ + 1]
  ELSE Enqueue(x, {"FIN"}, 0)

CloseIgnoresUnread(x, rst) ==
  IF x.st = "CLOSE_WAIT" THEN tcp_output([tcp_send_fin(x) EXCEPT !.st = "LAST_ACK"])
  ELSE IF x.st \in Open THEN tcp_output([tcp_send_fin(x) EXCEPT !.st = "FIN_WAIT_1"])
  ELSE IF x.st = "SYN_SENT" THEN Do(Removed(x), {}) ELSE Do(x, {})

\* Data that was not read: reset instead of FIN
tcp_close_shutdown(x, rst) ==
  CASE rst /\ x.st \in {"ESTABLISHED", "CLOSE_WAIT"} /\ x.unread ->
         Do(IF x.st = "ESTABLISHED" THEN [tcp_pcb_purge(x) EXCEPT !.st = "TIME_WAIT"] ELSE Removed(x),
            Rst(x.nxt, x.rcv))
    [] ~(rst /\ x.st \in {"ESTABLISHED", "CLOSE_WAIT"} /\ x.unread) ->
         CASE x.st = "SYN_SENT"   -> Do(Removed(x), {})
           [] x.st = "CLOSE_WAIT" -> tcp_output([tcp_send_fin(x) EXCEPT !.st = "LAST_ACK"])
           [] x.st \in {"SYN_RCVD", "ESTABLISHED"} ->
                tcp_output([tcp_send_fin(x) EXCEPT !.st = "FIN_WAIT_1"])
           [] OTHER -> Do(x, {})

tcp_close(x) ==
  tcp_close_shutdown([x EXCEPT !.rxc = TRUE, !.lost = x.unread /\ x.st \in {"ESTABLISHED", "CLOSE_WAIT"}], TRUE)
tcp_shutdown(x) == tcp_close_shutdown(x, FALSE)     \* of the sending side only

tcp_rexmit_rto(x) ==
  tcp_output([x EXCEPT !.unsent = x.unacked \o x.unsent, !.unacked = <<>>,
                          !.nrtx = IF @ > MaxRtx THEN @ ELSE @ + 1])

(***************************************************************************)
(* tcp_in.c: segment m for control block x.                                *)
(***************************************************************************)
tcp_listen_input(x, m, i) ==
  CASE "RST" \in m.f -> Do(x, {})
    [] "RST" \notin m.f /\ "ACK" \in m.f -> Do(x, tcp_rst(m))
    [] m.f = {"SYN"} ->
         tcp_output(Enqueue([Fresh EXCEPT !.st = "SYN_RCVD", !.nxt = i, !.last = i, !.lbb = i,
                                          !.rcv = m.seq + 1, !.irs = m.seq], {"SYN"}, 0))
    [] OTHER -> Do(x, {})

tcp_timewait_input(x, m) ==
  CASE "RST" \in m.f -> Do(x, {})
    [] "SYN" \in m.f /\ m.seq >= x.rcv /\ m.seq <= x.rcv + Wnd -> Do(x, tcp_rst(m))
    [] OTHER -> Do(x, IF SegLen(m) > 0 THEN tcp_send_empty_ack(x) ELSE {})

AckedBy(x, a) == a > x.last /\ a <= x.nxt
ReceiveAck(x, m) ==
  IF ~AckedBy(x, m.ack) THEN x
  ELSE LET rest(q) == SelectSeq(q, LAMBDA s : s.seq + SegLen(s) > m.ack)
       IN  [x EXCEPT !.last = m.ack, !.nrtx = 0, !.unacked = rest(@), !.unsent = rest(@)]

ReceiveAnyFin(x, m) ==
  LET y == ReceiveAck(x, m) IN
  [x |-> [y EXCEPT !.ack = TRUE, !.rcv = m.seq + SegLen(m)], data |-> m.len > 0, fin |-> "FIN" \in m.f]

\* x, whether there is data for the application, and the FIN
tcp_receive(x, m) ==
  LET y == ReceiveAck(x, m)
      next == m.seq <= x.rcv /\ x.rcv < m.seq + SegLen(m)
  IN  IF next
      THEN [x |-> [y EXCEPT !.rcv = m.seq + SegLen(m), !.ack = TRUE],
            data |-> m.len > 0 /\ x.rcv < m.seq + m.len, fin |-> "FIN" \in m.f]
      ELSE [x |-> [y EXCEPT !.ack = SegLen(m) > 0 \/ m.seq # x.rcv], data |-> FALSE, fin |-> FALSE]

\* tcp_input after tcp_process: the callbacks, then tcp_output
Deliver(x, data, fin) ==
  IF data /\ x.rxc THEN tcp_abandon(x, TRUE)
  ELSE LET y == [x EXCEPT !.got = IF data THEN @ + 1 ELSE @, !.unread = @ \/ data, !.eof = @ \/ fin]
       IN  IF y.st = "TIME_WAIT" THEN Do([y EXCEPT !.ack = FALSE], tcp_send_empty_ack(y))
           ELSE tcp_output(y)

ResetAcceptable(x, m) ==
  IF x.st = "SYN_SENT" THEN m.ack = x.nxt ELSE m.seq >= x.rcv /\ m.seq <= x.rcv + Wnd

SynSentAnyAck(x, m) ==
  IF {"SYN", "ACK"} \subseteq m.f
  THEN Deliver([ReceiveAck(x, m) EXCEPT !.st = "ESTABLISHED", !.rcv = m.seq + 1, !.irs = m.seq,
                                        !.ack = TRUE], FALSE, FALSE)
  ELSE Do(x, {})

SynSentInput(x, m) ==
  CASE {"SYN", "ACK"} \subseteq m.f /\ x.unacked # <<>> /\ m.ack = Head(x.unacked).seq + 1 ->
         Deliver([ReceiveAck(x, m) EXCEPT !.st = "ESTABLISHED", !.rcv = m.seq + 1, !.irs = m.seq,
                                          !.ack = TRUE], FALSE, FALSE)
    [] "ACK" \in m.f /\ ~({"SYN", "ACK"} \subseteq m.f /\ x.unacked # <<>>
                          /\ m.ack = Head(x.unacked).seq + 1) -> Do(x, tcp_rst(m))
    [] OTHER -> Do(x, {})

\* ok: the accept callback takes the connection
SynRcvdInput(x, m, ok) ==
  CASE "ACK" \in m.f /\ AckedBy(x, m.ack) ->
         IF ~ok THEN tcp_abandon([x EXCEPT !.st = "ESTABLISHED"], TRUE)
         ELSE LET r == tcp_receive([x EXCEPT !.st = "ESTABLISHED"], m)
              IN  Deliver(IF r.fin THEN [r.x EXCEPT !.st = "CLOSE_WAIT"] ELSE r.x, r.data, r.fin)
    [] "ACK" \in m.f /\ ~AckedBy(x, m.ack) -> Do(x, tcp_rst(m))
    [] m.f = {"SYN"} /\ m.seq = x.rcv - 1 -> tcp_rexmit_rto(x)
    [] OTHER -> Do(x, {})

\* The states after ESTABLISHED; ours: the peer has acknowledged all that was sent
SyncedInput(x, m) ==
  LET r == tcp_receive(x, m)
      ours == "ACK" \in m.f /\ m.ack = r.x.nxt
      to(st) == [r.x EXCEPT !.st = st]
      tw == [tcp_pcb_purge(r.x) EXCEPT !.st = "TIME_WAIT"]
  IN  CASE x.st \in {"ESTABLISHED", "CLOSE_WAIT"} -> Deliver(IF r.fin THEN to("CLOSE_WAIT") ELSE r.x, r.data, r.fin)
        [] x.st = "FIN_WAIT_1" -> Deliver(CASE r.fin /\ ours  -> tw
                                            [] r.fin /\ ~ours -> to("CLOSING")
                                            [] ~r.fin /\ ours -> to("FIN_WAIT_2")
                                            [] OTHER          -> r.x, r.data, r.fin)
        [] x.st = "FIN_WAIT_2" -> Deliver(IF r.fin THEN tw ELSE r.x, r.data, r.fin)
        [] x.st = "CLOSING"    -> Deliver(IF ours THEN tw ELSE r.x, r.data, r.fin)
        [] x.st = "LAST_ACK"   -> IF ours THEN Do([Removed(r.x) EXCEPT !.err = ~x.rxc], {})
                                  ELSE Deliver(r.x, r.data, r.fin)

tcp_process(x, m, ok) ==
  LET y == [x EXCEPT !.keep = 0] IN
  CASE "RST" \in m.f -> IF ResetAcceptable(x, m) THEN Do([Removed(x) EXCEPT !.err = TRUE], {})
                        ELSE Do(x, {})
    [] "RST" \notin m.f /\ "SYN" \in m.f /\ x.st \in Synced -> tcp_output([x EXCEPT !.ack = TRUE])
    [] "RST" \notin m.f /\ x.st = "SYN_SENT" -> SynSentInput(y, m)
    [] "RST" \notin m.f /\ x.st = "SYN_RCVD" -> SynRcvdInput(y, m, ok)
    [] OTHER -> SyncedInput(y, m)

\* tcp_input finds the active control block, one in TIME_WAIT, or the listener
tcp_input(e, x, m, ok, i) ==
  CASE x.st = "TIME_WAIT" -> tcp_timewait_input(x, m)
    [] x.st = "CLOSED" /\ e = "s" -> tcp_listen_input(x, m, i)
    [] x.st = "CLOSED" /\ e = "c" -> Do(x, IF "RST" \in m.f THEN {} ELSE tcp_rst(m))
    [] OTHER -> tcp_process(x, m, ok)

(***************************************************************************)
(* Actions.                                                                *)
(***************************************************************************)
To(e, out) == {m @@ [dst |-> Peer(e)] : m \in out}
\* Segments past the bound are lost
Becomes(e, r, rest) ==
  /\ pcb' = [pcb EXCEPT ![e] = r.x]
  /\ net' = IF Cardinality(rest \cup To(e, r.out)) <= MaxNet THEN rest \cup To(e, r.out) ELSE rest

tcp_next_iss(e) == iss[e] + Ticks
NewBlock(e) == /\ iss' = [iss EXCEPT ![e] = tcp_next_iss(e)]
               /\ wrote' = [wrote EXCEPT ![e] = @ @@ (tcp_next_iss(e) :> 0)]

Connect == /\ pcb["c"].st = "CLOSED" /\ iss["c"] < Gens * Ticks
           /\ Becomes("c", tcp_connect(pcb["c"], tcp_next_iss("c")), net) /\ NewBlock("c")

\* The application of end e
Iss(e) == iss[e]
Write(e) == /\ pcb[e].st \in {"ESTABLISHED", "CLOSE_WAIT"} /\ ~pcb[e].rxc
            /\ wrote[e][Iss(e)] < (IF e = "c" THEN DataC ELSE DataS)
            /\ Becomes(e, tcp_output(Enqueue(pcb[e], {}, 1)), net)
            /\ wrote' = [wrote EXCEPT ![e][Iss(e)] = @ + 1] /\ UNCHANGED iss
Read(e) == /\ pcb[e].unread /\ ~pcb[e].rxc /\ pcb' = [pcb EXCEPT ![e].unread = FALSE]
           /\ UNCHANGED <<iss, net, wrote>>
Close(e) == /\ pcb[e].st \in {"SYN_SENT", "ESTABLISHED", "CLOSE_WAIT", "FIN_WAIT_1", "FIN_WAIT_2", "CLOSING"}
            /\ ~pcb[e].rxc /\ Becomes(e, tcp_close(pcb[e]), net) /\ UNCHANGED <<iss, wrote>>
Shutdown(e) == /\ pcb[e].st \in {"ESTABLISHED", "CLOSE_WAIT"} /\ ~pcb[e].rxc
               /\ Becomes(e, tcp_shutdown(pcb[e]), net) /\ UNCHANGED <<iss, wrote>>
Abort(e) == /\ Aborts /\ pcb[e].st \in Synced \ {"LAST_ACK"} /\ ~pcb[e].rxc
            /\ Becomes(e, tcp_abandon(pcb[e], TRUE), net) /\ UNCHANGED <<iss, wrote>>

\* tcp_slowtmr for the control block of end e
RemovePcb(e, reset) == /\ Becomes(e, Do([Removed(pcb[e]) EXCEPT !.err = pcb[e].st # "TIME_WAIT"],
                                     IF reset THEN Rst(pcb[e].nxt, pcb[e].rcv) ELSE {}), net)
                    /\ UNCHANGED <<iss, wrote>>
Retransmit(e) == /\ pcb[e].unacked # <<>> /\ pcb[e].nrtx # MaxRtx
                 /\ Becomes(e, tcp_rexmit_rto(pcb[e]), net) /\ UNCHANGED <<iss, wrote>>
GiveUp(e) == pcb[e].nrtx = MaxRtx /\ RemovePcb(e, FALSE)
FinWait2Forever(e) == FALSE
FinWait2Timeout(e) == pcb[e].st = "FIN_WAIT_2" /\ pcb[e].rxc /\ RemovePcb(e, FALSE)
KeepAlive(e) == /\ pcb[e].st \in {"ESTABLISHED", "CLOSE_WAIT"} /\ pcb[e].keep < KeepMax
                /\ Becomes(e, Do([pcb[e] EXCEPT !.keep = @ + 1], tcp_keepalive(pcb[e])), net)
                /\ UNCHANGED <<iss, wrote>>
KeepAliveNever(e) == FALSE
KeepAliveTimeout(e) == /\ pcb[e].st \in {"ESTABLISHED", "CLOSE_WAIT"} /\ KeepMax > 0
                       /\ pcb[e].keep = KeepMax /\ RemovePcb(e, TRUE)
SynRcvdTimeout(e) == pcb[e].st = "SYN_RCVD" /\ RemovePcb(e, FALSE)
LastAckTimeout(e) == pcb[e].st = "LAST_ACK" /\ RemovePcb(e, FALSE)
\* 2 * TCP_MSL: nothing of the connection is on its way any more
TimeWaitTimeout(e) == pcb[e].st = "TIME_WAIT" /\ net = {} /\ RemovePcb(e, FALSE)
Timer(e) == \/ Retransmit(e) \/ GiveUp(e) \/ FinWait2Timeout(e) \/ KeepAlive(e) \/ KeepAliveTimeout(e)
            \/ SynRcvdTimeout(e) \/ LastAckTimeout(e) \/ TimeWaitTimeout(e)

\* The network delivers a segment and may keep a copy of it
Input(e) == \E m \in net, dup \in {FALSE, Dups}, ok \in {TRUE, ~Aborts} :
  /\ m.dst = e
  /\ LET r == tcp_input(e, pcb[e], m, ok, tcp_next_iss(e)) IN
     /\ Becomes(e, r, IF dup THEN net ELSE net \ {m})
     /\ IF pcb[e].st = "CLOSED" /\ r.x.st = "SYN_RCVD"
        THEN tcp_next_iss(e) <= 100 + Gens * Ticks /\ NewBlock(e) ELSE UNCHANGED <<iss, wrote>>
Lost == \E m \in net : net' = net \ {m} /\ UNCHANGED <<pcb, iss, wrote>>

App(e) == Write(e) \/ Read(e) \/ Close(e) \/ Shutdown(e) \/ Abort(e)
Next == Connect \/ Lost \/ \E e \in Ends : App(e) \/ Timer(e) \/ Input(e)

Fairness == /\ WF_vars(Lost) /\ \A e \in Ends : WF_vars(Timer(e))
Spec == Init /\ [][Next]_vars
Live == Spec /\ Fairness

(***************************************************************************)
(* Properties.                                                             *)
(***************************************************************************)
\* When both ends are synchronised they are so with each other: what one
\* expects next is what the other sends, whatever old segments arrive.
Agreement ==
  pcb["c"].st \in Synced /\ pcb["s"].st \in Synced =>
    \A e \in Ends : /\ pcb[e].irs = iss[Peer(e)]
                    /\ pcb[e].rcv \in pcb[Peer(e)].last..pcb[Peer(e)].lbb

\* The end of the stream is seen only after every byte written before it, and
\* no byte is delivered twice or to another connection.
EofComplete ==
  \A e \in Ends : pcb[e].irs \in DOMAIN wrote[Peer(e)] =>
    /\ pcb[e].got <= wrote[Peer(e)][pcb[e].irs]
    /\ pcb[e].eof => pcb[e].got = wrote[Peer(e)][pcb[e].irs]

\* An application that closes without having read what came does not end the
\* stream in the normal way: its peer never takes the connection for one that
\* was read to the end.
UnreadNotHidden ==
  \A e \in Ends : pcb[e].lost /\ pcb[Peer(e)].irs = iss[e] => ~pcb[Peer(e)].eof

\* The comment of tcp_close_shutdown: "unsent data is sent from tcp timer
\* functions, also".  A connection that ends in LAST_ACK without an error, so
\* because its FIN was acknowledged, has nothing left to send.
ClosedSendsAll ==
  [][\A e \in Ends : pcb[e].st = "LAST_ACK" /\ pcb'[e].st = "CLOSED" /\ ~pcb'[e].err
       => pcb[e].unsent = <<>>]_vars

Closing(e) == pcb[e].rxc
Gone(e) == pcb[e].st = "CLOSED"
\* A control block whose application has closed is freed, whatever is lost.
Freed == \A e \in Ends : Closing(e) ~> Gone(e)

HalfOpen(e) == pcb[e].st = "ESTABLISHED" /\ Gone(Peer(e))
\* With keepalive an end whose peer is gone is told so in the end.
PeerGoneNoticed == \A e \in Ends : HalfOpen(e) ~> ~HalfOpen(e)
=============================================================================
