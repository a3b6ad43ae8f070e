------------------------------ MODULE TcpSend ------------------------------
(***************************************************************************)
(* The sending half of a TCP control block: tcp_write, tcp_send_fin,       *)
(* tcp_output and the retransmissions (tcp_out.c), the acknowledgement     *)
(* part of tcp_receive (tcp_in.c) and the timers that drive it             *)
(* (tcp_slowtmr, tcp.c).                                                   *)
(*                                                                         *)
(* Segments can be lost, repeated and reordered, acknowledgements can be   *)
(* lost.  The peer acknowledges what it has in sequence, announces a       *)
(* window whose right edge never moves back, and sends no data.  Sequence  *)
(* numbers start at 0 and do not wrap here (TcpReceive has the wrap).      *)
(***************************************************************************)
EXTENDS Integers, Sequences, FiniteSets, FiniteSetsExt

CONSTANTS
  N,          \* bound: bytes the application writes
  MaxWrite,   \* bytes of a write at most
  Mss,
  SndBuf,     \* TCP_SND_BUF
  QueueLen,   \* TCP_SND_QUEUELEN
  Windows,    \* windows the peer can announce when its reader has caught up
  MaxRtx,     \* TCP_MAXRTX
  CwndMax,    \* what cwnd, a u16_t, can hold
  MaxAcks,    \* bound: acknowledgements on their way
  NoDelay     \* TF_NODELAY

TcpSendAssumption ==
  /\ {N, MaxWrite, Mss, SndBuf, QueueLen, MaxRtx, MaxAcks, CwndMax} \subseteq Nat \ {0}
  /\ Windows \subseteq Nat /\ NoDelay \in BOOLEAN

VARIABLES
  p,     \* the control block
  net,   \* segments on their way
  acks,  \* acknowledgements on their way, in order
  peer   \* [rcv: next byte expected, edge: right edge announced, fin, ahead: bytes held ahead]

vars == <<p, net, acks, peer>>

MinOf(a, b) == IF a < b THEN a ELSE b
MaxOf(a, b) == IF a < b THEN b ELSE a
Bump(n) == MinOf(n + 1, MaxRtx + 1)    \* nrtx + 1; MaxRtx + 1 stands for all that is past the limit
TCPLEN(s) == s.len + (IF s.fin THEN 1 ELSE 0)
End(s) == s.seq + TCPLEN(s)

Init == \E w \in Windows :
  /\ p = [unsent |-> <<>>, unacked |-> <<>>, snd_nxt |-> 0, lastack |-> 0, lbb |-> 0,
          buf |-> SndBuf, wnd |-> w, wmax |-> MaxOf(w, 2 * Mss), wl2 |-> 0, cwnd |-> 2 * Mss,
          ssthresh |-> 10 * Mss, dup |-> 0, infr |-> FALSE, nrtx |-> 0, persist |-> w = 0,
          rtime |-> FALSE, memerr |-> FALSE, fin |-> FALSE, up |-> TRUE]
  /\ net = {} /\ acks = <<>> /\ peer = [rcv |-> 0, edge |-> w, fin |-> FALSE, ahead |-> {}]

TypeOK ==
  /\ p.buf \in 0..(SndBuf + 1) /\ p.nrtx \in 0..(MaxRtx + 1) /\ p.cwnd \in 1..CwndMax
  /\ p.lastack <= p.snd_nxt /\ p.snd_nxt <= p.lbb + 1
  /\ Len(p.unsent) + Len(p.unacked) <= QueueLen + 1

(***************************************************************************)
(* tcp_out.c                                                               *)
(***************************************************************************)
WriteUnchecked(q, len) == TRUE

tcp_write_checks(q, len) == len <= q.buf /\ Len(q.unsent) + Len(q.unacked) < QueueLen

\* The last unsent segment is filled up, the rest goes to new segments
tcp_write(q, len) ==
  LET mss == MinOf(Mss, q.wmax \div 2)
      k == Len(q.unsent)
      add == IF k = 0 \/ q.unsent[k].len = 0 THEN 0 ELSE MinOf(MaxOf(mss - q.unsent[k].len, 0), len)
      rest == len - add
      new == (rest + mss - 1) \div mss
      filled == IF add = 0 THEN q.unsent ELSE [q.unsent EXCEPT ![k].len = @ + add]
      segs == [i \in 1..new |-> [seq |-> q.lbb + add + (i - 1) * mss,
                                 len |-> MinOf(mss, rest - (i - 1) * mss), fin |-> FALSE]]
  IN  IF Len(filled \o segs) + Len(q.unacked) > QueueLen
      THEN [q EXCEPT !.memerr = TRUE]
      ELSE [q EXCEPT !.unsent = filled \o segs, !.lbb = @ + len, !.buf = @ - len]

tcp_enqueue_flags(q) ==
  [q EXCEPT !.unsent = Append(@, [seq |-> q.lbb, len |-> 0, fin |-> TRUE]),
            !.lbb = @ + 1, !.buf = @ - 1, !.fin = TRUE]

\* The FIN goes to the last unsent segment, or to one of its own
tcp_send_fin(q) ==
  IF q.unsent # <<>> THEN [q EXCEPT !.unsent[Len(q.unsent)].fin = TRUE, !.fin = TRUE]
  ELSE tcp_enqueue_flags(q)

tcp_do_output_nagle(q) ==
  \/ q.unacked = <<>> \/ NoDelay \/ q.infr
  \/ Len(q.unsent) > 1 \/ Head(q.unsent).len >= Mss
  \/ q.buf = 0 \/ Len(q.unsent) + Len(q.unacked) >= QueueLen

InsertLast(q, s) == Append(q, s)

\* unacked is kept in order when a retransmitted segment goes back to it
Insert(q, s) == LET k == Cardinality({i \in DOMAIN q : q[i].seq < s.seq})
                IN  SubSeq(q, 1, k) \o <<s>> \o SubSeq(q, k + 1, Len(q))

OutputIgnoresFlight(q) ==
  IF q.unsent # <<>> /\ Head(q.unsent).len <= MinOf(q.wnd, q.cwnd)
  THEN LET s == Head(q.unsent) IN
       [q |-> [q EXCEPT !.unsent = Tail(@), !.unacked = Insert(@, s), !.rtime = TRUE,
                        !.snd_nxt = MaxOf(@, End(s)), !.memerr = FALSE], out |-> {s}]
  ELSE [q |-> q, out |-> {}]

RECURSIVE OutputLoop(_, _)
OutputLoop(q, out) ==
  IF \/ q.unsent = <<>>
     \/ Head(q.unsent).seq - q.lastack + Head(q.unsent).len > MinOf(q.wnd, q.cwnd)
     \/ ~tcp_do_output_nagle(q) /\ ~q.memerr /\ ~q.fin
  THEN [q |-> q, out |-> out]
  ELSE LET s == Head(q.unsent) IN
       OutputLoop([q EXCEPT !.unsent = Tail(@), !.unacked = Insert(@, s), !.rtime = TRUE,
                            !.snd_nxt = MaxOf(@, End(s))], out \cup {s})

tcp_output(q) == LET o == OutputLoop(q, {}) IN [o EXCEPT !.q.memerr = FALSE]

RtoDropsUnsent(q) == [q EXCEPT !.unsent = q.unacked, !.unacked = <<>>, !.nrtx = Bump(@)]

\* All that is unacknowledged is sent again, before the rest
tcp_rexmit_rto(q) ==
  [q EXCEPT !.unsent = q.unacked \o q.unsent, !.unacked = <<>>, !.nrtx = Bump(@)]

\* The first unacknowledged segment goes back to its place in unsent
tcp_rexmit(q) ==
  IF q.unacked = <<>> THEN q
  ELSE [q EXCEPT !.unacked = Tail(@), !.unsent = Insert(@, Head(q.unacked)), !.nrtx = Bump(@)]

tcp_rexmit_fast(q) ==
  IF q.unacked = <<>> \/ q.infr THEN q
  ELSE LET half == MaxOf(MinOf(q.cwnd, q.wnd) \div 2, 2 * Mss)
       IN  [tcp_rexmit(q) EXCEPT !.ssthresh = half, !.cwnd = half + 3 * Mss, !.infr = TRUE]

ProbeNothing(q) == {}

\* One byte of the first segment that is not acknowledged
tcp_zero_window_probe(q) ==
  LET s == IF q.unacked # <<>> THEN Head(q.unacked) ELSE Head(q.unsent)
  IN  IF q.unacked = <<>> /\ q.unsent = <<>> THEN {}
      ELSE {[seq |-> s.seq, len |-> MinOf(s.len, 1), fin |-> s.fin /\ s.len = 0]}

(***************************************************************************)
(* tcp_receive: an acknowledgement a = [ack, wnd].                         *)
(***************************************************************************)
WindowUpdate(q, a) ==
  IF q.wl2 < a.ack \/ (q.wl2 = a.ack /\ a.wnd > q.wnd)
  THEN [q EXCEPT !.wnd = a.wnd, !.wmax = MaxOf(@, a.wnd), !.wl2 = a.ack, !.persist = a.wnd = 0]
  ELSE q

\* A repeated acknowledgement: the third one retransmits, later ones inflate cwnd
DupAck(q, old, a) ==
  IF q.wl2 + q.wnd = old.wl2 + old.wnd /\ q.rtime /\ q.lastack = a.ack
  THEN LET d == [q EXCEPT !.dup = MinOf(@ + 1, 4)] IN
       CASE d.dup > 3 -> [d EXCEPT !.cwnd = IF @ + Mss <= CwndMax THEN @ + Mss ELSE @]
         [] d.dup = 3 -> tcp_rexmit_fast(d)
         [] OTHER     -> d
  ELSE [q EXCEPT !.dup = 0]

Grow(q) == LET n == q.cwnd + (IF q.cwnd < q.ssthresh THEN Mss ELSE (Mss * Mss) \div q.cwnd)
           IN  IF n <= CwndMax THEN n ELSE q.cwnd

Rest(segs, a) == SelectSeq(segs, LAMBDA s : End(s) > a)

AckStopsTimer(q, a) ==
  LET r == [q EXCEPT !.cwnd = IF q.infr THEN q.ssthresh ELSE @] IN
  [r EXCEPT !.infr = FALSE, !.nrtx = 0, !.buf = @ + a.ack - q.lastack, !.dup = 0,
            !.lastack = a.ack, !.cwnd = Grow(r), !.unacked = Rest(@, a.ack), !.rtime = FALSE]

AckKeepsBuffer(q, a) ==
  LET u == Rest(q.unacked, a.ack) IN
  [q EXCEPT !.nrtx = 0, !.dup = 0, !.lastack = a.ack, !.cwnd = Grow(q), !.unacked = u,
            !.rtime = u # <<>>]

NewAck(q, a) ==
  LET r == [q EXCEPT !.cwnd = IF q.infr THEN q.ssthresh ELSE @]
      u == Rest(q.unacked, a.ack)
  IN  [r EXCEPT !.infr = FALSE, !.nrtx = 0, !.buf = @ + a.ack - q.lastack, !.dup = 0,
                !.lastack = a.ack, !.cwnd = Grow(r), !.unacked = u, !.rtime = u # <<>>]

\* Segments that wait to be sent again may be acknowledged too
tcp_receive(q0, a) ==
  LET q == WindowUpdate(q0, a)
      r == CASE a.ack <= q.lastack -> DupAck(q, q0, a)
             [] a.ack > q.lastack /\ a.ack <= q.snd_nxt -> NewAck(q, a)
             [] OTHER -> q
  IN  [r EXCEPT !.unsent = SelectSeq(@, LAMBDA s : ~(a.ack >= End(s) /\ a.ack <= r.snd_nxt))]

(***************************************************************************)
(* Actions of the sender.                                                  *)
(***************************************************************************)
Output(q) == LET o == tcp_output(q)
             IN  /\ p' = o.q /\ net' = net \cup o.out

Write == /\ p.up /\ ~p.fin
         /\ \E n \in 1..MaxWrite :
              /\ p.lbb + n <= N
              /\ IF tcp_write_checks(p, n) THEN Output(tcp_write(p, n))
                 ELSE p' = [p EXCEPT !.memerr = TRUE] /\ UNCHANGED net
         /\ UNCHANGED <<acks, peer>>

Close == /\ p.up /\ ~p.fin /\ p.lbb = N
         /\ p.unsent # <<>> \/ (p.buf > 0 /\ Len(p.unacked) < QueueLen)
         /\ Output(tcp_send_fin(p)) /\ UNCHANGED <<acks, peer>>

\* tcp_input: the acknowledgement, then tcp_output
Acked == /\ p.up /\ acks # <<>> /\ acks' = Tail(acks)
         /\ Output(tcp_receive(p, Head(acks))) /\ UNCHANGED peer

\* tcp_slowtmr, for a connection whose window is open: retransmission
Timeout == /\ p.up /\ ~p.persist /\ p.rtime /\ p.unacked # <<>> /\ p.nrtx # MaxRtx
           /\ LET half == MaxOf(MinOf(p.cwnd, p.wnd) \div 2, 2 * Mss) IN
              Output(tcp_rexmit_rto([p EXCEPT !.ssthresh = half, !.cwnd = Mss]))
           /\ UNCHANGED <<acks, peer>>
Persist == /\ p.up /\ p.persist /\ p.nrtx # MaxRtx
           /\ net' = net \cup tcp_zero_window_probe(p) /\ UNCHANGED <<p, acks, peer>>
GiveUp  == /\ p.up /\ p.nrtx = MaxRtx /\ p' = [p EXCEPT !.up = FALSE]
           /\ UNCHANGED <<net, acks, peer>>
PollOutput == /\ p.up /\ Output(p) /\ UNCHANGED <<acks, peer>>   \* after the poll callback

(***************************************************************************)
(* The network and the peer (external).                                    *)
(***************************************************************************)
Contiguous(have, n) == CHOOSE k \in n..(N + 1) :
                         (\A i \in n..(k - 1) : i \in have) /\ (k = N + 1 \/ k \notin have)
Ack(q) == [ack |-> q.rcv + (IF q.fin THEN 1 ELSE 0), wnd |-> MaxOf(q.edge - q.rcv, 0)]

Arrives == \E s \in net :
  /\ Len(acks) < MaxAcks
  /\ LET have == peer.ahead \cup {i \in s.seq..(s.seq + s.len - 1) : i < peer.edge}
         rcv == Contiguous(have, peer.rcv)
         q == [peer EXCEPT !.rcv = rcv, !.ahead = {i \in have : i >= rcv},
                           !.fin = @ \/ (s.fin /\ rcv = s.seq + s.len)]
     IN  peer' = q /\ acks' = Append(acks, Ack(q))
  /\ net' = net \ {s} /\ UNCHANGED p
Lost == \/ \E s \in net : net' = net \ {s} /\ UNCHANGED <<p, acks, peer>>
        \/ acks # <<>> /\ acks' = Tail(acks) /\ UNCHANGED <<p, net, peer>>
\* The reader of the peer catches up: a window update
Opens == \E w \in Windows :
  /\ w > peer.edge - peer.rcv /\ peer.rcv < N /\ Len(acks) < MaxAcks
  /\ peer' = [peer EXCEPT !.edge = peer.rcv + w] /\ acks' = Append(acks, Ack(peer'))
  /\ UNCHANGED <<p, net>>

Next == Write \/ Close \/ Acked \/ Timeout \/ Persist \/ GiveUp \/ PollOutput
        \/ Arrives \/ Lost \/ Opens

Fairness == /\ SF_vars(Acked) /\ WF_vars(Timeout) /\ WF_vars(Persist) /\ WF_vars(GiveUp)
            /\ WF_vars(PollOutput) /\ SF_vars(Arrives) /\ SF_vars(Opens)
Spec == Init /\ [][Next]_vars
Live == Spec /\ Fairness

(***************************************************************************)
(* Properties.                                                             *)
(***************************************************************************)
\* Every byte from the last acknowledgement to the end of what was written is
\* in unacked or unsent, in order: retransmissions move segments between the
\* two and must lose none.
NothingForgotten ==
  p.up => \A i \in p.lastack..(p.lbb - 1) :
            \E s \in {p.unacked[k] : k \in DOMAIN p.unacked} \cup {p.unsent[k] : k \in DOMAIN p.unsent} :
              s.seq <= i /\ i < End(s)
QueuesOrdered ==
  /\ \A q \in {p.unacked, p.unsent} : \A k \in 1..(Len(q) - 1) : End(q[k]) <= q[k + 1].seq

\* The send buffer counts what is not acknowledged, so that it opens again.
BufferAccounted == ~p.fin => p.buf = SndBuf - (p.lbb - p.lastack)

\* No segment leaves that reaches past the window announced by the peer, but
\* for the byte of a probe at its very edge.
WithinWindow ==
  \A s \in net : \/ s.seq + s.len <= MaxOf(peer.edge, peer.rcv)
                 \/ s.len <= 1 /\ s.seq <= MaxOf(peer.edge, peer.rcv)

\* The retransmission timer runs while something is unacknowledged.
TimerRuns == p.up /\ p.unacked # <<>> => p.rtime

\* Comment of tcp_zero_window_probe: probes "keep a connection active when a
\* window update is lost".  The peer has room for what waits, nothing is on its
\* way in either direction: then the sender knows of the room, or probes.
KeptActive ==
  p.up /\ p.unacked = <<>> /\ p.unsent # <<>> /\ net = {} /\ acks = <<>> =>
    \/ p.persist
    \/ Head(p.unsent).len <= MinOf(p.wnd, p.cwnd)
    \/ Head(p.unsent).seq + Head(p.unsent).len > peer.edge

\* Doc of TCP_MAXRTX: the "Maximum number of retransmissions of data segments".
RtxBounded == p.nrtx <= MaxRtx

Written(n) == p.lbb >= n
Settled(n) == p.lastack >= n \/ ~p.up \/ p.nrtx > MaxRtx
\* What is written is acknowledged in the end, or the connection given up, as
\* long as nrtx does not step over its limit (RtxBounded).
Delivered == \A n \in 1..N : Written(n) ~> Settled(n)
=============================================================================
