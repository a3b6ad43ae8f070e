---------------------------- MODULE TcpReceive -----------------------------
(***************************************************************************)
(* The receiving half of a TCP control block: the data part of tcp_receive *)
(* with its queue of out-of-sequence segments (tcp_in.c), the announced    *)
(* window and tcp_recved (tcp.c), delayed and immediate acknowledgements   *)
(* (tcp_fasttmr, tcp_send_empty_ack).                                      *)
(*                                                                         *)
(* The peer has a stream of N bytes and a FIN; byte i is the number i.  It *)
(* cuts the stream into segments as it likes, repeats, reorders and loses  *)
(* them, and stays inside the window announced to it, but for probes of    *)
(* one byte.  Sequence numbers are taken modulo M (2^32 in the code).      *)
(***************************************************************************)
EXTENDS Integers, Sequences, FiniteSets, FiniteSetsExt

CONSTANTS
  M,        \* size of the sequence space, a power of 2
  ISS,      \* sequence number of the first byte
  N,        \* bytes of the stream
  TCP_WND,
  Mss,      \* pcb->mss: bytes of a segment at most
  UpdateAt  \* TCP_WND_UPDATE_THRESHOLD

TcpReceiveAssumption ==
  /\ {M, ISS, N, TCP_WND, Mss, UpdateAt} \subseteq Nat
  /\ M % 2 = 0 /\ 2 * (N + TCP_WND + 2) <= M /\ ISS < M /\ Mss > 0 /\ TCP_WND > 0

VARIABLES
  r,      \* the fields of the control block
  got,    \* bytes handed to the application so far, as they were handed over
  unread  \* bytes handed over and not yet given back by tcp_recved

vars == <<r, got, unread>>

Seq0(i) == (ISS + i) % M                  \* sequence number of byte i
U(x) == x % M                             \* (u32_t)
LT(a, b)  == U(a - b) >= M \div 2         \* TCP_SEQ_LT and its relatives
LEQ(a, b) == a = b \/ LT(a, b)
GT(a, b)  == LT(b, a)
GEQ(a, b) == LEQ(b, a)
BETWEEN(a, b, c) == GEQ(a, b) /\ LEQ(a, c)

TCPLEN(s) == s.len + (IF s.fin THEN 1 ELSE 0)
Cut(s, n) == [s EXCEPT !.len = n, !.data = SubSeq(@, 1, IF n < Len(@) THEN n ELSE Len(@))]

TypeOK ==
  /\ r.rcv_nxt \in 0..(M - 1) /\ r.rcv_wnd \in 0..TCP_WND /\ r.ann_wnd \in 0..TCP_WND
  /\ r.edge \in 0..(M - 1) /\ r.ack \in {"no", "delay", "now"} /\ r.fin \in BOOLEAN
  /\ unread \in 0..TCP_WND

Init == /\ r = [rcv_nxt |-> Seq0(0), rcv_wnd |-> TCP_WND, ann_wnd |-> TCP_WND,
                edge |-> U(ISS + TCP_WND), ooseq |-> <<>>, ack |-> "no", fin |-> FALSE]
        /\ got = <<>> /\ unread = 0

(***************************************************************************)
(* Acknowledgements and the window.                                        *)
(***************************************************************************)
tcp_ack(p) == [p EXCEPT !.ack = IF @ = "no" THEN "delay" ELSE "now"]
tcp_ack_now(p) == [p EXCEPT !.ack = "now"]

\* Every segment that leaves announces rcv_ann_wnd
tcp_send_empty_ack(p) == [p EXCEPT !.ack = "no", !.edge = U(p.rcv_nxt + p.ann_wnd)]

AnnounceWraps(p) ==
  [p EXCEPT !.ann_wnd = IF GEQ(U(p.rcv_nxt + p.rcv_wnd), U(p.edge + Mss)) THEN p.rcv_wnd
                        ELSE U(p.edge - p.rcv_nxt)]
AnnounceRounded(p) == [p EXCEPT !.ann_wnd = (p.rcv_wnd \div Mss) * Mss]

\* The right edge moves in steps of a segment, and never to the left
tcp_update_rcv_ann_wnd(p) ==
  LET edge == U(p.rcv_nxt + p.rcv_wnd)
      step == IF TCP_WND \div 2 < Mss THEN TCP_WND \div 2 ELSE Mss
  IN  [p EXCEPT !.ann_wnd =
         CASE GEQ(edge, U(p.edge + step)) -> p.rcv_wnd
           [] GT(p.rcv_nxt, p.edge)       -> 0
           [] OTHER                       -> U(p.edge - p.rcv_nxt)]

Inflation(p) == LET edge == U(p.rcv_nxt + p.rcv_wnd)
                    step == IF TCP_WND \div 2 < Mss THEN TCP_WND \div 2 ELSE Mss
                IN  IF GEQ(edge, U(p.edge + step)) THEN U(edge - p.edge) ELSE 0

RecvedSilently(p, n) ==
  tcp_update_rcv_ann_wnd([p EXCEPT !.rcv_wnd = IF @ + n > TCP_WND THEN TCP_WND ELSE @ + n])

tcp_recved(p, n) ==
  LET q == [p EXCEPT !.rcv_wnd = IF @ + n > TCP_WND THEN TCP_WND ELSE @ + n]
      u == tcp_update_rcv_ann_wnd(q)
  IN  IF Inflation(q) >= UpdateAt THEN tcp_send_empty_ack(u) ELSE u

(***************************************************************************)
(* The out-of-sequence queue.                                              *)
(***************************************************************************)
\* Segments of q that c covers are dropped, their FIN is kept, and c is cut
\* where the next one begins
Covered(end, q) ==
  Max({k \in 0..Len(q) : \A j \in 1..k : GEQ(end, U(q[j].seq + q[j].len))})
AnyFin(q, k) == \E j \in 1..k : q[j].fin

InsertUncut(c, q) == <<c>> \o q

tcp_oos_insert_segment(c, q) ==
  IF c.fin THEN <<c>>
  ELSE LET k == Covered(U(c.seq + c.len), q)
           rest == SubSeq(q, k + 1, Len(q))
           d == [c EXCEPT !.fin = AnyFin(q, k)]
       IN  IF rest # <<>> /\ GT(U(c.seq + c.len), Head(rest).seq)
           THEN <<Cut(d, U(Head(rest).seq - c.seq))>> \o rest
           ELSE <<d>> \o rest

\* Overrun test of the last branch: its comparison is not modular
CutToWindow(p, s) ==
  IF U(s.seq + TCPLEN(s)) > U(p.rcv_nxt + p.rcv_wnd)
  THEN Cut([s EXCEPT !.fin = FALSE], U(p.rcv_nxt + p.rcv_wnd - s.seq))
  ELSE s

CutTail(q, s) == \* the segment before s gives way to it
  LET l == q[Len(q)] IN
  SubSeq(q, 1, Len(q) - 1) \o <<IF GT(U(l.seq + l.len), s.seq) THEN Cut(l, U(s.seq - l.seq)) ELSE l>>

\* The place of segment s: before or instead of element i, or at the end
Fits(q, s, i) == \/ s.seq = q[i].seq
                 \/ i = 1 /\ LT(s.seq, q[i].seq)
                 \/ i > 1 /\ BETWEEN(s.seq, U(q[i - 1].seq + 1), U(q[i].seq - 1))

OutOfSequence(p, s) ==
  LET q == p.ooseq
      P == {i \in DOMAIN q : Fits(q, s, i)}
      i == Min(P)
      before == SubSeq(q, 1, i - 1)
      from == SubSeq(q, i, Len(q))
  IN  CASE q = <<>> -> <<s>>
        [] P # {} /\ s.seq = q[i].seq ->
             IF s.len > q[i].len THEN before \o tcp_oos_insert_segment(s, from) ELSE q
        [] P # {} /\ i = 1 -> tcp_oos_insert_segment(s, q)
        [] P # {} /\ i > 1 -> CutTail(before, s) \o tcp_oos_insert_segment(s, from)
        [] OTHER -> IF GT(s.seq, q[Len(q)].seq) /\ ~q[Len(q)].fin
                    THEN Append(CutTail(q, s), CutToWindow(p, s)) ELSE q

(***************************************************************************)
(* tcp_receive, for a segment with data or a FIN.  The result is the       *)
(* control block and the bytes that became recv_data.                      *)
(***************************************************************************)
TrimHeaderOnly(p, s) ==
  IF BETWEEN(p.rcv_nxt, U(s.seq + 1), U(s.seq + TCPLEN(s) - 1))
  THEN [s EXCEPT !.seq = p.rcv_nxt, !.len = @ - U(p.rcv_nxt - s.seq)]
  ELSE s

\* Bytes received before are cut off the front
TrimFront(p, s) ==
  IF BETWEEN(p.rcv_nxt, U(s.seq + 1), U(s.seq + TCPLEN(s) - 1))
  THEN LET off == U(p.rcv_nxt - s.seq)
       IN  [s EXCEPT !.seq = p.rcv_nxt, !.len = @ - off, !.data = SubSeq(@, off + 1, Len(@))]
  ELSE s

\* Bytes beyond the window, and bytes the queue already holds, are cut off
TrimBack(p, s) ==
  IF TCPLEN(s) > p.rcv_wnd THEN Cut([s EXCEPT !.fin = FALSE], p.rcv_wnd) ELSE s

MergeQueue(p, s) == \* <<segment, queue>>
  IF s.fin THEN <<s, <<>>>>
  ELSE LET k == Covered(U(s.seq + s.len), p.ooseq)
           rest == SubSeq(p.ooseq, k + 1, Len(p.ooseq))
           f == AnyFin(p.ooseq, k)
           d == [s EXCEPT !.fin = f]
       IN  IF rest # <<>> /\ GT(U(d.seq + TCPLEN(d)), Head(rest).seq)
           THEN <<Cut(d, U(Head(rest).seq - d.seq)), rest>> ELSE <<d, rest>>

AdvanceData(p, s) ==
  tcp_update_rcv_ann_wnd([p EXCEPT !.rcv_nxt = U(@ + s.len), !.rcv_wnd = @ - TCPLEN(s), !.fin = @ \/ s.fin])
AdvanceKeepsWindow(p, s) == [p EXCEPT !.rcv_nxt = U(@ + TCPLEN(s)), !.fin = @ \/ s.fin]

Advance(p, s) == \* rcv_nxt and the windows after segment s
  tcp_update_rcv_ann_wnd([p EXCEPT !.rcv_nxt = U(@ + TCPLEN(s)), !.rcv_wnd = @ - TCPLEN(s),
                                   !.fin = @ \/ s.fin])

RECURSIVE Deliver(_, _)
Deliver(p, d) == \* what the queue can add now
  IF p.ooseq # <<>> /\ Head(p.ooseq).seq = p.rcv_nxt
  THEN Deliver(Advance([p EXCEPT !.ooseq = Tail(@)], Head(p.ooseq)), d \o Head(p.ooseq).data)
  ELSE [p |-> p, data |-> d]

InSequence(p, s0) ==
  LET m == MergeQueue(p, TrimBack(p, s0))
      s == m[1]
      d == Deliver(Advance([p EXCEPT !.ooseq = m[2]], s), s.data)
  IN  [d EXCEPT !.p = tcp_ack(@)]

tcp_receive(p, s0, mem) ==
  LET s == TrimFront(p, s0)
      q == IF s = s0 /\ LT(s.seq, p.rcv_nxt) THEN tcp_ack_now(p) ELSE p
  IN  CASE p.fin -> [p |-> p, data |-> <<>>]
        [] ~BETWEEN(s.seq, q.rcv_nxt, U(q.rcv_nxt + q.rcv_wnd - 1)) ->
             [p |-> tcp_send_empty_ack(q), data |-> <<>>]
        [] q.rcv_nxt = s.seq -> InSequence(q, s)
        [] OTHER -> LET a == tcp_send_empty_ack(q)
                    IN  [p |-> IF mem THEN [a EXCEPT !.ooseq = OutOfSequence(q, s)] ELSE a,
                         data |-> <<>>]

(***************************************************************************)
(* Actions.                                                                *)
(***************************************************************************)
Segment(i, j, f) == [seq |-> Seq0(i), len |-> j - i, data |-> [k \in 1..(j - i) |-> i + k - 1],
                     fin |-> f]

\* tcp_input hands a segment to tcp_receive and ends with tcp_output; the FIN
\* is announced to the application, which gives its byte of the window back
Input(s) == \E mem \in BOOLEAN :
  LET d == tcp_receive(r, s, mem)
      p == IF d.p.fin /\ ~r.fin /\ d.p.rcv_wnd # TCP_WND
           THEN [d.p EXCEPT !.rcv_wnd = @ + 1] ELSE d.p
  IN  /\ r' = IF p.ack = "now" THEN tcp_send_empty_ack(p) ELSE p
      /\ got' = got \o d.data /\ unread' = unread + Len(d.data)

\* The peer sends within the window it was told, or probes it with one byte
Send == \E i, j \in 0..N, f \in BOOLEAN :
  /\ i <= j /\ (f => j = N) /\ (i = j => f) /\ j - i <= Mss
  /\ \/ LEQ(U(Seq0(j) + (IF f THEN 1 ELSE 0)), r.edge)
     \/ j = i + 1 /\ ~f /\ Seq0(i) = r.edge
  /\ Input(Segment(i, j, f))

Recved == \E n \in 1..unread :
  /\ unread' = unread - n /\ r' = tcp_recved(r, n) /\ UNCHANGED got

\* tcp_fasttmr sends a delayed acknowledgement
FastTimer == /\ r.ack = "delay" /\ r' = tcp_send_empty_ack(r) /\ UNCHANGED <<got, unread>>

\* tcp_slowtmr gives the queue up after a while
OoseqTimeout == /\ r.ooseq # <<>> /\ r' = [r EXCEPT !.ooseq = <<>>] /\ UNCHANGED <<got, unread>>

Next == Send \/ Recved \/ FastTimer \/ OoseqTimeout
Spec == Init /\ [][Next]_vars

(***************************************************************************)
(* Properties.                                                             *)
(***************************************************************************)
\* The application gets the bytes of the stream once, in order and without a
\* gap, and the end of the stream after all of them, however the peer cut and
\* repeated it.
StreamIntact == /\ \A k \in DOMAIN got : got[k] = k - 1
                /\ r.fin => Len(got) = N

\* rcv_nxt acknowledges what the application got and nothing more.
AckedIsDelivered == r.rcv_nxt = U(ISS + Len(got) + (IF r.fin THEN 1 ELSE 0))

\* What the window lacks is what the application has not given back.
WindowAccounted == r.rcv_wnd = TCP_WND - unread

\* The queue holds disjoint segments in ascending order.
QueueSorted == \A k \in 1..(Len(r.ooseq) - 1) :
                 LEQ(U(r.ooseq[k].seq + r.ooseq[k].len), r.ooseq[k + 1].seq)

\* The announced right edge never moves back: the peer may have used it.
EdgeAdvances == GEQ(r'.edge, r.edge)

\* When the application has read all, the peer has been told of a window, so it
\* does not have to probe (TCP_WND_UPDATE_THRESHOLD).
WindowReopened == r.rcv_wnd = TCP_WND /\ r.ack = "no" /\ ~r.fin => r.edge # r.rcv_nxt
=============================================================================
