---------------------------- MODULE TcpChecksum ----------------------------
(***************************************************************************)
(* The Internet checksum (inet_chksum.c) and the way tcp_out.c computes it *)
(* while data is copied (LWIP_CHECKSUM_ON_COPY): tcp_write adds pieces to  *)
(* the sum that a segment carries, tcp_output_segment completes the sum.   *)
(*                                                                         *)
(* A sum of an odd number of bytes is kept with its two bytes swapped, so  *)
(* that the next piece can be added as if it started at an even place.     *)
(* What the window lets out when is left open here (see TcpSend); a write  *)
(* that finds no memory changes nothing of this state.                     *)
(***************************************************************************)
EXTENDS Integers, Sequences, SequencesExt

CONSTANTS
  Bytes,    \* values of a byte
  Lens,     \* lengths of a write
  N,        \* bound: bytes written
  Mss,      \* mss_local: MIN(pcb->mss, pcb->snd_wnd_max / 2)
  TcpHdr,   \* sum of the TCP header
  Pseudo,   \* sum of addresses, protocol and length
  Copies,   \* TCP_WRITE_FLAG_COPY of a write, TRUE or FALSE
  More,     \* TCP_WRITE_FLAG_MORE
  Resends   \* retransmission timeouts happen

ChecksumAssumption ==
  /\ Bytes \subseteq 0..255 /\ {TcpHdr, Pseudo} \subseteq 0..65535
  /\ Lens \subseteq Nat \ {0} /\ {N, Mss} \subseteq Nat \ {0}
  /\ Copies \subseteq BOOLEAN /\ {More, Resends} \subseteq BOOLEAN

VARIABLES
  unsent, unacked,   \* segments [pbufs, sum, swapped]: the bytes of each pbuf of the chain
  oversize,          \* unsent_oversize: bytes left in the last pbuf of the last unsent segment
  written,           \* bytes written so far
  sent               \* the segment that went out last, [data, chksum]

vars == <<unsent, unacked, oversize, written, sent>>

MinOf(a, b) == IF a < b THEN a ELSE b
Odd(n) == n % 2 = 1
FOLD_U32T(u) == (u \div 65536) + (u % 65536)
SWAP_BYTES_IN_WORD(w) == (w % 256) * 256 + ((w \div 256) % 256)
Not(w) == 65535 - w
Data(seg) == FlattenSeq(seg.pbufs)

(***************************************************************************)
(* inet_chksum.c                                                           *)
(***************************************************************************)
\* Words in network order; htons on a little-endian processor swaps
lwip_standard_chksum(b) ==
  LET acc == FoldLeft(LAMBDA a, i : a + b[i] * (IF Odd(i) THEN 256 ELSE 1), 0, [i \in 1..Len(b) |-> i])
  IN  SWAP_BYTES_IN_WORD(FOLD_U32T(FOLD_U32T(acc)))

ChainSumPlain(pbufs) == FoldLeft(LAMBDA a, b : FOLD_U32T(a + lwip_standard_chksum(b)), 0, pbufs)

\* The loop over a chain of inet_chksum_pbuf and inet_chksum_pseudo
ChainSum(pbufs) ==
  LET Add(a, b) == LET s == FOLD_U32T(a.sum + lwip_standard_chksum(b)) IN
                   IF Odd(Len(b)) THEN [sum |-> SWAP_BYTES_IN_WORD(s), swapped |-> ~a.swapped]
                   ELSE [a EXCEPT !.sum = s]
      end == FoldLeft(Add, [sum |-> 0, swapped |-> FALSE], pbufs)
  IN  IF end.swapped THEN SWAP_BYTES_IN_WORD(end.sum) ELSE end.sum

inet_chksum_pbuf(pbufs) == Not(ChainSum(pbufs))
inet_chksum_pseudo(pbufs) == Not(FOLD_U32T(FOLD_U32T(ChainSum(pbufs) + Pseudo)))

\* The header alone, out of a first pbuf of len bytes; the parity of the whole
\* pbuf counts, but twice
inet_chksum_pseudo_partial(len) ==
  LET once == IF Odd(len) THEN SWAP_BYTES_IN_WORD(TcpHdr) ELSE TcpHdr
      acc == IF Odd(len) THEN SWAP_BYTES_IN_WORD(once) ELSE once
  IN  Not(FOLD_U32T(FOLD_U32T(acc + Pseudo)))

(***************************************************************************)
(* tcp_out.c                                                               *)
(***************************************************************************)
AddUnswapped(chksum, len, s) == [s EXCEPT !.sum = FOLD_U32T(chksum + @)]

tcp_seg_add_chksum(chksum, len, s) ==
  LET c == FOLD_U32T(chksum + s.sum)
  IN  IF Odd(len) THEN [s EXCEPT !.sum = SWAP_BYTES_IN_WORD(c), !.swapped = ~@]
      ELSE [s EXCEPT !.sum = c]

RoomOfMss(len, max, first) ==
  IF More \/ ~first \/ unsent # <<>> \/ unacked # <<>> THEN Mss - len ELSE 0

\* What tcp_pbuf_prealloc allocates beyond len (TCP_OVERSIZE is TCP_MSS)
tcp_pbuf_prealloc(len, max, first) ==
  IF More \/ ~first \/ unsent # <<>> \/ unacked # <<>> THEN max - len ELSE 0

NoSum == [pbufs |-> <<>>, sum |-> 0, swapped |-> FALSE]

\* A new segment; the sum of data that is not copied is not swapped
NewSeg(b, copy) ==
  LET c == lwip_standard_chksum(b)
      s == IF copy THEN tcp_seg_add_chksum(c, Len(b), NoSum) ELSE [NoSum EXCEPT !.sum = c]
  IN  [s EXCEPT !.pbufs = <<b>>]

\* TCP_DATA_COPY into the place left in the last pbuf
Extend(s, b) ==
  LET k == Len(s.pbufs)
  IN  tcp_seg_add_chksum(lwip_standard_chksum(b), Len(b), [s EXCEPT !.pbufs[k] = @ \o b])

\* A pbuf of its own, concat_p: summed up on its own and then added as it is
Concat(s, b) ==
  LET concat == tcp_seg_add_chksum(lwip_standard_chksum(b), Len(b), NoSum)
  IN  tcp_seg_add_chksum(concat.sum, Len(b), [s EXCEPT !.pbufs = Append(@, b)])

tcp_write(b, copy) ==
  LET k     == Len(unsent)
      len   == Len(b)
      used  == IF k = 0 THEN 0 ELSE MinOf(oversize, len)
      space == IF k = 0 THEN 0 ELSE Mss - Len(Data(unsent[k])) - used
      cat   == MinOf(space, len - used)
      rest  == SubSeq(b, used + cat + 1, len)
      new   == (Len(rest) + Mss - 1) \div Mss
      segs  == [i \in 1..new |->
                  NewSeg(SubSeq(rest, (i - 1) * Mss + 1, MinOf(i * Mss, Len(rest))), copy)]
      ext   == IF used = 0 THEN unsent ELSE [unsent EXCEPT ![k] = Extend(@, SubSeq(b, 1, used))]
      full  == IF cat = 0 THEN ext
               ELSE [ext EXCEPT ![k] = Concat(@, SubSeq(b, used + 1, used + cat))]
  IN  /\ unsent' = full \o segs
      /\ oversize' = CASE new > 0 /\ copy -> tcp_pbuf_prealloc(Len(Data(segs[new])), Mss, new = 1)
                       [] new = 0 /\ cat > 0 /\ copy -> tcp_pbuf_prealloc(cat, space, TRUE)
                       [] OTHER -> oversize - used

\* The sum is put in its right order for good
OutputSwapped(seg) == [seg EXCEPT !.sum = IF seg.swapped THEN SWAP_BYTES_IN_WORD(@) ELSE @,
                                  !.swapped = FALSE]

tcp_output_segment(seg) ==
  LET s == OutputSwapped(seg)
  IN  /\ sent' = <<[data |-> Data(s), chksum |->
                      FOLD_U32T(inet_chksum_pseudo_partial(Len(s.pbufs[1])) + Not(s.sum))]>>
      /\ unacked' = Append(unacked, s)

-----------------------------------------------------------------------------
Init == unsent = <<>> /\ unacked = <<>> /\ oversize = 0 /\ written = 0 /\ sent = <<>>

Write == /\ \E n \in Lens : /\ written + n <= N /\ written' = written + n
                            /\ \E b \in [1..n -> Bytes], copy \in Copies : tcp_write(b, copy)
         /\ UNCHANGED <<unacked, sent>>

\* One turn of the loop of tcp_output
Output == /\ unsent # <<>> /\ tcp_output_segment(Head(unsent))
          /\ unsent' = Tail(unsent)
          /\ oversize' = IF Len(unsent) = 1 THEN 0 ELSE oversize
          /\ UNCHANGED written

\* tcp_rexmit_rto
Resend == /\ Resends /\ unacked # <<>>
          /\ unsent' = unacked \o unsent /\ unacked' = <<>>
          /\ UNCHANGED <<oversize, written, sent>>

Acknowledged == /\ unacked # <<>> /\ unacked' = Tail(unacked)
                /\ UNCHANGED <<unsent, oversize, written, sent>>

Next == Write \/ Output \/ Resend \/ Acknowledged

Spec == Init /\ [][Next]_vars

-----------------------------------------------------------------------------
\* The sum of bytes b by its definition (RFC 1071), modulo 2^16 - 1, seen by a
\* little-endian processor
RefSum(b) == FoldLeft(LAMBDA a, i : a + b[i] * (IF Odd(i) THEN 1 ELSE 256), 0, [i \in 1..Len(b) |-> i])

\* tcp_output_segment: the checksum that a segment is sent with is the one of
\* its header and all its bytes, whatever writes they came in and whether the
\* segment was sent before.  So says the check that can be compiled in there:
\* "calculated checksum is %x instead of %x".
ChecksumRight ==
  sent # <<>> => (sent[1].chksum + TcpHdr + Pseudo + RefSum(sent[1].data)) % 65535 = 0

\* inet_chksum_pbuf, inet_chksum_pseudo: the sum over a chain of pbufs does not
\* depend on how the bytes are cut.
ChainsSummed == \A q \in {unsent[i] : i \in DOMAIN unsent} :
  /\ (inet_chksum_pbuf(q.pbufs) + RefSum(Data(q))) % 65535 = 0
  /\ (inet_chksum_pseudo(q.pbufs) + Pseudo + RefSum(Data(q))) % 65535 = 0

\* tcp_write: the place left in the last pbuf is part of the place left in the
\* segment, and there is none without an unsent segment.
OversizeFits == /\ unsent = <<>> => oversize = 0
                /\ unsent # <<>> => oversize + Len(Data(Last(unsent))) <= Mss
=============================================================================
