------------------------------- MODULE IpFrag -------------------------------
(***************************************************************************)
(* IP fragmentation and reassembly (ip_frag.c).  Datagrams are cut by      *)
(* ip_frag, possibly twice on their way and differently each time they are *)
(* sent, and their fragments reach ip_reass in any order, lost or          *)
(* repeated.  Lengths and offsets count blocks of 8 bytes and every        *)
(* fragment is one pbuf.                                                   *)
(***************************************************************************)
EXTENDS Integers, Sequences, FiniteSets, SequencesExt

CONSTANTS
  Ids,        \* datagrams: source, destination and identification
  Size,       \* length of a datagram
  Mtus,       \* payload of a fragment on the networks passed
  MaxPbufs,   \* IP_REASS_MAX_PBUFS
  Slots,      \* MEMP_NUM_REASSDATA
  MaxAge      \* IP_REASS_MAXAGE

IpFragAssumption == /\ {Size, MaxPbufs, Slots, MaxAge} \subseteq Nat \ {0}
                           /\ Mtus \subseteq Nat \ {0}

VARIABLES
  list,     \* reassdatagrams: struct ip_reassdata, first is the newest
  count,    \* ip_reass_pbufcount
  broken,   \* prev was not the predecessor of the entry removed (not in the code)
  out       \* the datagram the last fragment completed, if any (not in the code)

vars == <<list, count, broken, out>>

(***************************************************************************)
(* Fragmentation: of a packet that is itself the fragment [s, e, mf].      *)
(***************************************************************************)
FragForgetsMf(f, mtu) ==
  LET n == (f.e - f.s + mtu - 1) \div mtu IN
  {[s |-> f.s + (k - 1) * mtu, e |-> IF k = n THEN f.e ELSE f.s + k * mtu, mf |-> k # n] : k \in 1..n}
ip_frag(f, mtu) ==
  LET n == (f.e - f.s + mtu - 1) \div mtu IN
  {[s |-> f.s + (k - 1) * mtu, e |-> IF k = n THEN f.e ELSE f.s + k * mtu, mf |-> f.mf \/ k # n] : k \in 1..n}

\* What may arrive: the fragments of one network, or those cut again on the next
Wire == LET once == UNION {ip_frag([s |-> 0, e |-> Size, mf |-> FALSE], m) : m \in Mtus}
        IN  {f \in once \cup UNION {ip_frag(f, m) : f \in once, m \in Mtus} : f.s > 0 \/ f.mf}

Init == list = <<>> /\ count = 0 /\ broken = FALSE /\ out = <<>>

Fragment == [s : 0..(Size - 1), e : 1..Size, mf : BOOLEAN]
TypeOK == /\ \A k \in DOMAIN list : /\ list[k].id \in Ids /\ list[k].timer \in 0..MaxAge
                                    /\ ToSet(list[k].p) \subseteq Fragment
          /\ Len(list) <= Slots

\* Operations take and yield s = [list, count, broken]
Find(s, id) == {k \in DOMAIN s.list : s.list[k].id = id}

\* Index k leaves the list; prev is the index the code takes for its predecessor
ip_reass_dequeue_datagram(s, k, prev) ==
  IF k = 1 \/ prev = k - 1 THEN [s EXCEPT !.list = RemoveAt(@, k)] ELSE [s EXCEPT !.broken = TRUE]

FreeForgetsCount(s, k, prev) == ip_reass_dequeue_datagram(s, k, prev)
ip_reass_free_complete_datagram(s, k, prev) ==
  [ip_reass_dequeue_datagram(s, k, prev) EXCEPT !.count = @ - Len(s.list[k].p)]

RemovesOwn(s, id) ==
  IF s.list = <<>> THEN s ELSE ip_reass_free_complete_datagram(s, Len(s.list), Len(s.list) - 1)
\* The oldest datagram other than id; prev ends as the last but one of the list,
\* whichever was found.  One is enough: it holds the one pbuf that is needed
ip_reass_remove_oldest_datagram(s, id) ==
  LET others == DOMAIN s.list \ Find(s, id)
      k == CHOOSE i \in others : \A j \in others :
             s.list[i].timer < s.list[j].timer \/ (s.list[i].timer = s.list[j].timer /\ j <= i)
  IN  IF others = {} THEN s ELSE ip_reass_free_complete_datagram(s, k, Len(s.list) - 1)

\* A new datagram at the head, if there is or can be made room for it
ip_reass_enqueue_new_datagram(s, id) ==
  LET r == IF Len(s.list) < Slots THEN s ELSE ip_reass_remove_oldest_datagram(s, id)
  IN  IF Len(r.list) >= Slots THEN r
      ELSE [r EXCEPT !.list = <<[id |-> id, timer |-> MaxAge, p |-> <<>>, last |-> FALSE, len |-> 0]>> \o @]

(***************************************************************************)
(* The fragments of a datagram, by their start.                            *)
(***************************************************************************)
\* The place of f among the fragments p: before the first that starts later
Place(p, f) == Cardinality({j \in DOMAIN p : p[j].s <= f.s}) + 1

\* A fragment that is there already or overlaps a neighbour; the one before the
\* first fragment is not compared with it
Refused(p, f) ==
  LET L == Place(p, f) IN
  \/ \E j \in 1..(L - 1) : f.s = p[j].s \/ f.s < p[j].e
  \/ L > 1 /\ L <= Len(p) /\ f.e > p[L].s

\* Whether the datagram is complete with f: the last fragment has arrived, the
\* first starts at 0, and neighbours meet, except that a fragment put between
\* two others is not compared with the one before it
ip_reass_validate(d, f) ==
  LET L == Place(d.p, f)
      q == InsertAt(d.p, L, f)
  IN  /\ d.last /\ q[1].s = 0
      /\ \A j \in 2..Len(q) : (j = L /\ L < Len(q)) \/ q[j - 1].e = q[j].s

(***************************************************************************)
(* Actions.                                                                *)
(***************************************************************************)
S == [list |-> list, count |-> count, broken |-> FALSE]
Apply(s, o) == list' = s.list /\ count' = s.count /\ broken' = s.broken /\ out' = o

ip_reass(id, f) ==
  LET full == count + 1 > MaxPbufs
      r0 == IF full THEN ip_reass_remove_oldest_datagram(S, id) ELSE S
      r1 == IF Find(r0, id) = {} THEN ip_reass_enqueue_new_datagram(r0, id) ELSE r0
      k == CHOOSE j \in Find(r1, id) : TRUE
      d == [r1.list[k] EXCEPT !.last = @ \/ ~f.mf, !.len = IF f.mf THEN @ ELSE f.e]
      p == InsertAt(d.p, Place(d.p, f), f)
  IN  CASE r0.broken \/ r0.count + 1 > MaxPbufs -> Apply(r0, <<>>)
        [] r0.count + 1 <= MaxPbufs /\ ~r0.broken /\ (r1.broken \/ Find(r1, id) = {}) -> Apply(r1, <<>>)
        [] OTHER ->
             IF Refused(d.p, f) THEN Apply([r1 EXCEPT !.list[k] = d], <<>>)
             ELSE IF ip_reass_validate(d, f)
             THEN Apply([ip_reass_dequeue_datagram(r1, k, k - 1) EXCEPT !.count = @ - Len(d.p)],
                        <<[p |-> p, len |-> d.len]>>)
             ELSE Apply([r1 EXCEPT !.list[k] = [d EXCEPT !.p = p], !.count = @ + 1], <<>>)

\* Every second: datagrams whose time is over go, the others get older
TimerStops(l) == [k \in DOMAIN l |-> [l[k] EXCEPT !.timer = IF @ > 0 THEN @ - 1 ELSE 0]]
TimerUnderflows(l) == [k \in DOMAIN l |-> [l[k] EXCEPT !.timer = @ - 1]]
Aged(l) == LET left == SelectSeq(l, LAMBDA d : d.timer > 0)
           IN  [k \in DOMAIN left |-> [left[k] EXCEPT !.timer = @ - 1]]
ip_reass_tmr ==
  LET left == Aged(list)
      pbufs(l) == FoldLeft(LAMBDA n, d : n + Len(d.p), 0, l)
  IN  list # <<>> /\ Apply([S EXCEPT !.list = left, !.count = @ - (pbufs(list) - pbufs(left))], <<>>)

Arrives == \E id \in Ids, f \in Wire : ~broken /\ ip_reass(id, f)
Next == Arrives \/ (~broken /\ ip_reass_tmr)
Spec == Init /\ [][Next]_vars
\* The timer of tcpip_thread keeps running
ReassTimer == ~broken /\ ip_reass_tmr
Live == Spec /\ WF_vars(ReassTimer)

(***************************************************************************)
(* Properties.                                                             *)
(***************************************************************************)
\* A datagram handed up is whole: its fragments cover it without gap or overlap
\* up to the length put in its header (ip_reass: "all fragments are received").
DeliveredWhole == \A i \in DOMAIN out : LET p == out[i].p IN
  /\ p[1].s = 0 /\ p[Len(p)].e = Size /\ out[i].len = Size
  /\ \A j \in 2..Len(p) : p[j - 1].e = p[j].s

\* ip_reass_pbufcount is the number of fragments held, after any sequence of
\* refusals, completions, removals and timeouts, and stays within its limit.
CountRight == ~broken => /\ count = FoldLeft(LAMBDA n, d : n + Len(d.p), 0, list)
                         /\ count <= MaxPbufs

\* Making room for a fragment never costs the datagram the fragment is part of
\* (IP_ADDRESSES_AND_ID_MATCH in ip_reass_remove_oldest_datagram): a datagram
\* loses fragments only to another datagram, to the timer or by being completed.
OwnKept == \A id \in Ids, f \in Wire : ip_reass(id, f) /\ out' = <<>> =>
                \A k \in DOMAIN list : list[k].id = id => \E j \in DOMAIN list' :
                  list'[j].id = id /\ ToSet(list[k].p) \subseteq ToSet(list'[j].p)

Incomplete(id) == Find(S, id) # {}
\* Fragments are not kept for ever: ip_reass_tmr gives up every datagram that
\* stays incomplete.
GivenUp == \A id \in Ids : Incomplete(id) ~> ~Incomplete(id)

\* Assertion of ip_reass_free_complete_datagram: "prev->next == ipr", the entry
\* removed from the list is the one after prev.
ListIntact == ~broken
=============================================================================
