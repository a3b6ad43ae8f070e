---------------------------- MODULE SysTimeouts -----------------------------
(***************************************************************************)
(* lwIP's timeouts (timers.c): the list of sys_timeout entries, each with  *)
(* the time after the one before it, the cyclic timers of the stack, the   *)
(* TCP timer that runs only while there are connections, and               *)
(* sys_timeouts_mbox_fetch, in which tcpip_thread waits for messages and   *)
(* runs the handlers.                                                      *)
(***************************************************************************)
EXTENDS Integers, Sequences, SequencesExt, FiniteSets

CONSTANTS
  TCP, REASS, ARP,   \* TCP_TMR_INTERVAL, IP_TMR_INTERVAL, ARP_TMR_INTERVAL, in ticks
  Msecs,             \* delays an application asks for
  Late,              \* bound: how late a message may be noticed after a deadline
  Memory             \* whether memp_malloc may fail

TimeoutsAssumption == /\ {TCP, REASS, ARP} \subseteq Nat \ {0} /\ Msecs \subseteq Nat
                             /\ Late \in Nat /\ Memory \in BOOLEAN

VARIABLES
  list,     \* next_timeout: [h, time], time relative to the entry before
  active,   \* tcpip_tcp_timer_active
  pcbs,     \* tcp_active_pcbs or tcp_tw_pcbs is not empty
  left,     \* time each pending timeout has left since it was asked for (not in the code)
  fired     \* the handler that the last step ran, with the time it had left (not in the code)

vars == <<list, active, pcbs, left, fired>>

Handlers == {"tcp", "reass", "arp", "user"}
Cyclic == {"reass", "arp"}
Interval(h) == CASE h = "tcp" -> TCP [] h = "reass" -> REASS [] h = "arp" -> ARP

\* Operations take and yield the list
InsertShort(l, h, msecs) ==
  LET d == IF l # <<>> /\ l[1].time <= msecs THEN msecs - l[1].time ELSE msecs
  IN  <<[h |-> h, time |-> d]>> \o l

\* Behind the entries due no later; the entry after it counts from the new one
sys_timeout(l, h, msecs) ==
  LET sum(k) == FoldLeft(LAMBDA n, t : n + t.time, 0, SubSeq(l, 1, k))
      k == Cardinality({j \in DOMAIN l : sum(j) <= msecs})
      d == msecs - sum(k)
      rest == SubSeq(l, k + 1, Len(l))
  IN  SubSeq(l, 1, k) \o <<[h |-> h, time |-> d]>>
        \o (IF rest = <<>> THEN <<>> ELSE [rest EXCEPT ![1].time = @ - d])

UntimeoutKeepsNext(l, h) ==
  LET K == {k \in DOMAIN l : l[k].h = h} IN
  IF K = {} THEN l ELSE RemoveAt(l, CHOOSE i \in K : \A j \in K : i <= j)

\* The first entry of that handler goes and its time is given to the next
sys_untimeout(l, h) ==
  LET K == {k \in DOMAIN l : l[k].h = h}
      k == CHOOSE i \in K : \A j \in K : i <= j
  IN  IF K = {} THEN l
      ELSE RemoveAt(IF k = Len(l) THEN l ELSE [l EXCEPT ![k + 1].time = @ + l[k].time], k)

(***************************************************************************)
(* The state s = [list, active, left] that the handlers work on; ok: there *)
(* was memory for a new entry.                                             *)
(***************************************************************************)
None == -1     \* not pending
S == [list |-> list, active |-> active, left |-> left]
Apply(s) == list' = s.list /\ active' = s.active /\ left' = s.left
Ok == IF Memory THEN BOOLEAN ELSE {TRUE}

Asked(s, h, msecs, ok) == IF ~ok THEN s
  ELSE [s EXCEPT !.list = sys_timeout(@, h, msecs), !.left[h] = msecs]

sys_timeouts_init ==
  LET s == [list |-> <<>>, active |-> FALSE, left |-> [h \in Handlers |-> None]]
  IN  Asked(Asked(s, "reass", REASS, TRUE), "arp", ARP, TRUE)
Init == /\ list = sys_timeouts_init.list /\ active = FALSE /\ left = sys_timeouts_init.left
        /\ pcbs = FALSE /\ fired = <<>>

TypeOK == /\ \A k \in DOMAIN list : list[k].h \in Handlers /\ list[k].time \in Nat
          /\ {active, pcbs} \subseteq BOOLEAN

TimerForgetsActive(s, ok) == IF pcbs THEN Asked(s, "tcp", TCP, ok) ELSE s
tcpip_tcp_timer(s, ok) == IF pcbs THEN Asked(s, "tcp", TCP, ok) ELSE [s EXCEPT !.active = FALSE]

NeededAlways(s, ok) == Asked([s EXCEPT !.active = TRUE], "tcp", TCP, ok)
tcp_timer_needed(s, ok) ==
  IF s.active THEN s ELSE Asked([s EXCEPT !.active = TRUE], "tcp", TCP, ok)

Handler(s, h, ok) ==
  CASE h = "tcp" -> tcpip_tcp_timer(s, ok)
    [] h \in Cyclic -> Asked(s, h, Interval(h), ok)   \* ip_reass_timer, arp_timer
    [] h = "user" -> s

\* w ticks have passed since the last look
Passed(w) == [h \in Handlers |-> IF left[h] <= 0 THEN left[h] ELSE IF left[h] < w THEN 0 ELSE left[h] - w]

(***************************************************************************)
(* Actions.                                                                *)
(***************************************************************************)
\* No message came for the time of the first entry: its handler runs
Expire == \E ok \in Ok :
  LET h == list[1].h IN
  /\ list # <<>>
  /\ fired' = <<h, Passed(list[1].time)[h]>> /\ UNCHANGED pcbs
  /\ Apply(Handler([S EXCEPT !.list = Tail(@), !.left = [Passed(list[1].time) EXCEPT ![h] = None]], h, ok))

\* What a message makes tcpip_thread do
Connect(s, ok) == pcbs' = TRUE /\ Apply(tcp_timer_needed(s, ok))
Disconnect(s) == pcbs /\ pcbs' = FALSE /\ Apply(s)
UserTimeout(s, ok) == \E m \in Msecs :
  s.left["user"] = None /\ Apply(Asked(s, "user", m, ok)) /\ UNCHANGED pcbs
UserUntimeout(s) == UNCHANGED pcbs /\
  Apply([s EXCEPT !.list = sys_untimeout(@, "user"), !.left["user"] = None])

FetchOverrun(l, w) == IF l = <<>> THEN l ELSE [l EXCEPT ![1].time = @ - w]
\* The wait is taken off the first entry
TimeNeeded(l, w) == IF l = <<>> THEN l ELSE [l EXCEPT ![1].time = IF w < @ THEN @ - w ELSE 0]

\* A message came after w ticks, perhaps a little after the first deadline
Fetch == \E w \in 0..(ARP + Late), ok \in Ok :
  LET s == [S EXCEPT !.list = TimeNeeded(@, w), !.left = Passed(w)] IN
  /\ list # <<>> => w <= list[1].time + Late
  /\ fired' = <<>>
  /\ Connect(s, ok) \/ Disconnect(s) \/ UserTimeout(s, ok) \/ UserUntimeout(s)

Next == Expire \/ Fetch
Spec == Init /\ [][Next]_vars
\* The mailbox is empty again and again for as long as the first entry needs
Live == Spec /\ SF_vars(Expire)

(***************************************************************************)
(* Properties.                                                             *)
(***************************************************************************)
\* No handler runs before the time it asked for, whatever was inserted before
\* it or taken away in between (sys_timeout, sys_untimeout).
NeverEarly == fired # <<>> => fired[2] = 0

\* Nor later: what the list makes an entry wait is the time it has left.
NotLate == \A k \in DOMAIN list :
  FoldLeft(LAMBDA n, t : n + t.time, 0, SubSeq(list, 1, k)) = left[list[k].h]

\* Each handler is in the list at most once, the cyclic ones always: a
\* connection opened and closed at any time starts no second TCP timer.
OneEach == /\ \A j, k \in DOMAIN list : list[j].h = list[k].h => j = k
           /\ ~Memory => \A h \in Cyclic : \E k \in DOMAIN list : list[k].h = h

\* Doc of tcp_timer_needed: "to have the TCP timer only running when there are
\* active (or time-wait) PCBs", and then it does run.
TimerRuns == pcbs => \E k \in DOMAIN list : list[k].h = "tcp"

Connected == pcbs
Fires(h) == fired # <<>> /\ fired[1] = h
\* While a connection lives its timer fires again and again, and the cyclic
\* timers do, although messages keep putting entries in the list.
KeepsFiring == /\ \A h \in Cyclic : []<>Fires(h)
               /\ Connected ~> (~Connected \/ Fires("tcp"))
=============================================================================
