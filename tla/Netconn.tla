------------------------------ MODULE Netconn ------------------------------
(***************************************************************************)
(* The netconn layer between tcp_thread (rtu_com_hmi.c) and tcpip_thread:  *)
(* api_lib.c (the calls), api_msg.c (the functions tcpip_thread runs for   *)
(* them and the callbacks of the TCP control blocks), tcpip.c (the thread  *)
(* and its mailbox) and sys_arch_freertos.c (mailboxes, semaphores).       *)
(*                                                                         *)
(* tcp_thread makes one call at a time: it posts an API message and waits  *)
(* for op_completed of the connection.  tcpip_thread handles API messages, *)
(* packets and timers one after the other.  A frame is its number in its   *)
(* connection, 0 is the NULL entry of a mailbox.  Lengths are counted in   *)
(* units: a frame and a FIN are one unit of the receive window, a reply is *)
(* Reply units of the send buffer.                                         *)
(***************************************************************************)
EXTENDS Integers, Sequences, FiniteSets, FiniteSetsExt

CONSTANTS
  Conn,       \* MEMP_NETCONN elements left for accepted connections
  Pcb,        \* MEMP_TCP_PCB elements
  MboxSize,   \* TCPIP_MBOX_SIZE
  RecvSize,   \* DEFAULT_TCP_RECVMBOX_SIZE
  AcceptSize, \* DEFAULT_ACCEPTMBOX_SIZE
  SndBuf,     \* TCP_SND_BUF
  Reply,      \* units of a reply
  Frames,     \* bound: frames an HMI sends on a connection
  Syns        \* bound: connections made

NetconnAssumption ==
  /\ {MboxSize, RecvSize, AcceptSize, SndBuf, Reply, Frames, Syns} \subseteq Nat \ {0}
  /\ Conn \cup Pcb \subseteq Nat \ {0}

VARIABLES
  mbox,   \* the mailbox of tcpip_thread
  app,    \* tcp_thread: where it is, in which call, on which connection
  conn,   \* the struct netconn of each element of the pool
  pcb,    \* the struct tcp_pcb of each element of the pool
  abox,   \* acceptmbox of the listening connection
  pbufs,  \* pbufs allocated and not freed (a count, not in the code)
  syns    \* connections made so far (bounds the runs)

vars == <<mbox, app, conn, pcb, abox, pbufs, syns>>

Fatal == {"ABRT", "RST", "CLSD"}     \* ERR_IS_FATAL
None  == -1

FreeConn == [alloc |-> FALSE, state |-> "NONE", err |-> "OK", box |-> <<>>, valid |-> FALSE,
             pcb |-> 0, cur |-> FALSE, sem |-> 0, off |-> 0]
FreePcb  == [up |-> FALSE, arg |-> 0, recv |-> FALSE, rxc |-> FALSE, refused |-> None,
             rfin |-> FALSE, out |-> 0, una |-> 0, nxt |-> 0, fin |-> FALSE, gone |-> FALSE]
Idle     == [pc |-> "acheck", op |-> "accept", c |-> 0, frame |-> 0, res |-> "OK", held |-> 0]

TypeOK ==
  /\ Len(mbox) <= MboxSize /\ Len(abox) <= AcceptSize
  /\ app.pc \in {"acheck", "afetch", "rcheck", "rfetch", "post", "wait"}
  /\ app.op \in {"accept", "recv", "recvnull", "write", "close", "delete"}
  /\ \A c \in Conn : /\ conn[c].state \in {"NONE", "WRITE", "CLOSE"}
                     /\ conn[c].pcb \in Pcb \cup {0} /\ conn[c].sem \in 0..1
                     /\ Len(conn[c].box) <= RecvSize /\ conn[c].off \in 0..Reply
  /\ \A p \in Pcb : pcb[p].una \in 0..SndBuf /\ pcb[p].nxt \in 0..Frames
                    /\ pcb[p].arg \in Conn \cup {0}

(***************************************************************************)
(* The state tcpip_thread's functions work on, as one record.              *)
(***************************************************************************)
State == [conn |-> conn, pcb |-> pcb, abox |-> abox, pbufs |-> pbufs, app |-> app]

Become(s) == /\ conn' = s.conn /\ pcb' = s.pcb /\ abox' = s.abox
             /\ pbufs' = s.pbufs /\ app' = s.app

SetSafeErr(e, err) == IF e \in Fatal THEN e ELSE err     \* NETCONN_SET_SAFE_ERR

\* sys_sem_signal(op_completed), with the err the message carries back
Signal(s, c, e) == [s EXCEPT !.conn[c].sem = 1, !.app.res = e]

\* sys_mbox_trypost: ok, and the mailbox after it
CanPost(s, c) == Len(s.conn[c].box) < RecvSize
TryPost(s, c, m) == IF CanPost(s, c) THEN [s EXCEPT !.conn[c].box = Append(@, m)] ELSE s

(***************************************************************************)
(* tcp.c, as far as the netconn layer uses it.                             *)
(***************************************************************************)
Recved(s, p, n) == [s EXCEPT !.pcb[p].out = IF @ > n THEN @ - n ELSE 0]

\* tcp_pcb_purge and memp_free
RemovePcb(s, p) ==
  [s EXCEPT !.pcb[p] = FreePcb, !.pbufs = @ - (IF s.pcb[p].refused # None THEN 1 ELSE 0)]

\* tcp_close: a reset when data was not read, otherwise a FIN, which needs
\* memory (ERR_MEM) and is sent at once or by a later try
CloseCanFail(s, p) == s.pcb[p].refused = None /\ s.pcb[p].out = 0
tcp_close(s, p) ==
  IF CloseCanFail(s, p) THEN [s EXCEPT !.pcb[p].rxc = TRUE] ELSE RemovePcb(s, p)

(***************************************************************************)
(* api_msg.c                                                               *)
(***************************************************************************)
\* The callbacks of a control block are for conn c (0: none)
setup_tcp(s, p, c) == [s EXCEPT !.pcb[p].arg = c, !.pcb[p].recv = TRUE]

ErrAlwaysSignals(s, c, e) ==
  TryPost(Signal([s EXCEPT !.conn[c].pcb = 0, !.conn[c].err = e, !.conn[c].state = "NONE",
                           !.conn[c].cur = FALSE, !.conn[c].off = 0], c, e), c, 0)
ErrForgetsReader(s, c, e) ==
  LET t == [s EXCEPT !.conn[c].pcb = 0, !.conn[c].err = e, !.conn[c].state = "NONE"]
  IN  IF s.conn[c].state = "NONE" THEN t ELSE Signal([t EXCEPT !.conn[c].cur = FALSE], c, e)
ErrIgnoresClose(s, c, e) ==
  LET t == [s EXCEPT !.conn[c].pcb = 0, !.conn[c].err = e, !.conn[c].state = "NONE"]
  IN  IF s.conn[c].state # "WRITE" THEN TryPost(t, c, 0)
                                   ELSE Signal([t EXCEPT !.conn[c].cur = FALSE], c, e)

err_tcp(s, c, e) ==
  LET t == [s EXCEPT !.conn[c].pcb = 0, !.conn[c].err = e, !.conn[c].state = "NONE"]
      u == IF t.conn[c].valid THEN TryPost(t, c, 0) ELSE t
  IN  IF s.conn[c].state = "NONE" THEN u ELSE Signal([u EXCEPT !.conn[c].cur = FALSE], c, e)

\* TCP_EVENT_ERR after the control block was removed
Aborted(s, p, e) ==
  LET c == s.pcb[p].arg  t == RemovePcb(s, p) IN IF c = 0 THEN t ELSE err_tcp(t, c, e)

RecvDropsWhenFull(s, p, m) ==
  LET c == s.pcb[p].arg IN
  IF CanPost(s, c) THEN [st |-> TryPost(s, c, m), ok |-> TRUE]
                   ELSE [st |-> [Recved(s, p, 1) EXCEPT !.pbufs = @ - 1], ok |-> TRUE]

\* The answer is not ok (ERR_MEM) when the mailbox is full
recv_tcp(s, p, m) ==
  LET c == s.pcb[p].arg IN
  IF ~s.conn[c].valid
  THEN [st |-> IF m = 0 THEN s ELSE [Recved(s, p, 1) EXCEPT !.pbufs = @ - 1], ok |-> TRUE]
  ELSE [st |-> TryPost(s, c, m), ok |-> CanPost(s, c)]

\* TCP_EVENT_CLOSED: nobody looks at the answer
Closed(s, p) == IF s.pcb[p].recv THEN recv_tcp(Recved(s, p, 1), p, 0).st ELSE s

\* Without a recv callback (a close that is being tried again) the data is freed
tcp_recv_null(s, p) == [Recved(s, p, 1) EXCEPT !.pbufs = @ - 1]

tcp_process_refused_data(s, p) ==
  LET r == recv_tcp(s, p, s.pcb[p].refused)
      t == [(IF s.pcb[p].recv THEN r.st ELSE tcp_recv_null(s, p))
              EXCEPT !.pcb[p].refused = None, !.pcb[p].rfin = FALSE]
  IN  CASE s.pcb[p].refused = None -> s
        [] s.pcb[p].recv /\ ~r.ok -> s
        [] OTHER -> IF s.pcb[p].rfin THEN Closed(t, p) ELSE t

WriteIgnoresSpace(s, c) ==
  Signal([s EXCEPT !.pcb[s.conn[c].pcb].una = @ + Reply, !.conn[c].off = 0, !.conn[c].cur = FALSE,
                   !.conn[c].state = "NONE"], c, "OK")

\* Replies go to the send buffer as far as it has room; the call ends when all did
do_writemore(s, c) ==
  LET p == s.conn[c].pcb
      room == SndBuf - s.pcb[p].una
      n == IF room < Reply - s.conn[c].off THEN room ELSE Reply - s.conn[c].off
      t == [s EXCEPT !.pcb[p].una = @ + n, !.conn[c].off = @ + n]
  IN  IF t.conn[c].off < Reply THEN t
      ELSE Signal([t EXCEPT !.conn[c].off = 0, !.conn[c].cur = FALSE, !.conn[c].state = "NONE"],
                  c, "OK")

CloseKeepsCallbacks(s, c, ok) ==
  LET p == s.conn[c].pcb IN
  Signal([tcp_close(s, p) EXCEPT !.conn[c].cur = FALSE, !.conn[c].state = "NONE",
            !.conn[c].pcb = 0], c, "OK")
CloseForgetsCallbacks(s, c, ok) ==
  LET p == s.conn[c].pcb
      off == [s EXCEPT !.pcb[p].arg = 0, !.pcb[p].recv = FALSE]
  IN  IF ok \/ ~CloseCanFail(s, p)
      THEN Signal([tcp_close(off, p) EXCEPT !.conn[c].cur = FALSE, !.conn[c].state = "NONE",
                     !.conn[c].pcb = 0], c, "OK")
      ELSE tcp_close(off, p)

\* The callbacks are taken off, and put back (recv excepted) when tcp_close fails
do_close_internal(s, c, ok) ==
  LET p == s.conn[c].pcb
      off == [s EXCEPT !.pcb[p].arg = 0, !.pcb[p].recv = FALSE]
  IN  IF ok \/ ~CloseCanFail(s, p)
      THEN Signal([tcp_close(off, p) EXCEPT !.conn[c].cur = FALSE, !.conn[c].state = "NONE",
                     !.conn[c].pcb = 0], c, "OK")
      ELSE [tcp_close(off, p) EXCEPT !.pcb[p].arg = c]

DrainNothing(s, c) == [s EXCEPT !.conn[c].box = <<>>, !.conn[c].valid = FALSE]

netconn_drain(s, c) ==
  LET k == Cardinality({i \in DOMAIN s.conn[c].box : s.conn[c].box[i] # 0})
      t == [s EXCEPT !.conn[c].box = <<>>, !.conn[c].valid = FALSE, !.pbufs = @ - k]
  IN  IF s.conn[c].pcb # 0 THEN Recved(t, s.conn[c].pcb, k) ELSE t

do_write(s, c) ==
  CASE s.conn[c].err \in Fatal   -> Signal(s, c, s.conn[c].err)
    [] s.conn[c].state # "NONE"  -> Signal(s, c, "INPROGRESS")
    [] s.conn[c].pcb # 0         -> do_writemore([s EXCEPT !.conn[c].state = "WRITE",
                                                  !.conn[c].cur = TRUE, !.conn[c].off = 0], c)
    [] OTHER                     -> Signal(s, c, "CONN")

RecvKeepsWindow(s, c) == Signal(s, c, "OK")

do_recv(s, c) ==
  Signal(IF s.conn[c].pcb # 0 THEN Recved(s, s.conn[c].pcb, 1) ELSE s, c, "OK")

do_close(s, c, ok) ==
  CASE s.conn[c].state # "NONE" -> Signal(s, c, "INPROGRESS")
    [] s.conn[c].pcb # 0 -> do_close_internal([netconn_drain(s, c) EXCEPT
                                !.conn[c].state = "CLOSE", !.conn[c].cur = TRUE], c, ok)
    [] OTHER -> Signal(s, c, "VAL")

do_delconn(s, c, ok) ==
  CASE s.conn[c].state # "NONE" -> Signal(s, c, "INPROGRESS")
    [] s.conn[c].pcb # 0 -> do_close_internal([netconn_drain(s, c) EXCEPT
                                !.conn[c].state = "CLOSE", !.conn[c].cur = TRUE], c, ok)
    [] OTHER -> Signal(netconn_drain(s, c), c, "OK")

\* poll_tcp and sent_tcp: go on with what the connection is waiting for
poll_tcp(s, p, ok) ==
  LET c == s.pcb[p].arg IN
  CASE c # 0 /\ s.conn[c].state = "WRITE" -> do_writemore(s, c)
    [] c # 0 /\ s.conn[c].state = "CLOSE" -> do_close_internal(s, c, ok)
    [] OTHER -> s
sent_tcp(s, p, ok) == poll_tcp(s, p, ok)

\* netconn_alloc: an element of the pool, or none
netconn_alloc(s) == {c \in Conn : ~s.conn[c].alloc}

\* A new control block p is offered to the listening connection; without a
\* connection or a place in acceptmbox tcp_process aborts it
accept_function(s, p) ==
  IF netconn_alloc(s) = {} \/ Len(s.abox) = AcceptSize
  THEN RemovePcb(s, p)
  ELSE LET c == CHOOSE x \in netconn_alloc(s) : TRUE IN
       setup_tcp([s EXCEPT !.conn[c] = [FreeConn EXCEPT !.alloc = TRUE, !.valid = TRUE, !.pcb = p],
                           !.abox = Append(@, c)], p, c)

(***************************************************************************)
(* What tcp_input does with a packet for control block p (tcp_in.c).       *)
(***************************************************************************)
Receive(s, p) ==
  LET t == [s EXCEPT !.pcb[p].nxt = @ + 1, !.pcb[p].out = @ + 1, !.pbufs = @ + 1]
      r == recv_tcp(t, p, t.pcb[p].nxt)
  IN  CASE s.pcb[p].rxc  -> Aborted([t EXCEPT !.pbufs = @ - 1], p, "ABRT")
        [] ~s.pcb[p].recv -> tcp_recv_null(t, p)
        [] r.ok          -> r.st
        [] OTHER         -> [t EXCEPT !.pcb[p].refused = t.pcb[p].nxt]

GotFin(s, p) ==
  LET t == [s EXCEPT !.pcb[p].fin = TRUE, !.pcb[p].out = @ + 1] IN
  IF t.pcb[p].refused # None THEN [t EXCEPT !.pcb[p].rfin = TRUE] ELSE Closed(t, p)

\* seg(n): in sequence or a repetition; a segment is dropped while data is refused
tcp_input(s, m, ok) ==
  LET p == m[2]  t == tcp_process_refused_data(s, p) IN
  CASE ~s.pcb[p].up    -> s
    [] m[1] = "rst"    -> Aborted(t, p, "RST")
    [] m[1] = "ack"    -> sent_tcp([t EXCEPT !.pcb[p].una = 0], p, ok)
    [] t.pcb[p].refused # None -> t
    [] m[1] = "seg"    -> IF m[3] = t.pcb[p].nxt + 1 /\ ~t.pcb[p].fin THEN Receive(t, p) ELSE t
    [] m[1] = "fin"    -> IF m[3] = t.pcb[p].nxt /\ ~t.pcb[p].fin THEN GotFin(t, p) ELSE t

(***************************************************************************)
(* tcp_thread.                                                             *)
(***************************************************************************)
Call(op) == [app EXCEPT !.pc = "post", !.op = op]
SessionOver == Call("close")        \* leaves the while loop: netconn_close, netconn_delete

\* netconn_accept
AcceptCheck == /\ app.pc = "acheck" /\ app' = [app EXCEPT !.pc = "afetch"]
               /\ UNCHANGED <<mbox, conn, pcb, abox, pbufs, syns>>
AcceptFetch == /\ app.pc = "afetch" /\ abox # <<>>
               /\ app' = [Idle EXCEPT !.pc = "rcheck", !.c = Head(abox)] /\ abox' = Tail(abox)
               /\ UNCHANGED <<mbox, conn, pcb, pbufs, syns>>

\* netconn_recv_data: last_err first, then the mailbox, with a timeout
RecvCheck == /\ app.pc = "rcheck"
             /\ app' = IF conn[app.c].err \in Fatal THEN SessionOver ELSE [app EXCEPT !.pc = "rfetch"]
             /\ UNCHANGED <<mbox, conn, pcb, abox, pbufs, syns>>
RecvFetch == /\ app.pc = "rfetch" /\ conn[app.c].box # <<>>
             /\ LET m == Head(conn[app.c].box) IN
                app' = IF m = 0 THEN Call("recvnull")
                       ELSE [Call("recv") EXCEPT !.frame = m, !.held = 1]
             /\ conn' = [conn EXCEPT ![app.c].box = Tail(@)]
             /\ UNCHANGED <<mbox, pcb, abox, pbufs, syns>>
RecvForever == /\ app.pc = "rfetch" /\ conn[app.c].box # <<>> /\ UNCHANGED vars
RecvTimeout == /\ app.pc = "rfetch" /\ conn[app.c].box = <<>>
               /\ conn' = [conn EXCEPT ![app.c].err = SetSafeErr(@, "TIMEOUT")]
               /\ app' = SessionOver
               /\ UNCHANGED <<mbox, pcb, abox, pbufs, syns>>

\* tcpip_apimsg: post (blocking), then wait for op_completed
Post == /\ app.pc = "post" /\ Len(mbox) < MboxSize
        /\ mbox' = Append(mbox, <<"api", app.c>>) /\ app' = [app EXCEPT !.pc = "wait"]
        /\ UNCHANGED <<conn, pcb, abox, pbufs, syns>>

netconn_free(s, c) == [s EXCEPT ![c] = FreeConn]

\* The wait is over; bad: the frame is not a valid command, the session ends
Woken(bad) ==
  /\ app.pc = "wait" /\ conn[app.c].sem = 1
  /\ LET c == app.c  t == [conn EXCEPT ![c].sem = 0] IN
     /\ CASE app.op = "recv"     -> app' = IF bad THEN [SessionOver EXCEPT !.held = 0] ELSE Call("write")
          [] app.op = "recvnull" -> app' = SessionOver
          [] app.op = "write"    -> app' = IF app.res = "OK" /\ ~bad THEN [app EXCEPT !.pc = "rcheck", !.held = 0]
                                           ELSE [SessionOver EXCEPT !.held = 0]
          [] app.op = "close"    -> app' = Call("delete")
          [] app.op = "delete"   -> app' = Idle
     /\ conn' = CASE app.op = "recvnull" -> [t EXCEPT ![c].err = SetSafeErr(@, "CLSD")]
                  [] app.op = "delete"   -> netconn_free(t, c)
                  [] OTHER -> t
     /\ pbufs' = pbufs - (app.held - app'.held)                             \* netbuf_delete
     /\ UNCHANGED <<mbox, pcb, abox, syns>>

(***************************************************************************)
(* tcpip_thread: the next message of its mailbox, or a timer.              *)
(***************************************************************************)
ApiFunction(s, c, ok) ==
  CASE app.op \in {"recv", "recvnull"} -> do_recv(s, c)
    [] app.op = "write"  -> do_write(s, c)
    [] app.op = "close"  -> do_close(s, c, ok)
    [] app.op = "delete" -> do_delconn(s, c, ok)

tcpip_thread(ok) ==
  /\ mbox # <<>> /\ mbox' = Tail(mbox)
  /\ LET m == Head(mbox) IN
     IF m[1] = "api" THEN Become(ApiFunction(State, m[2], ok)) ELSE Become(tcp_input(State, m, ok))
  /\ UNCHANGED syns

\* tcp_listen_input and the ACK that completes the handshake
Connect == /\ syns < Syns /\ syns' = syns + 1
           /\ \E p \in Pcb : /\ ~pcb[p].up /\ \A q \in Pcb : pcb[q].up \/ p <= q
                            /\ Become(accept_function([State EXCEPT !.pcb[p].up = TRUE], p))
           /\ UNCHANGED mbox

\* tcp_slowtmr polls a connection every two seconds
Poll(p, ok) == /\ pcb[p].up /\ pcb[p].arg # 0 /\ conn[pcb[p].arg].state # "NONE"
               /\ Become(poll_tcp(State, p, ok)) /\ UNCHANGED <<mbox, syns>>

\* tcp_fasttmr offers refused data again
FastTimer(p) == /\ pcb[p].up /\ pcb[p].refused # None /\ pcb[p].arg # 0
                /\ Become(tcp_process_refused_data(State, p)) /\ UNCHANGED <<mbox, syns>>

\* tcp_slowtmr gives a connection up whose data (or FIN) is not acknowledged
GiveUp(p) == /\ pcb[p].up /\ pcb[p].gone /\ (pcb[p].una > 0 \/ pcb[p].rxc)
             /\ Become(Aborted(State, p, "ABRT")) /\ UNCHANGED <<mbox, syns>>

(***************************************************************************)
(* The HMI (external).  tcpip_input drops a packet when the mailbox is     *)
(* full, which is the same as the packet not being sent.                   *)
(***************************************************************************)
tcpip_input(m) == /\ Len(mbox) < MboxSize /\ mbox' = Append(mbox, m)
                  /\ UNCHANGED <<app, conn, pcb, abox, pbufs, syns>>

HmiSends(p) ==
  /\ pcb[p].up /\ ~pcb[p].gone
  /\ \/ \E n \in 1..Frames : n <= pcb[p].nxt + 2 /\ n >= pcb[p].nxt /\ tcpip_input(<<"seg", p, n>>)
     \/ tcpip_input(<<"fin", p, pcb[p].nxt>>)
     \/ tcpip_input(<<"rst", p>>)
     \/ pcb[p].una > 0 /\ tcpip_input(<<"ack", p>>)
HmiGone(p) == /\ pcb[p].up /\ ~pcb[p].gone /\ pcb' = [pcb EXCEPT ![p].gone = TRUE]
              /\ UNCHANGED <<mbox, app, conn, abox, pbufs, syns>>
\* The FIN of a closed connection is acknowledged, or the control block times out
Leave(p) == /\ pcb[p].up /\ pcb[p].rxc /\ pcb[p].arg = 0 /\ \A i \in DOMAIN mbox : mbox[i][2] # p
            /\ Become(RemovePcb(State, p)) /\ UNCHANGED <<mbox, syns>>

Init == /\ mbox = <<>> /\ app = Idle /\ abox = <<>> /\ pbufs = 0 /\ syns = 0
        /\ conn = [c \in Conn |-> FreeConn] /\ pcb = [p \in Pcb |-> FreePcb]

Server == \/ AcceptCheck \/ AcceptFetch \/ RecvCheck \/ RecvFetch \/ Post
          \/ \E bad \in BOOLEAN : Woken(bad)
Next == \/ Server \/ RecvTimeout \/ Connect
        \/ \E ok \in BOOLEAN : tcpip_thread(ok)
        \/ \E p \in Pcb : \/ FastTimer(p) \/ GiveUp(p) \/ HmiSends(p) \/ HmiGone(p) \/ Leave(p)
                          \/ \E ok \in BOOLEAN : Poll(p, ok)

\* The threads run, timers expire, and tcp_close finds memory in the end
Fairness == /\ WF_vars(Server) /\ WF_vars(RecvTimeout) /\ WF_vars(tcpip_thread(TRUE))
            /\ \A p \in Pcb : WF_vars(Poll(p, TRUE)) /\ WF_vars(FastTimer(p)) /\ WF_vars(GiveUp(p))
Spec == Init /\ [][Next]_vars /\ Fairness
Safe == Init /\ [][Next]_vars

(***************************************************************************)
(* Properties.                                                             *)
(***************************************************************************)
\* op_completed is given only to a call that waits for it: a signal left over
\* would let the next call return before tcpip_thread has run it (api_msg.c
\* signals from the function itself, from poll, sent and err callbacks).
NoStraySignal == \A c \in Conn : conn[c].sem = 1 => app.pc = "wait" /\ app.c = c

\* A call that waits is always going to be answered: its message is queued, it
\* was signalled, or the connection is writing or closing with a control block
\* whose callbacks still lead to it.
NotOrphaned ==
  app.pc = "wait" =>
    \/ \E i \in DOMAIN mbox : mbox[i][1] = "api"
    \/ conn[app.c].sem = 1
    \/ LET p == conn[app.c].pcb IN
       conn[app.c].cur /\ p # 0 /\ pcb[p].up /\ pcb[p].arg = app.c

\* A control block never calls back into a netconn that was freed, or that
\* belongs to another control block by now.
CallbackValid == \A p \in Pcb : pcb[p].up /\ pcb[p].arg # 0 =>
                   conn[pcb[p].arg].alloc /\ conn[pcb[p].arg].pcb = p

\* A reader blocked on an empty mailbox has not missed the end of its
\* connection: err_tcp leaves an entry, or the mailbox was not empty.
ErrorWakes == app.pc = "rfetch" /\ conn[app.c].err \in Fatal => conn[app.c].box # <<>>

\* Every pbuf is in a mailbox, refused, or in the hands of tcp_thread: none is
\* lost when a connection is reset, times out or is closed with frames queued.
Held(c) == Cardinality({i \in DOMAIN conn[c].box : conn[c].box[i] # 0})
PbufsAccounted ==
  pbufs = app.held + MapThenSumSet(Held, {c \in Conn : conn[c].alloc})
          + Cardinality({p \in Pcb : pcb[p].refused # None})

\* Frames reach tcp_thread once and in order, whatever the mailbox refused and
\* the HMI repeated.
FramesInOrder == app'.frame \in {app.frame, app.frame + 1, 0}

\* The window is given back for everything tcp_thread has taken: what is missing
\* is queued, refused, or the frame or FIN whose do_recv is on its way.  A
\* connection closed after all was read must not be reset for an unread window.
WindowReturned ==
  \A c \in Conn : conn[c].alloc /\ conn[c].pcb # 0 /\ conn[c].valid =>
    LET p == conn[c].pcb IN
    pcb[p].out <= Held(c) + (IF pcb[p].refused # None THEN 1 ELSE 0)
                  + (IF pcb[p].rfin THEN 1 ELSE 0)
                  + (IF app.c = c /\ app.op \in {"recv", "recvnull"} /\ app.pc \in {"post", "wait"}
                     THEN 1 ELSE 0)

\* Comment of recv_tcp: what a full mailbox refuses "is presented to us later
\* again".  A FIN that was announced is seen by the reader.
FinSeen ==
  app.pc = "rfetch" /\ conn[app.c].box = <<>> /\ conn[app.c].pcb # 0
    => ~pcb[conn[app.c].pcb].fin \/ pcb[conn[app.c].pcb].refused # None

HmiLeft(p) == pcb[p].gone
Serves(c, p) == app.c = c /\ conn[c].pcb = p
\* When the HMI is gone the session ends, wherever tcp_thread was: reading
\* (receive timeout), writing (retransmissions end) or closing.
SessionEnds == \A c \in Conn, p \in Pcb : (Serves(c, p) /\ HmiLeft(p)) ~> ~Serves(c, p)
=============================================================================
