--------------------------- MODULE RtuSessionProofs ---------------------------
(***************************************************************************)
(* Proofs about RtuSession, for every set of frames, every bound and every *)
(* size of the heap: exhausted memory included.  At the end, proofs about  *)
(* RtuSession composed with a disciplined HMI (DisciplinedHMI).            *)
(***************************************************************************)
EXTENDS DisciplinedHMI, SequenceTheorems, TLAPS

\* The queue the handle of axis a names has a task, blocked on it or about to be.
Live(a) == handle[a] # 0 /\ (waiting[a][handle[a]] > 0 \/ ready[a] > 0)

\* Axis a has yet to be initialised for the session that was accepted.
NotYet(a) == \/ pc = "arm_init"
             \/ pc = "pole_init" /\ a # "arm"
             \/ pc = "lift_init" /\ a = "lift"

\* The messages in transit can only be stops: the session is over, or control
\* is being disabled.
Stopping == pc = "stop" \/ (pc = "trigger" /\ CtrlEnBit \notin actual)

Enabled == CtrlEnBit \in prev \/ (pc = "trigger" /\ CtrlEnBit \in actual)

\* Handles name queues of accepted sessions; a queue not created yet is empty.
HandleInv ==
    \A a \in Axes :
        /\ handle[a] <= session
        /\ pc \in {"arm_init", "pole_init", "lift_init"} => session > 0
        /\ NotYet(a) => handle[a] # session
        /\ \A s \in Sessions :
              s > session \/ (s = session /\ NotYet(a)) =>
                  queue[a][s] = <<>> /\ waiting[a][s] = 0

\* A task left behind on the queue of an earlier session will never run again.
OldQueueInv ==
    \A a \in Axes, s \in Sessions :
        waiting[a][s] > 0 /\ s # handle[a] => queue[a][s] = <<>>

\* A queue that is served holds one message at most, and only while one of the
\* two senders is sending.
LiveQueueInv ==
    \A a \in Axes :
        Live(a) => \/ queue[a][handle[a]] = <<>>
                   \/ /\ Len(queue[a][handle[a]]) = 1
                      /\ pc \in {"trigger", "stop"}
                      /\ Stopping => Head(queue[a][handle[a]]) = "STOP"
                      /\ Enabled \/ pc = "stop"

\* Pending messages are stops when they have to be.
OutboxInv ==
    /\ Stopping => \A a \in Axes : outbox[a] \in {"STOP", None}
    /\ pc = "trigger" /\ ~Enabled => outbox = NoMsgs

\* An axis that moves has a task to stop it, an HMI and control enabled; while
\* stops are being sent, either its own is still to be sent or it is in the queue.
MovingInv ==
    \A a \in Axes : exec[a] # "STOP" =>
        /\ InLoop
        /\ Live(a)
        /\ Enabled
        /\ Stopping /\ outbox[a] = None => queue[a][handle[a]] # <<>>

Inv == /\ TypeOK
       /\ HandleInv
       /\ OldQueueInv
       /\ LiveQueueInv
       /\ OutboxInv
       /\ MovingInv
-----------------------------------------------------------------------------
(* What the operators of TaskTrigger return, whatever the command.         *)

\* TaskTriggerMsg builds a byte of three flags.
LEMMA FlagByteType == ASSUME NEW cmd PROVE ActualFlagByte(cmd) \in FlagByte
  BY DEF ActualFlagByte, FlagByte

\* What it has to send to an axis is nothing or a command.
LEMMA SlotType ==
    ASSUME NEW a \in Axes, NEW cmd, NEW p
    PROVE  Slot(a, cmd, p) \subseteq Commands \cup {None}
  BY DEF Slot, Types, FreeRun, Commands, MotTypes, LiftTypes

\* NetValuesReceivedFromHMI returns one of the status codes.
LEMMA StatusType == ASSUME NEW f PROVE NetValuesReceivedFromHMI(f) \in Statuses
  BY DEF NetValuesReceivedFromHMI, prvFormatoTramaRecv, Statuses

\* An accepted frame either enables or disables control.
LEMMA AcceptedCtrlEn ==
    ASSUME NEW f, NetValuesReceivedFromHMI(f) = ERR_OK
    PROVE  CmdOf(f).ctrlEn \in {"eEnable", "eDesable"}
  <1>1. DatoOK(f)
    BY DEF NetValuesReceivedFromHMI, ERROR_TRAMA_DATO, ERROR_TRAMA_CLIENTE, ERR_OK
  <1>2. f.ctrlEn \in {"CTLE", "DCTL"}
    BY <1>1 DEF DatoOK, CtrlEns
  <1> QED
    BY <1>2 DEF CmdOf, CtrlEns

\* A command that takes ctrlEn away stops all three axes, whatever its mode.
LEMMA DisableStops ==
    ASSUME NEW a \in Axes, NEW cmd, NEW p, cmd.ctrlEn = "eDesable", CtrlEnBit \in p
    PROVE  Slot(a, cmd, p) = {"STOP"}
  <1>1. CtrlEnBit \notin ActualFlagByte(cmd)
    BY DEF ActualFlagByte, CtrlEnBit
  <1>2. CtrlDisabled(cmd, p) /\ Conditioned(cmd, p)
    BY <1>1 DEF CtrlDisabled, Conditioned, EventFlagByte
  <1> QED
    BY <1>2 DEF Slot, SendTo, Types, TypeStop

\* Without ctrlEn, before and now, nothing is sent.
LEMMA DisabledSilent ==
    ASSUME NEW a \in Axes, NEW cmd, NEW p, cmd.ctrlEn = "eDesable", CtrlEnBit \notin p
    PROVE  Slot(a, cmd, p) = {None}
  BY DEF Slot, SendTo, Conditioned

-----------------------------------------------------------------------------
\* The initial state is well typed.
LEMMA TypeInit == Init => TypeOK
  <1> SUFFICES ASSUME Init PROVE TypeOK
    OBVIOUS
  <1> USE BoundsAssumption, CostAssumption DEF Init
  <1>1. /\ pc \in PCs /\ status \in Statuses /\ prev \in FlagByte /\ actual \in FlagByte
        /\ heap \in Nat /\ session \in 0 .. MaxSessions
    BY DEF PCs, Statuses, FlagByte
  <1>2. outbox \in [Axes -> Commands \cup {None}] /\ exec \in [Axes -> Commands]
    BY DEF NoMsgs, AllStop, Commands, MotTypes
  <1>3. /\ queue \in [Axes -> [Sessions -> Seq(Commands)]]
        /\ \A a \in Axes, s \in Sessions : Len(queue[a][s]) <= QueueLength
    BY DEF Sessions
  <1>4. /\ handle \in [Axes -> 0 .. MaxSessions]
        /\ waiting \in [Axes -> [Sessions -> Nat]]
        /\ ready \in [Axes -> Nat]
    OBVIOUS
  <1>5. cw \in BOOLEAN /\ ccw \in BOOLEAN /\ halted \in BOOLEAN
    OBVIOUS
  <1> QED
    BY <1>1, <1>2, <1>3, <1>4, <1>5 DEF TypeOK

\* Every step of the system keeps every variable in its type.
LEMMA TypeNext == TypeOK /\ [Next]_vars => TypeOK'
  <1> SUFFICES ASSUME TypeOK, [Next]_vars PROVE TypeOK'
    OBVIOUS
  <1> USE BoundsAssumption, CostAssumption
  <1>1. CASE Accept
    BY <1>1 DEF TypeOK, Accept, PCs, Statuses, tasks, drive, Sessions
  <1>2. ASSUME NEW a \in Axes, NEW at \in PCs, NEW then \in PCs, AxisInit(a, at, then)
        PROVE  TypeOK'
    BY <1>2 DEF TypeOK, AxisInit, QueueCreated, TaskCreated, drive
  <1>3. CASE InitAxes
    BY <1>2, <1>3 DEF InitAxes, PCs, Axes
  <1>4. ASSUME NEW f \in Frames, HandleFrame(f) PROVE TypeOK'
    <2>1. /\ pc' \in PCs
          /\ status' \in Statuses
          /\ actual' \in FlagByte /\ prev' = prev
      BY <1>4, FlagByteType, StatusType
      DEF TypeOK, HandleFrame, LeaveLoop, PCs, Statuses
    <2>2. outbox' \in [Axes -> Commands \cup {None}]
      BY <1>4, SlotType
      DEF HandleFrame, LeaveLoop, AllStop, Axes, Commands, MotTypes, LiftTypes
    <2> QED
      BY <1>4, <2>1, <2>2 DEF TypeOK, HandleFrame, tasks, drive
  <1>5. ASSUME NEW a \in Axes, Send(a) PROVE TypeOK'
    <2> DEFINE h == handle[a]
    <2>1. h \in Sessions /\ outbox[a] \in Commands
      BY <1>5 DEF TypeOK, Send, Turn, Sessions
    <2>2. queue[a][h] \in Seq(Commands) /\ Len(queue[a][h]) < QueueLength
      BY <1>5, <2>1 DEF TypeOK, Send
    <2>3. /\ Append(queue[a][h], outbox[a]) \in Seq(Commands)
          /\ Len(Append(queue[a][h], outbox[a])) <= QueueLength
      BY <2>1, <2>2
    <2>4. /\ queue' \in [Axes -> [Sessions -> Seq(Commands)]]
          /\ \A b \in Axes, s \in Sessions : Len(queue'[b][s]) <= QueueLength
      BY <1>5, <2>1, <2>3 DEF TypeOK, Send
    <2>5. outbox' \in [Axes -> Commands \cup {None}] /\ heap' \in Nat
      BY <1>5 DEF TypeOK, Send
    <2> QED
      BY <1>5, <2>4, <2>5 DEF TypeOK, Send, drive
  <1>6. ASSUME NEW a \in Axes, SendFaults(a) PROVE TypeOK'
    BY <1>6 DEF TypeOK, SendFaults, net, tasks, drive
  <1>7. CASE TriggerReturns \/ WriteOK \/ WriteFails \/ NetbufEnd \/ RecvFails \/ Close
    BY <1>7 DEF TypeOK, TriggerReturns, WriteOK, WriteFails, NetbufEnd, RecvFails,
                Close, LeaveLoop, AllStop, Commands, MotTypes, PCs, Statuses, tasks, drive
  <1>8. ASSUME NEW a \in Axes, AxisReceive(a) PROVE TypeOK'
    <2>1. CASE handle[a] = 0
      BY <1>8, <2>1 DEF TypeOK, AxisReceive, net, drive
    <2>2. CASE handle[a] # 0
      <3>1. handle[a] \in Sessions
        BY <2>2 DEF TypeOK, Sessions
      <3>2. /\ waiting' = [waiting EXCEPT ![a][handle[a]] = @ + 1]
            /\ ready' = [ready EXCEPT ![a] = @ - 1]
            /\ ready[a] > 0
        BY <1>8, <2>2 DEF AxisReceive
      <3>3. waiting' \in [Axes -> [Sessions -> Nat]]
        BY <3>1, <3>2 DEF TypeOK
      <3>4. ready' \in [Axes -> Nat]
        BY <3>2 DEF TypeOK
      <3> QED
        BY <1>8, <2>2, <3>3, <3>4 DEF TypeOK, AxisReceive, net, drive
    <2> QED
      BY <2>1, <2>2
  <1>9. ASSUME NEW a \in Axes, NEW s \in Sessions, AxisExecute(a, s) PROVE TypeOK'
    <2>1. queue[a][s] \in Seq(Commands) /\ queue[a][s] # <<>> /\ waiting[a][s] > 0
      BY <1>9 DEF TypeOK, AxisExecute, Served
    <2>2. /\ Head(queue[a][s]) \in Commands
          /\ Tail(queue[a][s]) \in Seq(Commands)
          /\ Len(Tail(queue[a][s])) <= Len(queue[a][s])
      BY <2>1
    <2>3. exec' \in [Axes -> Commands] /\ cw' \in BOOLEAN /\ ccw' \in BOOLEAN
      BY <1>9, <2>2 DEF TypeOK, AxisExecute, PoleFlags
    <2>4. queue' \in [Axes -> [Sessions -> Seq(Commands)]]
      BY <1>9, <2>2 DEF TypeOK, AxisExecute
    <2>5. \A b \in Axes, t \in Sessions : Len(queue'[b][t]) <= QueueLength
      BY <1>9, <2>1, <2>2 DEF TypeOK, AxisExecute
    <2>6. /\ waiting' \in [Axes -> [Sessions -> Nat]]
          /\ ready' \in [Axes -> Nat]
          /\ heap' \in Nat
      BY <1>9, <2>1 DEF TypeOK, AxisExecute
    <2> QED
      BY <1>9, <2>3, <2>4, <2>5, <2>6 DEF TypeOK, AxisExecute, net
  <1>10. CASE UNCHANGED vars
    BY <1>10 DEF TypeOK, vars, net, tasks, drive
  <1> QED
    BY <1>1, <1>3, <1>4, <1>5, <1>6, <1>7, <1>8, <1>9, <1>10
    DEF Next, TcpThread, AxisTask

\* The state always has the types of the C objects, in particular no queue is
\* ever filled beyond its length.
THEOREM TypeCorrect == Spec => []TypeOK
  BY TypeInit, TypeNext, PTL DEF Spec
-----------------------------------------------------------------------------
(* Two facts about scheduling.                                             *)

\* When tcp_thread runs, no task is about to receive, and every queue with a
\* task on it is empty: in particular the live ones.
LEMMA Quiet ==
    ASSUME TypeOK, TcpRuns, NEW a \in Axes
    PROVE  /\ ready[a] = 0
           /\ \A s \in Sessions : waiting[a][s] > 0 => queue[a][s] = <<>>
           /\ Live(a) => queue[a][handle[a]] = <<>>
  <1>1. ready[a] = 0 /\ \A s \in Sessions : waiting[a][s] > 0 => queue[a][s] = <<>>
    BY DEF TypeOK, TcpRuns, AxisTaskRuns, Served
  <1>2. Live(a) => handle[a] \in Sessions
    BY DEF TypeOK, Live, Sessions
  <1> QED
    BY <1>1, <1>2 DEF Live

\* Only the task on the current queue of an axis executes anything, and what it
\* executes is the one message there.
LEMMA ExecutesCurrent ==
    ASSUME Inv, NEW a \in Axes, NEW s \in Sessions, AxisExecute(a, s)
    PROVE  /\ s = handle[a] /\ Live(a)
           /\ Len(queue[a][s]) = 1 /\ Tail(queue[a][s]) = <<>>
           /\ pc \in {"trigger", "stop"}
           /\ Stopping => Head(queue[a][s]) = "STOP"
           /\ Enabled \/ pc = "stop"
  <1>1. waiting[a][s] > 0 /\ queue[a][s] # <<>>
    BY DEF AxisExecute, Served
  <1>2. s = handle[a]
    BY <1>1 DEF Inv, OldQueueInv
  <1>3. Live(a)
    BY <1>1, <1>2 DEF Live, Sessions
  <1>4. queue[a][s] \in Seq(Commands)
    BY DEF Inv, TypeOK
  <1>5. Len(queue[a][s]) = 1 /\ pc \in {"trigger", "stop"}
        /\ (Stopping => Head(queue[a][s]) = "STOP") /\ (Enabled \/ pc = "stop")
    BY <1>1, <1>2, <1>3 DEF Inv, LiveQueueInv
  <1>6. Tail(queue[a][s]) = <<>>
    <2>1. Tail(queue[a][s]) \in Seq(Commands) /\ Len(Tail(queue[a][s])) = 0
      BY <1>1, <1>4, <1>5, HeadTailProperties
    <2> QED
      BY <2>1, EmptySeq
  <1> QED
    BY <1>2, <1>3, <1>5, <1>6

\* A step that leaves handles, queues and tasks alone and ends in a place where
\* no sender sends.
LEMMA Settles ==
    ASSUME Inv, TcpRuns, UNCHANGED <<tasks, drive, session>>,
           ~NotYet("arm"), ~NotYet("pole"), ~NotYet("lift"),
           pc' \in {"recv", "next", "write"},
           exec # AllStop => InLoop /\ Enabled'
    PROVE  HandleInv' /\ OldQueueInv' /\ LiveQueueInv' /\ OutboxInv' /\ MovingInv'
  <1> USE DEF tasks, drive
  <1>1. HandleInv'
    BY DEF Inv, HandleInv, NotYet, Axes
  <1>2. OldQueueInv'
    BY DEF Inv, OldQueueInv
  <1>3. LiveQueueInv'
    BY Quiet DEF Inv, LiveQueueInv, Live
  <1>4. OutboxInv'
    BY DEF OutboxInv, Stopping
  <1>5. MovingInv'
    <2> SUFFICES ASSUME NEW a \in Axes, exec[a] # "STOP"
                 PROVE  InLoop' /\ Live(a)' /\ Enabled' /\ ~Stopping'
      BY DEF MovingInv
    <2>1. Enabled'
      BY DEF AllStop
    <2> QED
      BY <2>1 DEF Inv, MovingInv, Live, InLoop, Stopping
  <1> QED
    BY <1>1, <1>2, <1>3, <1>4, <1>5

\* Leaving the receive loop.
LEMMA Leaves ==
    ASSUME Inv, TcpRuns, UNCHANGED <<tasks, drive, session, prev>>, NEW st, LeaveLoop(st),
           pc \in {"recv", "next", "write"}
    PROVE  HandleInv' /\ OldQueueInv' /\ LiveQueueInv' /\ OutboxInv' /\ MovingInv'
  <1> USE DEF tasks, drive, LeaveLoop
  <1>1. HandleInv'
    BY DEF Inv, HandleInv, NotYet
  <1>2. OldQueueInv'
    BY DEF Inv, OldQueueInv
  <1>3. LiveQueueInv'
    BY Quiet DEF Inv, LiveQueueInv, Live
  <1>4. OutboxInv'
    BY DEF OutboxInv, AllStop
  <1>5. MovingInv'
    <2> SUFFICES ASSUME NEW a \in Axes, exec[a] # "STOP"
                 PROVE  InLoop' /\ Live(a)' /\ Enabled' /\ outbox'[a] # None
      BY DEF MovingInv
    <2> QED
      BY DEF Inv, MovingInv, Live, InLoop, Enabled, AllStop, None
  <1> QED
    BY <1>1, <1>2, <1>3, <1>4, <1>5
-----------------------------------------------------------------------------
\* The invariant holds initially.
LEMMA InvInit == Init => Inv
  <1> SUFFICES ASSUME Init PROVE Inv
    OBVIOUS
  <1>1. TypeOK
    BY TypeInit
  <1>2. HandleInv
    BY DEF Init, HandleInv, NotYet
  <1>3. OldQueueInv /\ LiveQueueInv
    BY DEF Init, OldQueueInv, LiveQueueInv, Live
  <1>4. OutboxInv /\ MovingInv
    BY DEF Init, OutboxInv, Stopping, MovingInv, AllStop
  <1> QED
    BY <1>1, <1>2, <1>3, <1>4 DEF Inv

\* Every step preserves it.
LEMMA InvNext == Inv /\ [Next]_vars => Inv'
  <1> SUFFICES ASSUME Inv, [Next]_vars
               PROVE  HandleInv' /\ OldQueueInv' /\ LiveQueueInv' /\ OutboxInv' /\ MovingInv'
    BY TypeNext DEF Inv
  <1> USE BoundsAssumption
  <1>t. TypeOK
    BY DEF Inv
  <1>r. \A a \in Axes :
           /\ handle[a] # 0 => handle[a] \in Sessions
           /\ handle[a] \in Nat /\ session \in Nat
    BY <1>t DEF TypeOK, Sessions
  <1>h. \A a \in Axes : ~(handle[a] > session \/ (handle[a] = session /\ NotYet(a)))
    <2> TAKE a \in Axes
    <2>1. handle[a] <= session
      BY DEF Inv, HandleInv
    <2>2. NotYet(a) => handle[a] # session
      BY DEF Inv, HandleInv
    <2> QED
      BY <1>r, <2>1, <2>2
  <1>1. CASE Accept
    <2>1. UNCHANGED <<handle, queue, waiting, ready, exec>> /\ TcpRuns
      BY <1>1 DEF Accept, tasks, drive
    <2>2. HandleInv'
      BY <1>1, <1>t, <2>1 DEF Inv, HandleInv, Accept, NotYet, TypeOK, Sessions
    <2>3. OldQueueInv' /\ LiveQueueInv'
      BY <1>t, <2>1, Quiet DEF Inv, OldQueueInv, LiveQueueInv, Live
    <2>4. OutboxInv' /\ MovingInv'
      BY <1>1, <2>1 DEF Inv, OutboxInv, MovingInv, Accept, Stopping, InLoop
    <2> QED
      BY <2>2, <2>3, <2>4
  <1>2. ASSUME NEW a \in Axes, NEW at, NEW then, AxisInit(a, at, then),
               \/ a = "arm" /\ at = "arm_init" /\ then = "pole_init"
               \/ a = "pole" /\ at = "pole_init" /\ then = "lift_init"
               \/ a = "lift" /\ at = "lift_init" /\ then = "recv"
        PROVE  HandleInv' /\ OldQueueInv' /\ LiveQueueInv' /\ OutboxInv' /\ MovingInv'
    <2>1. UNCHANGED <<queue, waiting, session, exec, prev, outbox>> /\ TcpRuns
          /\ pc = at /\ pc' = then /\ NotYet(a)
      BY <1>2 DEF AxisInit, drive, NotYet
    <2>2. handle' \in {[handle EXCEPT ![a] = session], [handle EXCEPT ![a] = 0]}
      BY <1>2 DEF AxisInit
    <2>3. session \in Sessions /\ queue[a][session] = <<>> /\ handle[a] # session
      BY <1>2, <1>t, <2>1 DEF Inv, HandleInv, TypeOK, Sessions
    <2>4. \A b \in Axes \ {a} : handle'[b] = handle[b] /\ ready'[b] = ready[b]
      BY <1>2, <1>t DEF AxisInit, TypeOK
    <2>5. handle'[a] \in {session, 0}
      BY <2>2, <1>t DEF TypeOK
    <2>6. HandleInv'
      BY <1>2, <1>t, <2>1, <2>4, <2>5 DEF Inv, HandleInv, NotYet, TypeOK
    <2>7. OldQueueInv'
      BY <1>t, <2>1, Quiet DEF OldQueueInv
    <2>8. LiveQueueInv'
      <3> SUFFICES ASSUME NEW b \in Axes, Live(b)' PROVE queue[b][handle'[b]] = <<>>
        BY <2>1 DEF LiveQueueInv
      <3>1. CASE b = a
        BY <3>1, <2>3, <2>5 DEF Live
      <3>2. CASE b # a
        BY <1>t, <3>2, <2>1, <2>4, Quiet DEF Live
      <3> QED
        BY <3>1, <3>2
    <2>9. OutboxInv' /\ MovingInv'
      BY <1>2, <2>1 DEF Inv, OutboxInv, MovingInv, Stopping, InLoop
    <2> QED
      BY <2>6, <2>7, <2>8, <2>9
  <1>3. CASE InitAxes
    BY <1>2, <1>3 DEF InitAxes, Axes
  <1>4. ASSUME NEW f \in Frames, HandleFrame(f)
        PROVE  HandleInv' /\ OldQueueInv' /\ LiveQueueInv' /\ OutboxInv' /\ MovingInv'
    <2>1. /\ UNCHANGED <<tasks, drive, session, prev>>
          /\ UNCHANGED <<handle, queue, waiting, ready, exec>>
          /\ TcpRuns /\ pc \in {"recv", "next"}
      BY <1>4 DEF HandleFrame, tasks, drive
    <2>2. CASE NetValuesReceivedFromHMI(f) # ERR_OK
      BY <1>4, <2>1, <2>2, Leaves DEF HandleFrame
    <2>3. CASE NetValuesReceivedFromHMI(f) = ERR_OK
      <3> DEFINE cmd == CmdOf(f)
      <3>1. /\ pc' = "trigger"
            /\ actual' = ActualFlagByte(cmd)
            /\ \A a \in Axes : outbox'[a] \in Slot(a, cmd, prev)
            /\ outbox' = [a \in Axes |-> outbox'[a]]
            /\ cmd.ctrlEn \in {"eEnable", "eDesable"}
        BY <1>4, <2>3, AcceptedCtrlEn DEF HandleFrame, Axes
      <3>2. HandleInv' /\ OldQueueInv'
        BY <2>1, <3>1 DEF Inv, HandleInv, OldQueueInv, NotYet
      <3>3. LiveQueueInv'
        BY <1>t, <2>1, Quiet DEF LiveQueueInv, Live
      <3>4. ASSUME CtrlEnBit \notin actual', CtrlEnBit \in prev, NEW a \in Axes
            PROVE  outbox'[a] = "STOP"
        <4>1. cmd.ctrlEn = "eDesable"
          BY <3>1, <3>4 DEF ActualFlagByte, CtrlEnBit
        <4> QED
          BY <3>1, <3>4, <4>1, DisableStops
      <3>5. ASSUME ~Enabled' PROVE outbox' = NoMsgs
        <4>1. cmd.ctrlEn = "eDesable" /\ CtrlEnBit \notin prev
          BY <2>1, <3>1, <3>5 DEF Enabled, ActualFlagByte, CtrlEnBit
        <4>2. \A a \in Axes : outbox'[a] = None
          BY <3>1, <4>1, DisabledSilent
        <4> QED
          BY <3>1, <4>2 DEF NoMsgs
      <3>6. OutboxInv'
        <4>1. ASSUME Stopping', NEW a \in Axes PROVE outbox'[a] \in {"STOP", None}
          BY <2>1, <3>1, <3>4, <3>5, <4>1 DEF Stopping, Enabled, NoMsgs
        <4> QED
          BY <3>5, <4>1 DEF OutboxInv
      <3>7. MovingInv'
        <4> SUFFICES ASSUME NEW a \in Axes, exec[a] # "STOP"
                     PROVE  InLoop' /\ Live(a)' /\ Enabled' /\ (Stopping' => outbox'[a] # None)
          BY <2>1 DEF MovingInv
        <4>1. Live(a)' /\ Enabled' /\ CtrlEnBit \in prev
          BY <2>1, <3>1 DEF Inv, MovingInv, Live, Enabled
        <4>2. Stopping' => outbox'[a] = "STOP"
          BY <3>1, <3>4, <4>1 DEF Stopping
        <4> QED
          BY <3>1, <4>1, <4>2 DEF InLoop, None
      <3> QED
        BY <3>2, <3>3, <3>6, <3>7
    <2> QED
      BY <2>2, <2>3
  <1>5. ASSUME NEW a \in Axes, Send(a)
        PROVE  HandleInv' /\ OldQueueInv' /\ LiveQueueInv' /\ OutboxInv' /\ MovingInv'
    <2> DEFINE h == handle[a]
    <2>1. /\ UNCHANGED <<pc, prev, actual, session, handle, waiting, ready, exec>>
          /\ TcpRuns /\ pc \in {"trigger", "stop"}
          /\ h \in Sessions /\ outbox[a] # None /\ outbox[a] \in Commands
      BY <1>5, <1>t DEF Send, Turn, drive, TypeOK, Sessions
    <2>2. /\ queue' = [queue EXCEPT ![a][h] = Append(@, outbox[a])]
          /\ outbox' = [outbox EXCEPT ![a] = None]
      BY <1>5 DEF Send
    <2>q. queue \in [Axes -> [Sessions -> Seq(Commands)]]
      BY <1>t DEF TypeOK
    <2>3. \A b \in Axes, s \in Sessions :
             ~(b = a /\ s = h) => queue'[b][s] = queue[b][s]
      BY <2>q, <2>1, <2>2
    <2>4. queue'[a][h] = Append(queue[a][h], outbox[a]) /\ queue'[a][h] # <<>>
      <3>1. queue'[a][h] = Append(queue[a][h], outbox[a])
        BY <2>q, <2>1, <2>2
      <3>2. queue[a][h] \in Seq(Commands)
        BY <2>q, <2>1
      <3> QED
        BY <3>1, <3>2, <2>1, AppendProperties
    <2>5. HandleInv'
      <3>1. ~(h > session \/ (h = session /\ NotYet(a)))
        BY <1>h
      <3> QED
        BY <2>1, <2>3, <3>1 DEF Inv, HandleInv, NotYet
    <2>6. OldQueueInv'
      BY <2>1, <2>3 DEF Inv, OldQueueInv
    <2>7. LiveQueueInv'
      <3> SUFFICES ASSUME NEW b \in Axes, Live(b)
                   PROVE  \/ queue'[b][handle[b]] = <<>>
                          \/ /\ Len(queue'[b][handle[b]]) = 1
                             /\ Stopping => Head(queue'[b][handle[b]]) = "STOP"
                             /\ Enabled \/ pc = "stop"
        BY <2>1 DEF LiveQueueInv, Live, Stopping, Enabled
      <3>1. CASE b = a
        <4>1. queue'[a][h] = Append(<<>>, outbox[a])
          BY <1>t, <3>1, <2>1, <2>4, Quiet
        <4>2. Len(queue'[a][h]) = 1 /\ Head(queue'[a][h]) = outbox[a]
          BY <4>1, <2>1, EmptySeq, AppendProperties, HeadTailAppend
        <4>3. Stopping => outbox[a] = "STOP"
          BY <2>1 DEF Inv, OutboxInv
        <4>4. Enabled \/ pc = "stop"
          BY <2>1 DEF Inv, OutboxInv, NoMsgs
        <4> QED
          BY <3>1, <4>2, <4>3, <4>4
      <3>2. CASE b # a
        BY <1>t, <1>r, <3>2, <2>1, <2>3, Quiet DEF Live
      <3> QED
        BY <3>1, <3>2
    <2>8. OutboxInv'
      BY <1>t, <2>1, <2>2 DEF Inv, OutboxInv, Stopping, Enabled, NoMsgs, TypeOK
    <2>9. MovingInv'
      <3> SUFFICES ASSUME NEW b \in Axes, exec[b] # "STOP"
                   PROVE  Stopping /\ outbox'[b] = None => queue'[b][handle[b]] # <<>>
        BY <2>1 DEF Inv, MovingInv, Live, InLoop, Enabled, Stopping
      <3>1. CASE b = a
        BY <3>1, <2>4
      <3>2. CASE b # a
        BY <1>t, <3>2, <2>2, <2>3 DEF Inv, MovingInv, Live, TypeOK, Sessions
      <3> QED
        BY <3>1, <3>2
    <2> QED
      BY <2>5, <2>6, <2>7, <2>8, <2>9
  <1>6. ASSUME NEW a \in Axes, SendFaults(a)
        PROVE  HandleInv' /\ OldQueueInv' /\ LiveQueueInv' /\ OutboxInv' /\ MovingInv'
    BY <1>6 DEF SendFaults, net, tasks, drive, Inv, HandleInv, OldQueueInv, LiveQueueInv,
                OutboxInv, MovingInv, NotYet, Live, Stopping, Enabled, InLoop
  <1>7. CASE TriggerReturns
    <2>1. /\ UNCHANGED <<tasks, drive, session>> /\ UNCHANGED <<exec, actual>>
          /\ TcpRuns /\ pc = "trigger" /\ outbox = NoMsgs
          /\ prev' = actual /\ pc' = "write"
      BY <1>7 DEF TriggerReturns, drive
    <2>2. ASSUME NEW a \in Axes, exec[a] # "STOP" PROVE CtrlEnBit \in actual
      <3>1. Live(a) /\ (Stopping /\ outbox[a] = None => queue[a][handle[a]] # <<>>)
        BY <2>2 DEF Inv, MovingInv
      <3>2. queue[a][handle[a]] = <<>> /\ outbox[a] = None
        BY <1>t, <2>1, <3>1, Quiet DEF NoMsgs
      <3> QED
        BY <2>1, <3>1, <3>2 DEF Stopping
    <2>3. exec # AllStop => InLoop /\ Enabled'
      BY <1>t, <2>1, <2>2 DEF Enabled, InLoop, AllStop, TypeOK
    <2> QED
      BY <2>1, <2>3, Settles DEF NotYet
  <1>8. CASE WriteOK \/ NetbufEnd
    <2>1. /\ UNCHANGED <<tasks, drive, session>> /\ UNCHANGED <<prev, actual, exec>>
          /\ TcpRuns /\ pc \in {"write", "next"} /\ pc' \in {"recv", "next"}
      BY <1>8 DEF WriteOK, NetbufEnd, drive
    <2>2. exec # AllStop => InLoop /\ Enabled'
      BY <1>t, <2>1 DEF Inv, MovingInv, Enabled, InLoop, AllStop, TypeOK
    <2> QED
      BY <2>1, <2>2, Settles DEF NotYet
  <1>9. CASE WriteFails \/ RecvFails
    BY <1>9, Leaves DEF WriteFails, RecvFails
  <1>10. CASE Close
    <2>1. /\ UNCHANGED <<handle, queue, waiting, ready, exec, session>>
          /\ TcpRuns /\ pc = "stop" /\ outbox = NoMsgs /\ pc' = "accept"
      BY <1>10 DEF Close, tasks, drive
    <2>2. \A a \in Axes : exec[a] = "STOP"
      BY <1>t, <2>1, Quiet DEF Inv, MovingInv, Stopping, NoMsgs
    <2>3. HandleInv' /\ OldQueueInv'
      BY <2>1 DEF Inv, HandleInv, OldQueueInv, NotYet
    <2>4. LiveQueueInv'
      BY <1>t, <2>1, Quiet DEF LiveQueueInv, Live
    <2>5. OutboxInv' /\ MovingInv'
      BY <2>1, <2>2 DEF OutboxInv, MovingInv, Stopping
    <2> QED
      BY <2>3, <2>4, <2>5
  <1>11. ASSUME NEW a \in Axes, AxisReceive(a)
         PROVE  HandleInv' /\ OldQueueInv' /\ LiveQueueInv' /\ OutboxInv' /\ MovingInv'
    <2>1. /\ UNCHANGED <<pc, prev, actual, outbox, session, handle, queue, exec>>
          /\ ready[a] > 0
      BY <1>11 DEF AxisReceive, net, drive
    <2>2. CASE handle[a] = 0
      BY <1>11, <2>1, <2>2
      DEF AxisReceive, Inv, HandleInv, OldQueueInv, LiveQueueInv,
          OutboxInv, MovingInv, NotYet, Live, Stopping, Enabled, InLoop
    <2>3. CASE handle[a] # 0
      <3> DEFINE h == handle[a]
      <3>1. h \in Sessions
        BY <1>t, <2>3 DEF TypeOK, Sessions
      <3>2. /\ waiting' = [waiting EXCEPT ![a][h] = @ + 1]
            /\ ready' = [ready EXCEPT ![a] = @ - 1]
        BY <1>11, <2>3 DEF AxisReceive
      <3>w. waiting \in [Axes -> [Sessions -> Nat]] /\ ready \in [Axes -> Nat]
        BY <1>t DEF TypeOK
      <3>3. \A b \in Axes, s \in Sessions :
               ~(b = a /\ s = h) => waiting'[b][s] = waiting[b][s]
        BY <3>w, <3>1, <3>2
      <3>4. waiting'[a][h] > 0
        BY <3>w, <3>1, <3>2
      <3>5. \A b \in Axes : Live(b)' <=> Live(b)
        <4> SUFFICES ASSUME NEW b \in Axes PROVE Live(b)' <=> Live(b)
          OBVIOUS
        <4>1. CASE b = a
          BY <4>1, <2>1, <2>3, <3>4 DEF Live
        <4>2. CASE b # a
          <5>1. ready'[b] = ready[b]
            BY <4>2, <3>w, <3>2
          <5>2. handle[b] # 0 => handle[b] \in Sessions
            BY <1>r
          <5> QED
            BY <4>2, <5>1, <5>2, <2>1, <3>3 DEF Live
        <4> QED
          BY <4>1, <4>2
      <3>6. HandleInv'
        <4>1. ~(h > session \/ (h = session /\ NotYet(a)))
          BY <1>h
        <4> QED
          BY <2>1, <3>1, <3>3, <4>1 DEF Inv, HandleInv, NotYet
      <3>7. OldQueueInv'
        BY <2>1, <3>3 DEF Inv, OldQueueInv
      <3>8. LiveQueueInv' /\ OutboxInv' /\ MovingInv'
        BY <2>1, <3>5 DEF Inv, LiveQueueInv, OutboxInv, MovingInv, Stopping, Enabled, InLoop
      <3> QED
        BY <3>6, <3>7, <3>8
    <2> QED
      BY <2>2, <2>3
  <1>12. ASSUME NEW a \in Axes, NEW s \in Sessions, AxisExecute(a, s)
         PROVE  HandleInv' /\ OldQueueInv' /\ LiveQueueInv' /\ OutboxInv' /\ MovingInv'
    <2>1. /\ UNCHANGED <<pc, prev, actual, outbox, session, handle>>
          /\ exec' = [exec EXCEPT ![a] = Head(queue[a][s])]
          /\ queue' = [queue EXCEPT ![a][s] = Tail(@)]
          /\ waiting' = [waiting EXCEPT ![a][s] = @ - 1]
          /\ ready' = [ready EXCEPT ![a] = @ + 1]
          /\ waiting[a][s] > 0
      BY <1>12 DEF AxisExecute, net, Served
    <2>2. /\ s = handle[a] /\ Live(a) /\ Tail(queue[a][s]) = <<>>
          /\ pc \in {"trigger", "stop"}
          /\ Stopping => Head(queue[a][s]) = "STOP"
          /\ Enabled \/ pc = "stop"
      BY <1>12, ExecutesCurrent
    <2>w. /\ queue \in [Axes -> [Sessions -> Seq(Commands)]]
          /\ waiting \in [Axes -> [Sessions -> Nat]]
          /\ ready \in [Axes -> Nat]
          /\ exec \in [Axes -> Commands]
      BY <1>t DEF TypeOK
    <2>3. /\ queue'[a][s] = <<>>
          /\ \A b \in Axes, t \in Sessions :
                ~(b = a /\ t = s) => queue'[b][t] = queue[b][t]
      BY <2>w, <2>1, <2>2
    <2>4. \A b \in Axes, t \in Sessions :
             ~(b = a /\ t = s) => waiting'[b][t] = waiting[b][t]
      BY <2>w, <2>1
    <2>5. /\ ready'[a] > 0 /\ exec'[a] = Head(queue[a][s])
          /\ \A b \in Axes \ {a} : ready'[b] = ready[b] /\ exec'[b] = exec[b]
      BY <2>w, <2>1
    <2>6. \A b \in Axes : handle[b] # 0 => handle[b] \in Sessions
      BY <1>r
    <2>7. \A b \in Axes : Live(b)' <=> Live(b)
      BY <2>1, <2>2, <2>4, <2>5, <2>6 DEF Live
    <2>8. HandleInv'
      <3>1. ~(s > session \/ (s = session /\ NotYet(a)))
        BY <1>h, <2>2
      <3> QED
        BY <2>1, <2>3, <2>4, <3>1 DEF Inv, HandleInv, NotYet
    <2>9. OldQueueInv'
      BY <2>1, <2>2, <2>3, <2>4 DEF Inv, OldQueueInv
    <2>10. LiveQueueInv'
      <3> SUFFICES ASSUME NEW b \in Axes, Live(b)
                   PROVE  \/ queue'[b][handle[b]] = <<>>
                          \/ /\ queue'[b][handle[b]] = queue[b][handle[b]]
                             /\ b # a
        BY <2>1, <2>7 DEF Inv, LiveQueueInv, Stopping, Enabled
      <3> QED
        BY <2>2, <2>3, <2>6 DEF Live
    <2>11. OutboxInv'
      BY <2>1 DEF Inv, OutboxInv, Stopping, Enabled
    <2>12. MovingInv'
      <3> SUFFICES ASSUME NEW b \in Axes, exec'[b] # "STOP"
                   PROVE  /\ InLoop /\ Live(b) /\ Enabled
                          /\ Stopping /\ outbox[b] = None => queue'[b][handle[b]] # <<>>
        BY <2>1, <2>7 DEF MovingInv, InLoop, Stopping, Enabled
      <3>1. CASE b = a
        BY <3>1, <2>2, <2>5 DEF InLoop, Stopping
      <3>2. CASE b # a
        BY <3>2, <2>3, <2>5, <2>6 DEF Inv, MovingInv, Live
      <3> QED
        BY <3>1, <3>2
    <2> QED
      BY <2>8, <2>9, <2>10, <2>11, <2>12
  <1>13. CASE UNCHANGED vars
    BY <1>13 DEF vars, net, tasks, drive, Inv, HandleInv, OldQueueInv, LiveQueueInv,
                 OutboxInv, MovingInv, NotYet, Live, Stopping, Enabled, InLoop
  <1> QED
    BY <1>1, <1>3, <1>4, <1>5, <1>6, <1>7, <1>8, <1>9, <1>10, <1>11, <1>12, <1>13
    DEF Next, TcpThread, AxisTask
\* The invariant the safety theorems rest on.
THEOREM Invariance == Spec => []Inv
  BY InvInit, InvNext, PTL DEF Spec

\* A command that starts an axis is executed only while TaskTriggerMsg runs.
LEMMA StartsInTrigger ==
    ASSUME Inv, [Next]_vars, pc # "trigger", NEW a \in Axes, exec'[a] # exec[a]
    PROVE  exec'[a] = "STOP"
  <1>1. ASSUME NEW b \in Axes, NEW s \in Sessions, AxisExecute(b, s) PROVE exec'[a] = "STOP"
    <2>1. Head(queue[b][s]) = "STOP"
      BY <1>1, ExecutesCurrent DEF Stopping
    <2> QED
      BY <1>1, <2>1 DEF AxisExecute, Inv, TypeOK
  <1>2. CASE exec' = exec
    BY <1>2
  <1>3. exec' = exec \/ \E b \in Axes, s \in Sessions : AxisExecute(b, s)
    BY DEF Next, TcpThread, AxisTask, Accept, InitAxes, AxisInit, HandleFrame, Send,
           SendFaults, TriggerReturns, WriteOK, WriteFails, NetbufEnd, RecvFails, Close,
           AxisReceive, vars, drive
  <1> QED
    BY <1>1, <1>2, <1>3

\* NothingStartsOffline: however the session ended and whatever is left of the
\* heap, no axis starts outside the handling of a frame.
THEOREM OfflineSafe == Spec => NothingStartsOffline
  <1>1. Inv /\ [Next]_vars =>
           [pc # "trigger" => \A a \in Axes : exec'[a] # exec[a] => exec'[a] = "STOP"]_vars
    BY StartsInTrigger
  <1> QED
    BY <1>1, Invariance, PTL DEF Spec, NothingStartsOffline
\* StoppedUnlessEnabled: no axis moves without an HMI or without ctrlEn, also
\* when the heap is exhausted and tasks or queues are missing.
THEOREM StoppedSafe == Spec => []StoppedUnlessEnabled
  <1>1. Inv => StoppedUnlessEnabled
    BY DEF Inv, TypeOK, MovingInv, StoppedUnlessEnabled, AllStop, Enabled
  <1> QED
    BY <1>1, Invariance, PTL

-----------------------------------------------------------------------------
(* The refinement.                                                         *)

\* An axis task executes a command: Start when control is enabled, StopAxis
\* otherwise.
LEMMA ExecuteRefines ==
    ASSUME Inv, NEW a \in Axes, NEW s \in Sessions, AxisExecute(a, s)
    PROVE  Promise!Next
  <1>1. /\ exec' = [exec EXCEPT ![a] = Head(queue[a][s])]
        /\ UNCHANGED <<pc, prev, actual>>
        /\ queue[a][s] \in Seq(Commands) /\ queue[a][s] # <<>>
    BY DEF AxisExecute, net, Served, Inv, TypeOK
  <1>2. /\ pc \in {"trigger", "stop"}
        /\ Stopping => Head(queue[a][s]) = "STOP"
        /\ Enabled \/ pc = "stop"
    BY ExecutesCurrent
  <1>3. UNCHANGED <<InLoop, Enabled>>
    BY <1>1 DEF InLoop, Enabled
  <1>4. CASE pc = "stop"
    BY <1>1, <1>2, <1>3, <1>4
    DEF Promise!Next, Promise!StopAxis, Stopping, Enabled
  <1>5. CASE pc # "stop"
    <2>1. InLoop /\ Enabled
      BY <1>2, <1>5 DEF InLoop
    <2>2. Head(queue[a][s]) \in Commands
      BY <1>1
    <2> QED
      BY <1>1, <1>3, <2>1, <2>2 DEF Promise!Next, Promise!Start, Enabled
  <1> QED
    BY <1>4, <1>5

\* Every step is a step of the interlock or changes nothing it sees.
LEMMA StepRefines ==
    ASSUME Inv, [Next]_vars PROVE [Promise!Next]_(Promise!vars)
  <1>1. CASE UNCHANGED <<InLoop, Enabled, exec>>
    BY <1>1 DEF Promise!vars, Enabled
  <1>2. CASE Accept \/ (\E a \in Axes : Send(a) \/ SendFaults(a) \/ AxisReceive(a))
    BY <1>1, <1>2
    DEF Accept, Send, SendFaults, AxisReceive, net, drive, InLoop, Enabled
  <1>3. CASE InitAxes
    <2>1. /\ pc \in {"arm_init", "pole_init", "lift_init"}
          /\ pc' \in {"pole_init", "lift_init", "recv"}
          /\ UNCHANGED <<prev, exec>>
      BY <1>3 DEF InitAxes, AxisInit, drive
    <2>2. UNCHANGED Enabled /\ ~InLoop
      BY <2>1 DEF Enabled, InLoop
    <2>3. CASE InLoop'
      BY <2>1, <2>2, <2>3 DEF Promise!Next, Promise!Connect, Enabled
    <2>4. CASE ~InLoop'
      BY <1>1, <2>1, <2>2, <2>4 DEF InLoop
    <2> QED
      BY <2>3, <2>4
  <1>4. ASSUME NEW f \in Frames, HandleFrame(f) PROVE [Promise!Next]_(Promise!vars)
    <2>1. /\ pc \in {"recv", "next"} /\ pc' \in {"trigger", "stop"}
          /\ UNCHANGED <<prev, exec>>
      BY <1>4 DEF HandleFrame, LeaveLoop, drive
    <2>2. InLoop /\ InLoop' /\ (Enabled => Enabled')
      BY <2>1 DEF Enabled, InLoop
    <2>3. CASE Enabled' <=> Enabled
      BY <1>1, <2>1, <2>2, <2>3
    <2>4. CASE Enabled' /\ ~Enabled
      BY <2>1, <2>2, <2>4 DEF Promise!Next, Promise!Enable, Enabled
    <2> QED
      BY <2>2, <2>3, <2>4
  <1>5. CASE TriggerReturns
    <2>1. /\ pc = "trigger" /\ pc' = "write" /\ UNCHANGED exec
          /\ prev' = actual
      BY <1>5 DEF TriggerReturns, drive
    <2>2. InLoop /\ InLoop' /\ (Enabled' => Enabled)
      BY <2>1 DEF Enabled, InLoop
    <2>3. CASE Enabled' <=> Enabled
      BY <1>1, <2>1, <2>2, <2>3
    <2>4. CASE ~Enabled'
      <3>1. exec' = [a \in Axes |-> "STOP"]
        BY <2>4, InvNext DEF Inv, TypeOK, MovingInv
      <3> QED
        BY <2>1, <2>2, <2>4, <3>1
        DEF Promise!Next, Promise!Disable, Promise!AllStopped, Enabled
    <2> QED
      BY <2>2, <2>3, <2>4
  <1>6. CASE WriteOK \/ WriteFails \/ NetbufEnd \/ RecvFails
    BY <1>1, <1>6
    DEF WriteOK, WriteFails, NetbufEnd, RecvFails, LeaveLoop, drive, InLoop, Enabled
  <1>7. CASE Close
    <2>1. pc = "stop" /\ pc' = "accept" /\ UNCHANGED <<prev, exec>>
      BY <1>7 DEF Close, drive
    <2>2. InLoop /\ ~InLoop' /\ UNCHANGED Enabled
      BY <2>1 DEF Enabled, InLoop
    <2>3. exec' = [a \in Axes |-> "STOP"]
      BY <2>2, InvNext DEF Inv, TypeOK, MovingInv
    <2> QED
      BY <2>1, <2>2, <2>3
      DEF Promise!Next, Promise!Disconnect, Promise!AllStopped, Enabled
  <1>8. ASSUME NEW a \in Axes, NEW s \in Sessions, AxisExecute(a, s)
        PROVE  [Promise!Next]_(Promise!vars)
    BY <1>8, ExecuteRefines
  <1>9. CASE UNCHANGED vars
    BY <1>1, <1>9 DEF vars, net, drive, InLoop, Enabled
  <1> QED
    BY <1>2, <1>3, <1>4, <1>5, <1>6, <1>7, <1>8, <1>9 DEF Next, TcpThread, AxisTask

\* The RTU implements the interlock: an axis is started only for a connected HMI
\* with control enabled, and connection and enabling end only with all stopped.
THEOREM Refinement == Spec => ImplementsInterlock
  <1>1. Init => Promise!Init
    BY DEF Init, Promise!Init, Promise!AllStopped, InLoop, AllStop
  <1>2. Inv /\ [Next]_vars => [Promise!Next]_(Promise!vars)
    BY StepRefines
  <1> QED
    BY <1>1, <1>2, Invariance, PTL DEF Spec, ImplementsInterlock, Promise!Spec

-----------------------------------------------------------------------------
(* With memory enough, every session gets its queues and tasks.            *)

\* Axes still to be initialised in this session.
Missing == IF pc = "arm_init" THEN 3 ELSE IF pc = "pole_init" THEN 2
           ELSE IF pc = "lift_init" THEN 1 ELSE 0

\* Memory of the queues and tasks created so far, of the connection and of the
\* message in the queue of an axis.
AxesMemory    == (3 * session - Missing) * (QueueCost + TaskCost)
NetconnMemory == IF pc = "accept" THEN 0 ELSE NetconnCost
MsgMemory(a)  == IF handle[a] # 0 /\ queue[a][handle[a]] # <<>> THEN MsgCost ELSE 0

\* Each initialised axis has the queue of this session, and a task serves it;
\* no other queue holds a message.
CurrentInv ==
    \A a \in Axes :
        /\ handle[a] # 0 => Live(a)
        /\ handle[a] = 0 => ready[a] = 0
        /\ session > 0 /\ ~NotYet(a) => handle[a] = session
        /\ \A s \in Sessions : s # handle[a] => queue[a][s] = <<>>

\* The heap is what is not in use.
MemoryInv ==
    heap + MsgMemory("arm") + MsgMemory("pole") + MsgMemory("lift")
         + AxesMemory + NetconnMemory = HeapSize

AmpleInv == /\ Inv
            /\ ~halted
            /\ pc # "accept" => session > 0
            /\ CurrentInv
            /\ MemoryInv

\* Products of the costs grow with the number of axes.
LEMMA Monotone == ASSUME NEW m \in Int, NEW n \in Int, NEW c \in Nat, m <= n PROVE m * c <= n * c
  OBVIOUS

LEMMA OneMore == ASSUME NEW m \in Int, NEW c \in Nat PROVE (m + 1) * c = m * c + c
  OBVIOUS

\* What is created in a session fits into the heap.
LEMMA RoomForAxis ==
    ASSUME AmpleMemory, AmpleInv, TcpRuns, Missing > 0
    PROVE  heap >= QueueCost + TaskCost
  <1> USE BoundsAssumption, CostAssumption
  <1> DEFINE c == QueueCost + TaskCost
             n == 3 * session - Missing
  <1>1. /\ session \in Nat /\ session <= MaxSessions /\ Missing \in 0 .. 3 /\ heap \in Nat
        /\ c \in Nat
    BY DEF AmpleInv, Inv, TypeOK, Missing
  <1>2. n + 1 <= 3 * MaxSessions /\ n \in Int
    BY <1>1
  <1>3. n * c + c <= 3 * MaxSessions * c
    <2>1. (n + 1) * c = n * c + c
      BY <1>1, <1>2, OneMore
    <2>2. (n + 1) * c <= (3 * MaxSessions) * c
      BY <1>1, <1>2, Monotone
    <2> HIDE DEF n, c
    <2> QED
      BY <2>1, <2>2
  <1>4. \A a \in Axes : MsgMemory(a) = 0
    BY Quiet DEF AmpleInv, CurrentInv, Inv, MsgMemory
  <1>5. heap + n * c + NetconnCost = HeapSize
    <2>1. pc # "accept"
      BY DEF Missing
    <2>2. n * c = AxesMemory
      BY DEF AxesMemory
    <2>3. AxesMemory \in Int
      BY <1>1, <1>2, <2>2
    <2> HIDE DEF n, c
    <2> QED
      BY <1>1, <1>4, <2>1, <2>2, <2>3 DEF AmpleInv, MemoryInv, NetconnMemory, Axes
  <1>6. HeapSize >= NetconnCost + 3 * MaxSessions * c + MsgCost
    BY DEF AmpleMemory
  <1>7. n * c \in Int /\ 3 * MaxSessions * c \in Int
    BY <1>1, <1>2
  <1> HIDE DEF n
  <1> QED
    BY <1>1, <1>3, <1>5, <1>6, <1>7

\* A step of tcp_thread inside the receive loop that creates and sends nothing.
LEMMA AmpleIdle ==
    ASSUME AmpleInv, Inv', UNCHANGED <<tasks, session, heap, halted>>, InLoop, InLoop'
    PROVE  AmpleInv'
  <1>1. CurrentInv'
    BY DEF AmpleInv, CurrentInv, InLoop, NotYet, Live, tasks
  <1>2. MemoryInv'
    BY DEF AmpleInv, MemoryInv, InLoop, NetconnMemory, AxesMemory, MsgMemory, Missing, tasks
  <1> QED
    BY <1>1, <1>2 DEF AmpleInv, InLoop

\* Every step keeps the accounts, and none faults.
LEMMA AmpleNext ==
    ASSUME AmpleMemory, AmpleInv, [Next]_vars PROVE AmpleInv'
  <1> USE BoundsAssumption, CostAssumption
  <1>i. Inv'
    BY InvNext DEF AmpleInv
  <1>t. TypeOK /\ Inv /\ CurrentInv
    BY DEF AmpleInv, Inv
  <1>m. heap \in Nat /\ session \in Nat /\ Missing \in 0 .. 3 /\ AxesMemory \in Int
        /\ NetconnMemory \in Nat /\ \A a \in Axes : MsgMemory(a) \in Nat
    <2>1. heap \in Nat /\ session \in Nat /\ Missing \in 0 .. 3
      BY <1>t DEF TypeOK, Missing
    <2>2. AxesMemory \in Int
      BY <2>1 DEF AxesMemory
    <2> QED
      BY <2>1, <2>2 DEF NetconnMemory, MsgMemory
  <1>s. \A a \in Axes : handle[a] # 0 => handle[a] \in Sessions
    BY <1>t DEF TypeOK, Sessions
  <1>1. CASE Accept
    <2>1. /\ pc = "accept" /\ pc' = "arm_init" /\ session' = session + 1
          /\ heap' = heap - NetconnCost /\ UNCHANGED <<handle, queue, waiting, ready, halted>>
      BY <1>1 DEF Accept, tasks
    <2>2. CurrentInv'
      BY <1>t, <2>1 DEF CurrentInv, NotYet, Live
    <2>3. AxesMemory' = AxesMemory
      <3>1. 3 * session' - Missing' = 3 * session - Missing
        BY <1>m, <2>1 DEF Missing
      <3> QED
        BY <3>1 DEF AxesMemory
    <2>4. MemoryInv'
      BY <1>m, <2>1, <2>3 DEF AmpleInv, MemoryInv, NetconnMemory, MsgMemory, Axes
    <2> QED
      BY <1>i, <1>m, <2>1, <2>2, <2>4 DEF AmpleInv
  <1>2. ASSUME NEW a \in Axes, NEW at, NEW then, AxisInit(a, at, then),
               <<a, at, then>> \in {<<"arm", "arm_init", "pole_init">>,
                                    <<"pole", "pole_init", "lift_init">>,
                                    <<"lift", "lift_init", "recv">>}
        PROVE  AmpleInv'
    <2>1. /\ TcpRuns /\ pc = at /\ pc' = then
          /\ UNCHANGED <<session, queue, waiting, halted>>
          /\ Missing' = Missing - 1 /\ Missing > 0 /\ pc # "accept" /\ pc' # "accept"
          /\ NotYet(a) /\ ~NotYet(a)'
          /\ \A b \in Axes \ {a} : NotYet(b)' = NotYet(b)
      BY <1>2 DEF AxisInit, Missing, NotYet, Axes
    <2>2. heap >= QueueCost + TaskCost
      BY <2>1, RoomForAxis
    <2>3. /\ handle' = [handle EXCEPT ![a] = session]
          /\ ready' = [ready EXCEPT ![a] = @ + 1]
          /\ heap' = heap - QueueCost - TaskCost
      <3>1. QueueCreated /\ TaskCreated
        BY <1>m, <2>2 DEF QueueCreated, TaskCreated
      <3> QED
        BY <1>2, <3>1 DEF AxisInit
    <2>4. session \in Sessions /\ queue[a][session] = <<>>
      BY <1>t, <2>1 DEF AmpleInv, Inv, HandleInv, TypeOK, Sessions
    <2>5. \A s \in Sessions : queue[a][s] = <<>>
      <3> TAKE s \in Sessions
      <3>1. CASE s = handle[a]
        <4>1. Live(a)
          BY <1>t, <3>1 DEF CurrentInv, Sessions
        <4> QED
          BY <1>t, <2>1, <3>1, <4>1, Quiet
      <3>2. CASE s # handle[a]
        BY <1>t, <3>2 DEF CurrentInv
      <3> QED
        BY <3>1, <3>2
    <2>w. handle \in [Axes -> 0 .. MaxSessions] /\ ready \in [Axes -> Nat]
      BY <1>t DEF TypeOK
    <2>6. /\ handle'[a] = session /\ ready'[a] > 0
          /\ \A b \in Axes \ {a} : handle'[b] = handle[b] /\ ready'[b] = ready[b]
      BY <2>w, <2>3
    <2>7. CurrentInv'
      <3> SUFFICES ASSUME NEW b \in Axes
                   PROVE  /\ handle'[b] # 0 => Live(b)'
                          /\ handle'[b] = 0 => ready'[b] = 0
                          /\ session > 0 /\ ~NotYet(b)' => handle'[b] = session
                          /\ \A s \in Sessions : s # handle'[b] => queue[b][s] = <<>>
        BY <2>1 DEF CurrentInv
      <3>1. CASE b = a
        BY <3>1, <2>1, <2>4, <2>5, <2>6 DEF Live, Sessions
      <3>2. CASE b # a
        BY <3>2, <1>t, <2>1, <2>6 DEF CurrentInv, Live
      <3> QED
        BY <3>1, <3>2
    <2>8. AxesMemory' = AxesMemory + (QueueCost + TaskCost)
      <3>1. 3 * session' - Missing' = (3 * session - Missing) + 1
        BY <1>m, <2>1
      <3> QED
        BY <1>m, <3>1, OneMore DEF AxesMemory
    <2>9. \A b \in Axes : MsgMemory(b)' = MsgMemory(b)
      BY <1>s, <2>1, <2>4, <2>5, <2>6 DEF MsgMemory
    <2>10. MemoryInv'
      BY <1>m, <2>1, <2>3, <2>8, <2>9 DEF AmpleInv, MemoryInv, NetconnMemory, Axes
    <2> QED
      BY <1>i, <2>1, <2>7, <2>10 DEF AmpleInv
  <1>3. CASE InitAxes
    BY <1>2, <1>3 DEF InitAxes, Axes
  <1>4. ASSUME NEW f \in Frames, HandleFrame(f) PROVE AmpleInv'
    BY <1>4, <1>i, AmpleIdle DEF HandleFrame, LeaveLoop, InLoop
  <1>5. ASSUME NEW a \in Axes, Send(a) PROVE AmpleInv'
    <2> DEFINE h == handle[a]
    <2>1. /\ TcpRuns /\ pc \in {"trigger", "stop"}
          /\ queue' = [queue EXCEPT ![a][h] = Append(@, outbox[a])]
          /\ heap' = heap - MsgCost /\ h # 0
          /\ UNCHANGED <<pc, session, handle, waiting, ready, halted>>
      BY <1>5 DEF Send
    <2>2. queue \in [Axes -> [Sessions -> Seq(Commands)]] /\ h \in Sessions
      BY <1>t, <1>s, <2>1 DEF TypeOK
    <2>3. /\ queue'[a][h] = Append(queue[a][h], outbox[a])
          /\ \A b \in Axes, s \in Sessions :
                ~(b = a /\ s = h) => queue'[b][s] = queue[b][s]
      BY <2>1, <2>2
    <2>4. queue[a][h] = <<>> /\ queue'[a][h] # <<>>
      <3>1. Live(a)
        BY <1>t, <2>1 DEF CurrentInv
      <3>2. queue[a][h] = <<>>
        BY <1>t, <2>1, <3>1, Quiet
      <3> QED
        BY <2>2, <2>3, <3>2, AppendProperties
    <2>5. CurrentInv'
      BY <1>t, <2>1, <2>3 DEF CurrentInv, NotYet, Live
    <2>6. /\ MsgMemory(a)' = MsgMemory(a) + MsgCost
          /\ \A b \in Axes \ {a} : MsgMemory(b)' = MsgMemory(b)
      BY <1>s, <2>1, <2>3, <2>4 DEF MsgMemory
    <2>7. AxesMemory' = AxesMemory /\ NetconnMemory' = NetconnMemory
      BY <2>1 DEF AxesMemory, NetconnMemory, Missing
    <2>8. MemoryInv'
      <3>1. MsgMemory("arm")' + MsgMemory("pole")' + MsgMemory("lift")'
               = MsgMemory("arm") + MsgMemory("pole") + MsgMemory("lift") + MsgCost
        BY <1>m, <2>6 DEF Axes
      <3>2. /\ MsgMemory("arm")' \in Nat /\ MsgMemory("pole")' \in Nat /\ MsgMemory("lift")' \in Nat
            /\ MsgMemory("arm") \in Nat /\ MsgMemory("pole") \in Nat /\ MsgMemory("lift") \in Nat
        BY <1>m, <2>6 DEF Axes
      <3>3. MemoryInv /\ heap' \in Nat /\ heap' = heap - MsgCost
        BY <1>i, <2>1 DEF AmpleInv, Inv, TypeOK
      <3> QED
        BY <1>m, <2>7, <3>1, <3>2, <3>3 DEF MemoryInv
    <2> QED
      BY <1>i, <2>1, <2>5, <2>8 DEF AmpleInv
  <1>6. ASSUME NEW a \in Axes, SendFaults(a) PROVE FALSE
    <2>1. TcpRuns /\ pc \in {"trigger", "stop"} /\ (heap < MsgCost \/ handle[a] = 0)
      BY <1>6 DEF SendFaults
    <2>2. handle[a] # 0
      BY <1>t, <1>m, <2>1 DEF AmpleInv, CurrentInv, NotYet
    <2>3. \A b \in Axes : MsgMemory(b) = 0
      BY <1>t, <2>1, Quiet DEF CurrentInv, MsgMemory
    <2>4. heap + AxesMemory + NetconnCost = HeapSize
      BY <1>m, <2>1, <2>3 DEF AmpleInv, MemoryInv, NetconnMemory, Axes
    <2>5. AxesMemory <= (3 * MaxSessions) * (QueueCost + TaskCost)
      <3>1. 3 * session - Missing <= 3 * MaxSessions
        BY <1>t, <1>m DEF TypeOK
      <3> QED
        BY <1>m, <3>1, Monotone DEF AxesMemory
    <2>6. heap >= MsgCost
      BY <1>m, <2>4, <2>5 DEF AmpleMemory
    <2> QED
      BY <1>m, <2>1, <2>2, <2>6
  <1>7. CASE TriggerReturns \/ WriteOK \/ WriteFails \/ NetbufEnd \/ RecvFails
    BY <1>7, <1>i, AmpleIdle
    DEF TriggerReturns, WriteOK, WriteFails, NetbufEnd, RecvFails, LeaveLoop, InLoop
  <1>8. CASE Close
    <2>1. /\ pc = "stop" /\ pc' = "accept" /\ heap' = heap + NetconnCost
          /\ UNCHANGED <<session, handle, queue, waiting, ready, halted>>
      BY <1>8 DEF Close, tasks
    <2>2. CurrentInv'
      BY <1>t, <2>1 DEF CurrentInv, NotYet, Live
    <2>3. MemoryInv'
      <3>1. AxesMemory' = AxesMemory /\ \A a \in Axes : MsgMemory(a)' = MsgMemory(a)
        BY <2>1 DEF AxesMemory, MsgMemory, Missing
      <3> QED
        BY <1>m, <2>1, <3>1 DEF AmpleInv, MemoryInv, NetconnMemory, Axes
    <2> QED
      BY <1>i, <2>1, <2>2, <2>3 DEF AmpleInv
  <1>9. ASSUME NEW a \in Axes, AxisReceive(a) PROVE AmpleInv'
    <2>1. handle[a] # 0 /\ ready[a] > 0
      BY <1>9, <1>t DEF AxisReceive, CurrentInv
    <2>2. /\ waiting' = [waiting EXCEPT ![a][handle[a]] = @ + 1]
          /\ ready' = [ready EXCEPT ![a] = @ - 1]
          /\ UNCHANGED <<pc, session, handle, queue, heap, halted>>
      BY <1>9, <2>1 DEF AxisReceive, net
    <2>w. waiting \in [Axes -> [Sessions -> Nat]] /\ ready \in [Axes -> Nat]
      BY <1>t DEF TypeOK
    <2>3. /\ waiting'[a][handle[a]] > 0
          /\ \A b \in Axes \ {a} : waiting'[b] = waiting[b] /\ ready'[b] = ready[b]
      BY <1>s, <2>w, <2>1, <2>2
    <2>4. CurrentInv'
      BY <1>t, <2>1, <2>2, <2>3 DEF CurrentInv, NotYet, Live
    <2>5. MemoryInv'
      BY <2>2 DEF AmpleInv, MemoryInv, NetconnMemory, AxesMemory, MsgMemory, Missing
    <2> QED
      BY <1>i, <2>2, <2>4, <2>5 DEF AmpleInv
  <1>10. ASSUME NEW a \in Axes, NEW s \in Sessions, AxisExecute(a, s) PROVE AmpleInv'
    <2>1. /\ queue' = [queue EXCEPT ![a][s] = Tail(@)]
          /\ ready' = [ready EXCEPT ![a] = @ + 1]
          /\ waiting' = [waiting EXCEPT ![a][s] = @ - 1]
          /\ heap' = heap + MsgCost
          /\ UNCHANGED <<pc, session, handle, halted>>
          /\ queue[a][s] # <<>>
      BY <1>10 DEF AxisExecute, Served, net
    <2>2. s = handle[a] /\ s # 0 /\ Tail(queue[a][s]) = <<>>
      BY <1>10, <1>t, ExecutesCurrent DEF Live
    <2>w. /\ queue \in [Axes -> [Sessions -> Seq(Commands)]] /\ ready \in [Axes -> Nat]
          /\ waiting \in [Axes -> [Sessions -> Nat]]
      BY <1>t DEF TypeOK
    <2>3. /\ queue'[a][s] = <<>> /\ ready'[a] > 0
          /\ \A t \in Sessions : t # s => queue'[a][t] = queue[a][t]
          /\ \A b \in Axes \ {a} : /\ queue'[b] = queue[b] /\ ready'[b] = ready[b]
                                   /\ waiting'[b] = waiting[b]
      BY <2>w, <2>1, <2>2
    <2>4. CurrentInv'
      BY <1>t, <2>1, <2>2, <2>3 DEF CurrentInv, NotYet, Live
    <2>5. /\ MsgMemory(a) = MsgCost /\ MsgMemory(a)' = 0
          /\ \A b \in Axes \ {a} : MsgMemory(b)' = MsgMemory(b)
      BY <2>1, <2>2, <2>3 DEF MsgMemory
    <2>6. AxesMemory' = AxesMemory /\ NetconnMemory' = NetconnMemory
      BY <2>1 DEF AxesMemory, NetconnMemory, Missing
    <2>7. MemoryInv'
      <3>1. MsgMemory("arm") + MsgMemory("pole") + MsgMemory("lift")
               = MsgMemory("arm")' + MsgMemory("pole")' + MsgMemory("lift")' + MsgCost
        BY <1>m, <2>5 DEF Axes
      <3>2. /\ MsgMemory("arm")' \in Nat /\ MsgMemory("pole")' \in Nat /\ MsgMemory("lift")' \in Nat
            /\ MsgMemory("arm") \in Nat /\ MsgMemory("pole") \in Nat /\ MsgMemory("lift") \in Nat
        BY <1>m, <2>5 DEF Axes
      <3>3. MemoryInv /\ heap' \in Nat /\ heap' = heap + MsgCost
        BY <1>i, <2>1 DEF AmpleInv, Inv, TypeOK
      <3> QED
        BY <1>m, <2>6, <3>1, <3>2, <3>3 DEF MemoryInv
    <2> QED
      BY <1>i, <2>1, <2>4, <2>7 DEF AmpleInv
  <1>11. CASE UNCHANGED vars
    BY <1>11, <1>i DEF vars, net, tasks, AmpleInv, CurrentInv, MemoryInv, NetconnMemory,
                       AxesMemory, MsgMemory, Missing, NotYet, Live
  <1> QED
    BY <1>1, <1>3, <1>4, <1>5, <1>6, <1>7, <1>8, <1>9, <1>10, <1>11
    DEF Next, TcpThread, AxisTask

\* The initial state has everything free.
LEMMA AmpleInit == Init => AmpleInv
  <1> SUFFICES ASSUME Init PROVE AmpleInv
    OBVIOUS
  <1> USE BoundsAssumption, CostAssumption
  <1>1. Inv
    BY InvInit
  <1>2. CurrentInv
    BY DEF Init, CurrentInv
  <1>3. AxesMemory = 0
    BY DEF Init, AxesMemory, Missing
  <1>4. MemoryInv
    BY <1>3 DEF Init, MemoryInv, NetconnMemory, MsgMemory, Axes
  <1> QED
    BY <1>1, <1>2, <1>4 DEF Init, AmpleInv

\* With memory for every session the accounts are always right and no pointer
\* or handle tcp_thread or an axis task uses is NULL.
THEOREM AmpleInvariance == AmpleMemory /\ Spec => []AmpleInv
  <1> SUFFICES ASSUME AmpleMemory PROVE Spec => []AmpleInv
    OBVIOUS
  <1>1. AmpleInv /\ [Next]_vars => AmpleInv'
    BY AmpleNext
  <1> QED
    BY <1>1, AmpleInit, PTL DEF Spec

\* AxesAlive: in the receive loop of every session each handle is that of a queue
\* with a task on it, however many sessions came before.
THEOREM AxesAliveSafe == AmpleMemory /\ Spec => []AxesAlive
  <1>1. AmpleInv => AxesAlive
    <2> SUFFICES ASSUME AmpleInv, InLoop, NEW a \in Axes
                 PROVE  handle[a] # 0 /\ waiting[a][handle[a]] + ready[a] > 0
      BY DEF AxesAlive
    <2>1. TypeOK /\ session > 0 /\ ~NotYet(a)
      BY DEF AmpleInv, Inv, TypeOK, InLoop, NotYet
    <2>2. handle[a] # 0 /\ Live(a) /\ handle[a] \in Sessions
      BY <2>1 DEF AmpleInv, CurrentInv, TypeOK, Sessions
    <2>3. waiting[a][handle[a]] \in Nat /\ ready[a] \in Nat
      BY <2>1, <2>2 DEF TypeOK
    <2> QED
      BY <2>2, <2>3 DEF Live
  <1> QED
    BY <1>1, AmpleInvariance, PTL

\* NoBacklog: whenever tcp_thread runs, every queue ever created is empty, so
\* xQueueSend with portMAX_DELAY finds room.
THEOREM NoBacklogSafe == AmpleMemory /\ Spec => []NoBacklog
  <1>1. AmpleInv => NoBacklog
    <2> SUFFICES ASSUME AmpleInv, TcpRuns, NEW a \in Axes, NEW s \in Sessions
                 PROVE  queue[a][s] = <<>>
      BY DEF NoBacklog
    <2>1. CASE s = handle[a]
      BY <2>1, Quiet DEF AmpleInv, Inv, CurrentInv, Sessions
    <2>2. CASE s # handle[a]
      BY <2>2 DEF AmpleInv, CurrentInv
    <2> QED
      BY <2>1, <2>2
  <1> QED
    BY <1>1, AmpleInvariance, PTL

\* LeakPerSession: between two sessions the heap lacks exactly three queues and
\* three tasks for each session served.
THEOREM LeakExact == AmpleMemory /\ Spec => []LeakPerSession
  <1> USE BoundsAssumption, CostAssumption
  <1>1. AmpleInv => LeakPerSession
    <2> SUFFICES ASSUME AmpleInv, pc = "accept", TcpRuns
                 PROVE  heap = HeapSize - 3 * session * (QueueCost + TaskCost)
      BY DEF LeakPerSession
    <2>1. \A a \in Axes : MsgMemory(a) = 0
      BY Quiet DEF AmpleInv, Inv, CurrentInv, MsgMemory
    <2>2. AxesMemory = 3 * session * (QueueCost + TaskCost) /\ heap \in Nat /\ session \in Nat
      BY DEF AmpleInv, Inv, TypeOK, AxesMemory, Missing
    <2>3. AxesMemory \in Int
      BY <2>2
    <2>4. heap + AxesMemory = HeapSize
      BY <2>1, <2>2, <2>3 DEF AmpleInv, MemoryInv, NetconnMemory, Axes
    <2> QED
      BY <2>2, <2>3, <2>4
  <1> QED
    BY <1>1, AmpleInvariance, PTL

-----------------------------------------------------------------------------
(***************************************************************************)
(* What an HMI gets that opens each session with a STOP frame, changes the *)
(* mode only through STOP and keeps freeRunAxis during a free run: every   *)
(* axis moves as the mode says and the direction flags of the pole are     *)
(* right, for every set of frames and any number of sessions.              *)
(***************************************************************************)

\* The mode bits of a mode the HMI sends, and the axis it runs freely.
BitsOf(mode) == {b \in ModeBits : \/ b = 0 /\ mode \in {"FRUN", "LIFT"}
                                  \/ b = 1 /\ mode \in {"AUTO", "LIFT"}}
AxisOf(name) == IF name = "ARM_" THEN "arm" ELSE "pole"

\* What axis a may be doing in the mode the HMI sent last.
Fits(a, c) == c # "STOP" => /\ c \in Allowed(a, BitsOf(hmiMode))
                            /\ hmiMode = "FRUN" => a = AxisOf(hmiAxis)

\* The message in the queue of axis a.
Queued(a) == IF queue[a][handle[a]] = <<>> THEN None ELSE Head(queue[a][handle[a]])

\* What axis a does once everything TaskTriggerMsg has to send has arrived.
Final(a) == IF outbox[a] # None THEN outbox[a]
            ELSE IF Queued(a) # None THEN Queued(a) ELSE exec[a]

Waits == pc \in {"recv", "next", "write"}

\* Between frames and while a frame is executed: the byte TaskTriggerMsg keeps is
\* that of the HMI's mode, and every axis does what the mode allows or is told to.
ModeInv ==
    /\ pc \in {"arm_init", "pole_init", "lift_init"} => ~hmiOpen
    /\ pc = "trigger" => actual \cap ModeBits = BitsOf(hmiMode) /\ hmiOpen
    /\ Waits /\ hmiOpen => prev \cap ModeBits = BitsOf(hmiMode)
    /\ Waits /\ ~hmiOpen => exec = AllStop
    /\ pc = "trigger" \/ (Waits /\ hmiOpen) => \A a \in Axes : Fits(a, Final(a))

\* An axis has one message under way at most, and starts only from a stop.
StartInv ==
    \A a \in Axes :
        /\ InLoop /\ outbox[a] # None => Queued(a) = None
        /\ pc \notin {"trigger", "stop"} => outbox[a] = None
        /\ exec[a] # "STOP" => outbox[a] \in {"STOP", None} /\ Queued(a) \in {"STOP", None}

\* The flags of pole.c tell what the pole does, at every moment.
FlagInv == /\ cw  = (exec["pole"] = "FREE_RUN_CW")
           /\ ccw = (exec["pole"] = "FREE_RUN_CCW")

DisciplineInv == AmpleInv /\ ModeInv /\ StartInv /\ FlagInv
-----------------------------------------------------------------------------
(* TaskTriggerMsg, one kind of mode change at a time.                      *)

LEMMA BitSets == /\ {0} # {} /\ {1} # {} /\ {0, 1} # {}
                 /\ {0} # {1} /\ {0} # {0, 1} /\ {1} # {0, 1}
  <1>1. 0 \notin {1} /\ 1 \notin {0} /\ 0 \in {0} /\ 1 \in {1}
    OBVIOUS
  <1>2. 0 \in {0, 1} /\ 1 \in {0, 1} /\ 0 \notin {} /\ 1 \notin {}
    OBVIOUS
  <1> QED
    BY <1>1, <1>2, Zenon

\* The axes a change of mode is about.
LEMMA Targets ==
    ASSUME NEW cmd, NEW p
    PROVE  /\ ModeEvent(cmd, p) = {}     => ModeTargets(cmd, p) = {}
           /\ ModeEvent(cmd, p) = {0} /\ ModeActual(cmd) \in {{}, {0}} =>
                 ModeTargets(cmd, p) = {IF cmd.freeRunAxis = "eArm" THEN "arm" ELSE "pole"}
           /\ ModeEvent(cmd, p) = {1}    => ModeTargets(cmd, p) = {"arm", "pole"}
           /\ ModeEvent(cmd, p) = {0, 1} => ModeTargets(cmd, p) = {"lift"}
  <1>1. ModeEvent(cmd, p) = {} => ModeTargets(cmd, p) = {}
    BY BitSets, Zenon DEF ModeTargets
  <1>2. ModeEvent(cmd, p) = {0} /\ ModeActual(cmd) \in {{}, {0}} =>
                 ModeTargets(cmd, p) = {IF cmd.freeRunAxis = "eArm" THEN "arm" ELSE "pole"}
    BY BitSets, Zenon DEF ModeTargets
  <1>3. ModeEvent(cmd, p) = {1}    => ModeTargets(cmd, p) = {"arm", "pole"}
    BY BitSets, Zenon DEF ModeTargets
  <1>4. ModeEvent(cmd, p) = {0, 1} => ModeTargets(cmd, p) = {"lift"}
    BY BitSets, Zenon DEF ModeTargets
  <1> QED
    BY <1>1, <1>2, <1>3, <1>4

\* How an axis may move, mode by mode.
LEMMA AllowedIn ==
    ASSUME NEW a
    PROVE  /\ a # "lift" => /\ Allowed(a, {0}) = {"FREE_RUN_CW", "FREE_RUN_CCW"}
                            /\ Allowed(a, {1}) = {"CLOSED_LOOP"}
                            /\ Allowed(a, {0, 1}) = {}
           /\ a = "lift" => /\ Allowed(a, {0}) = {} /\ Allowed(a, {1}) = {}
                            /\ Allowed(a, {0, 1}) = {"UP", "DOWN"}
           /\ Allowed(a, {}) = {}
  <1>1. a # "lift" => Allowed(a, {0}) = {"FREE_RUN_CW", "FREE_RUN_CCW"}
    BY BitSets, Zenon DEF Allowed
  <1>2. a # "lift" => Allowed(a, {1}) = {"CLOSED_LOOP"}
    BY BitSets, Zenon DEF Allowed
  <1>3. a # "lift" => Allowed(a, {0, 1}) = {}
    BY BitSets, Zenon DEF Allowed
  <1>4. a = "lift" => Allowed(a, {0, 1}) = {"UP", "DOWN"}
    BY BitSets, Zenon DEF Allowed
  <1>5. a = "lift" => Allowed(a, {0}) = {} /\ Allowed(a, {1}) = {}
    BY BitSets, Zenon DEF Allowed
  <1>6. Allowed(a, {}) = {}
    BY BitSets, Zenon DEF Allowed
  <1> QED
    BY <1>1, <1>2, <1>3, <1>4, <1>5, <1>6

\* A frame of the same mode starts nothing.
LEMMA ModeKept ==
    ASSUME NEW a \in Axes, NEW cmd, NEW p, ModeActual(cmd) = p \cap ModeBits
    PROVE  Slot(a, cmd, p) \subseteq {"STOP", None}
  <1>1. ModeEvent(cmd, p) = {}
    BY DEF ModeEvent, ModeActual, EventFlagByte
  <1>2. ModeTargets(cmd, p) = {}
    BY <1>1, Targets
  <1> QED
    BY <1>2 DEF Slot, SendTo, Types, TypeStop

\* A frame of mode STOP starts nothing.
LEMMA StopStartsNothing ==
    ASSUME NEW a \in Axes, NEW cmd, NEW p, ModeActual(cmd) = {}
    PROVE  Slot(a, cmd, p) \subseteq {"STOP", None}
  <1>1. CASE ModeEvent(cmd, p) = {}
    <2>1. ModeTargets(cmd, p) = {}
      BY <1>1, Targets
    <2> QED
      BY <2>1 DEF Slot, SendTo, Types, TypeStop
  <1>2. CASE ModeEvent(cmd, p) # {}
    BY <1>2 DEF Slot, Types, TypeStop
  <1> QED
    BY <1>1, <1>2

\* With control enabled it stops the axes of the mode that ends.
LEMMA StopReaches ==
    ASSUME NEW a \in Axes, NEW cmd, NEW p, ModeActual(cmd) = {}, CtrlEnBit \in p,
           a \in ModeTargets(cmd, p)
    PROVE  Slot(a, cmd, p) = {"STOP"}
  <1>1. ModeEvent(cmd, p) # {}
    BY Targets
  <1>2. Conditioned(cmd, p)
    BY <1>1 DEF Conditioned, ModeEvent
  <1> QED
    BY <1>1, <1>2 DEF Slot, SendTo, Types, TypeStop

\* A frame that leaves mode STOP starts only what its mode allows.
LEMMA StartsAsMode ==
    ASSUME NEW a \in Axes, NEW cmd, NEW p, p \cap ModeBits = {},
           ModeActual(cmd) \in {{0}, {1}, {0, 1}}
    PROVE  /\ Slot(a, cmd, p) \subseteq {"STOP", None} \cup Allowed(a, ModeActual(cmd))
           /\ ModeActual(cmd) = {0} /\ a # (IF cmd.freeRunAxis = "eArm" THEN "arm" ELSE "pole") =>
                 Slot(a, cmd, p) \subseteq {"STOP", None}
  <1> DEFINE m == ModeActual(cmd)
  <1>1. ModeEvent(cmd, p) = m
    BY DEF ModeEvent, ModeActual, EventFlagByte
  <1>2. m # {}
    BY BitSets
  <1>3. CASE CtrlDisabled(cmd, p)
    BY <1>3 DEF Slot, Types, TypeStop
  <1>4. CASE ~CtrlDisabled(cmd, p)
    <2>1. ~TypeStop(cmd, p) /\ TypeStart(cmd, p)
      BY <1>1, <1>2, <1>4 DEF TypeStop, TypeStart
    <2>2. SendTo(cmd, p) \subseteq ModeTargets(cmd, p)
      BY <1>4 DEF SendTo
    <2>3. Slot(a, cmd, p) \subseteq {None} \cup Types(a, cmd, p)
      BY DEF Slot
    <2>4. a \notin ModeTargets(cmd, p) => Slot(a, cmd, p) \subseteq {None}
      BY <2>2 DEF Slot
    <2>5. CASE m = {0}
      <3>1. ModeTargets(cmd, p) = {IF cmd.freeRunAxis = "eArm" THEN "arm" ELSE "pole"}
        BY <1>1, <2>5, Targets
      <3>2. a = "lift" => a \notin ModeTargets(cmd, p)
        BY <3>1
      <3>3. a # "lift" => Types(a, cmd, p) \subseteq Allowed(a, m)
        BY <2>1, <2>5, AllowedIn DEF Types, FreeRun
      <3> QED
        BY <2>3, <2>4, <3>1, <3>2, <3>3
    <2>6. CASE m = {1}
      <3>1. a = "lift" => a \notin ModeTargets(cmd, p)
        BY <1>1, <2>6, Targets
      <3>2. a # "lift" => Types(a, cmd, p) \subseteq Allowed(a, m)
        BY <2>1, <2>6, AllowedIn, BitSets DEF Types
      <3> QED
        BY <2>3, <2>4, <2>6, <3>1, <3>2, BitSets
    <2>7. CASE m = {0, 1}
      <3>1. a # "lift" => a \notin ModeTargets(cmd, p)
        BY <1>1, <2>7, Targets
      <3>2. a = "lift" => Types(a, cmd, p) \subseteq Allowed(a, m)
        BY <2>1, <2>7, AllowedIn DEF Types
      <3> QED
        BY <2>3, <2>4, <2>7, <3>1, <3>2, BitSets
    <2> QED
      BY <2>5, <2>6, <2>7
  <1> QED
    BY <1>3, <1>4

\* An accepted frame has one of the four modes, and TaskTriggerMsg its bits.
LEMMA FrameMode ==
    ASSUME NEW f, NetValuesReceivedFromHMI(f) = ERR_OK
    PROVE  /\ ActualFlagByte(CmdOf(f)) \cap ModeBits = BitsOf(f.mode)
           /\ ModeActual(CmdOf(f)) = BitsOf(f.mode)
           /\ AxisOf(f.freeRunAxis) = (IF CmdOf(f).freeRunAxis = "eArm" THEN "arm" ELSE "pole")
           /\ f.mode = "STOP" => BitsOf(f.mode) = {}
           /\ f.mode # "STOP" => BitsOf(f.mode) \in {{0}, {1}, {0, 1}}
           /\ BitsOf(f.mode) = {0} <=> f.mode = "FRUN"
  <1>1. DatoOK(f)
    BY DEF NetValuesReceivedFromHMI, ERROR_TRAMA_DATO, ERROR_TRAMA_CLIENTE, ERR_OK
  <1>2. /\ f.mode \in {"STOP", "FRUN", "AUTO", "LIFT"}
        /\ f.freeRunAxis \in {"ARM_", "POLE"}
    BY <1>1 DEF DatoOK, Modes, FreeRunAxes
  <1>3. /\ CmdOf(f).mode = Modes[f.mode]
        /\ CmdOf(f).freeRunAxis = FreeRunAxes[f.freeRunAxis]
    BY DEF CmdOf
  <1>4. ActualFlagByte(CmdOf(f)) \cap ModeBits = BitsOf(f.mode)
    BY <1>2, <1>3 DEF ActualFlagByte, BitsOf, Modes, ModeBits, CtrlEnBit
  <1>5. AxisOf(f.freeRunAxis) = (IF CmdOf(f).freeRunAxis = "eArm" THEN "arm" ELSE "pole")
    BY <1>2, <1>3 DEF AxisOf, FreeRunAxes
  <1>6. /\ f.mode = "STOP" => BitsOf(f.mode) = {}
        /\ f.mode = "FRUN" => BitsOf(f.mode) = {0}
        /\ f.mode = "AUTO" => BitsOf(f.mode) = {1}
        /\ f.mode = "LIFT" => BitsOf(f.mode) = {0, 1}
    BY DEF BitsOf, ModeBits
  <1> QED
    BY <1>2, <1>4, <1>5, <1>6, BitSets DEF ModeActual

\* What the bits of any mode tell of it.
LEMMA BitsTell ==
    ASSUME NEW mode
    PROVE  /\ BitsOf(mode) \in {{}, {0}, {1}, {0, 1}}
           /\ BitsOf(mode) = {0} => mode = "FRUN"
           /\ mode = "STOP" => BitsOf(mode) = {}
  BY DEF BitsOf, ModeBits

\* A disciplined HMI only leaves behaviours out.
LEMMA HMIStep == [HMINext]_hmiVars => [Next]_vars
  BY DEF HMINext, HMISends, HMIConnects, Otherwise, hmiVars, Next, TcpThread

\* When tcp_thread runs in the receive loop nothing is queued.
LEMMA NothingQueued ==
    ASSUME AmpleInv, TcpRuns, InLoop, NEW a \in Axes
    PROVE  queue[a][handle[a]] = <<>> /\ Queued(a) = None
  <1>1. TypeOK /\ Live(a)
    BY BoundsAssumption DEF AmpleInv, Inv, TypeOK, CurrentInv, InLoop, NotYet
  <1> QED
    BY <1>1, Quiet DEF Queued

\* Leaving the receive loop sends nothing but stops.
LEMMA LeaveKeeps ==
    ASSUME DisciplineInv, TcpRuns, Waits, NEW st, LeaveLoop(st), UNCHANGED <<tasks, drive>>
    PROVE  ModeInv' /\ StartInv' /\ FlagInv'
  <1>1. \A a \in Axes : Queued(a)' = None
    BY NothingQueued DEF DisciplineInv, Waits, InLoop, Queued, tasks
  <1>2. ModeInv'
    BY DEF LeaveLoop, ModeInv, Waits
  <1>3. StartInv'
    BY <1>1 DEF LeaveLoop, StartInv, AllStop
  <1> QED
    BY <1>2, <1>3 DEF DisciplineInv, FlagInv, drive

\* The frame of a disciplined HMI: what it adds to the outbox fits its mode, and
\* starts no axis that still moves.
LEMMA FrameFits ==
    ASSUME OpensWithStop, DisciplineInv, TcpRuns, Waits, NEW f, Disciplined(f),
           NetValuesReceivedFromHMI(f) = ERR_OK, hmiMode' = f.mode, hmiAxis' = f.freeRunAxis,
           UNCHANGED exec,
           NEW a \in Axes, NEW c \in Slot(a, CmdOf(f), prev)
    PROVE  /\ c \in {"STOP", None} \/ exec[a] = "STOP"
           /\ Fits(a, IF c # None THEN c ELSE exec[a])'
  <1> DEFINE cmd == CmdOf(f)
  <1>1. /\ ModeActual(cmd) = BitsOf(f.mode)
        /\ AxisOf(f.freeRunAxis) = (IF cmd.freeRunAxis = "eArm" THEN "arm" ELSE "pole")
        /\ f.mode = "STOP" => BitsOf(f.mode) = {}
        /\ f.mode # "STOP" => BitsOf(f.mode) \in {{0}, {1}, {0, 1}}
        /\ BitsOf(f.mode) = {0} <=> f.mode = "FRUN"
    BY FrameMode
  <1>2. hmiOpen => /\ prev \cap ModeBits = BitsOf(hmiMode)
                   /\ Fits(a, exec[a])
    <2>1. outbox[a] = None /\ Queued(a) = None
      BY NothingQueued DEF DisciplineInv, StartInv, Waits, InLoop
    <2> QED
      BY <2>1 DEF DisciplineInv, ModeInv, Final
  <1>3. ~hmiOpen => exec[a] = "STOP" /\ f.mode = "STOP"
    BY DEF DisciplineInv, ModeInv, Disciplined, AllStop
  <1> HIDE DEF cmd
  <1>4. CASE ~hmiOpen
    BY <1>1, <1>3, <1>4, StopStartsNothing DEF Fits, cmd
  <1>5. CASE hmiOpen /\ f.mode = hmiMode
    <2>1. c \in {"STOP", None}
      BY <1>1, <1>2, <1>5, ModeKept DEF cmd
    <2>2. hmiMode = "FRUN" => f.freeRunAxis = hmiAxis
      BY DEF Disciplined
    <2>3. Fits(a, exec[a])'
      BY <1>2, <1>5, <2>2 DEF Fits
    <2> QED
      BY <2>1, <2>3 DEF Fits
  <1>6. CASE hmiOpen /\ f.mode = "STOP" /\ hmiMode # "STOP"
    <2>1. c \in {"STOP", None}
      BY <1>1, <1>6, StopStartsNothing DEF cmd
    <2>2. ASSUME exec[a] # "STOP" PROVE c = "STOP"
      <3>1. exec[a] \in Allowed(a, BitsOf(hmiMode)) /\ (hmiMode = "FRUN" => a = AxisOf(hmiAxis))
        BY <1>2, <1>6, <2>2 DEF Fits
      <3>2. CtrlEnBit \in prev
        BY <2>2 DEF DisciplineInv, AmpleInv, Inv, MovingInv, Enabled, Waits
      <3>3. ModeEvent(cmd, prev) = BitsOf(hmiMode) /\ ModeActual(cmd) = {}
        <4>1. ModeActual(cmd) = {} /\ prev \cap ModeBits = BitsOf(hmiMode)
          BY <1>1, <1>2, <1>6
        <4> QED
          BY <4>1 DEF ModeEvent, ModeActual, EventFlagByte
      <3>4. a \in ModeTargets(cmd, prev)
        <4>1. CASE BitsOf(hmiMode) = {}
          BY <3>1, <4>1, AllowedIn
        <4>2. CASE BitsOf(hmiMode) = {0}
          <5>1. a = AxisOf(f.freeRunAxis)
            BY <3>1, <4>2, BitsTell DEF Disciplined
          <5> QED
            BY <1>1, <3>3, <4>2, <5>1, Targets
        <4>3. CASE BitsOf(hmiMode) = {1}
          <5>1. a # "lift"
            BY <3>1, <4>3, AllowedIn
          <5> QED
            BY <3>3, <4>3, <5>1, Targets DEF Axes
        <4>4. CASE BitsOf(hmiMode) = {0, 1}
          <5>1. a = "lift"
            BY <3>1, <4>4, AllowedIn
          <5> QED
            BY <3>3, <4>4, <5>1, Targets
        <4> QED
          BY <4>1, <4>2, <4>3, <4>4, BitsTell
      <3> QED
        BY <3>2, <3>3, <3>4, StopReaches DEF cmd
    <2> QED
      BY <2>1, <2>2 DEF Fits, None
  <1>7. CASE hmiOpen /\ hmiMode = "STOP" /\ f.mode # "STOP"
    <2>1. prev \cap ModeBits = {} /\ exec[a] = "STOP"
      BY <1>2, <1>7, BitsTell, AllowedIn DEF Fits
    <2>2. /\ c \in {"STOP", None} \cup Allowed(a, BitsOf(f.mode))
          /\ f.mode = "FRUN" /\ a # AxisOf(f.freeRunAxis) => c \in {"STOP", None}
      <3>1. /\ Slot(a, cmd, prev) \subseteq {"STOP", None} \cup Allowed(a, ModeActual(cmd))
            /\ ModeActual(cmd) = {0} /\ a # AxisOf(f.freeRunAxis) =>
                  Slot(a, cmd, prev) \subseteq {"STOP", None}
        BY <1>1, <1>7, <2>1, StartsAsMode
      <3> QED
        BY <1>1, <3>1 DEF cmd
    <2> QED
      BY <2>1, <2>2 DEF Fits
  <1> QED
    BY <1>4, <1>5, <1>6, <1>7 DEF Disciplined

\* Every step of the system with such an HMI keeps the invariant.
LEMMA DisciplineNext ==
    ASSUME AmpleMemory, OpensWithStop, DisciplineInv, [HMINext]_hmiVars PROVE DisciplineInv'
  <1>a. AmpleInv'
    BY HMIStep, AmpleNext DEF DisciplineInv
  <1>i. AmpleInv /\ Inv /\ TypeOK /\ MovingInv /\ ModeInv /\ StartInv /\ FlagInv
    BY DEF DisciplineInv, AmpleInv, Inv
  <1>s. InLoop => \A a \in Axes : handle[a] \in Sessions
    BY <1>i, BoundsAssumption DEF AmpleInv, CurrentInv, TypeOK, InLoop, NotYet, Sessions
  <1> SUFFICES ModeInv' /\ StartInv' /\ FlagInv'
    BY <1>a DEF DisciplineInv
  <1>1. ASSUME NEW f \in Frames, HMISends(f) PROVE ModeInv' /\ StartInv' /\ FlagInv'
    <2>1. /\ Disciplined(f) /\ TcpRuns /\ pc \in {"recv", "next"} /\ Waits
          /\ UNCHANGED <<tasks, drive>> /\ UNCHANGED <<handle, queue, exec, cw, ccw, prev>>
          /\ hmiMode' = f.mode /\ hmiAxis' = f.freeRunAxis /\ hmiOpen'
      BY <1>1 DEF HMISends, HandleFrame, Waits, tasks, drive
    <2>2. CASE NetValuesReceivedFromHMI(f) # ERR_OK
      <3>1. LeaveLoop(NetValuesReceivedFromHMI(f))
        BY <1>1, <2>2 DEF HMISends, HandleFrame
      <3> QED
        BY <2>1, <3>1, LeaveKeeps
    <2>3. CASE NetValuesReceivedFromHMI(f) = ERR_OK
      <3>1. /\ pc' = "trigger" /\ actual' = ActualFlagByte(CmdOf(f))
            /\ \A a \in Axes : outbox'[a] \in Slot(a, CmdOf(f), prev)
        BY <1>1, <2>3 DEF HMISends, HandleFrame, Axes
      <3>2. \A a \in Axes : Queued(a)' = None
        BY <1>i, <2>1, NothingQueued DEF Waits, InLoop, Queued
      <3>3. \A a \in Axes : /\ outbox'[a] \in {"STOP", None} \/ exec[a] = "STOP"
                            /\ Fits(a, IF outbox[a] # None THEN outbox[a] ELSE exec[a])'
        <4> TAKE a \in Axes
        <4> DEFINE c == outbox'[a]
        <4>1. c \in Slot(a, CmdOf(f), prev)
          BY <3>1
        <4> HIDE DEF c
        <4>2. /\ c \in {"STOP", None} \/ exec[a] = "STOP"
              /\ c # "STOP" /\ c # None =>
                    /\ c \in Allowed(a, BitsOf(f.mode))
                    /\ f.mode = "FRUN" => a = AxisOf(f.freeRunAxis)
              /\ c = None /\ exec[a] # "STOP" =>
                    /\ exec[a] \in Allowed(a, BitsOf(f.mode))
                    /\ f.mode = "FRUN" => a = AxisOf(f.freeRunAxis)
          BY <2>1, <2>3, <4>1, FrameFits DEF Fits
        <4> QED
          BY <2>1, <4>2 DEF c, Fits
      <3>4. ModeInv'
        <4>1. \A a \in Axes : Fits(a, Final(a))'
          BY <3>2, <3>3 DEF Final
        <4> QED
          BY <2>1, <2>3, <3>1, <4>1, FrameMode DEF ModeInv, Waits
      <3>5. StartInv'
        BY <2>1, <3>1, <3>2, <3>3 DEF StartInv
      <3> QED
        BY <1>i, <2>1, <3>4, <3>5 DEF FlagInv
    <2> QED
      BY <2>2, <2>3
  <1>2. CASE HMIConnects
    <2>1. /\ pc = "accept" /\ pc' = "arm_init" /\ ~hmiOpen'
          /\ UNCHANGED <<outbox, handle, queue, exec, cw, ccw>>
      BY <1>2 DEF HMIConnects, Accept, tasks, drive
    <2>2. \A a \in Axes : exec[a] = "STOP"
      BY <1>i, <2>1 DEF MovingInv, InLoop
    <2>3. ModeInv'
      BY <2>1 DEF ModeInv, Waits
    <2>4. StartInv'
      BY <1>i, <2>1, <2>2 DEF StartInv, InLoop
    <2> QED
      BY <1>i, <2>1, <2>3, <2>4 DEF FlagInv
  <1>3. ASSUME InitAxes, UNCHANGED <<hmiMode, hmiAxis, hmiOpen>>
        PROVE  ModeInv' /\ StartInv' /\ FlagInv'
    <2>1. /\ pc \in {"arm_init", "pole_init", "lift_init"}
          /\ pc' \in {"pole_init", "lift_init", "recv"}
          /\ UNCHANGED <<outbox, queue, exec, cw, ccw>>
      BY <1>3 DEF InitAxes, AxisInit, drive
    <2>2. exec = AllStop
      BY <1>i, <2>1 DEF MovingInv, InLoop, TypeOK, AllStop
    <2>3. ModeInv'
      BY <1>i, <1>3, <2>1, <2>2 DEF ModeInv, Waits
    <2>4. StartInv'
      BY <1>i, <2>1, <2>2 DEF StartInv, AllStop
    <2> QED
      BY <1>i, <2>1, <2>3, <2>4 DEF FlagInv
  <1>4. ASSUME NEW a \in Axes, Send(a), UNCHANGED <<hmiMode, hmiAxis, hmiOpen>>
        PROVE  ModeInv' /\ StartInv' /\ FlagInv'
    <2> DEFINE h == handle[a]
    <2>1. /\ TcpRuns /\ pc \in {"trigger", "stop"} /\ InLoop /\ outbox[a] # None
          /\ queue' = [queue EXCEPT ![a][h] = Append(@, outbox[a])]
          /\ outbox' = [outbox EXCEPT ![a] = None]
          /\ UNCHANGED <<pc, prev, actual, handle, exec, cw, ccw>>
      BY <1>4 DEF Send, Turn, InLoop, drive
    <2>2. /\ queue \in [Axes -> [Sessions -> Seq(Commands)]]
          /\ outbox \in [Axes -> Commands \cup {None}]
          /\ \A b \in Axes : handle[b] \in Sessions
      BY <1>i, <1>s, <2>1 DEF TypeOK
    <2>3. \A b \in Axes : Queued(b) = None
      BY <1>i, <2>1, NothingQueued
    <2>4. Queued(a)' = outbox[a]
      <3>1. queue[a][h] = <<>>
        BY <1>i, <2>1, NothingQueued
      <3>2. queue'[a][h] = Append(<<>>, outbox[a])
        BY <2>1, <2>2, <3>1
      <3>3. queue'[a][h] # <<>> /\ Head(queue'[a][h]) = outbox[a]
        BY <3>2, EmptySeq, AppendProperties, HeadTailAppend
      <3> QED
        BY <2>1, <3>3 DEF Queued
    <2>5. /\ outbox'[a] = None
          /\ \A b \in Axes \ {a} : outbox'[b] = outbox[b] /\ Queued(b)' = Queued(b)
      BY <2>1, <2>2 DEF Queued
    <2>6. \A b \in Axes : Final(b)' = Final(b)
      BY <2>1, <2>3, <2>4, <2>5 DEF Final
    <2>7. ModeInv'
      BY <1>i, <1>4, <2>1, <2>6 DEF ModeInv, Waits, Fits
    <2>8. StartInv'
      BY <1>i, <2>1, <2>3, <2>4, <2>5 DEF StartInv, InLoop
    <2> QED
      BY <1>i, <2>1, <2>7, <2>8 DEF FlagInv
  <1>5. ASSUME TriggerReturns \/ WriteOK \/ NetbufEnd, UNCHANGED <<hmiMode, hmiAxis, hmiOpen>>
        PROVE  ModeInv' /\ StartInv' /\ FlagInv'
    <2>1. /\ UNCHANGED <<outbox, handle, queue, exec, cw, ccw>>
          /\ pc \in {"trigger", "write", "next"} /\ pc' \in {"recv", "next", "write"}
          /\ pc = "trigger" => prev' = actual /\ outbox = NoMsgs
          /\ pc # "trigger" => prev' = prev
      BY <1>5 DEF TriggerReturns, WriteOK, NetbufEnd, tasks, drive
    <2>2. \A a \in Axes : /\ Final(a)' = Final(a) /\ Queued(a)' = Queued(a)
                          /\ pc = "trigger" => outbox[a] = None
      BY <2>1 DEF Final, Queued, NoMsgs
    <2>3. ModeInv'
      BY <1>i, <1>5, <2>1, <2>2 DEF ModeInv, Waits, Fits
    <2>4. StartInv'
      BY <1>i, <2>1, <2>2 DEF StartInv
    <2> QED
      BY <1>i, <2>1, <2>3, <2>4 DEF FlagInv
  <1>6. CASE WriteFails \/ RecvFails
    BY <1>6, LeaveKeeps DEF WriteFails, RecvFails, Waits
  <1>7. CASE Close
    <2>1. /\ pc' = "accept" /\ pc = "stop" /\ outbox = NoMsgs
          /\ UNCHANGED <<outbox, handle, queue, exec, cw, ccw>>
      BY <1>7 DEF Close, tasks, drive
    <2>2. ModeInv'
      BY <2>1 DEF ModeInv, Waits
    <2>3. StartInv'
      BY <1>i, <2>1 DEF StartInv, Queued, NoMsgs, InLoop
    <2> QED
      BY <1>i, <2>1, <2>2, <2>3 DEF FlagInv
  <1>8. ASSUME NEW a \in Axes, AxisReceive(a), UNCHANGED <<hmiMode, hmiAxis, hmiOpen>>
        PROVE  ModeInv' /\ StartInv' /\ FlagInv'
    <2>1. UNCHANGED <<pc, prev, actual, outbox, handle, queue, exec, cw, ccw>>
      BY <1>8 DEF AxisReceive, net, drive
    <2> QED
      BY <1>i, <1>8, <2>1
      DEF ModeInv, StartInv, FlagInv, Waits, InLoop, Fits, Final, Queued
  <1>9. ASSUME NEW a \in Axes, NEW s \in Sessions, AxisExecute(a, s),
               UNCHANGED <<hmiMode, hmiAxis, hmiOpen>>
        PROVE  ModeInv' /\ StartInv' /\ FlagInv'
    <2> DEFINE c == Head(queue[a][s])
    <2>1. /\ UNCHANGED <<pc, prev, actual, outbox, handle>>
          /\ exec' = [exec EXCEPT ![a] = c]
          /\ queue' = [queue EXCEPT ![a][s] = Tail(@)]
          /\ queue[a][s] # <<>>
          /\ IF a = "pole" THEN PoleFlags(c) ELSE UNCHANGED <<cw, ccw>>
      BY <1>9 DEF AxisExecute, Served, net
    <2>2. s = handle[a] /\ Tail(queue[a][s]) = <<>> /\ pc \in {"trigger", "stop"}
      BY <1>9, <1>i, ExecutesCurrent
    <2>3. /\ queue \in [Axes -> [Sessions -> Seq(Commands)]]
          /\ exec \in [Axes -> Commands]
          /\ \A b \in Axes : handle[b] \in Sessions
      BY <1>i, <1>s, <2>2 DEF TypeOK, InLoop
    <2>4. c \in Commands /\ c # None
      BY <2>1, <2>3 DEF Commands, MotTypes, LiftTypes, None
    <2>5. Queued(a) = c /\ Queued(a)' = None /\ exec'[a] = c
      BY <2>1, <2>2, <2>3 DEF Queued
    <2>6. outbox[a] = None /\ (exec[a] # "STOP" => c = "STOP")
      BY <1>i, <2>2, <2>4, <2>5 DEF StartInv, InLoop
    <2>7. \A b \in Axes \ {a} : Queued(b)' = Queued(b) /\ exec'[b] = exec[b]
      BY <2>1, <2>3 DEF Queued
    <2> HIDE DEF c
    <2>8. \A b \in Axes : Final(b)' = Final(b)
      BY <2>1, <2>4, <2>5, <2>6, <2>7 DEF Final
    <2>9. ModeInv'
      BY <1>i, <1>9, <2>1, <2>2, <2>8 DEF ModeInv, Waits, Fits
    <2>10. StartInv'
      BY <1>i, <2>1, <2>5, <2>6, <2>7 DEF StartInv, InLoop
    <2>11. FlagInv'
      <3>1. CASE a = "pole"
        <4>1. /\ cw'  = (c = "FREE_RUN_CW"  \/ (c # "STOP" /\ cw))
              /\ ccw' = (c = "FREE_RUN_CCW" \/ (c # "STOP" /\ ccw))
          BY <2>1, <3>1 DEF PoleFlags
        <4>2. c # "STOP" => ~cw /\ ~ccw
          BY <1>i, <2>6, <3>1 DEF FlagInv
        <4> QED
          BY <2>5, <3>1, <4>1, <4>2 DEF FlagInv
      <3>2. CASE a # "pole"
        BY <1>i, <2>1, <2>7, <3>2 DEF FlagInv, Axes
      <3> QED
        BY <3>1, <3>2
    <2> QED
      BY <2>9, <2>10, <2>11
  <1>10. CASE UNCHANGED hmiVars
    BY <1>i, <1>10 DEF hmiVars, vars, net, tasks, drive, ModeInv, StartInv, FlagInv, Waits,
                       InLoop, Fits, Final, Queued
  <1> QED
    BY <1>1, <1>2, <1>3, <1>4, <1>5, <1>6, <1>7, <1>8, <1>9, <1>10
    DEF HMINext, Otherwise, AxisTask

\* It holds at the start.
LEMMA DisciplineInit == HMIInit => DisciplineInv
  <1> SUFFICES ASSUME HMIInit PROVE DisciplineInv
    OBVIOUS
  <1>1. AmpleInv
    BY AmpleInit DEF HMIInit
  <1>2. ModeInv /\ FlagInv
    BY DEF HMIInit, Init, ModeInv, FlagInv, Waits, AllStop, Axes
  <1>3. StartInv
    BY DEF HMIInit, Init, StartInv, AllStop, NoMsgs, InLoop
  <1> QED
    BY <1>1, <1>2, <1>3 DEF DisciplineInv

\* The invariant of the sessions of a disciplined HMI.
THEOREM DisciplineInvariance == OpensWithStop /\ HMISpec => []DisciplineInv
  <1> SUFFICES ASSUME OpensWithStop PROVE HMISpec => []DisciplineInv
    OBVIOUS
  <1>1. CASE AmpleMemory
    <2>1. DisciplineInv /\ [HMINext]_hmiVars => DisciplineInv'
      BY <1>1, DisciplineNext
    <2> QED
      BY <2>1, DisciplineInit, PTL DEF HMISpec
  <1>2. CASE ~AmpleMemory
    <2>1. ~HMIInit
      BY <1>2 DEF HMIInit
    <2> QED
      BY <2>1, PTL DEF HMISpec
  <1> QED
    BY <1>1, <1>2

\* MovesAsMode: between two frames an axis that moves does so as the mode of the
\* last frame asks, whatever flag byte the session before left behind.
THEOREM MovesAsModeSafe == OpensWithStop /\ HMISpec => []MovesAsMode
  <1>1. DisciplineInv => MovesAsMode
    <2> SUFFICES ASSUME DisciplineInv, Waits, NEW a \in Axes, exec[a] # "STOP"
                 PROVE  exec[a] \in Allowed(a, prev \cap ModeBits)
      BY DEF MovesAsMode, Waits
    <2>1. hmiOpen /\ outbox[a] = None
      BY DEF DisciplineInv, ModeInv, StartInv, AllStop, Waits
    <2>2. Queued(a) = None
      <3>1. Live(a)
        BY DEF DisciplineInv, AmpleInv, Inv, MovingInv
      <3> QED
        BY <3>1 DEF DisciplineInv, AmpleInv, Inv, LiveQueueInv, Waits, Queued
    <2>3. Final(a) = exec[a]
      BY <2>1, <2>2 DEF Final
    <2> QED
      BY <2>1, <2>3 DEF DisciplineInv, ModeInv, Fits
  <1> QED
    BY <1>1, DisciplineInvariance, PTL

\* DirectionFlags: the flags of pole.c tell what the pole does.
THEOREM DirectionFlagsSafe == OpensWithStop /\ HMISpec => []DirectionFlags
  <1>1. DisciplineInv => DirectionFlags
    BY DEF DisciplineInv, FlagInv, DirectionFlags
  <1> QED
    BY <1>1, DisciplineInvariance, PTL
===============================================================================
