------------------------------ MODULE RtuSession ------------------------------
(***************************************************************************)
(* The RTU server: tcp_thread of rtu_com_hmi.c, which serves one HMI at a  *)
(* time, and the tasks of arm.c, pole.c and lift.c that execute the        *)
(* commands it sends through FreeRTOS queues.                              *)
(*                                                                         *)
(* Every accepted connection creates the three queues and tasks again and  *)
(* overwrites the global queue handles; nothing deletes the old ones.      *)
(* Queues are therefore numbered by the session that created them and      *)
(* tasks, which are all alike, are counted: waiting[a][s] tasks of axis a  *)
(* are blocked in xQueueReceive on the queue of session s, ready[a] are    *)
(* about to call it with whatever handle is current then.                  *)
(*                                                                         *)
(* Axis tasks have priority 4 and tcp_thread has priority 1, so tcp_thread *)
(* only takes a step when no axis task can (TcpRuns).                      *)
(*                                                                         *)
(* lwIP appears through what its netconn calls return to tcp_thread.       *)
(* netbuf_data cannot fail on a buffer netconn_recv has just returned, so  *)
(* that error path has no action.  A store through a NULL pointer or a     *)
(* NULL queue handle faults and leaves the processor in HardFault_Handler. *)
(***************************************************************************)
EXTENDS TaskTrigger, Sequences

CONSTANTS
    Frames,        \* frames the HMI may send
    QueueLength,   \* length of each axis queue (5 in the code)
    MaxSessions,   \* bound on the number of connections accepted
    HeapSize,      \* memory pvPortMalloc can hand out
    NetconnCost,   \* memory lwIP takes for one accepted connection
    QueueCost,     \* memory of one axis queue
    TaskCost,      \* memory of one axis task, stack included
    MsgCost        \* memory of one message

ASSUME FramesAssumption == Frames \subseteq HMIData
ASSUME BoundsAssumption == /\ QueueLength \in Nat \ {0}
                           /\ MaxSessions \in Nat \ {0}
ASSUME CostAssumption   == /\ HeapSize \in Nat
                           /\ NetconnCost \in Nat
                           /\ QueueCost \in Nat
                           /\ TaskCost \in Nat
                           /\ MsgCost \in Nat

\* Memory for one connection, the queues and tasks of every session and one message.
AmpleMemory ==
    HeapSize >= NetconnCost + 3 * MaxSessions * (QueueCost + TaskCost) + MsgCost

VARIABLES
    pc,        \* where tcp_thread is
    status,    \* iServerStatus
    prev,      \* ucPreviousFlagByte, static: it outlives the session
    actual,    \* ucActualFlagByte of the TaskTriggerMsg call in progress
    outbox,    \* for each axis the message still to be sent by the call in progress
    session,   \* number of connections accepted so far
    handle,    \* arm_queue, pole_queue, lift_queue: a session, or 0 for NULL
    queue,     \* contents of each queue ever created
    waiting,   \* axis tasks blocked on each queue
    ready,     \* axis tasks about to call xQueueReceive
    exec,      \* the command each axis executed last
    cw, ccw,   \* the flags of pole.c
    heap,      \* free memory
    halted     \* a processor fault: HardFault_Handler loops and nothing runs

net   == <<pc, status, prev, actual, outbox, session>>
tasks == <<handle, queue, waiting, ready>>
drive == <<exec, cw, ccw>>
vars  == <<net, tasks, drive, heap, halted>>

Sessions == 1 .. MaxSessions
NoMsgs   == [a \in Axes |-> None]
AllStop  == [a \in Axes |-> "STOP"]

PCs == {"accept", "arm_init", "pole_init", "lift_init", "recv", "next",
        "trigger", "write", "stop"}

Statuses == {ERR_OK, ERROR_TRAMA_VACIA, ERROR_TRAMA_LARGO, ERROR_TRAMA_DATO,
             ERROR_TRAMA_CLIENTE, ERROR_NETCONN}

Init ==
    /\ pc = "accept"
    /\ status = ERR_OK
    /\ prev = {} /\ actual = {}
    /\ outbox = NoMsgs
    /\ session = 0
    /\ handle = [a \in Axes |-> 0]
    /\ queue = [a \in Axes |-> [s \in Sessions |-> <<>>]]
    /\ waiting = [a \in Axes |-> [s \in Sessions |-> 0]]
    /\ ready = [a \in Axes |-> 0]
    /\ exec = AllStop
    /\ cw = FALSE /\ ccw = FALSE
    /\ heap = HeapSize
    /\ halted = FALSE

-----------------------------------------------------------------------------
(* Scheduling.                                                             *)

\* A task of axis a is blocked on the queue of session s and a message is there.
Served(a, s) == waiting[a][s] > 0 /\ queue[a][s] # <<>>

AxisTaskRuns(a) == ready[a] > 0 \/ \E s \in Sessions : Served(a, s)

\* Mutant: axis tasks do not preempt tcp_thread.
TcpRunsAnyTime == ~halted

TcpRuns == ~halted /\ \A a \in Axes : ~AxisTaskRuns(a)

-----------------------------------------------------------------------------
(* The axis tasks.                                                         *)

\* xQueueReceive with the handle of the moment; an empty queue blocks the task.
\* A NULL handle is dereferenced.
AxisReceive(a) ==
    /\ ~halted
    /\ ready[a] > 0
    /\ IF handle[a] = 0
       THEN halted' = TRUE /\ UNCHANGED <<waiting, ready>>
       ELSE /\ waiting' = [waiting EXCEPT ![a][handle[a]] = @ + 1]
            /\ ready' = [ready EXCEPT ![a] = @ - 1]
            /\ UNCHANGED halted
    /\ UNCHANGED <<net, handle, queue, drive, heap>>

\* Mutant: a stop leaves ccw as it is.
PoleFlagsKeepCcw(c) ==
    /\ cw'  = (c = "FREE_RUN_CW"  \/ (c # "STOP" /\ cw))
    /\ ccw' = (c = "FREE_RUN_CCW" \/ ccw)

\* The flags of pole.c: a free run sets one, only a stop clears them.
PoleFlags(c) ==
    /\ cw'  = (c = "FREE_RUN_CW"  \/ (c # "STOP" /\ cw))
    /\ ccw' = (c = "FREE_RUN_CCW" \/ (c # "STOP" /\ ccw))

\* Mutant: the task handles one message and ends.
AxisExecuteOnce(a, s) ==
    /\ ~halted
    /\ Served(a, s)
    /\ exec' = [exec EXCEPT ![a] = Head(queue[a][s])]
    /\ IF a = "pole" THEN PoleFlags(Head(queue[a][s])) ELSE UNCHANGED <<cw, ccw>>
    /\ queue' = [queue EXCEPT ![a][s] = Tail(@)]
    /\ waiting' = [waiting EXCEPT ![a][s] = @ - 1]
    /\ heap' = heap + MsgCost
    /\ UNCHANGED <<net, handle, ready, halted>>

\* Mutant: the message is not freed.
AxisExecuteNoFree(a, s) ==
    /\ ~halted
    /\ Served(a, s)
    /\ exec' = [exec EXCEPT ![a] = Head(queue[a][s])]
    /\ IF a = "pole" THEN PoleFlags(Head(queue[a][s])) ELSE UNCHANGED <<cw, ccw>>
    /\ queue' = [queue EXCEPT ![a][s] = Tail(@)]
    /\ waiting' = [waiting EXCEPT ![a][s] = @ - 1]
    /\ ready' = [ready EXCEPT ![a] = @ + 1]
    /\ UNCHANGED <<net, handle, heap, halted>>

\* A blocked task takes the message, executes it, frees it and loops.
AxisExecute(a, s) ==
    /\ ~halted
    /\ Served(a, s)
    /\ exec' = [exec EXCEPT ![a] = Head(queue[a][s])]
    /\ IF a = "pole" THEN PoleFlags(Head(queue[a][s])) ELSE UNCHANGED <<cw, ccw>>
    /\ queue' = [queue EXCEPT ![a][s] = Tail(@)]
    /\ waiting' = [waiting EXCEPT ![a][s] = @ - 1]
    /\ ready' = [ready EXCEPT ![a] = @ + 1]
    /\ heap' = heap + MsgCost
    /\ UNCHANGED <<net, handle, halted>>

-----------------------------------------------------------------------------
(* tcp_thread.                                                             *)

\* netconn_accept returns a connection.
Accept ==
    /\ pc = "accept" /\ TcpRuns
    /\ session < MaxSessions
    /\ heap >= NetconnCost
    /\ pc' = "arm_init"
    /\ status' = ERR_OK
    /\ session' = session + 1
    /\ heap' = heap - NetconnCost
    /\ UNCHANGED <<prev, actual, outbox, tasks, drive, halted>>

\* arm_init, pole_init, lift_init: xQueueCreate, then xTaskCreate; the results
\* are not looked at.
QueueCreated == heap >= QueueCost
TaskCreated  == heap >= TaskCost + (IF QueueCreated THEN QueueCost ELSE 0)

AxisInit(a, at, then) ==
    /\ pc = at /\ TcpRuns
    /\ pc' = then
    /\ handle' = [handle EXCEPT ![a] = IF QueueCreated THEN session ELSE 0]
    /\ ready' = [ready EXCEPT ![a] = IF TaskCreated THEN @ + 1 ELSE @]
    /\ heap' = heap - (IF QueueCreated THEN QueueCost ELSE 0)
                    - (IF TaskCreated THEN TaskCost ELSE 0)
    /\ UNCHANGED <<status, prev, actual, outbox, session, queue, waiting, drive, halted>>

InitAxes == \/ AxisInit("arm", "arm_init", "pole_init")
            \/ AxisInit("pole", "pole_init", "lift_init")
            \/ AxisInit("lift", "lift_init", "recv")

\* Mutant: the emergency stop leaves the lift out.
LeaveLoopForgetsLift(st) ==
    pc' = "stop" /\ status' = st /\ outbox' = [AllStop EXCEPT !["lift"] = None]

\* Leaving the receive loop: prvEmergencyStop is about to send its messages.
LeaveLoop(st) == pc' = "stop" /\ status' = st /\ outbox' = AllStop

\* NetValuesReceivedFromHMI on a frame, and TaskTriggerMsg up to its first send.
\* "recv" is the first pbuf of a netbuf, "next" a later one of its chain.
HandleFrame(f) ==
    /\ pc \in {"recv", "next"} /\ TcpRuns
    /\ IF NetValuesReceivedFromHMI(f) # ERR_OK
       THEN /\ LeaveLoop(NetValuesReceivedFromHMI(f))
            /\ UNCHANGED <<prev, actual>>
       ELSE LET cmd == CmdOf(f) IN
            /\ status' = ERR_OK
            /\ actual' = ActualFlagByte(cmd)
            /\ \E m \in Slot("arm", cmd, prev), n \in Slot("pole", cmd, prev),
                  l \in Slot("lift", cmd, prev) :
                    outbox' = [arm |-> m, pole |-> n, lift |-> l]
            /\ pc' = "trigger"
            /\ UNCHANGED prev
    /\ UNCHANGED <<session, tasks, drive, heap, halted>>

\* The axes are served in the order arm, pole, lift.
Rank == [arm |-> 1, pole |-> 2, lift |-> 3]
Turn(a) == /\ outbox[a] # None
           /\ \A b \in Axes : outbox[b] # None => Rank[a] <= Rank[b]

\* pvPortMalloc and xQueueSend(..., portMAX_DELAY) of one message; a full queue
\* blocks tcp_thread.
Send(a) ==
    /\ pc \in {"trigger", "stop"} /\ TcpRuns
    /\ Turn(a)
    /\ heap >= MsgCost
    /\ handle[a] # 0
    /\ Len(queue[a][handle[a]]) < QueueLength
    /\ queue' = [queue EXCEPT ![a][handle[a]] = Append(@, outbox[a])]
    /\ heap' = heap - MsgCost
    /\ outbox' = [outbox EXCEPT ![a] = None]
    /\ UNCHANGED <<pc, status, prev, actual, session, handle, waiting, ready, drive, halted>>

\* The result of pvPortMalloc and the queue handle are used unchecked.
SendFaults(a) ==
    /\ pc \in {"trigger", "stop"} /\ TcpRuns
    /\ Turn(a)
    /\ heap < MsgCost \/ handle[a] = 0
    /\ halted' = TRUE
    /\ UNCHANGED <<net, tasks, drive, heap>>

\* TaskTriggerMsg ends: everything is sent, the flag byte is stored.
TriggerReturns ==
    /\ pc = "trigger" /\ TcpRuns
    /\ outbox = NoMsgs
    /\ prev' = actual
    /\ pc' = "write"
    /\ UNCHANGED <<status, actual, outbox, session, tasks, drive, heap, halted>>

\* netconn_write of the reply, whose contents are constants of the drivers.
WriteOK ==
    /\ pc = "write" /\ TcpRuns
    /\ pc' = "next"
    /\ UNCHANGED <<status, prev, actual, outbox, session, tasks, drive, heap, halted>>

WriteFails ==
    /\ pc = "write" /\ TcpRuns
    /\ LeaveLoop(ERROR_NETCONN)
    /\ UNCHANGED <<prev, actual, session, tasks, drive, heap, halted>>

\* netbuf_next finds no other pbuf: back to netconn_recv.
NetbufEnd ==
    /\ pc = "next" /\ TcpRuns
    /\ pc' = "recv"
    /\ UNCHANGED <<status, prev, actual, outbox, session, tasks, drive, heap, halted>>

\* netconn_recv gives up: RCV_TIMEO elapsed, or the connection is gone.
RecvFails ==
    /\ pc = "recv" /\ TcpRuns
    /\ LeaveLoop(status)
    /\ UNCHANGED <<prev, actual, session, tasks, drive, heap, halted>>

\* prvEmergencyStop returns; netconn_close and netconn_delete.
Close ==
    /\ pc = "stop" /\ TcpRuns
    /\ outbox = NoMsgs
    /\ pc' = "accept"
    /\ heap' = heap + NetconnCost
    /\ UNCHANGED <<status, prev, actual, outbox, session, tasks, drive, halted>>

TcpThread == \/ Accept
             \/ InitAxes
             \/ \E f \in Frames : HandleFrame(f)
             \/ \E a \in Axes : Send(a)
             \/ \E a \in Axes : SendFaults(a)
             \/ TriggerReturns
             \/ WriteOK
             \/ WriteFails
             \/ NetbufEnd
             \/ RecvFails
             \/ Close

AxisTask(a) == \/ AxisReceive(a)
               \/ \E s \in Sessions : AxisExecute(a, s)

Next == TcpThread \/ \E a \in Axes : AxisTask(a)

Spec == Init /\ [][Next]_vars

\* Fairness.  Axis tasks and tcp_thread are scheduled whenever nothing of a
\* higher priority is ready; netconn_recv returns within RCV_TIMEO; the chain of
\* pbufs of a netbuf is finite.  The HMI need never connect or send.
Fairness ==
    /\ \A a \in Axes : WF_vars(AxisTask(a))
    /\ WF_vars(InitAxes)
    /\ WF_vars(\E a \in Axes : Send(a))
    /\ WF_vars(TriggerReturns)
    /\ SF_vars(NetbufEnd)
    /\ WF_vars(RecvFails)
    /\ WF_vars(Close)

\* netconn_write has no timeout: it returns because the HMI takes the replies
\* or because TCP gives up on an HMI that no longer answers.
HMIReads == WF_vars(WriteOK \/ WriteFails)

FairSpec == Spec /\ Fairness /\ HMIReads

-----------------------------------------------------------------------------
(* Properties.                                                             *)

\* Every variable stays in the range of the C object it stands for.
TypeOK ==
    /\ pc \in PCs
    /\ status \in Statuses
    /\ prev \in FlagByte /\ actual \in FlagByte
    /\ outbox \in [Axes -> Commands \cup {None}]
    /\ session \in 0 .. MaxSessions
    /\ handle \in [Axes -> 0 .. MaxSessions]
    /\ queue \in [Axes -> [Sessions -> Seq(Commands)]]
    /\ \A a \in Axes, s \in Sessions : Len(queue[a][s]) <= QueueLength
    /\ waiting \in [Axes -> [Sessions -> Nat]]
    /\ ready \in [Axes -> Nat]
    /\ exec \in [Axes -> Commands]
    /\ cw \in BOOLEAN /\ ccw \in BOOLEAN
    /\ heap \in Nat /\ halted \in BOOLEAN

InLoop == pc \in {"recv", "next", "trigger", "write", "stop"}

\* Within the receive loop each queue handle names a queue that a task serves.
AxesAlive ==
    InLoop => \A a \in Axes : handle[a] # 0 /\ waiting[a][handle[a]] + ready[a] > 0

\* Whenever tcp_thread can run, every message ever sent has been executed: no
\* message is left behind in the queue of an earlier session, and xQueueSend
\* with portMAX_DELAY has room.
NoBacklog ==
    TcpRuns => \A a \in Axes, s \in Sessions : queue[a][s] = <<>>

\* Once the receive loop of a session is left, no axis starts to move before
\* the first frame of the next session.
NothingStartsOffline ==
    [][ pc # "trigger" =>
            \A a \in Axes : exec'[a] # exec[a] => exec'[a] = "STOP" ]_vars

\* The memory lost for good is that of three queues and three tasks a session;
\* every message and every connection is given back.
LeakPerSession ==
    pc = "accept" /\ TcpRuns =>
        heap = HeapSize - 3 * session * (QueueCost + TaskCost)

\* The interlock of Interlock.tla.  Control counts as enabled from the frame
\* that enables it until TaskTriggerMsg has stored a flag byte without ctrlEn.
Promise == INSTANCE Interlock WITH
    Stop    <- "STOP",
    online  <- InLoop,
    enabled <- CtrlEnBit \in prev \/ (pc = "trigger" /\ CtrlEnBit \in actual),
    drive   <- exec

ImplementsInterlock == Promise!Spec

\* With no HMI served, and between two frames while control is disabled, every
\* axis is stopped.
StoppedUnlessEnabled ==
    ~InLoop \/ (pc \in {"recv", "next", "write"} /\ CtrlEnBit \notin prev) => exec = AllStop

\* How an axis may move in each mode.
Allowed(a, mode) ==
    CASE mode = {0} /\ a # "lift" -> {"FREE_RUN_CW", "FREE_RUN_CCW"}
      [] mode = {1} /\ a # "lift" -> {"CLOSED_LOOP"}
      [] mode = {0, 1} /\ a = "lift" -> {"UP", "DOWN"}
      [] OTHER -> {}

\* Between two frames an axis that moves does so as the mode of the last frame
\* asks; in mode STOP nothing moves.
MovesAsMode ==
    pc \in {"recv", "next", "write"} =>
        \A a \in Axes : exec[a] # "STOP" => exec[a] \in Allowed(a, prev \cap ModeBits)

\* Between two frames the direction flags of pole.c tell what the pole does: at
\* most one is set, and only while the pole runs freely in that direction.
DirectionFlags ==
    pc \in {"recv", "next", "write"} =>
        /\ cw  = (exec["pole"] = "FREE_RUN_CW")
        /\ ccw = (exec["pole"] = "FREE_RUN_CCW")

\* Between two frames, in mode STOP, no axis is left in a free run.
StopEndsFreeRun ==
    pc = "recv" /\ prev \cap ModeBits = {} =>
        \A a \in Axes : exec[a] \notin {"FREE_RUN_CW", "FREE_RUN_CCW"}

\* An axis that moves is always under the watch of netconn_recv again, or is
\* stopped.
WatchdogRearmed == (exec # AllStop) ~> (pc = "recv" \/ exec = AllStop)

\* Leaving the receive loop stops every axis and frees the server for the next
\* HMI.
LossStopsAll == (pc = "stop") ~> (pc = "accept" /\ exec = AllStop)

-----------------------------------------------------------------------------
(* Frames for small instances.                                             *)

Good == [len |-> 41, velCmdArm |-> 8, velCmdPole |-> 0, mode |-> "STOP",
         freeRunAxis |-> "ARM_", freeRunDir |-> "CW__", ctrlEn |-> "CTLE",
         stallEn |-> "DSTL", liftDir |-> "LFUP", clientId |-> "SM13"]

\* Every combination of the fields TaskTriggerMsg looks at.
GoodFrames ==
    {[Good EXCEPT !.mode = m, !.freeRunAxis = x, !.freeRunDir = d,
                  !.ctrlEn = c, !.liftDir = l] :
        m \in DOMAIN Modes, x \in DOMAIN FreeRunAxes, d \in DOMAIN FreeRunDirs,
        c \in DOMAIN CtrlEns, l \in DOMAIN LiftDirs}

\* One frame for each way a frame is rejected.
BadFrames ==
    {[Good EXCEPT !.len = 0], [Good EXCEPT !.len = 82],
     [Good EXCEPT !.clientId = "SM14"], [Good EXCEPT !.velCmdPole = 9],
     [Good EXCEPT !.mode = "MOVE", !.ctrlEn = "DCTL"],
     [Good EXCEPT !.liftDir = "LFUQ"]}

MCFrames == GoodFrames \cup BadFrames

\* One direction of each kind.
FewFrames == {f \in GoodFrames : f.freeRunDir = "CW__" /\ f.liftDir = "LFUP"}
                \cup {[Good EXCEPT !.len = 82]}
\* The four modes alone.
ModeFrames == {f \in FewFrames : f.freeRunAxis = "ARM_" /\ f.ctrlEn = "CTLE"}
=============================================================================
