---------------------------- MODULE DisciplinedHMI ----------------------------
(***************************************************************************)
(* RtuSession with an HMI that changes mode only through STOP and keeps    *)
(* freeRunAxis while a free run is on, up to the STOP that ends it.  The   *)
(* HMI is outside the repository; this module states what TaskTriggerMsg   *)
(* needs of it.                                                            *)
(*                                                                         *)
(* A newly connected HMI finds every axis stopped and so takes the RTU to  *)
(* be in mode STOP.  OpensWithStop says whether it nevertheless sends a    *)
(* STOP frame first.  Memory is ample; SendFaults is never enabled then,   *)
(* and it is left out.                                                     *)
(***************************************************************************)
EXTENDS RtuSession

CONSTANT OpensWithStop

ASSUME OpensAssumption == OpensWithStop \in BOOLEAN

VARIABLES hmiMode,   \* the mode the HMI last sent, or has reason to assume
          hmiAxis,   \* the freeRunAxis it last sent
          hmiOpen    \* it has sent a frame in this session

hmiVars == <<vars, hmiMode, hmiAxis, hmiOpen>>

HMIInit == AmpleMemory /\ Init /\ hmiMode = "STOP" /\ hmiAxis = "ARM_" /\ hmiOpen = FALSE

Disciplined(f) ==
    /\ f.mode = hmiMode \/ "STOP" \in {f.mode, hmiMode}
    /\ hmiMode = "FRUN" => f.freeRunAxis = hmiAxis
    /\ OpensWithStop /\ ~hmiOpen => f.mode = "STOP"

HMISends(f) ==
    /\ Disciplined(f)
    /\ HandleFrame(f)
    /\ hmiMode' = f.mode /\ hmiAxis' = f.freeRunAxis /\ hmiOpen' = TRUE

HMIConnects ==
    /\ Accept
    /\ hmiMode' = "STOP" /\ hmiOpen' = FALSE /\ UNCHANGED hmiAxis

Otherwise ==
    /\ \/ InitAxes
       \/ \E a \in Axes : Send(a)
       \/ TriggerReturns \/ WriteOK \/ WriteFails \/ NetbufEnd \/ RecvFails \/ Close
       \/ \E a \in Axes : AxisTask(a)
    /\ UNCHANGED <<hmiMode, hmiAxis, hmiOpen>>

HMINext == \/ \E f \in Frames : HMISends(f)
           \/ HMIConnects
           \/ Otherwise

HMISpec == HMIInit /\ [][HMINext]_hmiVars
===============================================================================
