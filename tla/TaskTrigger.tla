----------------------------- MODULE TaskTrigger -----------------------------
(***************************************************************************)
(* TaskTriggerMsg of task_trigger.c as functions of the command received   *)
(* and of the flag byte kept from the previous command.                    *)
(*                                                                         *)
(* A flag byte is the set of its bits: bits 0 and 1 are the mode, bit 2 is *)
(* ctrlEn.  A message is reduced to what the task that receives it does    *)
(* with it: its type, with the direction when it is a free run.  Speeds    *)
(* and set points travel with the message and are only logged.             *)
(***************************************************************************)
EXTENDS NetValues

Axes       == {"arm", "pole", "lift"}
MotTypes   == {"STOP", "CLOSED_LOOP", "FREE_RUN_CW", "FREE_RUN_CCW"}
LiftTypes  == {"STOP", "UP", "DOWN"}
Commands   == MotTypes \cup LiftTypes
CommandsOf(a) == IF a = "lift" THEN LiftTypes ELSE MotTypes

ModeBits  == {0, 1}
CtrlEnBit == 2
FlagByte  == SUBSET (ModeBits \cup {CtrlEnBit})

\* Mutant: ctrlEn is put in bit 3.
ActualFlagByteWrongBit(cmd) ==
    {b \in 0 .. 3 : \/ b = 0 /\ cmd.mode \in {"eFree_run", "eLift"}
                    \/ b = 1 /\ cmd.mode \in {"eAuto", "eLift"}
                    \/ b = 3 /\ cmd.ctrlEn = "eEnable"}

ActualFlagByte(cmd) ==
    {b \in ModeBits \cup {CtrlEnBit} :
        \/ b = 0 /\ cmd.mode \in {"eFree_run", "eLift"}
        \/ b = 1 /\ cmd.mode \in {"eAuto", "eLift"}
        \/ b = CtrlEnBit /\ cmd.ctrlEn = "eEnable"}

\* Exclusive or: the bits that changed.
EventFlagByte(actual, prev) == (actual \ prev) \cup (prev \ actual)

\* Mutant: the previous ctrlEn is not considered.
ConditionedNowOnly(cmd, prev) ==
    EventFlagByte(ActualFlagByte(cmd), prev) # {} /\ cmd.ctrlEn = "eEnable"

\* The condition of line 79: something changed, and control is or was enabled.
Conditioned(cmd, prev) ==
    /\ EventFlagByte(ActualFlagByte(cmd), prev) # {}
    /\ cmd.ctrlEn = "eEnable" \/ CtrlEnBit \in prev

CtrlDisabled(cmd, prev) ==
    /\ CtrlEnBit \in EventFlagByte(ActualFlagByte(cmd), prev)
    /\ cmd.ctrlEn = "eDesable"

ModeActual(cmd)      == ActualFlagByte(cmd) \cap ModeBits
ModeEvent(cmd, prev) == EventFlagByte(ActualFlagByte(cmd), prev) \cap ModeBits

\* The axes the switch on the mode's event bits selects.  The free run axis is
\* the one of the command at hand, also when the free run is being stopped.
ModeTargets(cmd, prev) ==
    CASE ModeEvent(cmd, prev) = {}  -> {}
      [] ModeEvent(cmd, prev) = {0} ->
            IF ModeActual(cmd) \notin {{}, {0}} THEN {}
            ELSE IF cmd.freeRunAxis = "eArm" THEN {"arm"} ELSE {"pole"}
      [] ModeEvent(cmd, prev) = {1} -> {"arm", "pole"}
      [] OTHER                      -> {"lift"}

\* bSendToArm, bSendToPole and bSendToLift.
SendTo(cmd, prev) ==
    IF ~Conditioned(cmd, prev) THEN {}
    ELSE IF CtrlDisabled(cmd, prev) THEN Axes
    ELSE ModeTargets(cmd, prev)

\* Mutant: bTypeStop is not set by the mode.
TypeStopDisableOnly(cmd, prev) == CtrlDisabled(cmd, prev)

TypeStop(cmd, prev) ==
    \/ CtrlDisabled(cmd, prev)
    \/ ModeEvent(cmd, prev) # {} /\ ModeActual(cmd) = {}

\* bTypeFreeRunStart, bTypeAutoStart and bTypeLiftUp / bTypeLiftDown: the mode
\* was entered from STOP.
TypeStart(cmd, prev) ==
    ModeEvent(cmd, prev) # {} /\ ModeEvent(cmd, prev) = ModeActual(cmd)

FreeRun(cmd) == IF cmd.freeRunDir = "eCCW" THEN "FREE_RUN_CCW" ELSE "FREE_RUN_CW"

\* The types the message to axis a may carry.  When neither a stop nor a start
\* applies the code sends the message with its type as pvPortMalloc left it, so
\* the receiver may take it for any of them.
Types(a, cmd, prev) ==
    IF TypeStop(cmd, prev) THEN {"STOP"}
    ELSE IF ~TypeStart(cmd, prev)
         THEN IF a = "lift" THEN LiftTypes
              ELSE {"STOP", "CLOSED_LOOP", FreeRun(cmd)}
    ELSE IF a = "lift" THEN {IF cmd.liftDir = "eUp" THEN "UP" ELSE "DOWN"}
    ELSE {IF ModeActual(cmd) = {0} THEN FreeRun(cmd) ELSE "CLOSED_LOOP"}
\* What the call has to send to axis a: nothing, or one of those types.
None == "none"
Slot(a, cmd, prev) == IF a \in SendTo(cmd, prev) THEN Types(a, cmd, prev) ELSE {None}
=============================================================================
