------------------------------ MODULE NetValues ------------------------------
(***************************************************************************)
(* The conversion of net_values.c that the rest of the RTU depends on: the *)
(* frame received from the HMI to a status code and a command.  The reply  *)
(* is left out: the drivers fill it with constants, and it is only sent    *)
(* with the status ERR_OK, so no state of the RTU can be told from it.     *)
(*                                                                         *)
(* A frame (struct HMIDATA) is a record of its length and its fields.  A   *)
(* character field is the token the code compares it with, or any other    *)
(* string when it is none of them.  The positions posCmdArm and            *)
(* posCmdPole are left out: the code copies them without looking at them.  *)
(***************************************************************************)
EXTENDS Naturals

\* lwIP's ERR_OK and the codes of rtu_com_hmi.h.
ERR_OK              == 0
ERROR_TRAMA_VACIA   == 129    \* 0x81
ERROR_TRAMA_LARGO   == 130    \* 0x82
ERROR_TRAMA_DATO    == 131    \* 0x83
ERROR_TRAMA_CLIENTE == 132    \* 0x84
ERROR_NETCONN       == 133    \* 0x85

RCV_TRAMA_LARGO == 41         \* sizeof(HMIData_t)
MaxVel          == 8

\* The tokens of each field and the enumeration constant each stands for.
Modes        == [STOP |-> "eStop", FRUN |-> "eFree_run", AUTO |-> "eAuto",
                 LIFT |-> "eLift"]
FreeRunAxes  == [ARM_ |-> "eArm", POLE |-> "ePole"]
FreeRunDirs  == [CW__ |-> "eCW", CCW_ |-> "eCCW"]
CtrlEns      == [CTLE |-> "eEnable", DCTL |-> "eDesable"]
StallEns     == [STLE |-> "eEnable", DSTL |-> "eDesable"]
LiftDirs     == [LFUP |-> "eUp", LFDW |-> "eDown"]

\* What NetValuesReceivedFromHMI leaves in HMICmd.
HMICmd == [mode        : {"eStop", "eFree_run", "eAuto", "eLift"},
           freeRunAxis : {"eArm", "ePole"},
           freeRunDir  : {"eCW", "eCCW"},
           ctrlEn      : {"eDesable", "eEnable"},
           stallEn     : {"eDesable", "eEnable"},
           liftDir     : {"eDown", "eUp"}]

HMIData == [len         : 0 .. 65535,
            velCmdArm   : 0 .. 255,
            velCmdPole  : 0 .. 255,
            mode        : STRING,
            freeRunAxis : STRING,
            freeRunDir  : STRING,
            ctrlEn      : STRING,
            stallEn     : STRING,
            liftDir     : STRING,
            clientId    : STRING]

\* The length is unsigned: "<= 0" is "= 0".
prvFormatoTramaRecv(len) ==
    CASE len = 0               -> ERROR_TRAMA_VACIA
      [] len = RCV_TRAMA_LARGO -> ERR_OK
      [] OTHER                 -> ERROR_TRAMA_LARGO

\* Every field is examined, each failure assigns the same code.
DatoOK(f) ==
    /\ f.velCmdArm  <= MaxVel
    /\ f.velCmdPole <= MaxVel
    /\ f.mode        \in DOMAIN Modes
    /\ f.freeRunAxis \in DOMAIN FreeRunAxes
    /\ f.freeRunDir  \in DOMAIN FreeRunDirs
    /\ f.ctrlEn      \in DOMAIN CtrlEns
    /\ f.stallEn     \in DOMAIN StallEns
    /\ f.liftDir     \in DOMAIN LiftDirs

\* The status code NetValuesReceivedFromHMI returns ...
NetValuesReceivedFromHMI(f) ==
    CASE prvFormatoTramaRecv(f.len) # ERR_OK -> prvFormatoTramaRecv(f.len)
      [] f.clientId # "SM13"                 -> ERROR_TRAMA_CLIENTE
      [] ~DatoOK(f)                          -> ERROR_TRAMA_DATO
      [] OTHER                               -> ERR_OK

\* ... and the command it leaves in HMICmd when that code is ERR_OK.
CmdOf(f) == [mode        |-> Modes[f.mode],
             freeRunAxis |-> FreeRunAxes[f.freeRunAxis],
             freeRunDir  |-> FreeRunDirs[f.freeRunDir],
             ctrlEn      |-> CtrlEns[f.ctrlEn],
             stallEn     |-> StallEns[f.stallEn],
             liftDir     |-> LiftDirs[f.liftDir]]
=============================================================================
