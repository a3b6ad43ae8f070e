------------------------------ MODULE Interlock ------------------------------
(***************************************************************************)
(* What the RTU promises of its three axes, without queues, tasks, frames  *)
(* or memory: an axis is only started for an HMI that is connected and has *)
(* control enabled, and neither the connection nor the enabling ends while *)
(* an axis moves.                                                          *)
(***************************************************************************)
CONSTANTS Axes, Commands, Stop

VARIABLES online,    \* an HMI is connected
          enabled,   \* it has control enabled
          drive      \* the command each axis is executing

vars == <<online, enabled, drive>>

AllStopped == drive = [a \in Axes |-> Stop]

Init == ~online /\ ~enabled /\ AllStopped

Connect == ~online /\ online' = TRUE /\ UNCHANGED <<enabled, drive>>

Enable == online /\ enabled' = TRUE /\ UNCHANGED <<online, drive>>

\* The axis executes a command other than stop.
Start(a) == /\ online /\ enabled
            /\ \E c \in Commands : drive' = [drive EXCEPT ![a] = c]
            /\ UNCHANGED <<online, enabled>>

StopAxis(a) == /\ drive' = [drive EXCEPT ![a] = Stop]
               /\ UNCHANGED <<online, enabled>>

Disable == AllStopped /\ enabled' = FALSE /\ UNCHANGED <<online, drive>>

Disconnect == AllStopped /\ online' = FALSE /\ UNCHANGED <<enabled, drive>>

Next == \/ Connect \/ Enable \/ Disable \/ Disconnect
        \/ \E a \in Axes : Start(a) \/ StopAxis(a)

Spec == Init /\ [][Next]_vars
=============================================================================
