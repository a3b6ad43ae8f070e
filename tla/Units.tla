------------------------------- MODULE Units --------------------------------
(***************************************************************************)
(* Several components checked in one run: "unit" names the component that  *)
(* a behaviour is about and never changes; v1, v2, ... are the variables   *)
(* of that component, in the order in which its module declares them.      *)
(* Those beyond its last are 0.                                            *)
(***************************************************************************)
EXTENDS Integers, Sequences, FiniteSets

VARIABLES unit, v1, v2, v3, v4, v5, v6, v7, v8, v9, v10, v11, v12, v13

pool == <<v1, v2, v3, v4, v5, v6, v7, v8, v9, v10, v11, v12, v13>>

On(u) == unit = u

\* OffN: the variables after the Nth are not used; SameN: they do not change
Off13 == TRUE
Off12 == v13 = 0 /\ Off13
Off11 == v12 = 0 /\ Off12
Off10 == v11 = 0 /\ Off11
Off9 == v10 = 0 /\ Off10
Off8 == v9 = 0 /\ Off9
Off7 == v8 = 0 /\ Off8
Off6 == v7 = 0 /\ Off7
Off5 == v6 = 0 /\ Off6
Off4 == v5 = 0 /\ Off5
Off3 == v4 = 0 /\ Off4
Same13 == unit' = unit
Same12 == v13' = v13 /\ Same13
Same11 == v12' = v12 /\ Same12
Same10 == v11' = v11 /\ Same11
Same9 == v10' = v10 /\ Same10
Same8 == v9' = v9 /\ Same9
Same7 == v8' = v8 /\ Same8
Same6 == v7' = v7 /\ Same7
Same5 == v6' = v6 /\ Same6
Same4 == v5' = v5 /\ Same5
Same3 == v4' = v4 /\ Same4
=============================================================================
