-------------------------- MODULE MCAlertSchedule --------------------------
(***************************************************************************)
(* Instances for TLC: a check that is due every second and one that is due *)
(* every other one; two goroutines that may hold offsets at a time.        *)
(***************************************************************************)
EXTENDS AlertSchedule

CONSTANTS c1, c2, l1, l2

MCFrequency == [c \in Checks |-> IF c = c1 THEN 1 ELSE 2]
MCOffsetOf == [c \in Checks |-> IF c = c1 THEN 0 ELSE 1]
=============================================================================
