----------------------------- MODULE MCEventBus -----------------------------
(***************************************************************************)
(* Instances for TLC: every event is published by the first server; there  *)
(* is a listener in each server, both want the second one.                 *)
(***************************************************************************)
EXTENDS EventBus

CONSTANTS s1, s2, l1, l2, p1

MCPublisherOf == [e \in Events |-> s1]
MCPartitionOf == [e \in Events |-> p1]
MCListenerAt == [l \in Listeners |-> IF l = l1 THEN s1 ELSE s2]
MCWants == [l \in Listeners |-> IF l = l1 THEN {2} ELSE {2, 3}]
=============================================================================
