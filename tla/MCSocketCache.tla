--------------------------- MODULE MCSocketCache ---------------------------
(***************************************************************************)
(* Instances for TLC: two connections of one probe, one refreshing worker, *)
(* a refresh channel of capacity one, and a few events.                    *)
(***************************************************************************)
EXTENDS SocketCache, TLC

CONSTANTS p1, s1, s2

MCProbeOf == [s \in Sockets |-> p1]
Symmetry == Permutations(Sockets)
=============================================================================
