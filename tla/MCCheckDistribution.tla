------------------------ MODULE MCCheckDistribution ------------------------
(***************************************************************************)
(* Instances for TLC: one probe with a connection to each of two servers,  *)
(* and checks whose ids fall to either position.                           *)
(***************************************************************************)
EXTENDS CheckDistribution

CONSTANTS i1, i2, s1, s2

MCInstanceOf == [s \in Sockets |-> IF s = s1 THEN i1 ELSE i2]
=============================================================================
