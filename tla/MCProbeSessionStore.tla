------------------------ MODULE MCProbeSessionStore ------------------------
(***************************************************************************)
(* Instances for TLC: one probe with two connections to the first server,  *)
(* where the first one drops and reconnects to the second server (s3); or, *)
(* for the databases with more interleavings, only that reconnect.         *)
(***************************************************************************)
EXTENDS ProbeSessionStore, TLC

CONSTANTS p1, i1, i2, s1, s2, s3

MCProbeOf == [s \in Sockets |-> p1]
MCInstanceOf == [s \in Sockets |-> IF s = s3 THEN i2 ELSE i1]
MCLastSocket == [s \in Sockets |-> IF s = s3 THEN s1 ELSE None]
=============================================================================
