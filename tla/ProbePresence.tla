--------------------------- MODULE ProbePresence ---------------------------
(***************************************************************************)
(* What the probe_session table promises, without transactions: sessions   *)
(* come one at a time, go together, and a probe is online exactly while it *)
(* has one.                                                                *)
(***************************************************************************)
CONSTANTS Probes, Sockets, ProbeOf

VARIABLES rows, online

Presence(S) == [p \in Probes |-> \E s \in S : ProbeOf[s] = p]

Init == rows = {} /\ online = Presence({})

AddSession(s) ==
    /\ rows' = rows \cup {s}
    /\ online' = Presence(rows')

DeleteSessions(S) ==
    /\ S \subseteq rows
    /\ rows' = rows \ S
    /\ online' = Presence(rows')

Next ==
    \/ \E s \in Sockets : AddSession(s)
    \/ \E S \in SUBSET Sockets : DeleteSessions(S)

Spec == Init /\ [][Next]_<<rows, online>>
=============================================================================
