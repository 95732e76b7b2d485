--------------------------- MODULE EventDelivery ---------------------------
(***************************************************************************)
(* What the event bus promises to those who subscribe: an event arrives    *)
(* only after it was published, at a listener of its type, and not more    *)
(* often than it was sent.  It may be late, out of order, or not arrive.   *)
(***************************************************************************)
EXTENDS Naturals

CONSTANTS
    Events,
    Listeners,
    Wants       \* the events that a listener has subscribed to

VARIABLES
    copies,     \* how often each event was sent
    delivered   \* how often it has arrived at each listener

vars == <<copies, delivered>>

Init ==
    /\ copies = [e \in Events |-> 0]
    /\ delivered = [l \in Listeners |-> [e \in Events |-> 0]]

Publish(e) ==
    /\ copies[e] = 0
    /\ copies' = [copies EXCEPT ![e] = 1]
    /\ UNCHANGED delivered

\* The producer tries again what had arrived.
Repeat(e) ==
    /\ copies[e] > 0
    /\ copies' = [copies EXCEPT ![e] = @ + 1]
    /\ UNCHANGED delivered

Deliver(l, e) ==
    /\ e \in Wants[l]
    /\ delivered[l][e] < copies[e]
    /\ delivered' = [delivered EXCEPT ![l][e] = @ + 1]
    /\ UNCHANGED copies

Next ==
    \/ \E e \in Events : Publish(e) \/ Repeat(e)
    \/ \E l \in Listeners, e \in Events : Deliver(l, e)

Spec == Init /\ [][Next]_vars
=============================================================================
