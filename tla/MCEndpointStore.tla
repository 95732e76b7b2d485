-------------------------- MODULE MCEndpointStore --------------------------
(***************************************************************************)
(* Instances for TLC: one endpoint, a probe of its organisation and a      *)
(* public one of another, routes of both kinds and two frequencies.        *)
(***************************************************************************)
EXTENDS EndpointStore

CONSTANTS o1, o2, p1, p2, t1, c1

MCOwnerOf == [p \in Probes |-> IF p = p1 THEN o1 ELSE o2]
Content(by, of, frequency, enabled) ==
    [route |-> [by |-> by, of |-> of], frequency |-> frequency,
     enabled |-> enabled]
MCContents == {Content("ids", {p1}, 3, TRUE), Content("ids", {p1, p2}, 2, TRUE),
               Content("tags", {t1}, 3, TRUE), Content("ids", {p2}, 3, FALSE)}
=============================================================================
