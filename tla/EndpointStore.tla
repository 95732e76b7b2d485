--------------------------- MODULE EndpointStore ---------------------------
(***************************************************************************)
(* Endpoints, their checks and the indexes of their routes; probes and     *)
(* their tags.  One organisation owns the endpoints.  Every request is a   *)
(* transaction that works out what to write from what it reads; requests   *)
(* of the API read an endpoint first and write it back later, edited.      *)
(*                                                                         *)
(* A transaction is one step: with sqlite3 a second one cannot write what  *)
(* the first has read.  States and times of checks are in AlertPipeline.   *)
(***************************************************************************)
EXTENDS Naturals, FiniteSets

CONSTANTS
    Orgs, Org,      \* organisations, and the one that owns the endpoints
    Probes,
    OwnerOf,        \* the organisation of a probe
    Public,         \* the probes that every organisation sees
    Tags,
    Endpoints,      \* ids
    CheckIds,       \* ids
    Types,          \* http, https, ping, dns
    Contents,       \* settings a user may give a check
    Clients,
    NumSessions,    \* live sessions of a probe
    MaxRequests     \* bound: updates of endpoints and probes

ASSUME StoreAssumption ==
    /\ Org \in Orgs /\ OwnerOf \in [Probes -> Orgs] /\ Public \subseteq Probes
    /\ Endpoints \subseteq Nat /\ CheckIds \subseteq Nat \ {0}
    /\ Contents \subseteq [route : [by : {"ids"}, of : SUBSET Probes]
                                   \cup [by : {"tags"}, of : SUBSET Tags],
                           frequency : Nat \ {0}, enabled : BOOLEAN]
    /\ NumSessions \in Nat \ {0} /\ MaxRequests \in Nat

VARIABLES
    endpoints, usedEndpoints, \* those that exist; those that ever have
    checks, usedChecks,       \* rows of check by id; ids that were given out
    index,                    \* route_by_id_index and route_by_tag_index
    probes, goneProbes,       \* those that exist; those that were deleted
    probeTags,                \* rows of probe_tag
    forms,                    \* the endpoint as each client has read it
    event,                    \* what the last request has published
    requests

vars == <<endpoints, usedEndpoints, checks, usedChecks, index, probes,
          goneProbes, probeTags, forms, event, requests>>
endpointVars == <<endpoints, usedEndpoints, checks, usedChecks>>
probeVars == <<probes, goneProbes, probeTags>>

\* ValidateCheckRoute narrows a route to the probes it finds.
Narrowed == [route : [by : {"ids"}, of : SUBSET Probes]
                       \cup [by : {"tags"}, of : SUBSET Tags],
             frequency : {c.frequency : c \in Contents}, enabled : BOOLEAN]
Rows == [endpoint : Endpoints, type : Types, content : Narrowed, offset : Nat]
Items == [id : CheckIds \cup {0}, content : Narrowed]
Partial(S, T) == UNION {[D -> T] : D \in SUBSET S}

Empty == [t \in {} |-> 0]
NoForm == [endpoint |-> 0, checks |-> Empty]
NoEvent == [last |-> {}, current |-> {}, changed |-> {}]

TypeOK ==
    /\ endpoints \subseteq usedEndpoints /\ usedEndpoints \subseteq Endpoints
    /\ DOMAIN checks \subseteq usedChecks /\ usedChecks \subseteq CheckIds
    /\ \A k \in DOMAIN checks : checks[k] \in Rows
    /\ \A j, k \in DOMAIN checks :
         checks[j].endpoint = checks[k].endpoint
           /\ checks[j].type = checks[k].type => j = k
    /\ index \subseteq {"ids", "tags"} \X CheckIds \X (Probes \cup Tags)
    /\ probes \subseteq Probes /\ goneProbes \subseteq Probes \ probes
    /\ probeTags \subseteq Orgs \X Probes \X Tags
    /\ DOMAIN forms = Clients
    /\ \A c \in Clients : /\ DOMAIN forms[c].checks \subseteq Types
                          /\ \A t \in DOMAIN forms[c].checks :
                               forms[c].checks[t] \in Items
    /\ event.last \subseteq Items /\ event.current \subseteq Items
    /\ requests \in 0 .. MaxRequests

Request == requests < MaxRequests /\ requests' = requests + 1

-----------------------------------------------------------------------------
(* Queries.                                                                *)

\* getEndpointById: the checks of an endpoint by type.
CheckOf(e, t) == CHOOSE k \in DOMAIN checks :
                   checks[k].endpoint = e /\ checks[k].type = t
View(e) == [t \in {checks[k].type : k \in {j \in DOMAIN checks :
                                             checks[j].endpoint = e}} |->
              [id |-> CheckOf(e, t), content |-> checks[CheckOf(e, t)].content]]
ItemsOf(view) == {view[t] : t \in DOMAIN view}

\* getProbesForCheck works from the route of the check,
ProbesForCheck(route) ==
    IF route.by = "ids" THEN route.of
    ELSE {p \in probes : \E t \in route.of : <<Org, p, t>> \in probeTags}

\* getProbeChecks from the indexes.
ProbeChecks(p) ==
    {k \in DOMAIN checks :
       /\ checks[k].content.enabled /\ checks[k].endpoint \in endpoints
       /\ \/ <<"ids", k, p>> \in index
          \/ \E t \in Tags : /\ <<"tags", k, t>> \in index
                             /\ <<Org, p, t>> \in probeTags}

\* validateCheckRoute: disabled checks are let through as they are.
Visible == {p \in probes : OwnerOf[p] = Org \/ p \in Public}
Validated(c) ==
    IF c.enabled /\ c.route.by = "ids"
    THEN [c EXCEPT !.route = [by |-> "ids", of |-> c.route.of \cap Visible]]
    ELSE c
Valid(c) == c.enabled => Validated(c).route.of # {}

-----------------------------------------------------------------------------
(* Rows of checks and of their routes.                                     *)

RowsOf(k, route) == {<<route.by, k, x>> : x \in route.of}
AllRowsOf(k) == {r \in index : r[2] = k}

\* Update leaves out a column whose value is zero.
Offset(e, c, old) == IF e % c.frequency = 0 THEN old ELSE e % c.frequency

\* Mutant: the rows of a route of the other type stay.
RemovedSameTable(k, old, new) ==
    IF old.by # new.by THEN {} ELSE RowsOf(k, old) \ RowsOf(k, new)

\* What updateCheck deletes from the indexes of check k and what it inserts.
Removed(k, old, new) ==
    IF old.by # new.by THEN AllRowsOf(k)
    ELSE RowsOf(k, old) \ RowsOf(k, new)
Inserted(k, old, new) ==
    IF old.by # new.by THEN RowsOf(k, new)
    ELSE RowsOf(k, new) \ RowsOf(k, old)

Publish(last, current, changed) ==
    event' = [last |-> last, current |-> current, changed |-> changed]

\* The ids of the checks that a request adds, all alike but for being new.
Distinct(f) == \A s, t \in DOMAIN f : f[s] = f[t] => s = t
NewIds(D) == CHOOSE f \in [D -> CheckIds \ usedChecks] : Distinct(f)
HasIds(D) == \E f \in [D -> CheckIds \ usedChecks] : Distinct(f)

AddEndpoint(e, payload) ==
    /\ Request
    /\ e \notin usedEndpoints
    /\ HasIds(DOMAIN payload)
    /\ \A t \in DOMAIN payload : Valid(payload[t])
    /\ endpoints' = endpoints \cup {e}
    /\ usedEndpoints' = usedEndpoints \cup {e}
    /\ LET ids == NewIds(DOMAIN payload)
           new == {ids[t] : t \in DOMAIN payload}
           TypeAt(k) == CHOOSE t \in DOMAIN payload : ids[t] = k
           At(k) == Validated(payload[TypeAt(k)]) IN
       /\ checks' = [k \in DOMAIN checks \cup new |->
                       IF k \in new
                       THEN [endpoint |-> e, type |-> TypeAt(k), content |-> At(k),
                             offset |-> e % At(k).frequency]
                       ELSE checks[k]]
       /\ usedChecks' = usedChecks \cup new
       /\ index' = index \cup UNION {RowsOf(k, At(k).route) : k \in new}
       /\ Publish({}, {[id |-> k, content |-> At(k)] : k \in new}, new)
    /\ UNCHANGED <<probeVars, forms>>

\* updateEndpoint: the checks of the payload against those in the database.
\* A check is written when anything in it differs, its state included, or when
\* the name of the endpoint does: rewritten are some that are otherwise equal.
Update(e, payload, rewritten) ==
    LET old == View(e)
        adds == DOMAIN payload \ DOMAIN old
        kept == DOMAIN payload \cap DOMAIN old
        dels == {old[t].id : t \in DOMAIN old \ DOMAIN payload}
        Same(t) == payload[t].content = old[t].content
        changed == {t \in kept : ~Same(t)} \cup rewritten
        \* a check that was deleted since the client read it keeps its id
        ids == NewIds({t \in adds : payload[t].id = 0})
        Id(t) == IF t \in kept \/ payload[t].id # 0 THEN payload[t].id ELSE ids[t]
        new == {Id(t) : t \in adds}
        TypeAt(k) == CHOOSE t \in DOMAIN payload : Id(t) = k
        At(k) == payload[TypeAt(k)].content
        altered == {Id(t) : t \in changed}
    IN
    /\ e \in endpoints
    /\ \A t \in kept : payload[t].id = old[t].id
    /\ rewritten \subseteq {t \in kept : Same(t)}
    /\ HasIds({t \in adds : payload[t].id = 0})
    /\ checks' = [k \in (DOMAIN checks \ dels) \cup new |->
         IF k \in new
         THEN [endpoint |-> e, type |-> TypeAt(k), content |-> At(k),
               offset |-> e % At(k).frequency]
         ELSE IF k \in altered
         THEN [checks[k] EXCEPT !.content = At(k),
                                !.offset = Offset(e, At(k), checks[k].offset)]
         ELSE checks[k]]
    /\ usedChecks' = usedChecks \cup new
    /\ index' = (index \ UNION ({AllRowsOf(k) : k \in dels}
             \cup {Removed(k, checks[k].content.route, At(k).route) : k \in altered}))
         \cup UNION ({RowsOf(k, At(k).route) : k \in new}
             \cup {Inserted(k, checks[k].content.route, At(k).route) : k \in altered})
    /\ Publish(ItemsOf(old),
               {[id |-> Id(t), content |-> payload[t].content] : t \in DOMAIN payload},
               new \cup altered)
    /\ UNCHANGED <<endpoints, usedEndpoints, probeVars>>

\* Mutant: the routes of the checks stay.
DeleteEndpointOnly(e) ==
    /\ Request
    /\ e \in endpoints
    /\ endpoints' = endpoints \ {e}
    /\ checks' = [k \in {j \in DOMAIN checks : checks[j].endpoint # e} |-> checks[k]]
    /\ Publish(ItemsOf(View(e)), {}, {})
    /\ UNCHANGED <<usedEndpoints, usedChecks, index, probeVars, forms>>

DeleteEndpoint(e) ==
    /\ Request
    /\ e \in endpoints
    /\ endpoints' = endpoints \ {e}
    /\ checks' = [k \in {j \in DOMAIN checks : checks[j].endpoint # e} |-> checks[k]]
    /\ index' = {r \in index : checks[r[2]].endpoint # e}
    /\ Publish(ItemsOf(View(e)), {}, {})
    /\ UNCHANGED <<usedEndpoints, usedChecks, probeVars, forms>>

-----------------------------------------------------------------------------
(* Handlers that read an endpoint and write it back.                       *)

Read(c, e) ==
    /\ e \in endpoints
    /\ forms[c].checks # View(e) \/ forms[c].endpoint # e
    /\ forms' = [forms EXCEPT ![c] = [endpoint |-> e, checks |-> View(e)]]
    /\ event' = NoEvent
    /\ UNCHANGED <<endpointVars, index, probeVars, requests>>

Save(c, payload) ==
    /\ Request
    /\ \E rewritten \in SUBSET DOMAIN payload :
         Update(forms[c].endpoint, payload, rewritten)
    /\ UNCHANGED forms

\* The form with the checks of type t removed, or set to an item.
Without(c, t) == [s \in DOMAIN forms[c].checks \ {t} |-> forms[c].checks[s]]
With(c, t, item) == [s \in DOMAIN forms[c].checks \cup {t} |->
                       IF s = t THEN item ELSE forms[c].checks[s]]
IdIn(c, t) == IF t \in DOMAIN forms[c].checks THEN forms[c].checks[t].id ELSE 0

\* v2: the client sends all the checks.
UpdateEndpoint(c, contents) ==
    Save(c, [t \in DOMAIN contents |-> [id |-> IdIn(c, t),
                                        content |-> contents[t]]])

DisableEndpoints(c) ==
    Save(c, [t \in DOMAIN forms[c].checks |->
               [forms[c].checks[t] EXCEPT !.content.enabled = FALSE]])

\* v1: the server reads the endpoint and changes one check.
V1AddMonitor(c, t, content) ==
    /\ t \notin DOMAIN forms[c].checks
    /\ Valid(content)
    /\ Save(c, With(c, t, [id |-> 0, content |-> Validated(content)]))

V1UpdateMonitor(c, t, content) ==
    /\ t \in DOMAIN forms[c].checks
    /\ Valid(content)
    /\ Save(c, With(c, t, [id |-> IdIn(c, t), content |-> Validated(content)]))

V1DeleteMonitor(c, t) ==
    /\ t \in DOMAIN forms[c].checks
    /\ Save(c, Without(c, t))

\* Only the name and the tags of the endpoint change.
V1UpdateEndpoint(c) == Save(c, forms[c].checks)

-----------------------------------------------------------------------------
(* Probes.                                                                 *)

\* Mutant: the id of a deleted probe is given out again.
AddProbeAgain(p, tags) ==
    /\ Request
    /\ p \notin probes
    /\ probes' = probes \cup {p}
    /\ probeTags' = probeTags \cup ({OwnerOf[p]} \X {p} \X tags)
    /\ event' = NoEvent
    /\ UNCHANGED <<endpointVars, index, goneProbes, forms>>

AddProbe(p, tags) ==
    /\ Request
    /\ p \notin probes \cup goneProbes
    /\ probes' = probes \cup {p}
    /\ probeTags' = probeTags \cup ({OwnerOf[p]} \X {p} \X tags)
    /\ event' = NoEvent
    /\ UNCHANGED <<endpointVars, index, goneProbes, forms>>

\* Another organisation may tag a public probe, for itself.
UpdateProbe(o, p, tags) ==
    LET TagRows(S) == {o} \X {p} \X S
        existing == {t \in Tags : <<o, p, t>> \in probeTags} IN
    /\ Request
    /\ p \in probes /\ (OwnerOf[p] = o \/ p \in Public)
    /\ probeTags' = (probeTags \ TagRows(existing \ tags))
                      \cup TagRows(tags \ existing)
    /\ event' = NoEvent
    /\ UNCHANGED <<endpointVars, index, probes, goneProbes, forms>>

\* The tags that others have given the probe stay.
DeleteProbe(p) ==
    /\ Request
    /\ p \in probes
    /\ probes' = probes \ {p}
    /\ goneProbes' = goneProbes \cup {p}
    /\ probeTags' = probeTags \ ({OwnerOf[p]} \X {p} \X Tags)
    /\ index' = {r \in index : ~(r[1] = "ids" /\ r[3] = p)}
    /\ event' = NoEvent
    /\ UNCHANGED <<endpointVars, forms>>

-----------------------------------------------------------------------------
\* No endpoints yet; some probes, which the organisation may have tagged.
Init ==
    /\ endpoints = {} /\ usedEndpoints = {}
    /\ checks = Empty /\ usedChecks = {} /\ index = {}
    /\ probes \in SUBSET Probes /\ goneProbes = {}
    /\ probeTags \in SUBSET ({Org} \X (probes \cap Visible) \X Tags)
    /\ forms = [c \in Clients |-> NoForm]
    /\ event = NoEvent
    /\ requests = 0

EndpointRequest(c) ==
    \/ \E e \in Endpoints : Read(c, e)
    \/ \E contents \in Partial(Types, Contents) : UpdateEndpoint(c, contents)
    \/ DisableEndpoints(c) \/ V1UpdateEndpoint(c)
    \/ \E t \in Types, content \in Contents :
         V1AddMonitor(c, t, content) \/ V1UpdateMonitor(c, t, content)
    \/ \E t \in Types : V1DeleteMonitor(c, t)

ProbeRequest(p) ==
    \/ \E tags \in SUBSET Tags : AddProbe(p, tags)
    \/ \E o \in Orgs, tags \in SUBSET Tags : UpdateProbe(o, p, tags)
    \/ DeleteProbe(p)

Next ==
    \/ \E e \in Endpoints, payload \in Partial(Types, Contents) :
         AddEndpoint(e, payload)
    \/ \E e \in Endpoints : DeleteEndpoint(e)
    \/ \E c \in Clients : EndpointRequest(c)
    \/ \E p \in Probes : ProbeRequest(p)

Spec == Init /\ [][Next]_vars

-----------------------------------------------------------------------------
(* HandleEndpointCreated, HandleEndpointUpdated, HandleEndpointDeleted.    *)

Enabled(items) == {i \in items : i.content.enabled}
Ids(items) == {i.id : i \in items}

\* EmitCheckEvent: the position of the session that hears of check k.
EmitTo(k) == k % NumSessions

\* What a session of probe p is told to run by the last event, what to stop.
Told(p, pos) ==
    {i \in Enabled(event.current) :
       /\ i.id \in event.changed
       /\ EmitTo(i.id) = pos /\ p \in ProbesForCheck(i.content.route)}

\* Mutant: only checks that are gone are stopped.
StoppedDeleted(p, pos) ==
    {i \in Enabled(event.last) :
       /\ EmitTo(i.id) = pos /\ p \in ProbesForCheck(i.content.route)
       /\ i.id \notin Ids(Told(p, pos))
       /\ i.id \notin Ids(Enabled(event.current))}

Stopped(p, pos) ==
    {i \in Enabled(event.last) :
       /\ EmitTo(i.id) = pos /\ p \in ProbesForCheck(i.content.route)
       /\ i.id \notin Ids(Told(p, pos))
       /\ i.id \in event.changed \/ i.id \notin Ids(Enabled(event.current))}

\* What the session at pos runs when it has been refreshed.
Running(p, pos) == {[id |-> k, content |-> checks[k].content] :
                      k \in {j \in ProbeChecks(p) : j % NumSessions = pos}}

-----------------------------------------------------------------------------
(* Properties.                                                             *)

\* Whatever forms are written over each other and whatever probes come and go,
\* the indexes that refreshes use and the routes that events use agree: a check
\* is one of a probe's exactly if the probe is one of the check's.
IndexesAgree ==
    \A p \in probes : \A k \in DOMAIN checks :
        checks[k].content.enabled =>
            (k \in ProbeChecks(p) <=> p \in ProbesForCheck(checks[k].content.route))

\* No check is left without its endpoint, no row of an index without its check.
NoOrphans ==
    /\ \A k \in DOMAIN checks : checks[k].endpoint \in endpoints
    /\ \A r \in index : r[2] \in DOMAIN checks

\* The invariant by which these are proved: the indexes hold the routes of the
\* checks, but for probes that are gone; and an id that a client has read is that
\* of one check, of one type and endpoint, even if it was deleted meanwhile.
Indexed ==
    /\ \A r \in index :
         r[2] \in DOMAIN checks /\ r \in RowsOf(r[2], checks[r[2]].content.route)
    /\ \A k \in DOMAIN checks : \A r \in RowsOf(k, checks[k].content.route) :
         r \in index \/ (r[1] = "ids" /\ r[3] \in goneProbes)
Owned == \A k \in DOMAIN checks : checks[k].endpoint \in endpoints
FormsFit ==
    \A c, d \in Clients : \A s \in DOMAIN forms[c].checks :
        LET k == forms[c].checks[s].id IN
        /\ k \in usedChecks
        /\ k \in DOMAIN checks => /\ checks[k].endpoint = forms[c].endpoint
                                 /\ checks[k].type = s
        /\ \A t \in DOMAIN forms[d].checks :
             forms[d].checks[t].id = k =>
               s = t /\ forms[c].endpoint = forms[d].endpoint
IInv == TypeOK /\ Indexed /\ Owned /\ FormsFit

\* An event that is handled at once brings every session of every probe to what
\* a refresh would give it: what the handlers take for the difference and where
\* they send it fit the index and the positions that refreshes use.
EventsSuffice ==
    [][event' # NoEvent =>
         \A p \in probes, pos \in 0 .. NumSessions - 1 :
           {i \in Running(p, pos) :
              i.id \notin Ids(Told(p, pos) \cup Stopped(p, pos))'}
             \cup Told(p, pos)' = Running(p, pos)']_vars

\* endpoint_test.go: the offset of a check follows from its frequency.
OffsetFollowsFrequency ==
    \A k \in DOMAIN checks :
        checks[k].offset = checks[k].endpoint % checks[k].content.frequency
=============================================================================
