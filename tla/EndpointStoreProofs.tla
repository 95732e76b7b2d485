------------------------- MODULE EndpointStoreProofs -------------------------
(***************************************************************************)
(* The indexes of routes agree with the routes of the checks, and nothing  *)
(* is left of what was deleted: for any organisations, probes, tags,       *)
(* endpoints, contents and clients, and any number of requests.            *)
(***************************************************************************)
EXTENDS EndpointStore, TLAPS

USE StoreAssumption

-----------------------------------------------------------------------------
(* Contents, routes and their rows.                                        *)

Routes == [by : {"ids"}, of : SUBSET Probes] \cup [by : {"tags"}, of : SUBSET Tags]

\* The fields of a content, and DisableEndpoints' change of it.
LEMMA NarrowedFacts ==
  ASSUME NEW c \in Narrowed
  PROVE  /\ c.route \in Routes /\ c.enabled \in BOOLEAN /\ c.frequency \in Nat \ {0}
         /\ [c EXCEPT !.enabled = FALSE] \in Narrowed
         /\ \A e \in Nat : e % c.frequency \in Nat
<1>1. /\ c.route \in Routes /\ c.enabled \in BOOLEAN /\ c.frequency \in Nat \ {0}
      /\ [c EXCEPT !.enabled = FALSE] \in Narrowed
  BY DEF Narrowed, Routes
<1>2. \A n \in Nat \ {0} : \A e \in Nat : e % n \in Nat
  OBVIOUS
<1> QED
  BY <1>1, <1>2

\* What a user may give, and what validateCheckRoute makes of it, can be stored.
LEMMA ContentFacts ==
  ASSUME NEW c \in Contents
  PROVE  c \in Narrowed /\ Validated(c) \in Narrowed
<1>1. c \in Narrowed
  BY DEF Narrowed
<1>2. CASE c.enabled /\ c.route.by = "ids"
  <2>1. [by |-> "ids", of |-> c.route.of \cap Visible] \in [by : {"ids"}, of : SUBSET Probes]
    BY <1>2
  <2>2. Validated(c) = [c EXCEPT !.route = [by |-> "ids", of |-> c.route.of \cap Visible]]
    BY <1>2 DEF Validated
  <2> QED
    BY <1>1, <2>1, <2>2 DEF Narrowed
<1>3. CASE ~(c.enabled /\ c.route.by = "ids")
  BY <1>1, <1>3 DEF Validated
<1> QED
  BY <1>1, <1>2, <1>3

\* Rows of check and items of forms are records of their fields.
LEMMA RecordFacts ==
  ASSUME NEW c \in Narrowed
  PROVE  /\ \A e \in Endpoints, t \in Types, o \in Nat :
              LET row == [endpoint |-> e, type |-> t, content |-> c, offset |-> o] IN
              row \in Rows /\ row.endpoint = e /\ row.type = t /\ row.content = c
         /\ \A row \in Rows, o \in Nat :
              LET new == [row EXCEPT !.content = c, !.offset = o] IN
              /\ new \in Rows /\ new.endpoint = row.endpoint /\ new.type = row.type
              /\ new.content = c
         /\ \A k \in CheckIds \cup {0} : [id |-> k, content |-> c] \in Items
  BY DEF Rows, Items

\* A row of an index names its table, its check and a member of its route.
LEMMA RowFacts ==
  ASSUME NEW k, NEW route \in Routes, NEW r \in RowsOf(k, route)
  PROVE  /\ r[1] = route.by /\ r[2] = k /\ r[3] \in route.of /\ r = <<route.by, k, r[3]>>
         /\ k \in CheckIds => r \in {"ids", "tags"} \X CheckIds \X (Probes \cup Tags)
  BY DEF RowsOf, Routes

\* getEndpointById: the view of an endpoint has its checks, each by its type.
LEMMA ViewFacts ==
  ASSUME TypeOK, NEW e
  PROVE  /\ DOMAIN View(e) \subseteq Types
         /\ \A t \in DOMAIN View(e) :
              LET k == View(e)[t].id IN
              /\ k \in DOMAIN checks /\ checks[k].endpoint = e /\ checks[k].type = t
              /\ View(e)[t] = [id |-> k, content |-> checks[k].content]
              /\ View(e)[t] \in Items
         /\ \A k \in DOMAIN checks : checks[k].endpoint = e =>
              checks[k].type \in DOMAIN View(e) /\ View(e)[checks[k].type].id = k
<1> DEFINE T == {checks[k].type : k \in {j \in DOMAIN checks : checks[j].endpoint = e}}
<1>1. DOMAIN View(e) = T /\ \A t \in T : View(e)[t] = [id |-> CheckOf(e, t), content |-> checks[CheckOf(e, t)].content]
  BY DEF View
<1>2. ASSUME NEW k \in DOMAIN checks, checks[k].endpoint = e
      PROVE  CheckOf(e, checks[k].type) = k
  <2>1. \A j \in DOMAIN checks :
          checks[j].endpoint = e /\ checks[j].type = checks[k].type => j = k
    BY <1>2 DEF TypeOK
  <2> QED
    BY <1>2, <2>1 DEF CheckOf
<1>3. ASSUME NEW t \in T
      PROVE  LET k == View(e)[t].id IN
             /\ k \in DOMAIN checks /\ checks[k].endpoint = e /\ checks[k].type = t
             /\ View(e)[t] = [id |-> k, content |-> checks[k].content]
             /\ View(e)[t] \in Items
  <2>1. PICK k \in DOMAIN checks : checks[k].endpoint = e /\ checks[k].type = t
    BY <1>3
  <2>2. CheckOf(e, t) = k
    BY <1>2, <2>1
  <2>3. View(e)[t] = [id |-> k, content |-> checks[k].content]
    BY <1>1, <1>3, <2>2
  <2>4. k \in CheckIds /\ checks[k].content \in Narrowed
    BY <2>1 DEF TypeOK, Rows
  <2> QED
    BY <2>1, <2>3, <2>4 DEF Items
<1>4. T \subseteq Types
  BY DEF TypeOK, Rows
<1> HIDE DEF T
<1>5. ASSUME NEW k \in DOMAIN checks, checks[k].endpoint = e
      PROVE  checks[k].type \in T /\ View(e)[checks[k].type].id = k
  <2>1. checks[k].type \in T
    BY <1>5 DEF T
  <2> QED
    BY <1>1, <1>2, <1>5, <2>1
<1> QED
  BY <1>1, <1>3, <1>4, <1>5

-----------------------------------------------------------------------------
(* What a request changes in the checks and in the indexes.                *)

\* The checks in new are added, those in dels deleted, those in altered
\* written, all of endpoint e, and their rows of the indexes with them.
Changes(e, new, dels, altered) ==
  /\ new \subseteq CheckIds \ DOMAIN checks
  /\ dels \subseteq DOMAIN checks /\ altered \subseteq DOMAIN checks \ dels
  /\ \A k \in dels \cup altered : checks[k].endpoint = e
  /\ DOMAIN checks' = (DOMAIN checks \ dels) \cup new
  /\ usedChecks' = usedChecks \cup new
  /\ \A k \in new : checks'[k] \in Rows /\ checks'[k].endpoint = e
  /\ \A k \in altered : /\ checks'[k] \in Rows /\ checks'[k].endpoint = e
                        /\ checks'[k].type = checks[k].type
  /\ \A k \in DOMAIN checks \ (dels \cup altered) : checks'[k] = checks[k]
  /\ \A j, k \in new : checks'[j].type = checks'[k].type => j = k
  /\ \A j \in new, k \in DOMAIN checks \ dels :
       checks[k].endpoint = e => checks[k].type # checks'[j].type

\* An id that some client has read is given only to the check it was read of.
Fitting(new) ==
  \A k \in new, c \in Clients : \A t \in DOMAIN forms[c].checks :
    forms[c].checks[t].id = k =>
      checks'[k].endpoint = forms[c].endpoint /\ checks'[k].type = t

Reindexed(new, dels, altered) ==
  \A r : r \in index' <=>
    \/ /\ r \in index
       /\ \A k \in dels : r \notin AllRowsOf(k)
       /\ \A k \in altered : r \notin Removed(k, checks[k].content.route, checks'[k].content.route)
    \/ \E k \in new : r \in RowsOf(k, checks'[k].content.route)
    \/ \E k \in altered : r \in Inserted(k, checks[k].content.route, checks'[k].content.route)

\* The event has the checks of the endpoint before and after.
ItemsAt(e) == {[id |-> k, content |-> checks[k].content] :
                 k \in {j \in DOMAIN checks : checks[j].endpoint = e}}
ItemsThen(e) == {[id |-> k, content |-> checks'[k].content] :
                   k \in {j \in DOMAIN checks' : checks'[j].endpoint = e}}
Publishes(e, changed) ==
  event' = [last |-> ItemsAt(e), current |-> ItemsThen(e), changed |-> changed]

ChecksTyped ==
  /\ DOMAIN checks \subseteq usedChecks /\ usedChecks \subseteq CheckIds
  /\ \A k \in DOMAIN checks : checks[k] \in Rows
  /\ \A j, k \in DOMAIN checks :
       checks[j].endpoint = checks[k].endpoint
         /\ checks[j].type = checks[k].type => j = k

\* A request leaves one check of a type to an endpoint.
LEMMA ChangesTyped ==
  ASSUME ChecksTyped, NEW e, NEW new, NEW dels, NEW altered, Changes(e, new, dels, altered)
  PROVE  ChecksTyped'
<1>1. DOMAIN checks' \subseteq usedChecks' /\ usedChecks' \subseteq CheckIds
  BY DEF ChecksTyped, Changes
<1>2. \A k \in DOMAIN checks' : checks'[k] \in Rows
  BY DEF ChecksTyped, Changes
<1>3. ASSUME NEW j \in DOMAIN checks', NEW k \in DOMAIN checks',
             checks'[j].endpoint = checks'[k].endpoint, checks'[j].type = checks'[k].type
      PROVE  j = k
  <2>1. \A i \in DOMAIN checks' \ new :
          i \in DOMAIN checks \ dels /\ checks'[i].endpoint = checks[i].endpoint
            /\ checks'[i].type = checks[i].type
    BY DEF Changes
  <2>2. CASE j \in new /\ k \in new
    BY <1>3, <2>2 DEF Changes
  <2>3. CASE j \in new /\ k \notin new
    <3>1. checks'[j].endpoint = e
      BY <2>3 DEF Changes
    <3>2. checks[k].endpoint = e /\ checks[k].type = checks'[j].type /\ k \in DOMAIN checks \ dels
      BY <1>3, <2>1, <2>3, <3>1
    <3> QED
      BY <2>3, <3>2 DEF Changes
  <2>4. CASE j \notin new /\ k \in new
    <3>1. checks'[k].endpoint = e
      BY <2>4 DEF Changes
    <3>2. checks[j].endpoint = e /\ checks[j].type = checks'[k].type /\ j \in DOMAIN checks \ dels
      BY <1>3, <2>1, <2>4, <3>1
    <3> QED
      BY <2>4, <3>2 DEF Changes
  <2>5. CASE j \notin new /\ k \notin new
    BY <1>3, <2>1, <2>5 DEF ChecksTyped
  <2> QED
    BY <2>2, <2>3, <2>4, <2>5
<1> QED
  BY <1>1, <1>2, <1>3 DEF ChecksTyped

\* What clients have read fits the checks after a request as before.
LEMMA ChangesFit ==
  ASSUME FormsFit, NEW e, NEW new, NEW dels, NEW altered, Changes(e, new, dels, altered),
         Fitting(new), UNCHANGED forms
  PROVE  FormsFit'
<1> SUFFICES ASSUME NEW c \in Clients, NEW d \in Clients, NEW s \in DOMAIN forms[c].checks,
                    NEW k, k = forms[c].checks[s].id
             PROVE  /\ k \in usedChecks'
                    /\ k \in DOMAIN checks' => /\ checks'[k].endpoint = forms[c].endpoint
                                               /\ checks'[k].type = s
                    /\ \A t \in DOMAIN forms[d].checks :
                         forms[d].checks[t].id = k =>
                           s = t /\ forms[c].endpoint = forms[d].endpoint
  BY DEF FormsFit
<1>1. /\ k \in usedChecks
      /\ k \in DOMAIN checks => checks[k].endpoint = forms[c].endpoint /\ checks[k].type = s
      /\ \A t \in DOMAIN forms[d].checks :
           forms[d].checks[t].id = k => s = t /\ forms[c].endpoint = forms[d].endpoint
  BY DEF FormsFit
<1>2. k \in new => checks'[k].endpoint = forms[c].endpoint /\ checks'[k].type = s
  BY DEF Fitting
<1>3. k \in DOMAIN checks' \ new =>
        k \in DOMAIN checks /\ checks'[k].endpoint = checks[k].endpoint /\ checks'[k].type = checks[k].type
  BY DEF Changes
<1>4. usedChecks \subseteq usedChecks'
  BY DEF Changes
<1> QED
  BY <1>1, <1>2, <1>3, <1>4

\* The rows of a check, when its route is changed: no more than the new one has,
\* and all of that, but for what was missing before.
LEMMA ChangesIndexed ==
  ASSUME Indexed, ChecksTyped, NEW e, NEW new, NEW dels, NEW altered,
         Changes(e, new, dels, altered), Reindexed(new, dels, altered), UNCHANGED goneProbes
  PROVE  Indexed'
<1> DEFINE Was(k) == checks[k].content.route
           Is(k) == checks'[k].content.route
<1>t. /\ \A k \in DOMAIN checks : Was(k) \in Routes
      /\ \A k \in DOMAIN checks' : Is(k) \in Routes
  <2>1. \A row \in Rows : row.content.route \in Routes
    BY NarrowedFacts DEF Rows
  <2>2. ChecksTyped'
    BY ChangesTyped
  <2> QED
    BY <2>1, <2>2 DEF ChecksTyped
<1>k. \A k \in DOMAIN checks \ (dels \cup altered) : k \in DOMAIN checks' /\ Is(k) = Was(k)
  BY DEF Changes
<1>c. /\ new \cap DOMAIN checks = {} /\ altered \subseteq DOMAIN checks /\ dels \subseteq DOMAIN checks
      /\ DOMAIN checks' = (DOMAIN checks \ dels) \cup new /\ altered \cap dels = {}
  BY DEF Changes
<1>1. ASSUME NEW r \in index'
      PROVE  r[2] \in DOMAIN checks' /\ r \in RowsOf(r[2], Is(r[2]))
  <2>1. CASE \E k \in new : r \in RowsOf(k, Is(k))
    <3>1. PICK k \in new : r \in RowsOf(k, Is(k))
      BY <2>1
    <3>2. k \in DOMAIN checks' /\ Is(k) \in Routes
      BY <1>c, <1>t
    <3>3. r[2] = k
      BY <3>1, <3>2, RowFacts
    <3> QED
      BY <3>1, <3>2, <3>3
  <2>2. CASE \E k \in altered : r \in Inserted(k, Was(k), Is(k))
    <3>1. PICK k \in altered : r \in Inserted(k, Was(k), Is(k))
      BY <2>2
    <3>2. k \in DOMAIN checks' /\ Is(k) \in Routes
      BY <1>c, <1>t
    <3>3. r \in RowsOf(k, Is(k))
      BY <3>1 DEF Inserted
    <3>4. r[2] = k
      BY <3>2, <3>3, RowFacts
    <3> QED
      BY <3>2, <3>3, <3>4
  <2>3. CASE /\ r \in index /\ \A k \in dels : r \notin AllRowsOf(k)
             /\ \A k \in altered : r \notin Removed(k, Was(k), Is(k))
    <3> DEFINE k == r[2]
    <3>1. k \in DOMAIN checks /\ r \in RowsOf(k, Was(k))
      BY <2>3 DEF Indexed
    <3>2. k \notin dels
      BY <2>3 DEF AllRowsOf
    <3>3. CASE k \in altered
      <4>1. r \notin Removed(k, Was(k), Is(k)) /\ r \in AllRowsOf(k)
        BY <2>3, <3>3 DEF AllRowsOf
      <4>2. Was(k).by = Is(k).by /\ r \in RowsOf(k, Is(k))
        BY <3>1, <4>1 DEF Removed
      <4> QED
        BY <1>c, <3>1, <3>2, <4>2
    <3>4. CASE k \notin altered
      BY <1>k, <3>1, <3>2, <3>4
    <3> QED
      BY <3>3, <3>4
  <2> QED
    BY <2>1, <2>2, <2>3 DEF Reindexed
<1>2. ASSUME NEW k \in DOMAIN checks', NEW r \in RowsOf(k, Is(k))
      PROVE  r \in index' \/ (r[1] = "ids" /\ r[3] \in goneProbes)
  <2>1. r[2] = k /\ r[1] = Is(k).by
    BY <1>t, RowFacts
  <2>2. CASE k \in new
    BY <2>2 DEF Reindexed
  <2>3. CASE k \in altered
    <3>1. CASE r \in Inserted(k, Was(k), Is(k))
      BY <2>3, <3>1 DEF Reindexed
    <3>2. CASE r \notin Inserted(k, Was(k), Is(k))
      <4>1. Was(k).by = Is(k).by /\ r \in RowsOf(k, Was(k))
        BY <3>2 DEF Inserted
      <4>2. r \in index \/ (r[1] = "ids" /\ r[3] \in goneProbes)
        BY <1>c, <2>3, <4>1 DEF Indexed
      <4>3. r \notin Removed(k, Was(k), Is(k))
        BY <4>1 DEF Removed
      <4>4. \A j \in altered : r \notin Removed(j, Was(j), Is(j))
        <5> SUFFICES ASSUME NEW j \in altered, r \in Removed(j, Was(j), Is(j)) PROVE FALSE
          OBVIOUS
        <5>1. r \in AllRowsOf(j) \/ r \in RowsOf(j, Was(j))
          BY DEF Removed
        <5>2. r[2] = j
          <6>1. Was(j) \in Routes
            BY <1>c, <1>t
          <6> QED
            BY <5>1, <6>1, RowFacts DEF AllRowsOf
        <5> QED
          BY <2>1, <4>3, <5>2
      <4>5. \A j \in dels : r \notin AllRowsOf(j)
        BY <1>c, <2>1, <2>3 DEF AllRowsOf
      <4> QED
        BY <4>2, <4>4, <4>5 DEF Reindexed
    <3> QED
      BY <3>1, <3>2
  <2>4. CASE k \notin new \cup altered
    <3>1. k \in DOMAIN checks /\ k \notin dels /\ Is(k) = Was(k)
      BY <1>c, <1>k, <2>4
    <3>2. r \in index \/ (r[1] = "ids" /\ r[3] \in goneProbes)
      BY <3>1 DEF Indexed
    <3>3. \A j \in altered : r \notin Removed(j, Was(j), Is(j))
      <4> SUFFICES ASSUME NEW j \in altered, r \in Removed(j, Was(j), Is(j)) PROVE FALSE
        OBVIOUS
      <4>1. r \in AllRowsOf(j) \/ r \in RowsOf(j, Was(j))
        BY DEF Removed
      <4>2. r[2] = j
        <5>1. Was(j) \in Routes
          BY <1>c, <1>t
        <5> QED
          BY <4>1, <5>1, RowFacts DEF AllRowsOf
      <4> QED
        BY <2>1, <2>4, <4>2
    <3>4. \A j \in dels : r \notin AllRowsOf(j)
      BY <2>1, <3>1 DEF AllRowsOf
    <3> QED
      BY <3>2, <3>3, <3>4 DEF Reindexed
  <2> QED
    BY <2>2, <2>3, <2>4
<1> QED
  BY <1>1, <1>2 DEF Indexed

\* The items of a view are those of the endpoint's checks.
LEMMA ViewItems ==
  ASSUME TypeOK, NEW e
  PROVE  ItemsOf(View(e)) = ItemsAt(e) /\ ItemsAt(e) \subseteq Items
<1>1. ASSUME NEW i \in ItemsOf(View(e))
      PROVE  i \in ItemsAt(e)
  <2>1. PICK t \in DOMAIN View(e) : i = View(e)[t]
    BY <1>1 DEF ItemsOf
  <2> QED
    BY <2>1, ViewFacts DEF ItemsAt
<1>2. ASSUME NEW i \in ItemsAt(e)
      PROVE  i \in ItemsOf(View(e)) /\ i \in Items
  <2>1. PICK k \in DOMAIN checks : checks[k].endpoint = e /\ i = [id |-> k, content |-> checks[k].content]
    BY <1>2 DEF ItemsAt
  <2>2. /\ checks[k].type \in DOMAIN View(e) /\ View(e)[checks[k].type] = i
        /\ View(e)[checks[k].type] \in Items
    BY <2>1, ViewFacts
  <2> QED
    BY <2>2 DEF ItemsOf
<1> QED
  BY <1>1, <1>2

-----------------------------------------------------------------------------
(* The requests that change checks.                                        *)

\* What handlers save: checks that are new, or that the client has read.
Given(c, payload) ==
  /\ DOMAIN payload \subseteq Types
  /\ \A t \in DOMAIN payload :
       /\ payload[t].content \in Narrowed
       /\ \/ payload[t].id = 0
          \/ t \in DOMAIN forms[c].checks /\ payload[t].id = forms[c].checks[t].id

\* autoincrement gives out ids that are new and differ.
LEMMA NewIdsFacts ==
  ASSUME NEW D, HasIds(D)
  PROVE  /\ \A t \in D : NewIds(D)[t] \in CheckIds \ usedChecks
         /\ \A s, t \in D : NewIds(D)[s] = NewIds(D)[t] => s = t
<1>1. NewIds(D) \in [D -> CheckIds \ usedChecks] /\ Distinct(NewIds(D))
  BY DEF HasIds, NewIds
<1> QED
  BY <1>1 DEF Distinct

\* updateEndpoint: whatever was written since the client has read the endpoint.
LEMMA UpdateFacts ==
  ASSUME TypeOK, FormsFit, NEW c \in Clients, NEW payload, Given(c, payload), NEW rewritten,
         Update(forms[c].endpoint, payload, rewritten)
  PROVE  /\ \E new, dels, altered :
              /\ Changes(forms[c].endpoint, new, dels, altered)
              /\ Fitting(new) /\ Reindexed(new, dels, altered)
              /\ Publishes(forms[c].endpoint, new \cup altered)
         /\ forms[c].endpoint \in endpoints
<1> DEFINE e == forms[c].endpoint
           old == View(e)
           adds == DOMAIN payload \ DOMAIN old
           kept == DOMAIN payload \cap DOMAIN old
           dels == {old[t].id : t \in DOMAIN old \ DOMAIN payload}
           Same(t) == payload[t].content = old[t].content
           changed == {t \in kept : ~Same(t)} \cup rewritten
           fresh == {t \in adds : payload[t].id = 0}
           ids == NewIds(fresh)
           Id(t) == IF t \in kept \/ payload[t].id # 0 THEN payload[t].id ELSE ids[t]
           new == {Id(t) : t \in adds}
           TypeAt(k) == CHOOSE t \in DOMAIN payload : Id(t) = k
           At(k) == payload[TypeAt(k)].content
           altered == {Id(t) : t \in changed}
           Old(k) == checks[k].content.route
<1>u. /\ e \in endpoints
      /\ \A t \in kept : payload[t].id = old[t].id
      /\ rewritten \subseteq {t \in kept : Same(t)}
      /\ HasIds(fresh)
      /\ checks' = [k \in (DOMAIN checks \ dels) \cup new |->
           IF k \in new
           THEN [endpoint |-> e, type |-> TypeAt(k), content |-> At(k),
                 offset |-> e % At(k).frequency]
           ELSE IF k \in altered
           THEN [checks[k] EXCEPT !.content = At(k),
                                  !.offset = Offset(e, At(k), checks[k].offset)]
           ELSE checks[k]]
      /\ usedChecks' = usedChecks \cup new
      /\ index' = (index \ UNION ({AllRowsOf(k) : k \in dels}
               \cup {Removed(k, Old(k), At(k).route) : k \in altered}))
           \cup UNION ({RowsOf(k, At(k).route) : k \in new}
               \cup {Inserted(k, Old(k), At(k).route) : k \in altered})
      /\ event' = [last |-> ItemsOf(old),
                   current |-> {[id |-> Id(t), content |-> payload[t].content] : t \in DOMAIN payload},
                   changed |-> new \cup altered]
  BY DEF Update, Publish
<1>v. /\ DOMAIN old \subseteq Types
      /\ \A t \in DOMAIN old :
           LET k == old[t].id IN
           /\ k \in DOMAIN checks /\ checks[k].endpoint = e /\ checks[k].type = t
           /\ old[t] = [id |-> k, content |-> checks[k].content]
      /\ \A k \in DOMAIN checks : checks[k].endpoint = e =>
           checks[k].type \in DOMAIN old /\ old[checks[k].type].id = k
  BY ViewFacts
<1>p. /\ DOMAIN payload \subseteq Types
      /\ \A t \in DOMAIN payload :
           /\ payload[t].content \in Narrowed
           /\ \/ payload[t].id = 0
              \/ t \in DOMAIN forms[c].checks /\ payload[t].id = forms[c].checks[t].id
  BY DEF Given
<1>i. /\ \A t \in fresh : ids[t] \in CheckIds \ usedChecks
      /\ \A s, t \in fresh : ids[s] = ids[t] => s = t
  <2> HIDE DEF fresh
  <2> QED
    BY <1>u, NewIdsFacts
<1>y. /\ DOMAIN checks \subseteq usedChecks /\ usedChecks \subseteq CheckIds /\ 0 \notin CheckIds
      /\ e \in Endpoints /\ e \in Nat
      /\ \A k \in DOMAIN checks : checks[k] \in Rows
  BY <1>u DEF TypeOK
<1>s. /\ DOMAIN payload = adds \cup kept /\ adds \cap kept = {} /\ changed \subseteq kept
      /\ fresh = {t \in adds : payload[t].id = 0}
      /\ adds = DOMAIN payload \ DOMAIN old /\ kept = DOMAIN payload \cap DOMAIN old
  BY <1>u
<1>1. ASSUME NEW t \in kept
      PROVE  Id(t) = old[t].id /\ Id(t) \in DOMAIN checks /\ checks[Id(t)].endpoint = e
             /\ checks[Id(t)].type = t
  BY <1>u, <1>v
<1>2. ASSUME NEW t \in fresh
      PROVE  Id(t) = ids[t] /\ Id(t) \in CheckIds \ usedChecks
  BY <1>i
<1>3. ASSUME NEW t \in adds \ fresh
      PROVE  t \in DOMAIN forms[c].checks /\ Id(t) = forms[c].checks[t].id
             /\ Id(t) \in usedChecks \ DOMAIN checks
  <2>1. t \in DOMAIN forms[c].checks /\ Id(t) = forms[c].checks[t].id
    BY <1>p
  <2>2. /\ Id(t) \in usedChecks
        /\ Id(t) \in DOMAIN checks => checks[Id(t)].endpoint = e /\ checks[Id(t)].type = t
    BY <2>1 DEF FormsFit
  <2> QED
    BY <1>v, <2>1, <2>2
<1> HIDE DEF e, old, adds, kept, changed, fresh, Id
<1>4. ASSUME NEW s \in DOMAIN payload, NEW t \in DOMAIN payload, Id(s) = Id(t)
      PROVE  s = t
  <2>1. CASE s \in kept /\ t \in kept
    BY <1>1, <1>4, <2>1
  <2>2. CASE s \in fresh /\ t \in fresh
    BY <1>2, <1>4, <1>i, <2>2
  <2>3. CASE s \in adds \ fresh /\ t \in adds \ fresh
    <3>1. /\ s \in DOMAIN forms[c].checks /\ t \in DOMAIN forms[c].checks
          /\ forms[c].checks[t].id = forms[c].checks[s].id
      BY <1>3, <1>4, <2>3
    <3> QED
      BY <3>1 DEF FormsFit
  <2> QED
    BY <1>1, <1>2, <1>3, <1>4, <1>s, <1>y, <2>1, <2>2, <2>3
<1>5. \A t \in DOMAIN payload : TypeAt(Id(t)) = t /\ At(Id(t)) = payload[t].content
  <2> SUFFICES ASSUME NEW t \in DOMAIN payload PROVE TypeAt(Id(t)) = t
    OBVIOUS
  <2>1. \E s \in DOMAIN payload : Id(s) = Id(t)
    OBVIOUS
  <2>2. TypeAt(Id(t)) \in DOMAIN payload /\ Id(TypeAt(Id(t))) = Id(t)
    BY <2>1
  <2> QED
    BY <1>4, <2>2
<1>6. \A k \in new : \E t \in adds : k = Id(t) /\ TypeAt(k) = t /\ At(k) = payload[t].content
  BY <1>5, <1>s
<1>7. \A k \in altered : \E t \in changed : k = Id(t) /\ TypeAt(k) = t /\ At(k) = payload[t].content
  BY <1>5, <1>s
<1>8. \A k \in dels : \E t \in DOMAIN old \ DOMAIN payload : k = old[t].id
  OBVIOUS
<1>n. /\ \A t \in adds : Id(t) \in new
      /\ \A t \in changed : Id(t) \in altered
      /\ \A t \in DOMAIN old \ DOMAIN payload : old[t].id \in dels
  OBVIOUS
<1> HIDE DEF TypeAt, At, new, altered, dels
<1>9. new \subseteq CheckIds \ DOMAIN checks
  <2> SUFFICES ASSUME NEW k \in new PROVE k \in CheckIds \ DOMAIN checks
    OBVIOUS
  <2>1. PICK t \in adds : k = Id(t)
    BY <1>6
  <2>2. CASE t \in fresh
    BY <1>2, <1>y, <2>1, <2>2
  <2>3. CASE t \notin fresh
    BY <1>3, <1>y, <2>1, <2>3
  <2> QED
    BY <2>2, <2>3
<1>10. dels \subseteq DOMAIN checks /\ altered \subseteq DOMAIN checks \ dels
  <2>1. dels \subseteq DOMAIN checks
    BY <1>8, <1>v
  <2>2. altered \subseteq DOMAIN checks
    BY <1>1, <1>7, <1>s
  <2>3. \A k \in dels : checks[k].type \notin DOMAIN payload
    BY <1>8, <1>v
  <2>4. \A k \in altered : checks[k].type \in DOMAIN payload
    BY <1>1, <1>7, <1>s
  <2> QED
    BY <2>1, <2>2, <2>3, <2>4
<1>11. \A k \in dels \cup altered : checks[k].endpoint = e
  BY <1>1, <1>7, <1>8, <1>s, <1>v
<1>12. DOMAIN checks' = (DOMAIN checks \ dels) \cup new
  BY <1>u
<1>13. \A k \in new \cup altered : At(k) \in Narrowed /\ At(k).frequency \in Nat \ {0} /\ e % At(k).frequency \in Nat
  <2>1. \A k \in new \cup altered : At(k) \in Narrowed
    BY <1>6, <1>7, <1>p, <1>s
  <2> QED
    BY <1>y, <2>1, NarrowedFacts
<1>14. \A k \in new : checks'[k] = [endpoint |-> e, type |-> TypeAt(k), content |-> At(k),
                                    offset |-> e % At(k).frequency]
  BY <1>u
<1>15. \A k \in altered : checks'[k] = [checks[k] EXCEPT !.content = At(k),
                                          !.offset = Offset(e, At(k), checks[k].offset)]
  BY <1>u, <1>9, <1>10
<1>16. ASSUME NEW k \in new
       PROVE  /\ checks'[k] \in Rows /\ checks'[k].endpoint = e /\ checks'[k].type = TypeAt(k)
              /\ checks'[k].content = At(k)
  <2>1. TypeAt(k) \in Types
    BY <1>6, <1>p, <1>s
  <2> QED
    <3>1. PICK o \in Nat : o = e % At(k).frequency
      BY <1>13
    <3>2. checks'[k] = [endpoint |-> e, type |-> TypeAt(k), content |-> At(k), offset |-> o]
      BY <1>14, <3>1
    <3>3. At(k) \in Narrowed /\ e \in Endpoints
      BY <1>13, <1>y
    <3> QED
      BY <2>1, <3>2, <3>3 DEF Rows
<1>17. ASSUME NEW k \in altered
       PROVE  /\ checks'[k] \in Rows /\ checks'[k].endpoint = e
              /\ checks'[k].type = checks[k].type /\ checks'[k].content = At(k)
  <2>1. checks[k] \in Rows
    BY <1>10, <1>y
  <2>2. Offset(e, At(k), checks[k].offset) \in Nat
    BY <1>13, <2>1 DEF Offset, Rows
  <2> QED
    <3>1. PICK o \in Nat : o = Offset(e, At(k), checks[k].offset)
      BY <2>2
    <3>2. checks'[k] = [checks[k] EXCEPT !.content = At(k), !.offset = o]
      BY <1>15, <3>1
    <3>3. At(k) \in Narrowed /\ checks[k].endpoint = e
      BY <1>11, <1>13
    <3> QED
      BY <2>1, <3>2, <3>3 DEF Rows
<1>18. \A k \in DOMAIN checks \ (dels \cup altered) : checks'[k] = checks[k]
  BY <1>u, <1>9
<1>19. \A j, k \in new : checks'[j].type = checks'[k].type => j = k
  BY <1>6, <1>16
<1>20. ASSUME NEW j \in new, NEW k \in DOMAIN checks \ dels, checks[k].endpoint = e
       PROVE  checks[k].type # checks'[j].type
  BY <1>6, <1>16, <1>20, <1>s, <1>v
<1>21. Changes(e, new, dels, altered)
  BY <1>9, <1>10, <1>11, <1>12, <1>16, <1>17, <1>18, <1>19, <1>20, <1>u DEF Changes
<1>22. Fitting(new)
  <2> SUFFICES ASSUME NEW k \in new, NEW d \in Clients, NEW s \in DOMAIN forms[d].checks,
                      forms[d].checks[s].id = k
               PROVE  checks'[k].endpoint = forms[d].endpoint /\ checks'[k].type = s
    BY DEF Fitting
  <2>1. k \in usedChecks
    BY DEF FormsFit
  <2>2. PICK t \in adds \ fresh : k = Id(t) /\ TypeAt(k) = t
    BY <1>2, <1>6, <2>1
  <2>3. t \in DOMAIN forms[c].checks /\ forms[c].checks[t].id = forms[d].checks[s].id
    BY <1>3, <2>2
  <2>4. t = s /\ forms[c].endpoint = forms[d].endpoint
    BY <2>3 DEF FormsFit
  <2>5. e = forms[c].endpoint
    BY DEF e
  <2> QED
    BY <1>16, <2>2, <2>4, <2>5
<1>23. Reindexed(new, dels, altered)
  <2>1. ASSUME NEW r
        PROVE  r \in index' <=>
                 \/ /\ r \in index
                    /\ \A k \in dels : r \notin AllRowsOf(k)
                    /\ \A k \in altered : r \notin Removed(k, Old(k), At(k).route)
                 \/ \E k \in new : r \in RowsOf(k, At(k).route)
                 \/ \E k \in altered : r \in Inserted(k, Old(k), At(k).route)
    BY <1>u
  <2>2. /\ \A k \in new : At(k).route = checks'[k].content.route
        /\ \A k \in altered : At(k).route = checks'[k].content.route
    BY <1>16, <1>17
  <2> QED
    BY <2>1, <2>2 DEF Reindexed
<1>24. Publishes(e, new \cup altered)
  <2>1. ItemsOf(old) = ItemsAt(e)
    BY ViewItems DEF old
  <2> DEFINE At1 == {[id |-> Id(t), content |-> payload[t].content] : t \in DOMAIN payload}
             Now == {k \in DOMAIN checks' : checks'[k].endpoint = e}
             At2 == {[id |-> k, content |-> checks'[k].content] : k \in Now}
  <2>2. ASSUME NEW t \in DOMAIN payload
        PROVE  Id(t) \in Now /\ checks'[Id(t)].content = payload[t].content
    <3>1. CASE t \in adds
      <4>1. Id(t) \in new
        BY <1>n, <3>1
      <4> QED
        BY <1>5, <1>12, <1>16, <4>1
    <3>2. CASE t \in changed
      <4>1. Id(t) \in altered
        BY <1>n, <3>2
      <4> QED
        BY <1>5, <1>10, <1>12, <1>17, <4>1
    <3>3. CASE t \in kept \ changed
      <4>1. Id(t) = old[t].id /\ Id(t) \in DOMAIN checks /\ checks[Id(t)].endpoint = e
            /\ checks[Id(t)].type = t
        BY <1>1, <3>3
      <4>2. Id(t) \notin altered
        BY <1>1, <1>7, <1>s, <3>3, <4>1
      <4>3. Id(t) \notin dels
        BY <1>8, <1>v, <4>1
      <4>4. Id(t) \in DOMAIN checks' /\ checks'[Id(t)] = checks[Id(t)]
        BY <1>12, <1>18, <4>1, <4>2, <4>3
      <4>5. payload[t].content = old[t].content
        BY <3>3 DEF kept, changed
      <4>6. old[t].content = checks[Id(t)].content
        BY <1>s, <1>v, <3>3, <4>1
      <4> QED
        BY <4>1, <4>4, <4>5, <4>6
    <3> QED
      BY <1>s, <3>1, <3>2, <3>3
  <2>3. ASSUME NEW k \in Now
        PROVE  \E t \in DOMAIN payload : k = Id(t)
    <3>1. CASE k \in new
      BY <1>6, <1>s, <3>1
    <3>2. CASE k \notin new
      <4>1. k \in DOMAIN checks \ dels /\ checks[k].endpoint = e
        BY <1>12, <1>11, <1>18, <3>2
      <4>2. checks[k].type \in DOMAIN old /\ old[checks[k].type].id = k
        BY <1>v, <4>1
      <4>3. checks[k].type \in DOMAIN payload
        BY <1>n, <4>1, <4>2
      <4>4. checks[k].type \in kept
        BY <1>s, <4>2, <4>3
      <4> QED
        BY <1>1, <4>2, <4>3, <4>4
    <3> QED
      BY <3>1, <3>2
  <2>4. At1 = At2
    <3> HIDE DEF Now
    <3>1. \A i \in At1 : i \in At2
      BY <2>2
    <3>2. \A i \in At2 : i \in At1
      BY <2>2, <2>3
    <3> QED
      BY <3>1, <3>2
  <2>5. ItemsThen(e) = At2
    BY DEF ItemsThen
  <2> QED
    BY <1>u, <2>1, <2>4, <2>5 DEF Publishes
<1> QED
  BY <1>21, <1>22, <1>23, <1>24, <1>u DEF e

\* What a client sends: some types, each with a content.
LEMMA PartialFacts ==
  ASSUME NEW S, NEW T, NEW f \in Partial(S, T)
  PROVE  DOMAIN f \subseteq S /\ \A x \in DOMAIN f : f[x] \in T
  BY DEF Partial

\* AddEndpoint: all the checks are new.
LEMMA AddFacts ==
  ASSUME TypeOK, FormsFit, Owned, NEW e \in Endpoints,
         NEW payload \in Partial(Types, Contents), AddEndpoint(e, payload)
  PROVE  \E new : /\ Changes(e, new, {}, {}) /\ Fitting(new) /\ Reindexed(new, {}, {})
                   /\ Publishes(e, new)
<1> DEFINE ids == NewIds(DOMAIN payload)
           new == {ids[t] : t \in DOMAIN payload}
           TypeAt(k) == CHOOSE t \in DOMAIN payload : ids[t] = k
           At(k) == Validated(payload[TypeAt(k)])
<1>u. /\ e \notin usedEndpoints
      /\ HasIds(DOMAIN payload)
      /\ checks' = [k \in DOMAIN checks \cup new |->
                      IF k \in new
                      THEN [endpoint |-> e, type |-> TypeAt(k), content |-> At(k),
                            offset |-> e % At(k).frequency]
                      ELSE checks[k]]
      /\ usedChecks' = usedChecks \cup new
      /\ index' = index \cup UNION {RowsOf(k, At(k).route) : k \in new}
      /\ event' = [last |-> {}, current |-> {[id |-> k, content |-> At(k)] : k \in new},
                   changed |-> new]
  BY DEF AddEndpoint, Publish
<1>p. DOMAIN payload \subseteq Types /\ \A t \in DOMAIN payload : Validated(payload[t]) \in Narrowed
  BY PartialFacts, ContentFacts
<1>i. /\ \A t \in DOMAIN payload : ids[t] \in CheckIds \ usedChecks
      /\ \A s, t \in DOMAIN payload : ids[s] = ids[t] => s = t
  BY <1>u, NewIdsFacts
<1>y. /\ DOMAIN checks \subseteq usedChecks /\ usedChecks \subseteq CheckIds
      /\ e \in Nat /\ \A k \in DOMAIN checks : checks[k].endpoint # e
  BY <1>u DEF TypeOK, Owned
<1> HIDE DEF ids
<1>1. ASSUME NEW t \in DOMAIN payload
      PROVE  TypeAt(ids[t]) = t
  <2>1. \E s \in DOMAIN payload : ids[s] = ids[t]
    OBVIOUS
  <2>2. TypeAt(ids[t]) \in DOMAIN payload /\ ids[TypeAt(ids[t])] = ids[t]
    BY <2>1
  <2> QED
    BY <1>i, <2>2
<1>2. \A k \in new : /\ TypeAt(k) \in DOMAIN payload /\ ids[TypeAt(k)] = k
                     /\ k \in CheckIds \ usedChecks
  BY <1>1, <1>i
<1>3. \A k \in new : TypeAt(k) \in Types /\ At(k) \in Narrowed
  BY <1>2, <1>p
<1> HIDE DEF TypeAt, At, new
<1>4. ASSUME NEW k \in new
      PROVE  /\ checks'[k] \in Rows /\ checks'[k].endpoint = e /\ checks'[k].type = TypeAt(k)
             /\ checks'[k].content = At(k)
  <2>1. PICK o \in Nat : o = e % At(k).frequency
    BY <1>3, <1>y, NarrowedFacts
  <2>2. checks'[k] = [endpoint |-> e, type |-> TypeAt(k), content |-> At(k), offset |-> o]
    BY <1>u, <2>1
  <2>3. TypeAt(k) \in Types /\ At(k) \in Narrowed
    BY <1>3
  <2> QED
    BY <2>2, <2>3 DEF Rows
<1>5. Changes(e, new, {}, {})
  <2>1. new \subseteq CheckIds \ DOMAIN checks
    BY <1>2, <1>y
  <2>2. DOMAIN checks' = DOMAIN checks \cup new /\ \A k \in DOMAIN checks : checks'[k] = checks[k]
    BY <1>u, <2>1
  <2>3. \A j, k \in new : checks'[j].type = checks'[k].type => j = k
    BY <1>2, <1>4
  <2> QED
    BY <1>4, <1>u, <1>y, <2>1, <2>2, <2>3 DEF Changes
<1>6. Fitting(new)
  <2>1. \A c \in Clients : \A t \in DOMAIN forms[c].checks : forms[c].checks[t].id \in usedChecks
    BY DEF FormsFit
  <2> QED
    BY <1>2, <2>1 DEF Fitting
<1>7. Reindexed(new, {}, {})
  <2>1. \A k \in new : At(k).route = checks'[k].content.route
    BY <1>4
  <2>2. \A r : r \in index' <=> r \in index \/ \E k \in new : r \in RowsOf(k, At(k).route)
    BY <1>u
  <2> QED
    BY <2>1, <2>2 DEF Reindexed
<1>8. Publishes(e, new)
  <2>1. ItemsAt(e) = {}
    BY <1>y DEF ItemsAt
  <2>2. /\ \A k \in DOMAIN checks' : checks'[k].endpoint = e <=> k \in new
        /\ new \subseteq DOMAIN checks' /\ \A k \in new : checks'[k].content = At(k)
    BY <1>4, <1>5, <1>y DEF Changes
  <2>3. ItemsThen(e) = {[id |-> k, content |-> At(k)] : k \in new}
    BY <2>2 DEF ItemsThen
  <2> QED
    BY <1>u, <2>1, <2>3 DEF Publishes
<1> QED
  BY <1>5, <1>6, <1>7, <1>8

\* DeleteEndpoint: all its checks are deleted.
LEMMA DeleteFacts ==
  ASSUME TypeOK, Indexed, NEW e, DeleteEndpoint(e)
  PROVE  \E dels : /\ Changes(e, {}, dels, {}) /\ Fitting({}) /\ Reindexed({}, dels, {})
                    /\ Publishes(e, {}) /\ \A k \in DOMAIN checks \ dels : checks[k].endpoint # e
<1> DEFINE dels == {k \in DOMAIN checks : checks[k].endpoint = e}
<1>1. Changes(e, {}, dels, {})
  BY DEF DeleteEndpoint, Changes
<1>2. Reindexed({}, dels, {})
  <2>1. \A r : r \in index' <=> r \in index /\ checks[r[2]].endpoint # e
    BY DEF DeleteEndpoint
  <2>2. \A r \in index : r[2] \in DOMAIN checks
    BY DEF Indexed
  <2>3. \A r \in index : (\A k \in dels : r \notin AllRowsOf(k)) <=> r[2] \notin dels
    BY DEF AllRowsOf
  <2> QED
    BY <2>1, <2>2, <2>3 DEF Reindexed
<1>3. Publishes(e, {})
  <2>1. ItemsOf(View(e)) = ItemsAt(e)
    BY ViewItems
  <2>2. \A k \in DOMAIN checks' : checks'[k].endpoint # e
    BY DEF DeleteEndpoint
  <2>3. ItemsThen(e) = {}
    BY <2>2 DEF ItemsThen
  <2> QED
    BY <2>1, <2>3 DEF DeleteEndpoint, Publish, Publishes
<1> QED
  BY <1>1, <1>2, <1>3 DEF Fitting

-----------------------------------------------------------------------------
(* The invariant.                                                          *)

IndexOK == index \subseteq {"ids", "tags"} \X CheckIds \X (Probes \cup Tags)

\* A route's rows are of probes and tags that there are.
LEMMA IndexTyped == ChecksTyped /\ Indexed => IndexOK
<1> SUFFICES ASSUME ChecksTyped, Indexed, NEW r \in index
             PROVE  r \in {"ids", "tags"} \X CheckIds \X (Probes \cup Tags)
  BY DEF IndexOK
<1>1. r[2] \in DOMAIN checks /\ r \in RowsOf(r[2], checks[r[2]].content.route)
  BY DEF Indexed
<1>2. r[2] \in CheckIds /\ checks[r[2]] \in Rows
  BY <1>1 DEF ChecksTyped
<1>3. checks[r[2]].content.route \in Routes
  BY <1>2, NarrowedFacts DEF Rows
<1> QED
  BY <1>1, <1>2, <1>3, RowFacts

\* The same after a step.
LEMMA IndexTypedNext == ChecksTyped' /\ Indexed' => IndexOK'
  BY IndexTyped, PTL

\* A request that changes checks, their rows and the event together keeps the
\* invariant.
LEMMA ChangesKeep ==
  ASSUME IInv, NEW e, NEW new, NEW dels, NEW altered,
         Changes(e, new, dels, altered), Fitting(new), Reindexed(new, dels, altered),
         Publishes(e, new \cup altered), UNCHANGED <<probeVars, forms>>,
         endpoints' \subseteq usedEndpoints', usedEndpoints' \subseteq Endpoints,
         \A k \in DOMAIN checks' : checks'[k].endpoint \in endpoints',
         requests' \in 0 .. MaxRequests
  PROVE  IInv'
<1>1. ChecksTyped /\ ChecksTyped'
  <2>1. ChecksTyped
    BY DEF IInv, TypeOK, ChecksTyped
  <2> QED
    BY <2>1, ChangesTyped
<1>2. Indexed' /\ FormsFit' /\ Owned'
  BY <1>1, ChangesIndexed, ChangesFit DEF IInv, Owned, probeVars
<1>3. event'.last \subseteq Items /\ event'.current \subseteq Items
  <2>1. ItemsAt(e) \subseteq Items
    BY ViewItems DEF IInv
  <2>2. \A k \in DOMAIN checks' : k \in CheckIds \cup {0} /\ checks'[k].content \in Narrowed
    BY <1>1 DEF ChecksTyped, Rows
  <2>3. ItemsThen(e) \subseteq Items
    <3>1. \A k \in DOMAIN checks' : [id |-> k, content |-> checks'[k].content] \in Items
      BY <2>2, RecordFacts
    <3> QED
      BY <3>1 DEF ItemsThen
  <2> QED
    BY <2>1, <2>3 DEF Publishes
<1>4. index' \subseteq {"ids", "tags"} \X CheckIds \X (Probes \cup Tags)
  BY <1>1, <1>2, IndexTypedNext DEF IndexOK
<1>5. TypeOK'
  <2>1. /\ DOMAIN checks' \subseteq usedChecks' /\ usedChecks' \subseteq CheckIds
        /\ \A k \in DOMAIN checks' : checks'[k] \in Rows
        /\ \A j, k \in DOMAIN checks' :
             checks'[j].endpoint = checks'[k].endpoint
               /\ checks'[j].type = checks'[k].type => j = k
    BY <1>1 DEF ChecksTyped
  <2>2. /\ probes' \subseteq Probes /\ goneProbes' \subseteq Probes \ probes'
        /\ probeTags' \subseteq Orgs \X Probes \X Tags
    BY DEF IInv, TypeOK, probeVars
  <2>3. /\ DOMAIN forms' = Clients
        /\ \A c \in Clients : /\ DOMAIN forms'[c].checks \subseteq Types
                              /\ \A t \in DOMAIN forms'[c].checks :
                                   forms'[c].checks[t] \in Items
    BY DEF IInv, TypeOK
  <2> QED
    BY <1>3, <1>4, <2>1, <2>2, <2>3 DEF TypeOK
<1> QED
  BY <1>2, <1>5 DEF IInv

\* The number of requests stays within its bound.
LEMMA RequestFacts == ASSUME TypeOK, Request PROVE requests' \in 0 .. MaxRequests
  BY DEF TypeOK, Request

\* AddEndpoint keeps the invariant.
LEMMA AddKeeps ==
  ASSUME IInv, NEW e \in Endpoints, NEW payload \in Partial(Types, Contents),
         AddEndpoint(e, payload)
  PROVE  IInv'
<1>1. PICK new : /\ Changes(e, new, {}, {}) /\ Fitting(new) /\ Reindexed(new, {}, {})
                 /\ Publishes(e, new)
  BY AddFacts DEF IInv
<1>2. /\ UNCHANGED <<probeVars, forms>> /\ endpoints' = endpoints \cup {e}
      /\ usedEndpoints' = usedEndpoints \cup {e}
  BY DEF AddEndpoint
<1>3. \A k \in DOMAIN checks' : checks'[k].endpoint \in endpoints'
  BY <1>1, <1>2 DEF IInv, Owned, Changes
<1>4. requests' \in 0 .. MaxRequests
  BY RequestFacts DEF AddEndpoint, IInv
<1>5. Publishes(e, new \cup {})
  <2>1. new \cup {} = new
    OBVIOUS
  <2> QED
    BY <1>1, <2>1
<1>6. endpoints' \subseteq usedEndpoints' /\ usedEndpoints' \subseteq Endpoints
  BY <1>2 DEF IInv, TypeOK
<1> QED
  BY <1>1, <1>2, <1>3, <1>4, <1>5, <1>6, ChangesKeep

\* DeleteEndpoint keeps the invariant.
LEMMA DeleteKeeps ==
  ASSUME IInv, NEW e \in Endpoints, DeleteEndpoint(e)
  PROVE  IInv'
<1>1. PICK dels : /\ Changes(e, {}, dels, {}) /\ Fitting({}) /\ Reindexed({}, dels, {})
                  /\ Publishes(e, {}) /\ \A k \in DOMAIN checks \ dels : checks[k].endpoint # e
  BY DeleteFacts DEF IInv
<1>2. /\ UNCHANGED <<probeVars, forms>> /\ endpoints' = endpoints \ {e}
      /\ usedEndpoints' = usedEndpoints
  BY DEF DeleteEndpoint
<1>3. \A k \in DOMAIN checks' : checks'[k].endpoint \in endpoints'
  BY <1>1, <1>2 DEF IInv, Owned, Changes
<1>4. requests' \in 0 .. MaxRequests
  BY RequestFacts DEF DeleteEndpoint, IInv
<1>5. Publishes(e, {} \cup {})
  <2>1. {} \cup {} = {}
    OBVIOUS
  <2> QED
    BY <1>1, <2>1
<1>6. endpoints' \subseteq usedEndpoints' /\ usedEndpoints' \subseteq Endpoints
  BY <1>2 DEF IInv, TypeOK
<1> QED
  BY <1>1, <1>2, <1>3, <1>4, <1>5, <1>6, ChangesKeep

\* A handler that saves what it was given, or has read, edited.
LEMMA SaveKeeps ==
  ASSUME IInv, NEW c \in Clients, NEW payload, Given(c, payload), Save(c, payload)
  PROVE  IInv'
<1> DEFINE e == forms[c].endpoint
<1>1. PICK rewritten : Update(e, payload, rewritten)
  BY DEF Save
<1>2. PICK new, dels, altered : /\ Changes(e, new, dels, altered)
                                /\ Fitting(new) /\ Reindexed(new, dels, altered)
                                /\ Publishes(e, new \cup altered)
  BY <1>1, UpdateFacts DEF IInv
<1>3. /\ UNCHANGED <<probeVars, forms>> /\ endpoints' = endpoints
      /\ usedEndpoints' = usedEndpoints /\ e \in endpoints
  BY <1>1 DEF Update, Save
<1> HIDE DEF e
<1>4. \A k \in DOMAIN checks' : checks'[k].endpoint \in endpoints'
  BY <1>2, <1>3 DEF IInv, Owned, Changes
<1>5. requests' \in 0 .. MaxRequests
  BY RequestFacts DEF Save, IInv
<1>6. endpoints' \subseteq usedEndpoints' /\ usedEndpoints' \subseteq Endpoints
  BY <1>3 DEF IInv, TypeOK
<1> QED
  BY <1>2, <1>3, <1>4, <1>5, <1>6, ChangesKeep

\* The payload of every handler is made from what the client has read.
LEMMA GivenByAll ==
  ASSUME TypeOK, NEW c \in Clients, EndpointRequest(c)
  PROVE  \/ \E e \in Endpoints : Read(c, e)
         \/ \E payload : Given(c, payload) /\ Save(c, payload)
<1> DEFINE form == forms[c].checks
<1>f. /\ DOMAIN form \subseteq Types
      /\ \A t \in DOMAIN form : form[t].content \in Narrowed
  BY DEF TypeOK, Items
<1>i. \A t : IdIn(c, t) = 0 \/ (t \in DOMAIN form /\ IdIn(c, t) = form[t].id)
  BY DEF IdIn
<1>w. ASSUME NEW t \in Types, NEW item, item.content \in Narrowed,
             item.id = 0 \/ (t \in DOMAIN form /\ item.id = form[t].id)
      PROVE  Given(c, With(c, t, item))
  BY <1>f, <1>w DEF Given, With
<1>1. CASE \E contents \in Partial(Types, Contents) : UpdateEndpoint(c, contents)
  <2>1. PICK contents \in Partial(Types, Contents) : UpdateEndpoint(c, contents)
    BY <1>1
  <2> DEFINE payload == [t \in DOMAIN contents |-> [id |-> IdIn(c, t), content |-> contents[t]]]
  <2>2. DOMAIN contents \subseteq Types /\ \A t \in DOMAIN contents : contents[t] \in Narrowed
    BY PartialFacts, ContentFacts
  <2>3. Given(c, payload)
    BY <1>i, <2>2 DEF Given
  <2> QED
    BY <2>1, <2>3 DEF UpdateEndpoint
<1>2. CASE DisableEndpoints(c)
  <2> DEFINE payload == [t \in DOMAIN form |-> [form[t] EXCEPT !.content.enabled = FALSE]]
  <2>1. \A t \in DOMAIN form : payload[t].id = form[t].id
                               /\ payload[t].content = [form[t].content EXCEPT !.enabled = FALSE]
    BY DEF TypeOK, Items
  <2>2. \A t \in DOMAIN form : [form[t].content EXCEPT !.enabled = FALSE] \in Narrowed
    BY <1>f, NarrowedFacts
  <2>3. DOMAIN payload = DOMAIN form
    OBVIOUS
  <2>4. Given(c, payload)
    <3> HIDE DEF payload
    <3> QED
      BY <1>f, <2>1, <2>2, <2>3 DEF Given
  <2> QED
    BY <1>2, <2>4 DEF DisableEndpoints
<1>3. CASE V1UpdateEndpoint(c)
  <2>1. Given(c, form)
    BY <1>f DEF Given
  <2> QED
    BY <1>3, <2>1 DEF V1UpdateEndpoint
<1>4. CASE \E t \in Types, content \in Contents :
             V1AddMonitor(c, t, content) \/ V1UpdateMonitor(c, t, content)
  <2>1. PICK t \in Types, content \in Contents :
               V1AddMonitor(c, t, content) \/ V1UpdateMonitor(c, t, content)
    BY <1>4
  <2>2. PICK id : /\ id = 0 \/ (t \in DOMAIN form /\ id = form[t].id)
                  /\ Save(c, With(c, t, [id |-> id, content |-> Validated(content)]))
    BY <1>i, <2>1 DEF V1AddMonitor, V1UpdateMonitor
  <2>3. Given(c, With(c, t, [id |-> id, content |-> Validated(content)]))
    BY <1>w, <2>2, ContentFacts
  <2> QED
    BY <2>2, <2>3
<1>5. CASE \E t \in Types : V1DeleteMonitor(c, t)
  <2>1. PICK t \in Types : Save(c, Without(c, t))
    BY <1>5 DEF V1DeleteMonitor
  <2>2. Given(c, Without(c, t))
    BY <1>f DEF Given, Without
  <2> QED
    BY <2>1, <2>2
<1> QED
  BY <1>1, <1>2, <1>3, <1>4, <1>5 DEF EndpointRequest

\* The forms of a client after Read.
LEMMA ReadKeeps ==
  ASSUME IInv, NEW c \in Clients, NEW e \in Endpoints, Read(c, e)
  PROVE  IInv'
<1> DEFINE V == [endpoint |-> e, checks |-> View(e)]
<1>u. /\ forms' = [forms EXCEPT ![c] = V] /\ event' = NoEvent
      /\ UNCHANGED <<endpointVars, index, probeVars, requests>>
  BY DEF Read
<1>t. TypeOK
  BY DEF IInv
<1>1. DOMAIN forms' = Clients /\ forms'[c] = V /\ \A d \in Clients \ {c} : forms'[d] = forms[d]
  BY <1>t, <1>u DEF TypeOK
<1>2. /\ DOMAIN View(e) \subseteq Types
      /\ \A t \in DOMAIN View(e) :
           LET k == View(e)[t].id IN
           /\ k \in DOMAIN checks /\ checks[k].endpoint = e /\ checks[k].type = t
           /\ View(e)[t] \in Items
  BY <1>t, ViewFacts
<1>3. V.endpoint = e /\ V.checks = View(e)
  OBVIOUS
<1> HIDE DEF V
<1>4. TypeOK'
  <2>1. ASSUME NEW d \in Clients
        PROVE  /\ DOMAIN forms'[d].checks \subseteq Types
               /\ \A t \in DOMAIN forms'[d].checks : forms'[d].checks[t] \in Items
    <3>1. CASE d = c
      BY <1>1, <1>2, <1>3, <3>1
    <3>2. CASE d # c
      BY <1>1, <1>t, <3>2 DEF TypeOK
    <3> QED
      BY <3>1, <3>2
  <2>2. event'.last = {} /\ event'.current = {}
    BY <1>u DEF NoEvent
  <2> QED
    BY <1>1, <1>t, <1>u, <2>1, <2>2 DEF TypeOK, endpointVars, probeVars
<1>5. Indexed' /\ Owned'
  BY <1>u DEF IInv, Indexed, Owned, endpointVars, probeVars
<1>6. FormsFit'
  <2> SUFFICES ASSUME NEW a \in Clients, NEW b \in Clients, NEW s \in DOMAIN forms'[a].checks,
                      NEW k, k = forms'[a].checks[s].id
               PROVE  /\ k \in usedChecks
                      /\ k \in DOMAIN checks => /\ checks[k].endpoint = forms'[a].endpoint
                                                /\ checks[k].type = s
                      /\ \A t \in DOMAIN forms'[b].checks :
                           forms'[b].checks[t].id = k =>
                             s = t /\ forms'[a].endpoint = forms'[b].endpoint
    BY <1>u DEF FormsFit, endpointVars
  <2>v. \A t \in DOMAIN View(e) : View(e)[t].id = k =>
          k \in DOMAIN checks /\ checks[k].endpoint = e /\ checks[k].type = t
    BY <1>2
  <2>o. \A d \in Clients \ {c} : \A t \in DOMAIN forms'[d].checks : forms'[d].checks[t].id = k =>
          /\ k \in usedChecks
          /\ k \in DOMAIN checks => checks[k].endpoint = forms'[d].endpoint /\ checks[k].type = t
    BY <1>1 DEF IInv, FormsFit
  <2>1. CASE a = c
    <3>1. forms'[a].endpoint = e /\ k \in DOMAIN checks /\ checks[k].endpoint = e /\ checks[k].type = s
      BY <1>1, <1>3, <2>1, <2>v
    <3>2. k \in usedChecks
      BY <1>t, <3>1 DEF TypeOK
    <3>3. CASE b = c
      BY <1>1, <1>3, <2>v, <3>1, <3>2, <3>3
    <3>4. CASE b # c
      BY <2>o, <3>1, <3>2, <3>4
    <3> QED
      BY <3>3, <3>4
  <2>2. CASE a # c
    <3>1. /\ k \in usedChecks
          /\ k \in DOMAIN checks => checks[k].endpoint = forms'[a].endpoint /\ checks[k].type = s
      BY <2>2, <2>o
    <3>2. CASE b = c
      BY <1>1, <1>3, <2>v, <3>1, <3>2
    <3>3. CASE b # c
      <4>1. forms'[a] = forms[a] /\ forms'[b] = forms[b]
        BY <1>1, <2>2, <3>3
      <4> QED
        BY <3>1, <4>1 DEF IInv, FormsFit
    <3> QED
      BY <3>2, <3>3
  <2> QED
    BY <2>1, <2>2
<1> QED
  BY <1>4, <1>5, <1>6 DEF IInv

\* Probes come, are tagged, and go: only DeleteProbe writes the indexes, and
\* an id is not given to another probe.
LEMMA ProbeKeeps ==
  ASSUME IInv, NEW p \in Probes, ProbeRequest(p)
  PROVE  IInv'
<1>u. event' = NoEvent /\ UNCHANGED <<endpointVars, forms>> /\ requests' \in 0 .. MaxRequests
  BY RequestFacts DEF IInv, ProbeRequest, AddProbe, UpdateProbe, DeleteProbe
<1>1. CASE \E tags \in SUBSET Tags : AddProbe(p, tags)
  <2>1. PICK tags \in SUBSET Tags : AddProbe(p, tags)
    BY <1>1
  <2>2. /\ probes' = probes \cup {p} /\ p \notin goneProbes /\ UNCHANGED <<index, goneProbes>>
        /\ probeTags' = probeTags \cup ({OwnerOf[p]} \X {p} \X tags)
    BY <2>1 DEF AddProbe
  <2>3. OwnerOf[p] \in Orgs
    OBVIOUS
  <2>4. probeTags' \subseteq Orgs \X Probes \X Tags
    BY <2>2, <2>3 DEF IInv, TypeOK
  <2>5. TypeOK'
    BY <1>u, <2>2, <2>4 DEF IInv, TypeOK, NoEvent, endpointVars
  <2> QED
    BY <1>u, <2>2, <2>5 DEF IInv, Indexed, Owned, FormsFit, endpointVars
<1>2. CASE \E o \in Orgs, tags \in SUBSET Tags : UpdateProbe(o, p, tags)
  <2>1. PICK o \in Orgs, tags \in SUBSET Tags : UpdateProbe(o, p, tags)
    BY <1>2
  <2>2. UNCHANGED <<index, probes, goneProbes>>
    BY <2>1 DEF UpdateProbe
  <2>3. probeTags' \subseteq Orgs \X Probes \X Tags
    BY <2>1 DEF IInv, TypeOK, UpdateProbe
  <2>4. TypeOK'
    BY <1>u, <2>2, <2>3 DEF IInv, TypeOK, NoEvent, endpointVars
  <2> QED
    BY <1>u, <2>2, <2>4 DEF IInv, Indexed, Owned, FormsFit, endpointVars
<1>3. CASE DeleteProbe(p)
  <2>1. /\ probes' = probes \ {p} /\ goneProbes' = goneProbes \cup {p}
        /\ probeTags' \subseteq probeTags
        /\ index' = {r \in index : ~(r[1] = "ids" /\ r[3] = p)}
    BY <1>3 DEF DeleteProbe
  <2>2. TypeOK'
    BY <1>u, <2>1 DEF IInv, TypeOK, NoEvent, endpointVars
  <2>3. Indexed'
    BY <1>u, <2>1 DEF IInv, Indexed, endpointVars
  <2> QED
    BY <1>u, <2>2, <2>3 DEF IInv, Owned, FormsFit, endpointVars
<1> QED
  BY <1>1, <1>2, <1>3 DEF ProbeRequest

\* The invariant holds before the first request,
LEMMA InitIInv == Init => IInv
<1> SUFFICES ASSUME Init PROVE IInv
  OBVIOUS
<1>1. DOMAIN checks = {}
  BY DEF Init, Empty
<1>2. DOMAIN forms = Clients /\ \A c \in Clients : DOMAIN forms[c].checks = {}
  BY DEF Init, NoForm, Empty
<1>3. probeTags \subseteq Orgs \X Probes \X Tags
  BY DEF Init
<1>4. TypeOK
  BY <1>1, <1>2, <1>3 DEF Init, TypeOK, NoEvent
<1> QED
  BY <1>1, <1>2, <1>4 DEF Init, IInv, Indexed, Owned, FormsFit

\* and every request keeps it.
LEMMA NextIInv == IInv /\ [Next]_vars => IInv'
<1> SUFFICES ASSUME IInv, [Next]_vars PROVE IInv'
  OBVIOUS
<1>1. CASE \E e \in Endpoints, payload \in Partial(Types, Contents) : AddEndpoint(e, payload)
  BY <1>1, AddKeeps
<1>2. CASE \E e \in Endpoints : DeleteEndpoint(e)
  BY <1>2, DeleteKeeps
<1>3. CASE \E c \in Clients : EndpointRequest(c)
  <2>1. PICK c \in Clients : EndpointRequest(c)
    BY <1>3
  <2>2. \/ \E e \in Endpoints : Read(c, e)
        \/ \E payload : Given(c, payload) /\ Save(c, payload)
    BY <2>1, GivenByAll DEF IInv
  <2> QED
    BY <2>2, ReadKeeps, SaveKeeps
<1>4. CASE \E p \in Probes : ProbeRequest(p)
  BY <1>4, ProbeKeeps
<1>5. CASE UNCHANGED vars
  BY <1>5 DEF vars, IInv, TypeOK, Indexed, Owned, FormsFit
<1> QED
  BY <1>1, <1>2, <1>3, <1>4, <1>5 DEF Next

-----------------------------------------------------------------------------
(* Theorems.                                                               *)

\* The invariant of all of this holds in every state.
THEOREM Invariance == Spec => []IInv
<1> QED
  BY InitIInv, NextIInv, PTL DEF Spec

\* Rows, indexes, probes, forms and events are what their types say: an endpoint
\* has one check of a type, whatever clients write over each other.
THEOREM TypeCorrect == Spec => []TypeOK
<1>1. IInv => TypeOK
  BY DEF IInv
<1> QED
  BY <1>1, Invariance, PTL

\* A check is one of a probe's by the indexes exactly if the probe is one of the
\* check's by its route.
LEMMA Agreement ==
  ASSUME IInv, NEW p \in probes, NEW k \in DOMAIN checks
  PROVE  k \in ProbeChecks(p) <=>
           checks[k].content.enabled /\ p \in ProbesForCheck(checks[k].content.route)
<1> DEFINE route == checks[k].content.route
<1>1. route \in Routes
  <2>1. checks[k] \in Rows
    BY DEF IInv, TypeOK
  <2> QED
    BY <2>1, NarrowedFacts DEF Rows
<1>2. checks[k].endpoint \in endpoints
  BY DEF IInv, Owned
<1>3. p \notin goneProbes
  BY DEF IInv, TypeOK
<1>4. /\ \A r \in index : r[2] = k => r \in RowsOf(k, route)
      /\ \A r \in RowsOf(k, route) : r \in index \/ (r[1] = "ids" /\ r[3] \in goneProbes)
  BY DEF IInv, Indexed
<1> HIDE DEF route
<1>5. \A x : (<<"ids", k, x>> \in RowsOf(k, route) <=> route.by = "ids" /\ x \in route.of)
  BY DEF RowsOf
<1>6. \A x : (<<"tags", k, x>> \in RowsOf(k, route) <=> route.by = "tags" /\ x \in route.of)
  BY DEF RowsOf
<1>7. <<"ids", k, p>> \in index <=> route.by = "ids" /\ p \in route.of
  <2>1. <<"ids", k, p>>[2] = k /\ <<"ids", k, p>>[3] = p
    OBVIOUS
  <2> QED
    BY <1>3, <1>4, <1>5, <2>1
<1>8. \A t : (<<"tags", k, t>> \in index <=> route.by = "tags" /\ t \in route.of)
  <2> SUFFICES ASSUME NEW t
               PROVE  <<"tags", k, t>> \in index <=> route.by = "tags" /\ t \in route.of
    OBVIOUS
  <2>1. <<"tags", k, t>>[2] = k /\ <<"tags", k, t>>[1] = "tags"
    OBVIOUS
  <2> QED
    BY <1>4, <1>6, <2>1
<1>9. route.by = "ids" \/ (route.by = "tags" /\ route.of \subseteq Tags)
  BY <1>1 DEF Routes
<1>10. p \in ProbesForCheck(route) <=>
         \/ <<"ids", k, p>> \in index
         \/ \E t \in Tags : <<"tags", k, t>> \in index /\ <<Org, p, t>> \in probeTags
  BY <1>7, <1>8, <1>9 DEF ProbesForCheck
<1> QED
  BY <1>2, <1>10 DEF ProbeChecks, route

\* The indexes that refreshes read agree with the routes that events are sent
\* by, whatever requests come in whatever order.
THEOREM IndexesFollowRoutes == Spec => []IndexesAgree
<1>1. IInv => IndexesAgree
  BY Agreement DEF IndexesAgree
<1> QED
  BY <1>1, Invariance, PTL

\* A form that is saved after its endpoint was deleted brings no check back, and
\* no row of an index outlives its check.
THEOREM NothingOrphaned == Spec => []NoOrphans
<1>1. IInv => NoOrphans
  BY DEF IInv, Owned, Indexed, NoOrphans
<1> QED
  BY <1>1, Invariance, PTL

-----------------------------------------------------------------------------
(* What the handlers of an event make of it.                               *)

\* An enabled check, at its position, for a probe of its route.
Meant(p, pos, i) ==
  i.content.enabled /\ EmitTo(i.id) = pos /\ p \in ProbesForCheck(i.content.route)
Row(k) == [id |-> k, content |-> checks[k].content]
RunningByRoutes ==
  \A p \in probes : \A pos, i :
    i \in Running(p, pos) <=> \E k \in DOMAIN checks : i = Row(k) /\ Meant(p, pos, i)

\* After a refresh a session runs the enabled checks of its position whose route
\* has its probe.
LEMMA RunningFacts == IInv => RunningByRoutes
<1> SUFFICES ASSUME IInv, NEW p \in probes, NEW pos, NEW i
             PROVE  i \in Running(p, pos) <=>
                      \E k \in DOMAIN checks : i = Row(k) /\ Meant(p, pos, i)
  BY DEF RunningByRoutes
<1>1. i \in Running(p, pos) <=>
        \E k \in ProbeChecks(p) : k % NumSessions = pos /\ i = Row(k)
  BY DEF Running, Row
<1>2. ProbeChecks(p) \subseteq DOMAIN checks
  BY DEF ProbeChecks
<1>3. \A k \in DOMAIN checks : k \in ProbeChecks(p) <=>
        checks[k].content.enabled /\ p \in ProbesForCheck(checks[k].content.route)
  BY Agreement
<1>4. \A k : i = Row(k) => i.id = k /\ i.content = checks[k].content
  BY DEF Row
<1> QED
  BY <1>1, <1>2, <1>3, <1>4 DEF Meant, EmitTo

\* The same after a step.
LEMMA RunningFactsNext == IInv' => RunningByRoutes'
  BY RunningFacts, PTL

\* A session that drops what it is told to stop or to run anew, and runs what it
\* is told, runs what a refresh would give it after the request.
LEMMA HeardOfChanges ==
  ASSUME IInv, IInv', NEW e, NEW new, NEW dels, NEW altered,
         Changes(e, new, dels, altered), Publishes(e, new \cup altered),
         UNCHANGED probeVars, NEW p \in probes, NEW pos
  PROVE  {i \in Running(p, pos) : i.id \notin Ids(Told(p, pos) \cup Stopped(p, pos))'}
           \cup Told(p, pos)' = Running(p, pos)'
<1> DEFINE Then(k) == [id |-> k, content |-> checks'[k].content]
           M(i) == Meant(p, pos, i)
           R == Running(p, pos)
           R1 == Running(p, pos)'
           T == Told(p, pos)'
           S == Stopped(p, pos)'
           changed == new \cup altered
<1>1. \A i : M(i) <=> Meant(p, pos, i)'
  <2>1. \A route : ProbesForCheck(route)' = ProbesForCheck(route)
    BY DEF ProbesForCheck, probeVars
  <2> QED
    BY <2>1 DEF Meant, EmitTo
<1>2. \A i : i \in R <=> \E k \in DOMAIN checks : i = Row(k) /\ M(i)
  BY RunningFacts DEF RunningByRoutes
<1>3. \A i : i \in R1 <=> \E k \in DOMAIN checks' : i = Then(k) /\ M(i)
  <2>1. p \in probes'
    BY DEF probeVars
  <2> QED
    BY <1>1, <2>1, RunningFactsNext DEF RunningByRoutes, Row
<1>e. /\ \A i : i \in event'.last <=> \E k \in DOMAIN checks : checks[k].endpoint = e /\ i = Row(k)
      /\ \A i : i \in event'.current <=> \E k \in DOMAIN checks' : checks'[k].endpoint = e /\ i = Then(k)
      /\ event'.changed = changed
  BY DEF Publishes, ItemsAt, ItemsThen, Row
<1>c. /\ DOMAIN checks' = (DOMAIN checks \ dels) \cup new
      /\ dels \subseteq DOMAIN checks /\ altered \subseteq DOMAIN checks \ dels
      /\ \A k \in new \cup altered : checks'[k].endpoint = e
      /\ \A k \in dels \cup altered : checks[k].endpoint = e
      /\ \A k \in DOMAIN checks \ (dels \cup altered) : checks'[k] = checks[k]
      /\ new \cap DOMAIN checks = {}
  BY DEF Changes
<1>4. \A i : i \in T <=> i \in event'.current /\ M(i) /\ i.id \in changed
  BY <1>1, <1>e DEF Told, Enabled, Meant
<1>5. \A i : i \in S <=> /\ i \in event'.last /\ M(i) /\ i.id \notin Ids(T)
                         /\ i.id \in changed \/ i.id \notin Ids(Enabled(event'.current))
  BY <1>1, <1>e DEF Stopped, Enabled, Ids, Meant
<1>6. Ids(Told(p, pos) \cup Stopped(p, pos))' = Ids(T) \cup Ids(S)
  BY DEF Ids
<1>7. /\ \A k : Row(k).id = k /\ Then(k).id = k
      /\ \A k : Row(k).content = checks[k].content /\ Then(k).content = checks'[k].content
  BY DEF Row
<1>8. \A i : M(i) => i.content.enabled
  BY DEF Meant
<1> HIDE DEF Then, M, R, R1, T, S, changed
<1>9. \A k \in DOMAIN checks \ (dels \cup altered) : Then(k) = Row(k)
  BY <1>c DEF Then, Row
<1>10. \A x : x \in changed <=> x \in new \cup altered
  BY DEF changed
<1>11. \A x : /\ x \in Ids(T) <=> \E i \in T : i.id = x
              /\ x \in Ids(S) <=> \E i \in S : i.id = x
              /\ x \in Ids(Enabled(event'.current)) <=> \E i \in event'.current : i.content.enabled /\ i.id = x
  BY DEF Ids, Enabled
<1>12. T \subseteq R1
  BY <1>3, <1>4, <1>e
<1>13. ASSUME NEW i \in R1, i \notin T
       PROVE  i \in R /\ i.id \notin Ids(T) /\ i.id \notin Ids(S)
  <2>1. PICK k \in DOMAIN checks' : i = Then(k) /\ M(i)
    BY <1>3
  <2>2. k \notin changed
    BY <1>13, <1>4, <1>7, <1>c, <1>e, <1>10, <2>1
  <2>3. k \in DOMAIN checks \ (dels \cup altered) /\ i = Row(k) /\ i.id = k
    BY <1>7, <1>9, <1>10, <1>c, <2>1, <2>2
  <2>4. i.id \notin Ids(T)
    BY <1>4, <1>11, <2>2, <2>3
  <2>5. i.id \notin Ids(S)
    <3> SUFFICES ASSUME NEW j \in S, j.id = k PROVE FALSE
      BY <1>11, <2>3
    <3>1. PICK m \in DOMAIN checks : checks[m].endpoint = e /\ j = Row(m)
      BY <1>5, <1>e
    <3>2. m = k
      BY <1>7, <3>1
    <3>3. checks'[k].endpoint = e
      BY <1>c, <2>3, <3>1, <3>2
    <3>4. i \in event'.current /\ i.content.enabled
      BY <1>8, <1>e, <2>1, <3>3
    <3> QED
      BY <1>5, <1>11, <2>2, <2>3, <3>4
  <2> QED
    BY <1>2, <2>1, <2>3, <2>4, <2>5
<1>14. ASSUME NEW i \in R, i.id \notin Ids(T), i.id \notin Ids(S)
       PROVE  i \in R1
  <2>1. PICK k \in DOMAIN checks : i = Row(k) /\ M(i)
    BY <1>2
  <2>2. i.id = k
    BY <1>7, <2>1
  <2>3. CASE checks[k].endpoint # e
    <3>1. k \in DOMAIN checks' /\ Then(k) = Row(k)
      BY <1>9, <1>c, <2>3
    <3> QED
      BY <1>3, <2>1, <3>1
  <2>4. CASE checks[k].endpoint = e
    <3>1. i \in event'.last
      BY <1>e, <2>1, <2>4
    <3>2. k \notin changed /\ k \in Ids(Enabled(event'.current))
      BY <1>5, <1>11, <1>14, <2>1, <2>2, <3>1
    <3>3. PICK j \in event'.current : j.id = k
      BY <1>11, <3>2
    <3>4. k \in DOMAIN checks'
      BY <1>7, <1>e, <3>3
    <3>5. Then(k) = Row(k)
      BY <1>9, <1>10, <1>c, <3>2, <3>4
    <3> QED
      BY <1>3, <2>1, <3>4, <3>5
  <2> QED
    BY <2>3, <2>4
<1>15. {i \in R : i.id \notin Ids(T) \cup Ids(S)} \cup T = R1
  BY <1>12, <1>13, <1>14
<1> QED
  BY <1>6, <1>15 DEF R, R1, T, S

\* Every request that publishes an event tells of the checks it changes.
LEMMA EventsHeard ==
  ASSUME IInv, IInv', [Next]_vars
  PROVE  \/ UNCHANGED vars \/ event' = NoEvent
         \/ \E e, new, dels, altered :
              /\ Changes(e, new, dels, altered) /\ Publishes(e, new \cup altered)
              /\ UNCHANGED probeVars
<1>1. CASE \E e \in Endpoints, payload \in Partial(Types, Contents) : AddEndpoint(e, payload)
  <2>1. PICK e \in Endpoints, payload \in Partial(Types, Contents) : AddEndpoint(e, payload)
    BY <1>1
  <2>2. PICK new : Changes(e, new, {}, {}) /\ Publishes(e, new)
    BY <2>1, AddFacts DEF IInv
  <2>3. Publishes(e, new \cup {})
    <3>1. new \cup {} = new
      OBVIOUS
    <3> QED
      BY <2>2, <3>1
  <2> QED
    BY <2>1, <2>2, <2>3 DEF AddEndpoint
<1>2. CASE \E e \in Endpoints : DeleteEndpoint(e)
  <2>1. PICK e \in Endpoints : DeleteEndpoint(e)
    BY <1>2
  <2>2. PICK dels : Changes(e, {}, dels, {}) /\ Publishes(e, {})
    BY <2>1, DeleteFacts DEF IInv
  <2>3. Publishes(e, {} \cup {})
    <3>1. {} \cup {} = {}
      OBVIOUS
    <3> QED
      BY <2>2, <3>1
  <2> QED
    BY <2>1, <2>2, <2>3 DEF DeleteEndpoint
<1>3. CASE \E c \in Clients : EndpointRequest(c)
  <2>1. PICK c \in Clients : EndpointRequest(c)
    BY <1>3
  <2>2. CASE \E e \in Endpoints : Read(c, e)
    BY <2>2 DEF Read
  <2>3. CASE \E payload : Given(c, payload) /\ Save(c, payload)
    <3>1. PICK payload, rewritten : Given(c, payload) /\ Update(forms[c].endpoint, payload, rewritten)
      BY <2>3 DEF Save
    <3>2. PICK new, dels, altered : /\ Changes(forms[c].endpoint, new, dels, altered)
                                    /\ Publishes(forms[c].endpoint, new \cup altered)
      BY <3>1, UpdateFacts DEF IInv
    <3>3. UNCHANGED probeVars
      BY <3>1 DEF Update
    <3> QED
      BY <3>2, <3>3
  <2> QED
    BY <2>1, <2>2, <2>3, GivenByAll DEF IInv
<1>4. CASE \E p \in Probes : ProbeRequest(p)
  BY <1>4 DEF ProbeRequest, AddProbe, UpdateProbe, DeleteProbe
<1> QED
  BY <1>1, <1>2, <1>3, <1>4 DEF Next

\* The handlers of EndpointCreated, EndpointUpdated and EndpointDeleted bring every
\* session of every probe to what a refresh would give it.
THEOREM EventsAreEnough == Spec => EventsSuffice
<1>1. IInv /\ IInv' /\ [Next]_vars =>
        [event' # NoEvent =>
           \A p \in probes, pos \in 0 .. NumSessions - 1 :
             {i \in Running(p, pos) :
                i.id \notin Ids(Told(p, pos) \cup Stopped(p, pos))'}
               \cup Told(p, pos)' = Running(p, pos)']_vars
  <2> SUFFICES ASSUME IInv, IInv', [Next]_vars, ~ UNCHANGED vars, event' # NoEvent,
                      NEW p \in probes, NEW pos \in 0 .. NumSessions - 1
               PROVE  {i \in Running(p, pos) :
                         i.id \notin Ids(Told(p, pos) \cup Stopped(p, pos))'}
                        \cup Told(p, pos)' = Running(p, pos)'
    OBVIOUS
  <2>1. PICK e, new, dels, altered : /\ Changes(e, new, dels, altered)
                                     /\ Publishes(e, new \cup altered) /\ UNCHANGED probeVars
    BY EventsHeard
  <2> QED
    BY <2>1, HeardOfChanges
<1> QED
  BY <1>1, Invariance, PTL DEF Spec, EventsSuffice
=============================================================================
