------------------------------ MODULE Migrator ------------------------------
(***************************************************************************)
(* The migrations that a server applies to its database when it starts,    *)
(* and the data of an older release that they carry over.                  *)
(*                                                                         *)
(* A migration and what it does to the tables are modelled as far as the   *)
(* success of the others depends on it: which tables, added columns and    *)
(* indexes there are, and which rows.  Rows are named by their keys.       *)
(*                                                                         *)
(* The database is external: with MySQL a statement that changes the       *)
(* schema commits by itself; SQLite keeps it in the transaction, and has   *)
(* one name space for the indexes of all tables.                           *)
(***************************************************************************)
EXTENDS Naturals, Sequences, FiniteSets, SequencesExt, TLC

CONSTANTS
    Servers,
    Releases,   \* sets of migrations that older releases have applied
    Stored,     \* by table, the rows that they may have stored
    MaxFaults   \* bound: crashes, log entries that are not written, and
                \* servers that start while another one migrates

VARIABLES
    sqlite,     \* which database it is
    db,         \* the tables
    route,      \* the routes of the checks
    older,      \* what an older release has yet to apply
    log,        \* migrations with a successful entry in migration_log
    server,     \* of each server, what it does, to which migration
    faults,
    before,     \* history: the rows that were stored
    executed,   \* history: migrations whose SQL was executed
    failed,     \* history: migrations that did not succeed
    orderly     \* history: no two servers have migrated at a time, and every
                \* migration that succeeded had its entry before the next one

history == <<before, executed, failed, orderly>>
vars == <<sqlite, older, db, route, log, server, faults, history>>

-----------------------------------------------------------------------------
(* Migrations.  after names what OnSuccess does.                           *)

AddTable(table, columns) ==
    [op |-> "add table", table |-> table, what |-> columns, after |-> "nothing"]
AddColumn(table, column, after) ==
    [op |-> "add column", table |-> table, what |-> column, after |-> after]
DropTable(table) ==
    [op |-> "drop table", table |-> table, what |-> {}, after |-> "nothing"]
RenameTable(old, new) ==
    [op |-> "rename", table |-> old, what |-> new, after |-> "nothing"]
\* Of the columns only those that were added in between.
CopyTableData(target, source, columns, after) ==
    [op |-> "copy", table |-> source, what |-> target, needs |-> columns,
     after |-> after]
AddIndices(table, indices) ==
    [i \in DOMAIN indices |-> [op |-> "add index", table |-> table,
                               what |-> indices[i], after |-> "nothing"]]
DropIndices(table, indices) ==
    [i \in DOMAIN indices |-> [op |-> "drop index", table |-> table,
                               what |-> indices[i], after |-> "nothing"]]

MigrationLog == <<AddTable("migration_log", {})>>

Collectors ==
    <<AddTable("collector", {})>> \o AddIndices("collector", <<"org_id_slug">>)
    \o <<AddTable("collector_tag", {})>>
    \o AddIndices("collector_tag",
                  <<"org_id_collector_id", "collector_id_org_id_tag">>)
    \o <<AddTable("collector_session", {}),
         AddColumn("collector_session", "instance_id", "clear"),
         AddColumn("collector", "online_change", "nothing"),
         AddColumn("collector", "enabled_change", "fill")>>
Probes ==
    <<RenameTable("collector", "probe"), AddTable("probe_tag", {})>>
    \o AddIndices("probe_tag", <<"org_id_probe_id", "org_id_tag_probe_id">>)
    \o <<CopyTableData("probe_tag", "collector_tag", {}, "nothing"),
         DropTable("collector_tag"), AddTable("probe_session", {})>>
    \o AddIndices("probe_session",
                  <<"org_id", "probe_id", "socket_id", "instance_id">>)
    \o <<DropTable("collector_session")>>

V3 == <<"monitor_type_id", "org_id_namespace_monitor_type_id">>
V4 == <<"monitor_type_id", "org_id_endpoint_id_monitor_type_id">>

MonitorV3 ==
    <<AddTable("monitor", {"namespace"})>>
    \o AddIndices("monitor", V3) \o DropIndices("monitor", V3)
    \o <<RenameTable("monitor", "monitor_v3")>>
MonitorV4 ==
    <<AddTable("monitor", {})>> \o AddIndices("monitor", V4)
    \o <<CopyTableData("monitor", "monitor_v3", {}, "nothing"),
         DropTable("monitor_v3")>>
MonitorTypes ==
    <<AddTable("monitor_type", {}), AddTable("monitor_type_setting", {})>>
    \o AddIndices("monitor_type_setting", <<"monitor_type_id">>)
MonitorRoutes ==
    <<AddTable("monitor_collector", {})>>
    \o AddIndices("monitor_collector", <<"monitor_id_collector_id">>)
    \o <<AddTable("monitor_collector_tag", {})>>
    \o AddIndices("monitor_collector_tag", <<"monitor_id", "monitor_id_tag">>)
MonitorColumns ==
    <<AddColumn("monitor", "state_check", "nothing"),
      AddColumn("monitor", "health_settings", "fill"),
      AddColumn("monitor", "type", "fill")>>
    \o DropIndices("monitor", V4)

Checks ==
    <<AddTable("check", {"type", "state_check", "health_settings"})>>
    \o AddIndices("check", <<"org_id_endpoint_id_type">>)
    \o <<CopyTableData("check", "monitor",
                       {"type", "state_check", "health_settings"}, "routes"),
         DropTable("monitor"), DropTable("monitor_type"),
         DropTable("monitor_type_setting")>>
RouteByIdIndex ==
    <<AddTable("route_by_id_index", {})>>
    \o AddIndices("route_by_id_index", <<"check_id_probe_id">>)
    \o <<CopyTableData("route_by_id_index", "monitor_collector", {}, "nothing"),
         DropTable("monitor_collector")>>
RouteByTagIndex ==
    <<[AddTable("route_by_tag_index", {}) EXCEPT !.after = "tags"]>>
    \o AddIndices("route_by_tag_index", <<"check_id_tag", "org_id_tag">>)
    \o <<DropTable("monitor_collector_tag")>>

Endpoints ==
    <<AddTable("endpoint", {})>> \o AddIndices("endpoint", <<"org_id_name">>)
    \o <<AddColumn("endpoint", "slug", "fill"), AddTable("endpoint_tag", {})>>
    \o AddIndices("endpoint_tag", <<"org_id_endpoint_id", "endpoint_id_tag">>)
    \o <<AddColumn("endpoint_tag", "created", "nothing")>>

AlertSchedulerValue == <<AddTable("alert_scheduler_value", {})>>

QuotaV1 == <<AddTable("quota", {})>> \o AddIndices("quota", <<"org_id_target">>)
QuotaV2 ==
    DropIndices("quota", <<"org_id_target">>)
    \o <<RenameTable("quota", "quota_v1"), AddTable("quota", {"user_id"})>>
    \o AddIndices("quota", <<"org_id_user_id_target">>)
    \o <<CopyTableData("quota", "quota_v1", {}, "nothing"),
         DropTable("quota_v1")>>
\* Mutant: the old table is dropped before it is copied.
QuotaV3Dropped ==
    DropIndices("quota", <<"org_id_user_id_target">>)
    \o <<RenameTable("quota", "quota_v2"), AddTable("quota", {})>>
    \o AddIndices("quota", <<"org_id_target">>)
    \o <<DropTable("quota_v2"),
         CopyTableData("quota", "quota_v2", {}, "nothing")>>

QuotaV3 ==
    DropIndices("quota", <<"org_id_user_id_target">>)
    \o <<RenameTable("quota", "quota_v2"), AddTable("quota", {})>>
    \o AddIndices("quota", <<"org_id_target">>)
    \o <<CopyTableData("quota", "quota_v2", {}, "nothing"),
         DropTable("quota_v2")>>

AddCollectorMigration == Collectors \o Probes
AddCheckMigration ==
    MonitorV3 \o MonitorV4 \o MonitorTypes \o MonitorRoutes \o MonitorColumns
    \o Checks \o RouteByIdIndex \o RouteByTagIndex
AddQuotaMigration == QuotaV1 \o QuotaV2 \o QuotaV3

Migrations ==
    MigrationLog \o AddCollectorMigration \o AddCheckMigration \o Endpoints
    \o AlertSchedulerValue \o AddQuotaMigration

Ids == DOMAIN Migrations
Moves == {i \in Ids : Migrations[i].op \in {"rename", "copy"}}
Tables == {Migrations[i].table : i \in Ids} \cup {Migrations[i].what : i \in Moves}

\* A release has applied the migrations it knew of; tables keep their names.
ASSUME MigratorAssumption ==
    /\ Releases \subseteq SUBSET Ids
    /\ \A rows \in Stored : DOMAIN rows \subseteq Tables
    /\ MaxFaults \in Nat

-----------------------------------------------------------------------------
(* What the SQL of migration m does to tables d.                           *)

Rows(d, table) == IF table \in DOMAIN d THEN d[table].rows ELSE {}

\* XName: an index keeps its name when its table is renamed.
XName(m) == <<m.table, m.what>>
Holders(m, d) == {t \in DOMAIN d : XName(m) \in d[t].indices}
\* The tables among which the name has to be, or must not be.
Scope(m) == IF sqlite THEN Tables ELSE {m.table}

Possible(m, d) ==
    CASE m.op \in {"add table", "drop table"} -> TRUE
      [] m.op = "add column" -> m.table \in DOMAIN d /\ m.what \notin d[m.table].columns
      [] m.op = "add index"  -> m.table \in DOMAIN d /\ Holders(m, d) \cap Scope(m) = {}
      [] m.op = "drop index" -> Holders(m, d) \cap Scope(m) # {}
      [] m.op = "rename"     -> m.table \in DOMAIN d /\ m.what \notin DOMAIN d
      [] m.op = "copy"       -> /\ {m.table, m.what} \subseteq DOMAIN d
                                /\ m.needs \subseteq d[m.table].columns
                                /\ d[m.table].rows \cap d[m.what].rows = {}

Without(d, table) == [t \in DOMAIN d \ {table} |-> d[t]]

\* CREATE TABLE IF NOT EXISTS, DROP TABLE IF EXISTS.
Effect(m, d) ==
    CASE m.op = "add table"  -> d @@ (m.table :> [columns |-> m.what, filled |-> {},
                                                  indices |-> {}, rows |-> {}])
      [] m.op = "drop table" -> Without(d, m.table)
      [] m.op = "add column" -> [d EXCEPT ![m.table].columns = @ \cup {m.what}]
      [] m.op = "add index"  -> [d EXCEPT ![m.table].indices = @ \cup {XName(m)}]
      [] m.op = "drop index" -> LET t == IF m.table \in Holders(m, d) THEN m.table
                                         ELSE CHOOSE h \in Holders(m, d) : TRUE
                                IN  [d EXCEPT ![t].indices = @ \ {XName(m)}]
      [] m.op = "rename"     -> Without(d, m.table) @@ (m.what :> d[m.table])
      [] m.op = "copy"       -> [d EXCEPT ![m.what].rows = @ \cup d[m.table].rows]

\* INSERT INTO route_by_tag_index SELECT: the tags of checks there are.
TagRows(d) == {r \in Rows(d, "monitor_collector_tag") : r[1] \in Rows(d, "check")}

AfterPossible(m, d) ==
    CASE m.after \in {"nothing", "clear"} -> TRUE
      [] m.after = "fill"   -> m.what \in d[m.table].columns
      [] m.after = "routes" -> {"monitor_collector", "monitor_collector_tag"} \subseteq DOMAIN d
      [] m.after = "tags"   -> /\ {"monitor_collector_tag", "check"} \subseteq DOMAIN d
                               /\ TagRows(d) \cap d[m.table].rows = {}

\* OnSuccess: nobody is connected any more; a column gets its values; the
\* tags become the index.
After(m, d) ==
    CASE m.after \in {"nothing", "routes"} -> d
      [] m.after = "clear" -> [d EXCEPT ![m.table].rows = {}]
      [] m.after = "fill"  -> [d EXCEPT ![m.table].filled = @ \cup {m.what}]
      [] m.after = "tags"  -> [d EXCEPT ![m.table].rows = @ \cup TagRows(d)]

IdsOf(d, c) == {r[2] : r \in {x \in Rows(d, "monitor_collector") : x[1] = c}}
TagsOf(d, c) == {r[2] : r \in {x \in Rows(d, "monitor_collector_tag") : x[1] = c}}

\* Mutant: a check with both gets the route of its tags.
RouteOfTagsFirst(d, c) ==
    IF TagsOf(d, c) = {} THEN [type |-> "byIds", to |-> IdsOf(d, c)]
    ELSE [type |-> "byTags", to |-> TagsOf(d, c)]

\* By ids if the monitor has any or nothing at all; then its tags do not count.
RouteOf(d, c) ==
    IF IdsOf(d, c) # {} \/ TagsOf(d, c) = {}
    THEN [type |-> "byIds", to |-> IdsOf(d, c)]
    ELSE [type |-> "byTags", to |-> TagsOf(d, c)]

\* Mutant: a check without any probes is left without a route.
RoutedIfAny(m, d) ==
    IF m.after = "routes"
    THEN [c \in {x \in Rows(d, "check") : IdsOf(d, x) \cup TagsOf(d, x) # {}} |->
            RouteOf(d, c)]
    ELSE route

Routed(m, d) ==
    IF m.after = "routes" THEN [c \in Rows(d, "check") |-> RouteOf(d, c)] ELSE route

-----------------------------------------------------------------------------
(* An older release has run, without a fault, and stored its rows.         *)

OlderRelease ==
    \E i \in older, rows \in Stored :
        LET d == After(Migrations[i], Effect(Migrations[i], db)) IN
        /\ \A j \in older : i <= j
        /\ older' = older \ {i}
        /\ log' = log \cup {i} /\ executed' = executed \cup {i}
        /\ db' = IF older' # {} THEN d
                 ELSE [t \in DOMAIN d |->
                         [d[t] EXCEPT !.rows = IF t \in DOMAIN rows THEN rows[t] ELSE {}]]
        /\ before' = IF older' # {} THEN before ELSE [t \in DOMAIN db' |-> db'[t].rows]
        /\ UNCHANGED <<sqlite, route, server, faults, failed, orderly>>

-----------------------------------------------------------------------------
(* Start.                                                                  *)

Down == [pc |-> "down", at |-> 0, seen |-> {}]

\* The first one from i on that logMap does not have.
FirstFrom(i, seen) ==
    LET left == {j \in Ids : j >= i /\ j \notin seen} IN
    IF left = {} THEN Len(Migrations) + 1
    ELSE CHOOSE j \in left : \A k \in left : j <= k

\* Server s goes on with the first migration from i on.
GoOn(s, i, seen) ==
    LET j == FirstFrom(i, seen) IN
    server' = [server EXCEPT ![s] =
        IF j \in Ids THEN [pc |-> "exec", at |-> j, seen |-> seen]
        ELSE [pc |-> "running", at |-> 0, seen |-> {}]]

Migrating == {s \in Servers : server[s].pc \in {"exec", "after", "record"}}

Fault == faults < MaxFaults /\ faults' = faults + 1


\* GetMigrationLog, read once.
Start(s) ==
    /\ server[s].pc = "down" /\ older = {}
    /\ GoOn(s, 1, log)
    /\ IF Migrating = {} THEN UNCHANGED <<faults, orderly>>
       ELSE orderly' = FALSE /\ Fault
    /\ UNCHANGED <<sqlite, older, db, route, log, before, executed, failed>>

\* log.Fatal; the entry about the failure is not looked at.
Fail(s) ==
    /\ failed' = failed \cup {server[s].at}
    /\ server' = [server EXCEPT ![s] = Down]
    /\ UNCHANGED <<db, route, executed>>

\* inTransaction: the condition none of them has, the SQL and OnSuccess.
Exec(s) ==
    LET m == Migrations[server[s].at]
        d == Effect(m, db)
        apart == ~sqlite /\ m.op # "copy" /\ m.after # "nothing" IN
    /\ server[s].pc = "exec"
    /\ IF Possible(m, db) /\ (apart \/ AfterPossible(m, d))
       THEN /\ db' = IF apart THEN d ELSE After(m, d)
            /\ route' = Routed(m, d)
            /\ server' = [server EXCEPT ![s].pc = IF apart THEN "after" ELSE "record"]
            /\ executed' = executed \cup {server[s].at}
            /\ UNCHANGED failed
       ELSE Fail(s)
    /\ UNCHANGED <<sqlite, older, log, faults, before, orderly>>

\* MySQL has committed what the SQL changed before OnSuccess runs.
ExecOnSuccess(s) ==
    LET m == Migrations[server[s].at] IN
    /\ server[s].pc = "after"
    /\ IF m.table \in DOMAIN db /\ AfterPossible(m, db)
       THEN /\ db' = After(m, db)
            /\ server' = [server EXCEPT ![s].pc = "record"]
            /\ UNCHANGED <<route, executed, failed>>
       ELSE Fail(s)
    /\ UNCHANGED <<sqlite, older, log, faults, before, orderly>>

\* Insert(&record), after the transaction; its result is not looked at.
Record(s, written) ==
    /\ server[s].pc = "record"
    /\ log' = IF written THEN log \cup {server[s].at} ELSE log
    /\ IF written THEN UNCHANGED <<faults, orderly>> ELSE orderly' = FALSE /\ Fault
    /\ GoOn(s, server[s].at + 1, server[s].seen)
    /\ UNCHANGED <<sqlite, older, db, route, before, executed, failed>>

Crash(s) ==
    /\ server[s].pc # "down"
    /\ Fault
    /\ server' = [server EXCEPT ![s] = Down]
    /\ UNCHANGED <<sqlite, older, db, route, log, history>>

-----------------------------------------------------------------------------
Init ==
    /\ sqlite \in BOOLEAN
    /\ older \in Releases
    /\ db = <<>> /\ route = <<>> /\ log = {}
    /\ server = [s \in Servers |-> Down]
    /\ faults = 0
    /\ before = <<>> /\ executed = {} /\ failed = {} /\ orderly = TRUE

Next ==
    \/ \E s \in Servers :
        \/ Start(s) \/ Exec(s) \/ ExecOnSuccess(s) \/ Crash(s)
        \/ \E written \in BOOLEAN : Record(s, written)
    \/ OlderRelease

Spec == Init /\ [][Next]_vars

-----------------------------------------------------------------------------
(* Properties.                                                             *)

Running == \E s \in Servers : server[s].pc = "running"

\* The schema that the rest of the program works with.  Of the columns only
\* those that were added to a table, or that tell its versions apart.
Table(columns, filled, indices) ==
    [columns |-> columns, filled |-> filled, indices |-> indices]
Latest ==
    [migration_log |-> Table({}, {}, {}),
     probe |-> Table({"online_change", "enabled_change"}, {"enabled_change"},
                     {<<"collector", "org_id_slug">>}),
     probe_tag |-> Table({}, {}, {"probe_tag"} \X {"org_id_probe_id", "org_id_tag_probe_id"}),
     probe_session |-> Table({}, {}, {"probe_session"} \X
                               {"org_id", "probe_id", "socket_id", "instance_id"}),
     check |-> Table({"type", "state_check", "health_settings"}, {},
                     {<<"check", "org_id_endpoint_id_type">>}),
     route_by_id_index |-> Table({}, {}, {<<"route_by_id_index", "check_id_probe_id">>}),
     route_by_tag_index |-> Table({}, {}, {"route_by_tag_index"} \X
                                    {"check_id_tag", "org_id_tag"}),
     endpoint |-> Table({"slug"}, {"slug"}, {<<"endpoint", "org_id_name">>}),
     endpoint_tag |-> Table({"created"}, {}, {"endpoint_tag"} \X
                              {"org_id_endpoint_id", "endpoint_id_tag"}),
     alert_scheduler_value |-> Table({}, {}, {}),
     quota |-> Table({}, {}, {<<"quota", "org_id_target">>})]

TypeOK ==
    /\ sqlite \in BOOLEAN /\ older \subseteq Ids /\ orderly \in BOOLEAN
    /\ DOMAIN db \subseteq Tables
    /\ \A t \in DOMAIN db : db[t].filled \subseteq db[t].columns
    /\ log \subseteq executed /\ executed \cup failed \subseteq Ids
    /\ DOMAIN route = Rows(db, "check")
    /\ \A s \in Servers :
         /\ server[s].pc \in {"down", "exec", "after", "record", "running"}
         /\ server[s].pc \in {"exec", "after", "record"} => server[s].at \in Ids
    /\ faults \in 0 .. MaxFaults

\* By its last name, all the names that a table has had.
Names ==
    [probe |-> {"collector", "probe"}, probe_tag |-> {"collector_tag", "probe_tag"},
     check |-> {"monitor", "monitor_v3", "check"},
     route_by_id_index |-> {"monitor_collector", "route_by_id_index"},
     route_by_tag_index |-> {"monitor_collector_tag", "route_by_tag_index"},
     endpoint |-> {"endpoint"}, quota |-> {"quota", "quota_v1", "quota_v2"}]

StoredRows(names) == UNION {before[n] : n \in names \cap DOMAIN before}

\* No row is dropped with the old table before it is in the new one: however
\* often a server is stopped, if one migrates at a time and writes its entries,
\* and after any single fault, which may be a second server or a lost entry.
\* (Two are too many: without the entry about RenameTable a table is renamed
\* again, and a server that stopped right after a DropTable drops it then.)
DataKept ==
    orderly \/ faults <= 1 =>
        \A t \in DOMAIN Names :
            StoredRows(Names[t]) \subseteq UNION {Rows(db, n) : n \in Names[t]}


\* The route of a check that was a monitor says what the index of its type
\* says: the ids there are, and only without any the tags.
IndexOf(table, c) == {r[2] : r \in {x \in Rows(db, table) : x[1] = c}}
RoutesAgree ==
    Running /\ orderly =>
        \A c \in Rows(db, "check") :
            LET ids == IndexOf("route_by_id_index", c)
                tags == IndexOf("route_by_tag_index", c)
            IN  IF ids # {} \/ tags = {} THEN route[c] = [type |-> "byIds", to |-> ids]
                ELSE route[c] = [type |-> "byTags", to |-> tags]

=============================================================================
