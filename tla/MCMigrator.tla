----------------------------- MODULE MCMigrator -----------------------------
(***************************************************************************)
(* Instances for TLC: a new database and those of two older releases, one  *)
(* from before monitors got a type and quotas a user, one from before      *)
(* collectors became probes and monitors checks.                           *)
(***************************************************************************)
EXTENDS Migrator

CONSTANTS s1, s2, m1, m2, m3, m4, c1, c2, t1, q1, e1

\* The migrations of each file are applied up to some point.
Release(collectors, checks, endpoints, quotas) ==
    LET b == 1
        c == b + Len(AddCollectorMigration)
        e == c + Len(AddCheckMigration)
        q == e + Len(Endpoints) + Len(AlertSchedulerValue)
    IN  {1} \cup (b + 1 .. b + collectors) \cup (c + 1 .. c + checks)
            \cup (e + 1 .. e + endpoints) \cup (q + 1 .. q + quotas)

MCReleases ==
    {{},
     Release(Len(Collectors) - 3, Len(MonitorV3 \o MonitorV4 \o MonitorTypes \o MonitorRoutes), 2, 2),
     Release(Len(Collectors), Len(AddCheckMigration)
                                - Len(MonitorColumns \o Checks \o RouteByIdIndex \o RouteByTagIndex) + 3,
             Len(Endpoints), Len(QuotaV1 \o QuotaV2))}

MCStored ==
    {[collector |-> {c1}, collector_tag |-> {<<c1, t1>>}, collector_session |-> {c1},
      monitor |-> {m1, m2, m3, m4},
      monitor_collector |-> {<<m1, c1>>, <<m1, c2>>, <<m2, c1>>},
      monitor_collector_tag |-> {<<m2, t1>>, <<m3, t1>>},
      endpoint |-> {e1}, quota |-> {q1}]}
=============================================================================
