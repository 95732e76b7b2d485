------------------------- MODULE CheckDistribution -------------------------
(***************************************************************************)
(* How the checks of one probe are shared among its live sessions: a check *)
(* belongs to the session at position id % number of sessions.  Every      *)
(* server works that out by itself, from what it reads of the database     *)
(* when a refresh runs (ProbeSocket.Refresh) or an Endpoint event arrives  *)
(* (EmitCheckEvent), and sends it to the sockets connected to it.          *)
(*                                                                         *)
(* Events are published before the transaction commits, and every event is *)
(* handled by a goroutine of its own on every server: they are late, out   *)
(* of order, or missing.                                                   *)
(***************************************************************************)
EXTENDS Naturals, FiniteSets

CONSTANTS
    Sockets,     \* connections of the probe
    Instances,   \* servers
    InstanceOf,  \* where a socket is connected
    Connected,   \* those that are up when the model starts
    Checks,      \* ids of the checks that may be routed to the probe
    None,
    MaxChanges,  \* bound: updates of endpoints
    MaxFaults    \* bound: failing database reads, commits and deliveries

ASSUME DistributionAssumption ==
    /\ InstanceOf \in [Sockets -> Instances]
    /\ Connected \subseteq Sockets /\ IsFiniteSet(Connected)
    /\ Checks \subseteq Nat
    /\ None \notin Checks \cup Sockets
    /\ MaxChanges \in Nat /\ MaxFaults \in Nat

VARIABLES
    conn,    \* life of each connection
    rowId,   \* id of its probe_session row, 0 before the INSERT
    rows,    \* sockets with a committed row that is not too old
    checks,  \* committed version of each check, 0: disabled or not routed here
    update,  \* the update that is published and not yet committed
    changes, \* updates so far
    jobs,    \* Endpoint events being handled or still to be
    news,    \* how many ProbeSession events a server has yet to take up
    refresh, \* the refresh that runs for each socket
    has,     \* what the probe runs for each connection
    faults

vars == <<conn, rowId, rows, checks, update, changes, jobs, news,
          refresh, has, faults>>
dbVars == <<rows, checks>>

Versions == 0 .. MaxChanges + 1
Assignments == [Checks -> Versions]
NoCheck == [c \in Checks |-> 0]

\* n tells two events apart; now is its payload, todo the checks not yet sent,
\* at and to the one about to be emitted.
Jobs == [n : Nat, inst : Instances, now : Assignments, todo : SUBSET Checks,
         at : Checks \cup {None}, to : Sockets \cup {None}]
Refreshes ==
    [pc : {"idle", "sessions", "checks", "emit"}, pos : Nat, total : Nat,
     load : Assignments]
NoRefresh == [pc |-> "idle", pos |-> 0, total |-> 0, load |-> NoCheck]

ConnStates == {"new", "adding", "up", "deleting", "dead", "gone"}

TypeOK ==
    /\ conn \in [Sockets -> ConnStates]
    /\ rowId \in [Sockets -> Nat]
    /\ rows \subseteq Sockets
    /\ checks \in Assignments
    /\ update \in Assignments \cup {None}
    /\ changes \in 0 .. MaxChanges
    /\ jobs \subseteq Jobs
    /\ news \in [Instances -> Nat]
    /\ refresh \in [Sockets -> Refreshes]
    /\ has \in [Sockets -> Assignments]
    /\ faults \in 0 .. MaxFaults

-----------------------------------------------------------------------------
(* getProbeSessions: the sessions of the probe in the order of their ids.  *)

Total == Cardinality(rows)
\* Mutant: a session counts itself.
PositionFromOne(s) == Cardinality({t \in rows : rowId[t] <= rowId[s]})
Position(s) == Cardinality({t \in rows : rowId[t] < rowId[s]})
Owns(s, c) == s \in rows /\ c % Total = Position(s)

\* Keys of Cache.Sockets: Start puts a socket in, OnDisconnection takes it out.
Cached(s) == conn[s] \in {"adding", "up"}

Fault == faults < MaxFaults /\ faults' = faults + 1

-----------------------------------------------------------------------------
(* Connections: the events are published inside the transactions.          *)

\* ProbeSession.created and ProbeSession.deleted are handled alike.
Announce == news' = [i \in Instances |-> news[i] + 1]

\* addProbeSession: INSERT, then events.Publish.
AddSession(s) ==
    /\ conn[s] = "new"
    /\ conn' = [conn EXCEPT ![s] = "adding"]
    /\ rowId' = [rowId EXCEPT ![s] =
                   1 + Cardinality({t \in Sockets : rowId[t] # 0})]
    /\ Announce
    /\ UNCHANGED <<dbVars, update, changes, jobs, refresh, has, faults>>

CommitAdd(s) ==
    /\ conn[s] = "adding"
    /\ conn' = [conn EXCEPT ![s] = "up"]
    /\ rows' = rows \cup {s}
    /\ UNCHANGED <<rowId, checks, update, changes, jobs, news, refresh,
                   has, faults>>

\* OnDisconnection or, once the server is dead, a reconnect with lastSocketId
\* or the restart of the server: deleteProbeSession.
DeleteSession(s) ==
    /\ conn[s] \in {"up", "dead"}
    /\ s \in rows
    /\ conn' = [conn EXCEPT ![s] = "deleting"]
    /\ has' = [has EXCEPT ![s] = NoCheck]
    /\ Announce
    /\ UNCHANGED <<rowId, dbVars, update, changes, jobs, refresh, faults>>

CommitDelete(s) ==
    /\ conn[s] = "deleting"
    /\ conn' = [conn EXCEPT ![s] = "gone"]
    /\ rows' = rows \ {s}
    /\ UNCHANGED <<rowId, checks, update, changes, jobs, news, refresh,
                   has, faults>>

\* The server crashes: its sockets are gone, its open transactions roll back
\* and the rows stay, without heartbeats; events for it are not kept.
Crash(i) ==
    LET mine == {s \in Sockets : InstanceOf[s] = i /\ conn[s] # "new"} IN
    /\ \E s \in mine : conn[s] # "gone"
    /\ Fault
    /\ conn' = [s \in Sockets |-> CASE s \notin mine -> conn[s]
                                  [] s \in mine \cap rows -> "dead"
                                  [] OTHER -> "gone"]
    /\ has' = [s \in Sockets |-> IF s \in mine THEN NoCheck ELSE has[s]]
    /\ refresh' = [s \in Sockets |-> IF s \in mine THEN NoRefresh ELSE refresh[s]]
    /\ jobs' = {j \in jobs : j.inst # i}
    /\ news' = [news EXCEPT ![i] = 0]
    /\ UNCHANGED <<rowId, dbVars, update, changes>>

\* Mutant: sessions are listed however old they are.
ExpireNever(s) == FALSE

\* Two heartbeats later updated > now - 2*heartbeatInterval leaves it out.
Expire(s) ==
    /\ conn[s] = "dead"
    /\ conn' = [conn EXCEPT ![s] = "gone"]
    /\ rows' = rows \ {s}
    /\ UNCHANGED <<rowId, checks, update, changes, jobs, news, refresh,
                   has, faults>>

-----------------------------------------------------------------------------
(* Endpoints: AddEndpoint, UpdateEndpoint and DeleteEndpoint as far as this *)
(* probe is concerned: checks appear, change and go.                       *)

\* What the handlers of Endpoint events send, given the last and the current
\* checks: those that are new or changed, and those that are no longer here.
Sent(last, now) == {c \in Checks : now[c] # last[c]}

ChangeEndpoint(now) ==
    /\ update = None
    /\ changes < MaxChanges
    /\ now # checks
    /\ \A c \in Checks : now[c] \in {checks[c], 0, changes + 2}
    /\ update' = now
    /\ changes' = changes + 1
    /\ jobs' = jobs \cup
         {[n |-> changes', inst |-> i, now |-> now, todo |-> Sent(checks, now),
           at |-> None, to |-> None] : i \in Instances}
    /\ UNCHANGED <<conn, rowId, dbVars, news, refresh, has, faults>>

CommitChange ==
    /\ update # None
    /\ checks' = update
    /\ update' = None
    /\ UNCHANGED <<conn, rowId, rows, changes, jobs, news, refresh, has,
                   faults>>

\* Complete swallows the error of Commit: the event is out, the change is not.
LoseChange ==
    /\ update # None
    /\ Fault
    /\ update' = None
    /\ UNCHANGED <<conn, rowId, dbVars, changes, jobs, news, refresh, has>>

-----------------------------------------------------------------------------
(* Endpoint events: EmitCheckEvent for each check.                         *)

\* The handler goes on to k, or returns when nothing is left.
Proceed(j, k) ==
    jobs' = (jobs \ {j}) \cup (IF k.todo = {} /\ k.at = None THEN {} ELSE {k})

\* The sessions are read; the event is for the one that owns the check, if it
\* is connected to this server.
FindSession(j, c) ==
    /\ j.at = None
    /\ c \in j.todo
    /\ LET rest == [j EXCEPT !.todo = @ \ {c}]
           mine == {s \in rows : Owns(s, c) /\ InstanceOf[s] = j.inst} IN
       IF mine = {} THEN Proceed(j, rest)
       ELSE \E s \in mine : Proceed(j, [rest EXCEPT !.at = c, !.to = s])
    /\ UNCHANGED <<conn, rowId, dbVars, update, changes, news, refresh,
                   has, faults>>

\* sockets.Emit: nothing happens when the socket is gone by now.
EmitCheck(j) ==
    /\ j.at # None
    /\ Proceed(j, [j EXCEPT !.at = None, !.to = None])
    /\ has' = IF Cached(j.to) THEN [has EXCEPT ![j.to][j.at] = j.now[j.at]]
              ELSE has
    /\ UNCHANGED <<conn, rowId, dbVars, update, changes, news, refresh,
                   faults>>

\* A failed read ends the handler, a failed delivery the event.
LoseJob(j) ==
    /\ j.at = None
    /\ Fault
    /\ jobs' = jobs \ {j}
    /\ UNCHANGED <<conn, rowId, dbVars, update, changes, news, refresh, has>>

-----------------------------------------------------------------------------
(* Refreshes.                                                              *)

\* Mutant: the events are taken off whether there are any or not.
QueueRefreshesAlways(i) ==
    /\ news' = [news EXCEPT ![i] = @ - 1]
    /\ refresh' = [s \in Sockets |->
         IF Cached(s) /\ InstanceOf[s] = i /\ refresh[s].pc = "idle"
         THEN [NoRefresh EXCEPT !.pc = "sessions"] ELSE refresh[s]]
    /\ UNCHANGED <<conn, rowId, dbVars, update, changes, jobs, has, faults>>

\* A tick of refreshQueue: Refresh of every local socket, once for the events
\* it has; dropped by a socket that is refreshing already.
QueueRefreshes(i) ==
    /\ \E n \in 1 .. news[i] : news' = [news EXCEPT ![i] = @ - n]
    /\ refresh' = [s \in Sockets |->
         IF Cached(s) /\ InstanceOf[s] = i /\ refresh[s].pc = "idle"
         THEN [NoRefresh EXCEPT !.pc = "sessions"] ELSE refresh[s]]
    /\ UNCHANGED <<conn, rowId, dbVars, update, changes, jobs, has, faults>>

LoseNews(i) ==
    /\ news[i] > 0
    /\ Fault
    /\ news' = [news EXCEPT ![i] = @ - 1]
    /\ UNCHANGED <<conn, rowId, dbVars, update, changes, jobs, refresh, has>>

\* Mutant: only sockets that have had no refresh yet.
PeriodicRefreshOnce(s) ==
    /\ Cached(s)
    /\ refresh[s].pc = "idle"
    /\ has[s] = NoCheck
    /\ refresh' = [refresh EXCEPT ![s].pc = "sessions"]
    /\ UNCHANGED <<conn, rowId, dbVars, update, changes, jobs, news, has,
                   faults>>

\* refreshLoop's, every five to ten minutes.
PeriodicRefresh(s) ==
    /\ Cached(s)
    /\ refresh[s].pc = "idle"
    /\ refresh' = [refresh EXCEPT ![s].pc = "sessions"]
    /\ UNCHANGED <<conn, rowId, dbVars, update, changes, jobs, news, has,
                   faults>>

\* GetProbeSessions: a socket that is not among them is sent nothing.
ReadSessions(s) ==
    /\ refresh[s].pc = "sessions"
    /\ refresh' = [refresh EXCEPT ![s] =
         IF s \in rows
         THEN [@ EXCEPT !.pc = "checks", !.pos = Position(s), !.total = Total]
         ELSE NoRefresh]
    /\ UNCHANGED <<conn, rowId, dbVars, update, changes, jobs, news, has,
                   faults>>

Share(pos, total) ==
    [c \in Checks |-> IF c % total = pos THEN checks[c] ELSE 0]

ReadChecks(s) ==
    /\ refresh[s].pc = "checks"
    /\ refresh' = [refresh EXCEPT ![s] =
         [NoRefresh EXCEPT !.pc = "emit",
                           !.load = Share(refresh[s].pos, refresh[s].total)]]
    /\ UNCHANGED <<conn, rowId, dbVars, update, changes, jobs, news, has,
                   faults>>

\* Mutant: what the payload does not have goes on running.
EmitMerged(s) ==
    /\ refresh[s].pc = "emit"
    /\ refresh' = [refresh EXCEPT ![s] = NoRefresh]
    /\ has' = IF Cached(s)
              THEN [has EXCEPT ![s] = [c \in Checks |->
                      IF refresh[s].load[c] = 0 THEN has[s][c] ELSE refresh[s].load[c]]]
              ELSE has
    /\ UNCHANGED <<conn, rowId, dbVars, update, changes, jobs, news, faults>>

\* The probe replaces what it runs by the payload.
EmitRefresh(s) ==
    /\ refresh[s].pc = "emit"
    /\ refresh' = [refresh EXCEPT ![s] = NoRefresh]
    /\ has' = IF Cached(s) THEN [has EXCEPT ![s] = refresh[s].load] ELSE has
    /\ UNCHANGED <<conn, rowId, dbVars, update, changes, jobs, news, faults>>

FailRefresh(s) ==
    /\ refresh[s].pc \in {"sessions", "checks"}
    /\ Fault
    /\ refresh' = [refresh EXCEPT ![s] = NoRefresh]
    /\ UNCHANGED <<conn, rowId, dbVars, update, changes, jobs, news, has>>

-----------------------------------------------------------------------------
\* Any moment without changes: every session up runs its share.
Init ==
    /\ conn = [s \in Sockets |-> IF s \in Connected THEN "up" ELSE "new"]
    /\ rows = Connected
    /\ rowId \in [Sockets -> 0 .. Cardinality(Connected)]
    /\ \A s \in Sockets : rowId[s] = 0 <=> s \notin Connected
    /\ \A s, t \in Connected : rowId[s] = rowId[t] => s = t
    /\ checks \in [Checks -> {0, 1}]
    /\ has = [s \in Sockets |-> [c \in Checks |->
                IF Owns(s, c) THEN checks[c] ELSE 0]]
    /\ update = None /\ changes = 0
    /\ jobs = {} /\ news = [i \in Instances |-> 0]
    /\ refresh = [s \in Sockets |-> NoRefresh]
    /\ faults = 0

Commit(s) == CommitAdd(s) \/ CommitDelete(s)
Handle(j) == (\E c \in Checks : FindSession(j, c)) \/ EmitCheck(j)
RunRefresh(s) == ReadSessions(s) \/ ReadChecks(s) \/ EmitRefresh(s)

World ==
    \/ \E s \in Sockets : AddSession(s) \/ DeleteSession(s)
    \/ \E now \in Assignments : ChangeEndpoint(now)
Failure ==
    \/ \E i \in Instances : Crash(i) \/ LoseNews(i)
    \/ LoseChange
    \/ \E j \in jobs : LoseJob(j)
    \/ \E s \in Sockets : FailRefresh(s)

\* Steps of which there are only so many: commits, expiries, handled events.
Progress ==
    \/ CommitChange
    \/ \E s \in Sockets : Commit(s) \/ Expire(s)
    \/ \E j \in jobs : Handle(j)
    \/ \E i \in Instances : QueueRefreshes(i)

Next ==
    \/ World
    \/ Failure
    \/ Progress
    \/ \E s \in Sockets : PeriodicRefresh(s) \/ RunRefresh(s)

Spec == Init /\ [][Next]_vars

\* Whatever goroutines and the database have begun, they end; a heartbeat that
\* stops is noticed; refreshLoop comes round to every socket for ever.
Fairness ==
    /\ WF_vars(Progress)
    /\ \A s \in Sockets : WF_vars(PeriodicRefresh(s) \/ RunRefresh(s))

FairSpec == Spec /\ Fairness

-----------------------------------------------------------------------------
(* Properties.                                                             *)

\* The sessions that count are alive; each check runs, in its committed version,
\* at the session it falls to and nowhere else.
Partitioned ==
    /\ \A s \in rows : conn[s] = "up"
    /\ \A s \in Sockets, c \in Checks :
         conn[s] = "up" => has[s][c] = IF Owns(s, c) THEN checks[c] ELSE 0

\* However many sessions come and go on whatever servers, those that count
\* divide the checks: each check falls to one of them.  A refresh that goes on
\* with what it has read, however old that is, has a position among them.
SharesPartition ==
    /\ rows # {} => \A c \in Checks :
         \E s \in rows : {t \in Sockets : Owns(t, c)} = {s}
    /\ \A s \in Sockets :
         refresh[s].pc = "checks" => refresh[s].pos < refresh[s].total

\* The ids of rows are given out in order, each of them once.
Added == {s \in Sockets : rowId[s] # 0}
IdsOnce ==
    /\ IsFiniteSet(Added) /\ rows \subseteq Added
    /\ \A s \in Sockets : /\ conn[s] = "new" <=> s \notin Added
                          /\ rowId[s] <= Cardinality(Added)
    /\ \A s, t \in Added : rowId[s] = rowId[t] => s = t

\* Who is connected is counted.
UpCounted == \A s \in Sockets : conn[s] = "up" => s \in rows

IInv == TypeOK /\ IdsOnce /\ SharesPartition /\ UpCounted

\* Nothing has begun that may change a share, or that sends an older version.
Calm ==
    /\ update = None /\ jobs = {} /\ \A i \in Instances : news[i] = 0
    /\ \A s \in Sockets : conn[s] \in {"new", "up", "gone"}
Settled(s) == has[s] = Share(Position(s), Total)
\* What the refresh of s has read is still so.
Fresh(s) ==
    /\ refresh[s].pc = "checks" =>
         refresh[s].pos = Position(s) /\ refresh[s].total = Total
    /\ refresh[s].pc = "emit" => refresh[s].load = Share(Position(s), Total)

\* In a calm, what a refresh has read of the database stays so; the first one of
\* a session that began in it gives the session its share, whatever it ran
\* before, and no later one takes that away: Refresh needs no help from events.
Settles ==
    [][Calm /\ (Progress \/ \E s \in Sockets : PeriodicRefresh(s) \/ RunRefresh(s)) =>
         /\ Calm'
         /\ \A s \in Sockets : conn[s] = "up" /\ Fresh(s) =>
              /\ Fresh(s)'
              /\ Settled(s) \/ (refresh[s] # NoRefresh /\ refresh'[s] = NoRefresh) =>
                   Settled(s)']_vars

\* Whatever was late, reordered, dropped or read in between, the periodic
\* refreshes bring every session to its share once changes stop: "as probes
\* refresh every 5minutes, the changes will propagate".
Converges == <>[]Partitioned
=============================================================================
