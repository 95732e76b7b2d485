------------------------- MODULE ProbeSessionStore -------------------------
(***************************************************************************)
(* The probe_session table and the probe.online column, and the            *)
(* transactions of pkg/services/sqlstore that keep them in step:           *)
(* AddProbeSession, DeleteProbeSession and ClearProbeSessions.  They are   *)
(* run by one goroutine per websocket (register, Start, OnDisconnection)   *)
(* and one per server instance (start-up and shutdown), in any             *)
(* interleaving of their SQL statements.                                   *)
(*                                                                         *)
(* Isolation chooses the database: "serializable" locks the tables in two  *)
(* phases (sqlite3 with cache=shared, the default of conf/defaults.ini);   *)
(* "snapshot" is InnoDB's REPEATABLE READ (type = mysql): plain SELECTs    *)
(* read the snapshot of the first one, INSERT, UPDATE and DELETE act on    *)
(* the current rows and lock them until the transaction ends.              *)
(***************************************************************************)
EXTENDS Naturals, FiniteSets

CONSTANTS
    Probes,       \* rows of the probe table
    Instances,    \* worldping-api servers sharing the database
    Sockets,      \* websocket connections, each with its unique socket id
    None,         \* no socket
    ProbeOf,      \* the probe a socket registers for
    InstanceOf,   \* the server a socket is connected to
    LastSocket,   \* the lastSocketId a reconnecting probe sends, or None
    Isolation,    \* "serializable" or "snapshot"
    Faults        \* which database calls may fail: "statement", "commit"

ASSUME ConstantsAssumption ==
    /\ Sockets \cap Instances = {}
    /\ None \notin Sockets
    /\ ProbeOf \in [Sockets -> Probes]
    /\ InstanceOf \in [Sockets -> Instances]
    /\ LastSocket \in [Sockets -> Sockets \cup {None}]
    /\ Isolation \in {"serializable", "snapshot"}
    /\ Faults \subseteq {"statement", "commit"}

VARIABLES
    rows,       \* committed probe_session rows, one per socket id
    online,     \* committed probe.online
    tx,         \* the open transaction of each goroutine
    conn,       \* how far a socket's goroutine has come
    server,     \* life cycle of each instance
    leaving,    \* the sockets a stopping instance has yet to remove
    published,  \* events handed to the event bus
    lost        \* sockets whose removal failed and was only logged

vars == <<rows, online, tx, conn, server, leaving, published, lost>>

Procs == Sockets \cup Instances

PcValues == {"idle", "list", "next", "delete", "count", "offline",
             "insert", "online"}
ConnStates == {"new", "register", "registered", "start", "up", "unsaved",
               "closing", "gone"}
ServerStates == {"down", "starting", "up", "stopping"}
Events == [type : {"created", "deleted"}, sock : Sockets]

\* todo: sockets still to be deleted; cur: the one being handled; view: the
\* rows the first SELECT saw; ins, del, onl: what the commit will apply.
Transactions ==
    [pc : PcValues, open : BOOLEAN, todo : SUBSET Sockets,
     cur : Sockets \cup {None}, view : SUBSET Sockets,
     ins : SUBSET Sockets, del : SUBSET Sockets,
     onl : [Probes -> {"keep", "on", "off"}]]

NoTx == [pc |-> "idle", open |-> FALSE, todo |-> {}, cur |-> None,
         view |-> {}, ins |-> {}, del |-> {},
         onl |-> [p \in Probes |-> "keep"]]

TypeOK ==
    /\ rows \subseteq Sockets
    /\ online \in [Probes -> BOOLEAN]
    /\ tx \in [Procs -> Transactions]
    /\ conn \in [Sockets -> ConnStates]
    /\ server \in [Instances -> ServerStates]
    /\ leaving \in [Instances -> SUBSET Sockets]
    /\ published \subseteq Events
    /\ lost \subseteq Sockets

Becomes(g, t) == tx' = [tx EXCEPT ![g] = t]

-----------------------------------------------------------------------------
(* The database.                                                           *)

SessionsOf(p, S) == {s \in S : ProbeOf[s] = p}

Dirty(t) == t.ins # {} \/ t.del # {} \/ \E p \in Probes : t.onl[p] # "keep"

\* What the SELECTs of g return: its snapshot and its own changes.
Snapshot(g) == IF tx[g].open THEN tx[g].view ELSE rows
Visible(g) == (Snapshot(g) \ tx[g].del) \cup tx[g].ins

\* Table locks of the serializable database: a reader excludes writers.
MayRead(g) ==
    Isolation = "serializable" => \A h \in Procs \ {g} : ~Dirty(tx[h])
\* Mutant: a statement that writes takes no table lock.
MayWriteUnlocked(g) == TRUE

MayWrite(g) ==
    Isolation = "serializable" => \A h \in Procs \ {g} : ~tx[h].open

\* Row locks, held by every statement that changes a row.
SessionFree(g, s) ==
    \A h \in Procs \ {g} : s \notin tx[h].del \cup tx[h].ins
ProbeFree(g, p) == \A h \in Procs \ {g} : tx[h].onl[p] = "keep"

Applied(t, p) == IF t.onl[p] = "keep" THEN online[p] ELSE t.onl[p] = "on"

-----------------------------------------------------------------------------
(* What a goroutine does when its database call returns.                   *)

Returned(g, ok) ==
    /\ conn' =
         IF g \notin Sockets THEN conn
         ELSE [conn EXCEPT ![g] =
                 CASE @ = "register" -> IF ok THEN "registered" ELSE "gone"
                   [] @ = "start"    -> IF ok THEN "up" ELSE "unsaved"
                   [] OTHER          -> "gone"]
    /\ server' =
         IF g \notin Instances \/ server[g] # "starting" THEN server
         ELSE [server EXCEPT ![g] = IF ok THEN "up" ELSE "down"]

\* The rows a call that did not take effect was meant to delete.
Unremoved(g) ==
    CASE g \in Sockets /\ conn[g] = "closing"      -> {g}
      [] g \in Instances /\ server[g] = "starting" ->
           {s \in Sockets : InstanceOf[s] = g}
      [] OTHER                                     -> {}

-----------------------------------------------------------------------------
(* The statements of the transactions.                                     *)

\* Mutant: the ids listed are those of the probes.
ListProbeIds(g) ==
    /\ tx[g].pc = "list"
    /\ MayRead(g)
    /\ Becomes(g, [tx[g] EXCEPT !.pc = "next", !.open = TRUE, !.view = rows,
                                !.todo = {ProbeOf[s] : s \in rows}])
    /\ UNCHANGED <<rows, online, conn, server, leaving, published, lost>>

\* clearProbeSessions: getProbeSessions(sess, 0, instance).
List(g) ==
    /\ tx[g].pc = "list"
    /\ MayRead(g)
    /\ Becomes(g, [tx[g] EXCEPT !.pc = "next", !.open = TRUE, !.view = rows,
                                !.todo = {s \in rows : InstanceOf[s] = g}])
    /\ UNCHANGED <<rows, online, conn, server, leaving, published, lost>>

\* deleteProbeSession: Get(existing); nothing to do when it is not there.
GetExisting(g, s) ==
    /\ tx[g].pc = "next"
    /\ s \in tx[g].todo
    /\ MayRead(g)
    /\ Becomes(g, [tx[g] EXCEPT
                     !.open = TRUE, !.view = Snapshot(g), !.cur = s,
                     !.pc = IF s \in Visible(g) THEN "delete" ELSE "next",
                     !.todo = tx[g].todo \ {s}])
    /\ UNCHANGED <<rows, online, conn, server, leaving, published, lost>>

\* Mutant: rowsAffected is not looked at.
DeleteRowUnchecked(g) ==
    LET s == tx[g].cur IN
    /\ tx[g].pc = "delete"
    /\ MayWrite(g)
    /\ SessionFree(g, s)
    /\ Becomes(g, [tx[g] EXCEPT !.pc = "count", !.del = tx[g].del \cup {s}])
    /\ UNCHANGED <<rows, online, conn, server, leaving, published, lost>>

\* DELETE acts on the current row; no rowsAffected, nothing left to do.
DeleteRow(g) ==
    LET s == tx[g].cur IN
    /\ tx[g].pc = "delete"
    /\ MayWrite(g)
    /\ SessionFree(g, s)
    /\ \/ /\ s \in rows
          /\ Becomes(g, [tx[g] EXCEPT !.pc = "count",
                                      !.del = tx[g].del \cup {s}])
       \/ /\ s \notin rows
          /\ Becomes(g, [tx[g] EXCEPT !.pc = "next"])
    /\ UNCHANGED <<rows, online, conn, server, leaving, published, lost>>

\* Mutant: the count is compared as if it were taken before the DELETE.
CountSessionsOffByOne(g) ==
    LET s == tx[g].cur
        n == Cardinality(SessionsOf(ProbeOf[s], Visible(g))) IN
    /\ tx[g].pc = "count"
    /\ Becomes(g, [tx[g] EXCEPT !.pc = IF n <= 1 THEN "offline" ELSE "next"])
    /\ published' = published \cup
         (IF n <= 1 THEN {} ELSE {[type |-> "deleted", sock |-> s]})
    /\ UNCHANGED <<rows, online, conn, server, leaving, lost>>

\* getProbeSessions(existing.ProbeId) decides whether the probe goes offline;
\* the event is published before the transaction commits.
CountSessions(g) ==
    LET s == tx[g].cur IN
    /\ tx[g].pc = "count"
    /\ \/ /\ SessionsOf(ProbeOf[s], Visible(g)) = {}
          /\ Becomes(g, [tx[g] EXCEPT !.pc = "offline"])
          /\ UNCHANGED published
       \/ /\ SessionsOf(ProbeOf[s], Visible(g)) # {}
          /\ Becomes(g, [tx[g] EXCEPT !.pc = "next"])
          /\ published' = published \cup {[type |-> "deleted", sock |-> s]}
    /\ UNCHANGED <<rows, online, conn, server, leaving, lost>>

\* Mutant: a probe that goes offline is not announced.
MarkOfflineSilently(g) ==
    LET s == tx[g].cur IN
    /\ tx[g].pc = "offline"
    /\ ProbeFree(g, ProbeOf[s])
    /\ Becomes(g, [tx[g] EXCEPT !.pc = "next",
                                !.onl = [tx[g].onl EXCEPT ![ProbeOf[s]] = "off"]])
    /\ UNCHANGED <<rows, online, conn, server, leaving, published, lost>>

MarkOffline(g) ==
    LET s == tx[g].cur IN
    /\ tx[g].pc = "offline"
    /\ ProbeFree(g, ProbeOf[s])
    /\ Becomes(g, [tx[g] EXCEPT !.pc = "next",
                                !.onl = [tx[g].onl EXCEPT ![ProbeOf[s]] = "off"]])
    /\ published' = published \cup {[type |-> "deleted", sock |-> s]}
    /\ UNCHANGED <<rows, online, conn, server, leaving, lost>>

\* addProbeSession.
InsertRow(g) ==
    LET s == tx[g].cur IN
    /\ tx[g].pc = "insert"
    /\ MayWrite(g)
    /\ Becomes(g, [tx[g] EXCEPT !.pc = "online", !.open = TRUE,
                                !.view = rows, !.ins = {s}])
    /\ UNCHANGED <<rows, online, conn, server, leaving, published, lost>>

\* Mutant: the column is left alone when a session is added.
MarkOnlineForgotten(g) ==
    /\ tx[g].pc = "online"
    /\ Becomes(g, [tx[g] EXCEPT !.pc = "next"])
    /\ published' = published \cup {[type |-> "created", sock |-> tx[g].cur]}
    /\ UNCHANGED <<rows, online, conn, server, leaving, lost>>

MarkOnline(g) ==
    LET s == tx[g].cur IN
    /\ tx[g].pc = "online"
    /\ ProbeFree(g, ProbeOf[s])
    /\ Becomes(g, [tx[g] EXCEPT !.pc = "next",
                                !.onl = [tx[g].onl EXCEPT ![ProbeOf[s]] = "on"]])
    /\ published' = published \cup {[type |-> "created", sock |-> s]}
    /\ UNCHANGED <<rows, online, conn, server, leaving, lost>>

\* session.Complete.
Commit(g) ==
    /\ tx[g].pc = "next"
    /\ tx[g].todo = {}
    /\ rows' = (rows \ tx[g].del) \cup tx[g].ins
    /\ online' = [p \in Probes |-> Applied(tx[g], p)]
    /\ Becomes(g, NoTx)
    /\ Returned(g, TRUE)
    /\ UNCHANGED <<leaving, published, lost>>

\* A failing Commit is swallowed by Complete and rolled back by Cleanup: the
\* caller sees success.
CommitLost(g) ==
    /\ "commit" \in Faults
    /\ tx[g].pc = "next"
    /\ tx[g].todo = {}
    /\ Becomes(g, NoTx)
    /\ lost' = lost \cup Unremoved(g)
    /\ Returned(g, TRUE)
    /\ UNCHANGED <<rows, online, leaving, published>>

\* Any statement may fail (lock timeout, database deadlock, lost connection):
\* the error is returned and Cleanup rolls back.
StatementFails(g) ==
    /\ "statement" \in Faults
    /\ tx[g].pc # "idle"
    /\ Becomes(g, NoTx)
    /\ lost' = lost \cup Unremoved(g)
    /\ Returned(g, FALSE)
    /\ UNCHANGED <<rows, online, leaving, published>>

-----------------------------------------------------------------------------
(* The goroutine of a socket: the connection handler, then the             *)
(* disconnection handler, which go-socket.io runs after it.                *)

\* register: a reconnecting probe has its previous session deleted first.
Register(s) ==
    /\ conn[s] = "new"
    /\ server[InstanceOf[s]] = "up"
    /\ LastSocket[s] # None =>
         conn[LastSocket[s]] \in {"start", "up", "unsaved", "closing", "gone"}
    /\ \/ /\ LastSocket[s] = None
          /\ conn' = [conn EXCEPT ![s] = "registered"]
          /\ UNCHANGED tx
       \/ /\ LastSocket[s] # None
          /\ conn' = [conn EXCEPT ![s] = "register"]
          /\ Becomes(s, [NoTx EXCEPT !.pc = "next", !.todo = {LastSocket[s]}])
    /\ UNCHANGED <<rows, online, server, leaving, published, lost>>

\* Start: cache the socket, send "ready"; if that fails, neither handlers nor
\* session; else AddProbeSession.
Start(s) ==
    /\ conn[s] = "registered"
    /\ \/ /\ conn' = [conn EXCEPT ![s] = "gone"]
          /\ UNCHANGED tx
       \/ /\ conn' = [conn EXCEPT ![s] = "start"]
          /\ Becomes(s, [NoTx EXCEPT !.pc = "insert", !.cur = s])
    /\ UNCHANGED <<rows, online, server, leaving, published, lost>>

OnDisconnection(s) ==
    /\ conn[s] \in {"up", "unsaved"}
    /\ conn' = [conn EXCEPT ![s] = "closing"]
    /\ Becomes(s, [NoTx EXCEPT !.pc = "next", !.todo = {s}])
    /\ UNCHANGED <<rows, online, server, leaving, published, lost>>

-----------------------------------------------------------------------------
(* The life of an instance.                                                *)

\* Mutant: sockets are accepted without ClearProbeSessions.
BootUncleared(i) ==
    /\ server[i] = "down"
    /\ server' = [server EXCEPT ![i] = "up"]
    /\ UNCHANGED <<rows, online, tx, conn, leaving, published, lost>>

\* InitCollectorController: ClearProbeSessions before any socket is accepted.
Boot(i) ==
    /\ server[i] = "down"
    /\ server' = [server EXCEPT ![i] = "starting"]
    /\ Becomes(i, [NoTx EXCEPT !.pc = "list"])
    /\ UNCHANGED <<rows, online, conn, leaving, published, lost>>

\* Cache.Shutdown takes the cached sockets, then removes them one by one.
Shutdown(i) ==
    /\ server[i] = "up"
    /\ server' = [server EXCEPT ![i] = "stopping"]
    /\ leaving' = [leaving EXCEPT ![i] =
                     {s \in Sockets : /\ InstanceOf[s] = i
                                      /\ conn[s] \in {"start", "up", "unsaved"}}]
    /\ UNCHANGED <<rows, online, tx, conn, published, lost>>

RemoveNext(i, s) ==
    /\ server[i] = "stopping"
    /\ tx[i].pc = "idle"
    /\ s \in leaving[i]
    /\ leaving' = [leaving EXCEPT ![i] = @ \ {s}]
    /\ Becomes(i, [NoTx EXCEPT !.pc = "next", !.todo = {s}])
    /\ UNCHANGED <<rows, online, conn, server, published, lost>>

\* The process ends, by os.Exit after the shutdown or by a crash at any
\* point: its sockets are gone and its open transactions roll back.
Exit(i) ==
    /\ server[i] # "down"
    /\ server' = [server EXCEPT ![i] = "down"]
    /\ leaving' = [leaving EXCEPT ![i] = {}]
    /\ tx' = [g \in Procs |->
                IF g = i \/ (g \in Sockets /\ InstanceOf[g] = i)
                THEN NoTx ELSE tx[g]]
    /\ conn' = [s \in Sockets |->
                  IF InstanceOf[s] = i /\ conn[s] # "new" THEN "gone"
                  ELSE conn[s]]
    /\ UNCHANGED <<rows, online, published, lost>>

-----------------------------------------------------------------------------
Init ==
    /\ rows = {}
    /\ online = [p \in Probes |-> FALSE]
    /\ tx = [g \in Procs |-> NoTx]
    /\ conn = [s \in Sockets |-> "new"]
    /\ server = [i \in Instances |-> "down"]
    /\ leaving = [i \in Instances |-> {}]
    /\ published = {}
    /\ lost = {}

Statement(g) ==
    \/ List(g)
    \/ \E s \in Sockets : GetExisting(g, s)
    \/ DeleteRow(g)
    \/ CountSessions(g)
    \/ MarkOffline(g)
    \/ InsertRow(g)
    \/ MarkOnline(g)

TxEnd(g) == Commit(g) \/ CommitLost(g) \/ StatementFails(g)

Socket(s) == Register(s) \/ Start(s) \/ OnDisconnection(s)

Instance(i) ==
    \/ Boot(i)
    \/ Shutdown(i)
    \/ \E s \in Sockets : RemoveNext(i, s)
    \/ Exit(i)

Next ==
    \/ \E g \in Procs : Statement(g) \/ TxEnd(g)
    \/ \E s \in Sockets : Socket(s)
    \/ \E i \in Instances : Instance(i)

Spec == Init /\ [][Next]_vars

-----------------------------------------------------------------------------
(* Properties.                                                             *)

\* A probe is marked online exactly while it has a session: the count that
\* deleteProbeSession takes is still right when its UPDATE commits, whatever
\* other sessions of the probe come and go meanwhile.
OnlineMatchesSessions ==
    \A p \in Probes : online[p] <=> SessionsOf(p, rows) # {}

\* What probe_test.go expects of the last delete: with no session left and no
\* transaction running, the probe is offline again.
OfflineAgain ==
    (\A g \in Procs : tx[g].pc = "idle") =>
        \A p \in Probes : SessionsOf(p, rows) = {} => ~online[p]

\* A row is deleted, counted and announced by one transaction only: whatever a
\* transaction has deleted is still there for its commit to take away, though
\* a reconnect, a disconnect and a shutdown may all go for the same session.
NoDoubleRemoval == \A g \in Procs : tx[g].del \subseteq rows

\* No session of a running instance outlives its connection, except one whose
\* removal failed and was logged: neither a crash, nor a reconnect that races
\* with the old connection, leaves a row that takes a share of the checks.
SessionsOwned ==
    \A s \in rows : server[InstanceOf[s]] = "up" =>
        conn[s] \in {"up", "closing"} \/ s \in lost

\* Every session that appears or disappears has been announced to the other
\* instances, or they would go on with the old partition of the checks.
ChangesAnnounced ==
    [][/\ \A s \in rows \ rows' : [type |-> "deleted", sock |-> s] \in published
       /\ \A s \in rows' \ rows : [type |-> "created", sock |-> s] \in published
      ]_rows

\* Inductive strengthenings.  The socket at hand is one when it is needed:
CursorOK ==
    \A g \in Procs :
        tx[g].pc \in {"delete", "count", "offline", "insert", "online"} =>
            tx[g].cur \in Sockets

\* What is deleted is locked: it is there, and no one else deletes it.
RowLocks ==
    /\ NoDoubleRemoval
    /\ \A g, h \in Procs : g # h => tx[g].del \cap tx[h].del = {}

\* What the table locks of the serializable database exclude.
TableLocks ==
    Isolation = "serializable" =>
      \A g \in Procs :
        /\ tx[g].open => tx[g].view = rows
        /\ Dirty(tx[g]) => /\ tx[g].open
                           /\ \A h \in Procs \ {g} : ~tx[h].open
        /\ tx[g].pc \in {"idle", "list", "insert"} => ~tx[g].open
        /\ tx[g].pc \in {"delete", "count", "offline", "online"} => tx[g].open
        /\ tx[g].pc \in {"count", "offline"} => tx[g].cur \in tx[g].del
        /\ tx[g].pc = "online" => tx[g].cur \in tx[g].ins

\* The flag a transaction would commit for p agrees with the rows it would
\* commit, but between the change of a row and the change of the flag.
Agrees(g, p) == Applied(tx[g], p) <=> SessionsOf(p, Visible(g)) # {}
Settled(g, p) ==
    CASE tx[g].pc = "delete" -> Agrees(g, p) /\ tx[g].cur \in Visible(g)
      [] tx[g].pc = "count" ->
           IF p = ProbeOf[tx[g].cur] THEN Applied(tx[g], p) ELSE Agrees(g, p)
      [] tx[g].pc = "offline" ->
           IF p = ProbeOf[tx[g].cur] THEN SessionsOf(p, Visible(g)) = {}
           ELSE Agrees(g, p)
      [] tx[g].pc = "online" -> p # ProbeOf[tx[g].cur] => Agrees(g, p)
      [] OTHER -> Agrees(g, p)
FlagFollows ==
    Isolation = "serializable" =>
      /\ OnlineMatchesSessions
      /\ \A g \in Procs, p \in Probes : tx[g].open => Settled(g, p)

\* A transaction adds one session or deletes some, never both.
OneKind ==
    \A g \in Procs :
        /\ tx[g].ins # {} =>
             /\ tx[g].del = {} /\ tx[g].todo = {}
             /\ tx[g].pc \in {"online", "next"}
             /\ \E s \in Sockets : tx[g].ins = {s}
        /\ tx[g].pc = "insert" =>
             tx[g].ins = {} /\ tx[g].del = {} /\ tx[g].todo = {}
        /\ tx[g].pc = "online" => tx[g].ins # {}

\* Only the goroutine of a socket inserts its row, when it starts.
InsertsOwn ==
    \A g \in Procs :
        tx[g].pc \in {"insert", "online"} \/ tx[g].ins # {} =>
            /\ g \in Sockets /\ conn[g] = "start" /\ tx[g].ins \subseteq {g}
            /\ tx[g].pc \in {"insert", "online"} => tx[g].cur = g

\* What a transaction was to delete and has not come to yet.
Ahead(t) == t.todo \cup {s \in {t.cur} : t.pc = "delete"}

\* A socket that closes deletes its row, if it is there,
ClosesOwn ==
    \A s \in Sockets :
        /\ conn[s] = "up" => tx[s].pc = "idle"
        /\ conn[s] = "closing" =>
             /\ tx[s].pc \in {"next", "delete", "count", "offline"}
             /\ tx[s].todo \subseteq {s}
             /\ s \in tx[s].todo => /\ tx[s].pc = "next" /\ ~tx[s].open
                                  /\ tx[s].del = {}
             /\ s \in rows => s \in Ahead(tx[s]) \cup tx[s].del

\* a server that starts those that it has left behind, when none is added.
ClearsOwn ==
    \A i \in Instances :
        /\ server[i] \in {"down", "starting"} =>
             \A s \in Sockets : InstanceOf[s] = i => conn[s] \in {"new", "gone"}
        /\ server[i] = "starting" =>
             /\ tx[i].pc \in {"list", "next", "delete", "count", "offline"}
             /\ tx[i].pc = "list" => tx[i].del = {}
             /\ tx[i].pc # "list" =>
                  /\ tx[i].open /\ tx[i].todo \subseteq tx[i].view \ tx[i].del
                  /\ tx[i].pc = "delete" => tx[i].cur \notin tx[i].todo
                  /\ \A s \in rows : InstanceOf[s] = i =>
                         s \in Ahead(tx[i]) \cup tx[i].del

\* What a transaction has deleted or inserted it has announced, or is about to.
Announced ==
    \A g \in Procs :
        /\ \A s \in tx[g].del : [type |-> "deleted", sock |-> s] \in published
                                \/ (tx[g].pc \in {"count", "offline"} /\ tx[g].cur = s)
        /\ \A s \in tx[g].ins : [type |-> "created", sock |-> s] \in published
                                \/ (tx[g].pc = "online" /\ tx[g].cur = s)

OwnInv == InsertsOwn /\ ClosesOwn /\ ClearsOwn /\ SessionsOwned /\ Announced

IInv == TypeOK /\ CursorOK /\ RowLocks /\ TableLocks /\ FlagFollows

\* Each committed transaction is one step of the abstract specification.
Abstract == INSTANCE ProbePresence WITH rows <- rows, online <- online
PresenceSpec == Abstract!Spec
=============================================================================
