---------------------- MODULE ProbeSessionStoreProofs ----------------------
(***************************************************************************)
(* Proofs about ProbeSessionStore: type correctness, the row locks, whose  *)
(* row is whose and what is announced for both databases; the online flag  *)
(* and the refinement of ProbePresence for the serializable one.           *)
(***************************************************************************)
EXTENDS ProbeSessionStore, TLAPS

-----------------------------------------------------------------------------
(* Types.                                                                  *)

\* The fresh transaction is a transaction.
LEMMA NoTxType == NoTx \in Transactions
  BY DEF NoTx, Transactions, PcValues

\* Replacing one transaction by another keeps the type of tx.
LEMMA BecomesType ==
  ASSUME tx \in [Procs -> Transactions], NEW g \in Procs,
         NEW t \in Transactions, Becomes(g, t)
  PROVE  tx' \in [Procs -> Transactions]
  BY DEF Becomes

\* Statements keep the types: they change one transaction and the events.
LEMMA StatementType ==
  ASSUME TypeOK, CursorOK, NEW g \in Procs, Statement(g)
  PROVE  TypeOK'
<1> DEFINE t == tx[g]
<1>1. t \in Transactions /\ rows \subseteq Sockets
  BY DEF TypeOK
<1>2. Snapshot(g) \subseteq Sockets
  BY <1>1 DEF Snapshot, Transactions
<1>3. SUFFICES /\ tx' \in [Procs -> Transactions]
               /\ published' \subseteq Events
               /\ UNCHANGED <<rows, online, conn, server, leaving, lost>>
  BY DEF TypeOK
<1>4. CASE List(g)
  <2>1. [t EXCEPT !.pc = "next", !.open = TRUE, !.view = rows,
                  !.todo = {s \in rows : InstanceOf[s] = g}] \in Transactions
    BY <1>1 DEF Transactions, PcValues
  <2> QED
    BY <1>4, <2>1, BecomesType DEF List, TypeOK
<1>5. ASSUME NEW s \in Sockets, GetExisting(g, s)
      PROVE  /\ tx' \in [Procs -> Transactions]
             /\ published' \subseteq Events
             /\ UNCHANGED <<rows, online, conn, server, leaving, lost>>
  <2>1. [t EXCEPT !.open = TRUE, !.view = Snapshot(g), !.cur = s,
                  !.pc = IF s \in Visible(g) THEN "delete" ELSE "next",
                  !.todo = t.todo \ {s}] \in Transactions
    BY <1>1, <1>2 DEF Transactions, PcValues
  <2> QED
    BY <1>5, <2>1, BecomesType DEF GetExisting, TypeOK
<1>6. CASE DeleteRow(g)
  <2>1. [t EXCEPT !.pc = "next"] \in Transactions
    BY <1>1 DEF Transactions, PcValues
  <2>2. t.cur \in rows =>
          [t EXCEPT !.pc = "count", !.del = t.del \cup {t.cur}] \in Transactions
    BY <1>1 DEF Transactions, PcValues
  <2> QED
    BY <1>6, <2>1, <2>2, BecomesType DEF DeleteRow, TypeOK
<1>7. CASE CountSessions(g)
  <2>1. /\ [t EXCEPT !.pc = "next"] \in Transactions
        /\ [t EXCEPT !.pc = "offline"] \in Transactions
    BY <1>1 DEF Transactions, PcValues
  <2>2. [type |-> "deleted", sock |-> t.cur] \in Events
    BY <1>7 DEF CountSessions, CursorOK, Events
  <2>3. tx' \in [Procs -> Transactions]
    BY <1>7, <2>1, BecomesType DEF CountSessions, TypeOK
  <2>4. published' \subseteq Events
    BY <1>7, <2>2 DEF CountSessions, TypeOK
  <2> QED
    BY <1>7, <2>3, <2>4 DEF CountSessions
<1>8. CASE MarkOffline(g)
  <2>1. [t EXCEPT !.pc = "next",
                  !.onl = [t.onl EXCEPT ![ProbeOf[t.cur]] = "off"]]
          \in Transactions
    BY <1>1 DEF Transactions, PcValues
  <2>2. [type |-> "deleted", sock |-> t.cur] \in Events
    BY <1>8 DEF MarkOffline, CursorOK, Events
  <2> QED
    BY <1>8, <2>1, <2>2, BecomesType DEF MarkOffline, TypeOK
<1>9. CASE InsertRow(g)
  <2>0. t.cur \in Sockets
    BY <1>9 DEF InsertRow, CursorOK
  <2>1. [t EXCEPT !.pc = "online", !.open = TRUE, !.view = rows,
                  !.ins = {t.cur}] \in Transactions
    BY <1>1, <2>0 DEF Transactions, PcValues
  <2>2. Becomes(g, [t EXCEPT !.pc = "online", !.open = TRUE, !.view = rows,
                             !.ins = {t.cur}])
    BY <1>9 DEF InsertRow
  <2>3. tx' \in [Procs -> Transactions]
    BY <2>1, <2>2, BecomesType DEF TypeOK
  <2> QED
    BY <1>9, <2>3 DEF InsertRow, TypeOK
<1>10. CASE MarkOnline(g)
  <2>1. [t EXCEPT !.pc = "next",
                  !.onl = [t.onl EXCEPT ![ProbeOf[t.cur]] = "on"]]
          \in Transactions
    BY <1>1 DEF Transactions, PcValues
  <2>2. [type |-> "created", sock |-> t.cur] \in Events
    BY <1>10 DEF MarkOnline, CursorOK, Events
  <2> QED
    BY <1>10, <2>1, <2>2, BecomesType DEF MarkOnline, TypeOK
<1> QED
  BY <1>4, <1>5, <1>6, <1>7, <1>8, <1>9, <1>10 DEF Statement

\* What a goroutine does next keeps the types of conn and server.
LEMMA ReturnedType ==
  ASSUME TypeOK, NEW g \in Procs, NEW ok \in BOOLEAN, Returned(g, ok)
  PROVE  /\ conn' \in [Sockets -> ConnStates]
         /\ server' \in [Instances -> ServerStates]
  BY DEF TypeOK, Returned, ConnStates, ServerStates

LEMMA TxEndType ==
  ASSUME TypeOK, NEW g \in Procs, TxEnd(g)
  PROVE  TypeOK'
<1>1. Unremoved(g) \subseteq Sockets
  BY DEF Unremoved
<1>2. CASE Commit(g)
  <2>1. tx[g] \in Transactions
    BY DEF TypeOK
  <2>2. /\ rows' \subseteq Sockets
        /\ online' \in [Probes -> BOOLEAN]
    BY <1>2, <2>1 DEF Commit, Applied, TypeOK, Transactions
  <2>3. tx' \in [Procs -> Transactions]
    BY <1>2, NoTxType, BecomesType DEF Commit, TypeOK
  <2> QED
    BY <1>2, <2>2, <2>3, ReturnedType DEF Commit, TypeOK
<1>3. CASE CommitLost(g)
  <2>1. tx' \in [Procs -> Transactions]
    BY <1>3, NoTxType, BecomesType DEF CommitLost, TypeOK
  <2> QED
    BY <1>1, <1>3, <2>1, ReturnedType DEF CommitLost, TypeOK
<1>4. CASE StatementFails(g)
  <2>1. tx' \in [Procs -> Transactions]
    BY <1>4, NoTxType, BecomesType DEF StatementFails, TypeOK
  <2> QED
    BY <1>1, <1>4, <2>1, ReturnedType DEF StatementFails, TypeOK
<1> QED
  BY <1>2, <1>3, <1>4 DEF TxEnd

\* A transaction that has not read or written anything yet.
Fresh(t) ==
    /\ t \in Transactions
    /\ t.pc \in {"idle", "list", "next", "insert"}
    /\ t.pc = "insert" => t.cur \in Sockets
    /\ ~t.open
    /\ t.ins = {} /\ t.del = {}
    /\ \A p \in Probes : t.onl[p] = "keep"

LEMMA FreshTx ==
  /\ Fresh(NoTx)
  /\ Fresh([NoTx EXCEPT !.pc = "list"])
  /\ \A s \in Sockets :
       /\ Fresh([NoTx EXCEPT !.pc = "next", !.todo = {s}])
       /\ Fresh([NoTx EXCEPT !.pc = "insert", !.cur = s])
  BY DEF Fresh, NoTx, Transactions, PcValues

\* Outside the transactions: a goroutine begins one, or an instance ends.
LEMMA LifeCycleStep ==
  ASSUME TypeOK,
         \/ \E s \in Sockets : Socket(s)
         \/ \E i \in Instances : Boot(i) \/ \E s \in Sockets : RemoveNext(i, s)
  PROVE  /\ \/ UNCHANGED tx
            \/ \E g \in Procs, t \in Transactions : Fresh(t) /\ Becomes(g, t)
         /\ conn' \in [Sockets -> ConnStates]
         /\ server' \in [Instances -> ServerStates]
         /\ leaving' \in [Instances -> SUBSET Sockets]
         /\ UNCHANGED <<rows, online, published, lost>>
<1>1. ASSUME NEW s \in Sockets, Register(s)
      PROVE  /\ conn' \in [Sockets -> ConnStates]
             /\ UNCHANGED <<rows, online, server, leaving, published, lost>>
             /\ UNCHANGED tx \/ \E g \in Procs, t \in Transactions :
                                  Fresh(t) /\ Becomes(g, t)
  <2> DEFINE t == [NoTx EXCEPT !.pc = "next", !.todo = {LastSocket[s]}]
  <2>1. LastSocket[s] # None => Fresh(t)
    BY FreshTx, ConstantsAssumption
  <2>2. LastSocket[s] # None => Becomes(s, t)
    BY <1>1 DEF Register
  <2>3. LastSocket[s] = None => UNCHANGED tx
    BY <1>1 DEF Register
  <2>4. conn' \in [Sockets -> ConnStates]
    BY <1>1 DEF Register, TypeOK, ConnStates
  <2> HIDE DEF t
  <2> QED
    BY <1>1, <2>1, <2>2, <2>3, <2>4 DEF Register, Procs, Fresh
<1>2. ASSUME NEW s \in Sockets, Start(s)
      PROVE  /\ conn' \in [Sockets -> ConnStates]
             /\ UNCHANGED <<rows, online, server, leaving, published, lost>>
             /\ UNCHANGED tx \/ \E g \in Procs, t \in Transactions :
                                  Fresh(t) /\ Becomes(g, t)
  BY <1>2, FreshTx DEF Start, TypeOK, ConnStates, Procs, Fresh
<1>3. ASSUME NEW s \in Sockets, OnDisconnection(s)
      PROVE  /\ conn' \in [Sockets -> ConnStates]
             /\ UNCHANGED <<rows, online, server, leaving, published, lost>>
             /\ \E g \in Procs, t \in Transactions : Fresh(t) /\ Becomes(g, t)
  BY <1>3, FreshTx DEF OnDisconnection, TypeOK, ConnStates, Procs, Fresh
<1>4. ASSUME NEW i \in Instances, Boot(i)
      PROVE  /\ server' \in [Instances -> ServerStates]
             /\ UNCHANGED <<rows, online, conn, leaving, published, lost>>
             /\ \E g \in Procs, t \in Transactions : Fresh(t) /\ Becomes(g, t)
  BY <1>4, FreshTx DEF Boot, TypeOK, ServerStates, Procs, Fresh
<1>5. ASSUME NEW i \in Instances, NEW s \in Sockets, RemoveNext(i, s)
      PROVE  /\ leaving' \in [Instances -> SUBSET Sockets]
             /\ UNCHANGED <<rows, online, conn, server, published, lost>>
             /\ \E g \in Procs, t \in Transactions : Fresh(t) /\ Becomes(g, t)
  BY <1>5, FreshTx DEF RemoveNext, TypeOK, Procs, Fresh
<1> QED
  BY <1>1, <1>2, <1>3, <1>4, <1>5 DEF Socket, TypeOK

-----------------------------------------------------------------------------
(* The invariant.                                                          *)

\* What a transaction means depends on its own record and the tables only.
LEMMA SettledUnchanged ==
  ASSUME NEW h \in Procs, NEW p \in Probes,
         tx'[h] = tx[h], UNCHANGED <<rows, online>>, Settled(h, p)
  PROVE  Settled(h, p)'
  BY DEF Settled, Agrees, Applied, SessionsOf, Visible, Snapshot

\* A goroutine that changes its transaction to t, and no table, keeps the
\* invariant if t respects the locks and leaves its flags settled.
LEMMA TransactionStep ==
  ASSUME IInv, NEW g \in Procs, NEW t \in Transactions, Becomes(g, t),
         UNCHANGED <<rows, online>>,
         t.pc \in {"delete", "count", "offline", "insert", "online"} =>
             t.cur \in Sockets,
         t.del \subseteq rows,
         \A h \in Procs \ {g} : t.del \cap tx[h].del = {},
         Isolation = "serializable" =>
           /\ t.open => t.view = rows
           /\ t.open => \A h \in Procs \ {g} : ~Dirty(tx[h])
           /\ Dirty(t) => t.open /\ \A h \in Procs \ {g} : ~tx[h].open
           /\ t.pc \in {"idle", "list", "insert"} => ~t.open
           /\ t.pc \in {"delete", "count", "offline", "online"} => t.open
           /\ t.pc \in {"count", "offline"} => t.cur \in t.del
           /\ t.pc = "online" => t.cur \in t.ins
           /\ t.open => \A p \in Probes : Settled(g, p)'
  PROVE  CursorOK' /\ RowLocks' /\ TableLocks' /\ FlagFollows'
<1>1. /\ tx'[g] = t
      /\ \A h \in Procs \ {g} : tx'[h] = tx[h]
      /\ rows' = rows /\ online' = online
  BY DEF Becomes, IInv, TypeOK
<1>2. CursorOK'
  BY <1>1 DEF CursorOK, IInv
<1>3. RowLocks'
  BY <1>1 DEF RowLocks, NoDoubleRemoval, IInv
<1>4. TableLocks'
  <2> SUFFICES ASSUME Isolation = "serializable", NEW k \in Procs
               PROVE  /\ tx'[k].open => tx'[k].view = rows
                      /\ Dirty(tx'[k]) =>
                           /\ tx'[k].open
                           /\ \A h \in Procs \ {k} : ~tx'[h].open
                      /\ tx'[k].pc \in {"idle", "list", "insert"} => ~tx'[k].open
                      /\ tx'[k].pc \in {"delete", "count", "offline", "online"} =>
                           tx'[k].open
                      /\ tx'[k].pc \in {"count", "offline"} =>
                           tx'[k].cur \in tx'[k].del
                      /\ tx'[k].pc = "online" => tx'[k].cur \in tx'[k].ins
    BY <1>1 DEF TableLocks, Dirty
  <2>1. CASE k = g
    BY <1>1, <2>1
  <2>2. CASE k # g
    BY <1>1, <2>2 DEF IInv, TableLocks
  <2> QED
    BY <2>1, <2>2
<1>5. FlagFollows'
  <2> SUFFICES ASSUME Isolation = "serializable"
               PROVE  /\ OnlineMatchesSessions'
                      /\ \A k \in Procs, p \in Probes :
                           tx'[k].open => Settled(k, p)'
    BY DEF FlagFollows
  <2>1. OnlineMatchesSessions'
    BY <1>1 DEF OnlineMatchesSessions, SessionsOf, IInv, FlagFollows
  <2>2. ASSUME NEW k \in Procs, NEW p \in Probes, tx'[k].open
        PROVE  Settled(k, p)'
    <3>1. CASE k = g
      BY <1>1, <2>2, <3>1
    <3>2. CASE k # g
      BY <1>1, <2>2, <3>2, SettledUnchanged DEF IInv, FlagFollows
    <3> QED
      BY <3>1, <3>2
  <2> QED
    BY <2>1, <2>2
<1> QED
  BY <1>2, <1>3, <1>4, <1>5

LEMMA FreshStep ==
  ASSUME IInv, NEW g \in Procs, NEW t, Fresh(t), Becomes(g, t),
         UNCHANGED <<rows, online>>
  PROVE  CursorOK' /\ RowLocks' /\ TableLocks' /\ FlagFollows'
  BY TransactionStep DEF Fresh, Dirty

\* A transaction that has not begun to read would commit what is there.
LEMMA UnopenedAgrees ==
  ASSUME IInv, Isolation = "serializable", NEW g \in Procs, ~tx[g].open,
         NEW p \in Probes
  PROVE  Agrees(g, p) /\ Visible(g) = rows
<1>1. ~Dirty(tx[g])
  BY DEF IInv, TableLocks
<1>2. Visible(g) = rows
  BY <1>1 DEF Visible, Snapshot, Dirty
<1>3. Applied(tx[g], p) = online[p]
  BY <1>1 DEF Applied, Dirty
<1> QED
  BY <1>2, <1>3 DEF Agrees, IInv, FlagFollows, OnlineMatchesSessions

\* Between two sessions of a transaction the flags agree.
LEMMA NextAgrees ==
  ASSUME IInv, Isolation = "serializable", NEW g \in Procs,
         tx[g].pc \in {"list", "next", "insert", "delete"}, NEW p \in Probes
  PROVE  Agrees(g, p)
<1>1. CASE ~tx[g].open
  BY <1>1, UnopenedAgrees
<1>2. CASE tx[g].open
  BY <1>2 DEF Settled, IInv, FlagFollows
<1> QED
  BY <1>1, <1>2

LEMMA ListStep ==
  ASSUME IInv, NEW g \in Procs, List(g)
  PROVE  CursorOK' /\ RowLocks' /\ TableLocks' /\ FlagFollows'
<1> DEFINE t == [tx[g] EXCEPT !.pc = "next", !.open = TRUE, !.view = rows,
                              !.todo = {s \in rows : InstanceOf[s] = g}]
<1>1. tx[g] \in Transactions /\ rows \subseteq Sockets
  BY DEF IInv, TypeOK
<1>2. t \in Transactions
  BY <1>1 DEF Transactions, PcValues
<1>3. /\ t.pc = "next" /\ t.open = TRUE /\ t.view = rows
      /\ t.del = tx[g].del /\ t.ins = tx[g].ins /\ t.onl = tx[g].onl
  BY <1>1 DEF Transactions
<1>4. Becomes(g, t) /\ tx[g].pc = "list" /\ UNCHANGED <<rows, online>>
  BY DEF List
<1>5. tx'[g] = t
  BY <1>4 DEF Becomes, IInv, TypeOK
<1>6. Isolation = "serializable" =>
        /\ \A h \in Procs \ {g} : ~Dirty(tx[h])
        /\ ~Dirty(t)
        /\ \A p \in Probes : Settled(g, p)'
  <2> SUFFICES ASSUME Isolation = "serializable"
               PROVE  /\ \A h \in Procs \ {g} : ~Dirty(tx[h])
                      /\ ~Dirty(t)
                      /\ \A p \in Probes : Settled(g, p)'
    OBVIOUS
  <2>1. ~tx[g].open /\ ~Dirty(tx[g])
    BY <1>4 DEF IInv, TableLocks
  <2>2. ~Dirty(t)
    BY <1>3, <2>1 DEF Dirty
  <2>3. \A h \in Procs \ {g} : ~Dirty(tx[h])
    BY DEF List, MayRead
  <2>4. ASSUME NEW p \in Probes
        PROVE  Settled(g, p)'
    <3> HIDE DEF t
    <3>1. Agrees(g, p) /\ Visible(g) = rows
      BY <2>1, UnopenedAgrees
    <3>2. Visible(g)' = Visible(g)
      BY <1>3, <1>4, <1>5, <2>1, <3>1 DEF Visible, Snapshot, Dirty
    <3> QED
      BY <1>3, <1>4, <1>5, <3>1, <3>2 DEF Settled, Agrees, Applied
  <2> QED
    BY <2>2, <2>3, <2>4
<1>7. \A h \in Procs \ {g} : t.del \cap tx[h].del = {}
  BY <1>3 DEF IInv, RowLocks
<1>8. t.del \subseteq rows
  BY <1>3 DEF IInv, RowLocks, NoDoubleRemoval
<1> HIDE DEF t
<1> QED
  BY <1>2, <1>3, <1>4, <1>6, <1>7, <1>8, TransactionStep

LEMMA GetExistingStep ==
  ASSUME IInv, NEW g \in Procs, NEW s \in Sockets, GetExisting(g, s)
  PROVE  CursorOK' /\ RowLocks' /\ TableLocks' /\ FlagFollows'
<1> DEFINE t == [tx[g] EXCEPT
                   !.open = TRUE, !.view = Snapshot(g), !.cur = s,
                   !.pc = IF s \in Visible(g) THEN "delete" ELSE "next",
                   !.todo = tx[g].todo \ {s}]
<1>1. tx[g] \in Transactions /\ rows \subseteq Sockets
  BY DEF IInv, TypeOK
<1>2. t \in Transactions
  BY <1>1 DEF Transactions, PcValues, Snapshot
<1>3. /\ t.open = TRUE /\ t.view = Snapshot(g) /\ t.cur = s
      /\ (t.pc = "delete" /\ s \in Visible(g)) \/ t.pc = "next"
      /\ t.del = tx[g].del /\ t.ins = tx[g].ins /\ t.onl = tx[g].onl
  BY <1>1 DEF Transactions
<1>4. Becomes(g, t) /\ tx[g].pc = "next" /\ UNCHANGED <<rows, online>>
  BY DEF GetExisting
<1>5. tx'[g] = t
  BY <1>4 DEF Becomes, IInv, TypeOK
<1>6. Isolation = "serializable" =>
        /\ \A h \in Procs \ {g} : ~Dirty(tx[h])
        /\ Dirty(t) => \A h \in Procs \ {g} : ~tx[h].open
        /\ t.view = rows
        /\ \A p \in Probes : Settled(g, p)'
  <2> SUFFICES ASSUME Isolation = "serializable"
               PROVE  /\ \A h \in Procs \ {g} : ~Dirty(tx[h])
                      /\ Dirty(t) => \A h \in Procs \ {g} : ~tx[h].open
                      /\ t.view = rows
                      /\ \A p \in Probes : Settled(g, p)'
    OBVIOUS
  <2>1. \A h \in Procs \ {g} : ~Dirty(tx[h])
    BY DEF GetExisting, MayRead
  <2>2. Dirty(t) => \A h \in Procs \ {g} : ~tx[h].open
    BY <1>3 DEF Dirty, IInv, TableLocks
  <2>3. t.view = rows
    BY <1>3 DEF Snapshot, IInv, TableLocks
  <2>4. ASSUME NEW p \in Probes
        PROVE  Settled(g, p)'
    <3> HIDE DEF t
    <3>1. Agrees(g, p)
      BY <1>4, NextAgrees
    <3>2. Visible(g)' = Visible(g)
      BY <1>3, <1>4, <1>5 DEF Visible, Snapshot
    <3> QED
      BY <1>3, <1>4, <1>5, <3>1, <3>2 DEF Settled, Agrees, Applied
  <2> QED
    BY <2>1, <2>2, <2>3, <2>4
<1>7. \A h \in Procs \ {g} : t.del \cap tx[h].del = {}
  BY <1>3 DEF IInv, RowLocks
<1>8. t.del \subseteq rows
  BY <1>3 DEF IInv, RowLocks, NoDoubleRemoval
<1> HIDE DEF t
<1> QED
  BY <1>2, <1>3, <1>4, <1>6, <1>7, <1>8, TransactionStep

\* The two outcomes of DELETE: the row is taken, or it was gone already.
LEMMA DeleteRowStep ==
  ASSUME IInv, NEW g \in Procs, DeleteRow(g)
  PROVE  CursorOK' /\ RowLocks' /\ TableLocks' /\ FlagFollows'
<1> DEFINE s == tx[g].cur
           t == [tx[g] EXCEPT !.pc = "count", !.del = tx[g].del \cup {s}]
           u == [tx[g] EXCEPT !.pc = "next"]
<1>1. /\ tx[g] \in Transactions /\ rows \subseteq Sockets
      /\ tx[g].pc = "delete" /\ s \in Sockets
      /\ UNCHANGED <<rows, online>>
  BY DEF IInv, TypeOK, CursorOK, DeleteRow
<1>2. Isolation = "serializable" =>
        /\ \A h \in Procs \ {g} : ~tx[h].open /\ ~Dirty(tx[h])
        /\ tx[g].open /\ tx[g].view = rows
        /\ s \in Visible(g)
        /\ \A p \in Probes : Agrees(g, p)
  <2> SUFFICES ASSUME Isolation = "serializable"
               PROVE  /\ \A h \in Procs \ {g} : ~tx[h].open /\ ~Dirty(tx[h])
                      /\ tx[g].open /\ tx[g].view = rows
                      /\ s \in Visible(g)
                      /\ \A p \in Probes : Agrees(g, p)
    OBVIOUS
  <2>1. \A h \in Procs \ {g} : ~tx[h].open /\ ~Dirty(tx[h])
    BY DEF DeleteRow, MayWrite, IInv, TableLocks
  <2>2. tx[g].open /\ tx[g].view = rows
    BY <1>1 DEF IInv, TableLocks
  <2>3. s \in Visible(g)
    <3>1. CASE Probes = {}
      BY <1>1, <3>1, ConstantsAssumption
    <3>2. CASE Probes # {}
      BY <1>1, <2>2, <3>2 DEF IInv, FlagFollows, Settled
    <3> QED
      BY <3>1, <3>2
  <2>4. \A p \in Probes : Agrees(g, p)
    BY <1>1, NextAgrees
  <2> QED
    BY <2>1, <2>2, <2>3, <2>4
<1>3. CASE s \in rows /\ Becomes(g, t)
  <2>1. t \in Transactions
    BY <1>1 DEF Transactions, PcValues
  <2>2. /\ t.pc = "count" /\ t.cur = s /\ t.del = tx[g].del \cup {s}
        /\ t.open = tx[g].open /\ t.view = tx[g].view
        /\ t.ins = tx[g].ins /\ t.onl = tx[g].onl
    BY <1>1 DEF Transactions
  <2>3. \A h \in Procs \ {g} : t.del \cap tx[h].del = {}
    BY <2>2 DEF IInv, RowLocks, DeleteRow, SessionFree
  <2>4. t.del \subseteq rows
    BY <1>3, <2>2 DEF IInv, RowLocks, NoDoubleRemoval
  <2>5. tx'[g] = t
    BY <1>3 DEF Becomes, IInv, TypeOK
  <2>6. ASSUME Isolation = "serializable", NEW p \in Probes
        PROVE  Settled(g, p)'
    <3> HIDE DEF t, s
    <3>1. Agrees(g, p) /\ s \in Visible(g)
      BY <1>2, <2>6
    <3>2. /\ Visible(g)' \subseteq Visible(g)
          /\ Visible(g) \subseteq Visible(g)' \cup {s}
      BY <1>1, <1>2, <2>2, <2>5, <2>6 DEF Visible, Snapshot
    <3>3. Applied(tx[g], p)' = Applied(tx[g], p)
      BY <1>1, <2>2, <2>5 DEF Applied
    <3>4. CASE p = ProbeOf[s]
      <4>1. s \in SessionsOf(p, Visible(g))
        BY <1>1, <3>1, <3>4 DEF SessionsOf, Visible, Snapshot
      <4>2. Applied(tx[g], p)
        BY <3>1, <4>1 DEF Agrees
      <4> QED
        BY <2>2, <2>5, <3>3, <3>4, <4>2 DEF Settled
    <3>5. CASE p # ProbeOf[s]
      <4>1. SessionsOf(p, Visible(g))' = SessionsOf(p, Visible(g))
        BY <3>2, <3>5 DEF SessionsOf
      <4> QED
        BY <2>2, <2>5, <3>1, <3>3, <3>5, <4>1 DEF Settled, Agrees
    <3> QED
      BY <3>4, <3>5
  <2> HIDE DEF t
  <2> QED
    BY <1>1, <1>2, <1>3, <2>1, <2>2, <2>3, <2>4, <2>6, TransactionStep
<1>4. CASE s \notin rows /\ Becomes(g, u)
  <2>1. u \in Transactions
    BY <1>1 DEF Transactions, PcValues
  <2>2. /\ u.pc = "next" /\ u.cur = s /\ u.del = tx[g].del
        /\ u.open = tx[g].open /\ u.view = tx[g].view
        /\ u.ins = tx[g].ins /\ u.onl = tx[g].onl
    BY <1>1 DEF Transactions
  <2>3. \A h \in Procs \ {g} : u.del \cap tx[h].del = {}
    BY <2>2 DEF IInv, RowLocks
  <2>4. u.del \subseteq rows
    BY <2>2 DEF IInv, RowLocks, NoDoubleRemoval
  <2>5. tx'[g] = u
    BY <1>4 DEF Becomes, IInv, TypeOK
  <2>6. ASSUME Isolation = "serializable", NEW p \in Probes
        PROVE  Settled(g, p)'
    BY <1>1, <1>2, <2>2, <2>5, <2>6
       DEF Settled, Agrees, Applied, SessionsOf, Visible, Snapshot
  <2> HIDE DEF u
  <2> QED
    BY <1>1, <1>2, <1>4, <2>1, <2>2, <2>3, <2>4, <2>6, TransactionStep
<1> QED
  BY <1>3, <1>4 DEF DeleteRow

LEMMA CountSessionsStep ==
  ASSUME IInv, NEW g \in Procs, CountSessions(g)
  PROVE  CursorOK' /\ RowLocks' /\ TableLocks' /\ FlagFollows'
<1> DEFINE s == tx[g].cur
<1>1. /\ tx[g] \in Transactions /\ tx[g].pc = "count" /\ s \in Sockets
      /\ UNCHANGED <<rows, online>>
  BY DEF IInv, TypeOK, CursorOK, CountSessions
<1>2. PICK pc \in {"next", "offline"} :
        /\ Becomes(g, [tx[g] EXCEPT !.pc = pc])
        /\ pc = "offline" <=> SessionsOf(ProbeOf[s], Visible(g)) = {}
  BY DEF CountSessions
<1> DEFINE t == [tx[g] EXCEPT !.pc = pc]
<1>3. t \in Transactions
  BY <1>1 DEF Transactions, PcValues
<1>4. /\ t.pc = pc /\ t.cur = s /\ t.del = tx[g].del
      /\ t.open = tx[g].open /\ t.view = tx[g].view
      /\ t.ins = tx[g].ins /\ t.onl = tx[g].onl
  BY <1>1 DEF Transactions
<1>5. tx'[g] = t
  BY <1>2 DEF Becomes, IInv, TypeOK
<1>6. ASSUME Isolation = "serializable", NEW p \in Probes
      PROVE  Settled(g, p)'
  <2>1. Settled(g, p)
    BY <1>1, <1>6 DEF IInv, TableLocks, FlagFollows
  <2>2. /\ Visible(g)' = Visible(g)
        /\ Applied(tx[g], p)' = Applied(tx[g], p)
    BY <1>1, <1>4, <1>5 DEF Visible, Snapshot, Applied
  <2> HIDE DEF t, s
  <2> QED
    BY <1>1, <1>2, <1>4, <1>5, <2>1, <2>2 DEF Settled, Agrees, SessionsOf, s
<1>7. Isolation = "serializable" =>
        /\ \A h \in Procs \ {g} : ~tx[h].open /\ ~Dirty(tx[h])
        /\ tx[g].open /\ tx[g].view = rows /\ s \in tx[g].del
  BY <1>1 DEF IInv, TableLocks, Dirty
<1>8. /\ \A h \in Procs \ {g} : t.del \cap tx[h].del = {}
      /\ t.del \subseteq rows
  BY <1>4 DEF IInv, RowLocks, NoDoubleRemoval
<1> HIDE DEF t
<1> QED
  BY <1>1, <1>2, <1>3, <1>4, <1>6, <1>7, <1>8, TransactionStep DEF t

LEMMA MarkOfflineStep ==
  ASSUME IInv, NEW g \in Procs, MarkOffline(g)
  PROVE  CursorOK' /\ RowLocks' /\ TableLocks' /\ FlagFollows'
<1> DEFINE s == tx[g].cur
           t == [tx[g] EXCEPT !.pc = "next",
                              !.onl = [tx[g].onl EXCEPT ![ProbeOf[s]] = "off"]]
<1>1. /\ tx[g] \in Transactions /\ tx[g].pc = "offline" /\ s \in Sockets
      /\ ProbeOf[s] \in Probes
      /\ UNCHANGED <<rows, online>>
      /\ Becomes(g, t)
  BY ConstantsAssumption DEF IInv, TypeOK, CursorOK, MarkOffline
<1>2. t \in Transactions
  BY <1>1 DEF Transactions, PcValues
<1>3. /\ t.pc = "next" /\ t.cur = s /\ t.del = tx[g].del
      /\ t.open = tx[g].open /\ t.view = tx[g].view /\ t.ins = tx[g].ins
      /\ \A p \in Probes :
           t.onl[p] = IF p = ProbeOf[s] THEN "off" ELSE tx[g].onl[p]
  BY <1>1 DEF Transactions
<1>4. tx'[g] = t
  BY <1>1 DEF Becomes, IInv, TypeOK
<1>5. ASSUME Isolation = "serializable", NEW p \in Probes
      PROVE  Settled(g, p)'
  <2>1. Settled(g, p)
    BY <1>1, <1>5 DEF IInv, TableLocks, FlagFollows
  <2>2. Visible(g)' = Visible(g)
    BY <1>1, <1>3, <1>4 DEF Visible, Snapshot
  <2>3. CASE p = ProbeOf[s]
    <3>1. Applied(tx[g], p)' = FALSE
      BY <1>3, <1>4, <2>3 DEF Applied
    <3>2. SessionsOf(p, Visible(g)) = {}
      BY <1>1, <2>1, <2>3 DEF Settled
    <3> HIDE DEF t, s
    <3> QED
      BY <1>3, <1>4, <2>2, <3>1, <3>2 DEF Settled, Agrees, SessionsOf
  <2>4. CASE p # ProbeOf[s]
    <3>1. Applied(tx[g], p)' = Applied(tx[g], p)
      BY <1>1, <1>3, <1>4, <2>4 DEF Applied
    <3>2. Agrees(g, p)
      BY <1>1, <2>1, <2>4 DEF Settled
    <3> HIDE DEF t, s
    <3> QED
      BY <1>3, <1>4, <2>2, <3>1, <3>2 DEF Settled, Agrees, SessionsOf
  <2> QED
    BY <2>3, <2>4
<1>6. Isolation = "serializable" =>
        /\ \A h \in Procs \ {g} : ~tx[h].open /\ ~Dirty(tx[h])
        /\ tx[g].open /\ tx[g].view = rows
  BY <1>1 DEF IInv, TableLocks, Dirty
<1>7. /\ \A h \in Procs \ {g} : t.del \cap tx[h].del = {}
      /\ t.del \subseteq rows
  BY <1>3 DEF IInv, RowLocks, NoDoubleRemoval
<1> HIDE DEF t
<1> QED
  BY <1>1, <1>2, <1>3, <1>5, <1>6, <1>7, TransactionStep

LEMMA MarkOnlineStep ==
  ASSUME IInv, NEW g \in Procs, MarkOnline(g)
  PROVE  CursorOK' /\ RowLocks' /\ TableLocks' /\ FlagFollows'
<1> DEFINE s == tx[g].cur
           t == [tx[g] EXCEPT !.pc = "next",
                              !.onl = [tx[g].onl EXCEPT ![ProbeOf[s]] = "on"]]
<1>1. /\ tx[g] \in Transactions /\ tx[g].pc = "online" /\ s \in Sockets
      /\ ProbeOf[s] \in Probes
      /\ UNCHANGED <<rows, online>>
      /\ Becomes(g, t)
  BY ConstantsAssumption DEF IInv, TypeOK, CursorOK, MarkOnline
<1>2. t \in Transactions
  BY <1>1 DEF Transactions, PcValues
<1>3. /\ t.pc = "next" /\ t.cur = s /\ t.del = tx[g].del
      /\ t.open = tx[g].open /\ t.view = tx[g].view /\ t.ins = tx[g].ins
      /\ \A p \in Probes :
           t.onl[p] = IF p = ProbeOf[s] THEN "on" ELSE tx[g].onl[p]
  BY <1>1 DEF Transactions
<1>4. tx'[g] = t
  BY <1>1 DEF Becomes, IInv, TypeOK
<1>5. ASSUME Isolation = "serializable", NEW p \in Probes
      PROVE  Settled(g, p)'
  <2>1. Settled(g, p)
    BY <1>1, <1>5 DEF IInv, TableLocks, FlagFollows
  <2>2. Visible(g)' = Visible(g)
    BY <1>1, <1>3, <1>4 DEF Visible, Snapshot
  <2>3. CASE p = ProbeOf[s]
    <3>1. Applied(tx[g], p)' = TRUE
      BY <1>3, <1>4, <2>3 DEF Applied
    <3>2. SessionsOf(p, Visible(g)) # {}
      BY <1>1, <1>5, <2>3 DEF IInv, TableLocks, Visible, SessionsOf
    <3> HIDE DEF t, s
    <3> QED
      BY <1>3, <1>4, <2>2, <3>1, <3>2 DEF Settled, Agrees, SessionsOf
  <2>4. CASE p # ProbeOf[s]
    <3>1. Applied(tx[g], p)' = Applied(tx[g], p)
      BY <1>1, <1>3, <1>4, <2>4 DEF Applied
    <3>2. Agrees(g, p)
      BY <1>1, <2>1, <2>4 DEF Settled
    <3> HIDE DEF t, s
    <3> QED
      BY <1>3, <1>4, <2>2, <3>1, <3>2 DEF Settled, Agrees, SessionsOf
  <2> QED
    BY <2>3, <2>4
<1>6. Isolation = "serializable" =>
        /\ \A h \in Procs \ {g} : ~tx[h].open /\ ~Dirty(tx[h])
        /\ tx[g].open /\ tx[g].view = rows
  BY <1>1 DEF IInv, TableLocks, Dirty
<1>7. /\ \A h \in Procs \ {g} : t.del \cap tx[h].del = {}
      /\ t.del \subseteq rows
  BY <1>3 DEF IInv, RowLocks, NoDoubleRemoval
<1> HIDE DEF t
<1> QED
  BY <1>1, <1>2, <1>3, <1>5, <1>6, <1>7, TransactionStep

LEMMA InsertRowStep ==
  ASSUME IInv, NEW g \in Procs, InsertRow(g)
  PROVE  CursorOK' /\ RowLocks' /\ TableLocks' /\ FlagFollows'
<1> DEFINE s == tx[g].cur
           t == [tx[g] EXCEPT !.pc = "online", !.open = TRUE,
                              !.view = rows, !.ins = {s}]
<1>1. /\ tx[g] \in Transactions /\ tx[g].pc = "insert" /\ s \in Sockets
      /\ rows \subseteq Sockets
      /\ UNCHANGED <<rows, online>>
      /\ Becomes(g, t)
  BY DEF IInv, TypeOK, CursorOK, InsertRow
<1>2. t \in Transactions
  BY <1>1 DEF Transactions, PcValues
<1>3. /\ t.pc = "online" /\ t.cur = s /\ t.del = tx[g].del
      /\ t.open = TRUE /\ t.view = rows /\ t.ins = {s} /\ t.onl = tx[g].onl
  BY <1>1 DEF Transactions
<1>4. tx'[g] = t
  BY <1>1 DEF Becomes, IInv, TypeOK
<1>5. Isolation = "serializable" =>
        /\ \A h \in Procs \ {g} : ~tx[h].open /\ ~Dirty(tx[h])
        /\ ~tx[g].open /\ ~Dirty(tx[g])
  BY <1>1 DEF InsertRow, MayWrite, IInv, TableLocks
<1>6. ASSUME Isolation = "serializable", NEW p \in Probes
      PROVE  Settled(g, p)'
  <2> SUFFICES ASSUME p # ProbeOf[s]
               PROVE  Agrees(g, p)'
    BY <1>3, <1>4 DEF Settled
  <2>1. Agrees(g, p) /\ Visible(g) = rows
    BY <1>5, <1>6, UnopenedAgrees
  <2>2. Visible(g)' = rows \cup {s}
    BY <1>1, <1>3, <1>4, <1>5, <1>6 DEF Visible, Snapshot, Dirty
  <2>3. SessionsOf(p, Visible(g))' = SessionsOf(p, Visible(g))
    BY <2>1, <2>2 DEF SessionsOf
  <2>4. Applied(tx[g], p)' = Applied(tx[g], p)
    BY <1>1, <1>3, <1>4 DEF Applied
  <2> QED
    BY <2>1, <2>3, <2>4 DEF Agrees
<1>7. /\ \A h \in Procs \ {g} : t.del \cap tx[h].del = {}
      /\ t.del \subseteq rows
  BY <1>3 DEF IInv, RowLocks, NoDoubleRemoval
<1> HIDE DEF t
<1> QED
  BY <1>1, <1>2, <1>3, <1>5, <1>6, <1>7, TransactionStep

LEMMA StatementStep ==
  ASSUME IInv, NEW g \in Procs, Statement(g)
  PROVE  IInv'
<1>1. TypeOK'
  BY StatementType DEF IInv
<1>2. CursorOK' /\ RowLocks' /\ TableLocks' /\ FlagFollows'
  BY ListStep, GetExistingStep, DeleteRowStep, CountSessionsStep,
     MarkOfflineStep, MarkOnlineStep, InsertRowStep DEF Statement
<1> QED
  BY <1>1, <1>2 DEF IInv

\* The rows and flags that Commit writes agree, and nobody else has a stake in
\* the rows it takes away.
LEMMA CommitStep ==
  ASSUME IInv, NEW g \in Procs, Commit(g)
  PROVE  CursorOK' /\ RowLocks' /\ TableLocks' /\ FlagFollows'
<1>1. /\ tx[g] \in Transactions /\ tx[g].pc = "next"
      /\ rows' = (rows \ tx[g].del) \cup tx[g].ins
      /\ \A p \in Probes : online'[p] = Applied(tx[g], p)
      /\ tx'[g] = NoTx
      /\ \A h \in Procs \ {g} : tx'[h] = tx[h]
  BY DEF IInv, TypeOK, Commit, Becomes
<1>2. /\ NoTx.pc = "idle" /\ ~NoTx.open /\ NoTx.del = {} /\ NoTx.ins = {}
      /\ ~Dirty(NoTx)
  BY DEF NoTx, Dirty
<1>3. CursorOK'
  BY <1>1, <1>2 DEF CursorOK, IInv
<1>4. RowLocks'
  <2>1. \A h \in Procs : tx'[h].del \subseteq rows'
    BY <1>1, <1>2 DEF RowLocks, NoDoubleRemoval, IInv
  <2>2. \A h, k \in Procs : h # k => tx'[h].del \cap tx'[k].del = {}
    BY <1>1, <1>2 DEF RowLocks, IInv
  <2> QED
    BY <2>1, <2>2 DEF RowLocks, NoDoubleRemoval
<1>5. ASSUME Isolation = "serializable"
      PROVE  /\ rows' = Visible(g)
             /\ Dirty(tx[g]) => \A h \in Procs \ {g} : ~tx[h].open
             /\ ~Dirty(tx[g]) => rows' = rows
             /\ ~Dirty(tx[g]) => \A p \in Probes : online'[p] = online[p]
  <2>1. rows' = Visible(g)
    BY <1>1, <1>5 DEF Visible, Snapshot, IInv, TableLocks
  <2>2. Dirty(tx[g]) => \A h \in Procs \ {g} : ~tx[h].open
    BY <1>5 DEF IInv, TableLocks
  <2>3. ~Dirty(tx[g]) => rows' = rows
    BY <1>1 DEF Dirty
  <2>4. ~Dirty(tx[g]) => \A p \in Probes : online'[p] = online[p]
    BY <1>1 DEF Dirty, Applied
  <2> QED
    BY <2>1, <2>2, <2>3, <2>4
<1>6. TableLocks'
  <2> SUFFICES ASSUME Isolation = "serializable", NEW k \in Procs
               PROVE  /\ tx'[k].open => tx'[k].view = rows'
                      /\ Dirty(tx'[k]) =>
                           /\ tx'[k].open
                           /\ \A h \in Procs \ {k} : ~tx'[h].open
                      /\ tx'[k].pc \in {"idle", "list", "insert"} => ~tx'[k].open
                      /\ tx'[k].pc \in {"delete", "count", "offline", "online"} =>
                           tx'[k].open
                      /\ tx'[k].pc \in {"count", "offline"} =>
                           tx'[k].cur \in tx'[k].del
                      /\ tx'[k].pc = "online" => tx'[k].cur \in tx'[k].ins
    BY DEF TableLocks, Dirty
  <2>1. CASE k = g
    BY <1>1, <1>2, <2>1
  <2>2. CASE k # g
    <3>1. tx'[k].open => tx'[k].view = rows'
      BY <1>1, <1>5, <2>2 DEF IInv, TableLocks
    <3> QED
      BY <1>1, <1>2, <2>2, <3>1 DEF IInv, TableLocks
  <2> QED
    BY <2>1, <2>2
<1>7. FlagFollows'
  <2> SUFFICES ASSUME Isolation = "serializable"
               PROVE  /\ OnlineMatchesSessions'
                      /\ \A k \in Procs, p \in Probes :
                           tx'[k].open => Settled(k, p)'
    BY DEF FlagFollows
  <2>1. OnlineMatchesSessions'
    <3>1. \A p \in Probes : Agrees(g, p)
      BY <1>1, NextAgrees
    <3> QED
      BY <1>1, <1>5, <3>1 DEF OnlineMatchesSessions, Agrees, SessionsOf
  <2>2. ASSUME NEW k \in Procs, NEW p \in Probes, tx'[k].open
        PROVE  Settled(k, p)'
    <3>1. k # g /\ tx[k].open /\ tx'[k] = tx[k]
      BY <1>1, <1>2, <2>2
    <3>2. ~Dirty(tx[g])
      BY <1>5, <3>1
    <3>3. rows' = rows /\ online'[p] = online[p]
      BY <1>5, <3>2
    <3>4. Settled(k, p)
      BY <3>1 DEF IInv, FlagFollows
    <3> QED
      BY <3>1, <3>3, <3>4
         DEF Settled, Agrees, Applied, SessionsOf, Visible, Snapshot
  <2> QED
    BY <2>1, <2>2
<1> QED
  BY <1>3, <1>4, <1>6, <1>7

LEMMA TxEndStep ==
  ASSUME IInv, NEW g \in Procs, TxEnd(g)
  PROVE  IInv'
<1>1. TypeOK'
  BY TxEndType DEF IInv
<1>2. CASE Commit(g)
  BY <1>1, <1>2, CommitStep DEF IInv
<1>3. CASE CommitLost(g) \/ StatementFails(g)
  <2>1. Becomes(g, NoTx) /\ UNCHANGED <<rows, online>>
    BY <1>3 DEF CommitLost, StatementFails
  <2> QED
    BY <1>1, <2>1, FreshTx, FreshStep DEF IInv
<1> QED
  BY <1>2, <1>3 DEF TxEnd

\* A dying process takes its transactions with it and leaves the tables alone.
LEMMA ExitStep ==
  ASSUME IInv, NEW i \in Instances, Exit(i)
  PROVE  IInv'
<1>1. \A g \in Procs : tx'[g] = NoTx \/ tx'[g] = tx[g]
  BY DEF Exit
<1>2. /\ NoTx.pc = "idle" /\ ~NoTx.open /\ NoTx.del = {} /\ NoTx.ins = {}
      /\ ~Dirty(NoTx)
  BY DEF NoTx, Dirty
<1>3. UNCHANGED <<rows, online>>
  BY DEF Exit
<1>4. TypeOK'
  BY NoTxType DEF Exit, IInv, TypeOK, ConnStates, ServerStates
<1>5. CursorOK'
  BY <1>1, <1>2 DEF CursorOK, IInv
<1>6. RowLocks'
  BY <1>1, <1>2, <1>3 DEF RowLocks, NoDoubleRemoval, IInv
<1>7. TableLocks'
  <2> SUFFICES ASSUME Isolation = "serializable", NEW k \in Procs
               PROVE  /\ tx'[k].open => tx'[k].view = rows
                      /\ Dirty(tx'[k]) =>
                           /\ tx'[k].open
                           /\ \A h \in Procs \ {k} : ~tx'[h].open
                      /\ tx'[k].pc \in {"idle", "list", "insert"} => ~tx'[k].open
                      /\ tx'[k].pc \in {"delete", "count", "offline", "online"} =>
                           tx'[k].open
                      /\ tx'[k].pc \in {"count", "offline"} =>
                           tx'[k].cur \in tx'[k].del
                      /\ tx'[k].pc = "online" => tx'[k].cur \in tx'[k].ins
    BY <1>3 DEF TableLocks, Dirty
  <2>1. CASE tx'[k] = NoTx
    BY <1>2, <2>1
  <2>2. CASE tx'[k] = tx[k]
    BY <1>1, <1>2, <2>2 DEF IInv, TableLocks
  <2> QED
    BY <1>1, <2>1, <2>2
<1>8. FlagFollows'
  <2>1. Isolation = "serializable" => OnlineMatchesSessions'
    BY <1>3 DEF OnlineMatchesSessions, SessionsOf, IInv, FlagFollows
  <2>2. ASSUME Isolation = "serializable", NEW k \in Procs, NEW p \in Probes,
               tx'[k].open
        PROVE  Settled(k, p)'
    <3>1. tx'[k] = tx[k]
      BY <1>1, <1>2, <2>2
    <3> QED
      BY <1>3, <2>2, <3>1, SettledUnchanged DEF IInv, FlagFollows
  <2> QED
    BY <2>1, <2>2 DEF FlagFollows
<1> QED
  BY <1>4, <1>5, <1>6, <1>7, <1>8 DEF IInv

\* Everything that only reads the tables' variables survives a stutter of them.
LEMMA IdleStep ==
  ASSUME IInv, UNCHANGED <<rows, online, tx>>, TypeOK'
  PROVE  IInv'
<1>1. CursorOK' /\ RowLocks' /\ TableLocks'
  BY DEF IInv, CursorOK, RowLocks, NoDoubleRemoval, TableLocks, Dirty
<1>2. FlagFollows'
  <2>1. Isolation = "serializable" => OnlineMatchesSessions'
    BY DEF OnlineMatchesSessions, SessionsOf, IInv, FlagFollows
  <2>2. ASSUME Isolation = "serializable", NEW k \in Procs, NEW p \in Probes,
               tx'[k].open
        PROVE  Settled(k, p)'
    BY <2>2, SettledUnchanged DEF IInv, FlagFollows
  <2> QED
    BY <2>1, <2>2 DEF FlagFollows
<1> QED
  BY <1>1, <1>2 DEF IInv

LEMMA InitIInv == Init => IInv
<1> SUFFICES ASSUME Init PROVE IInv
  OBVIOUS
<1>1. TypeOK
  BY NoTxType DEF Init, TypeOK, ConnStates, ServerStates
<1>2. \A g \in Procs : tx[g] = NoTx
  BY DEF Init
<1>3. /\ NoTx.pc = "idle" /\ ~NoTx.open /\ NoTx.del = {} /\ NoTx.ins = {}
      /\ ~Dirty(NoTx)
  BY DEF NoTx, Dirty
<1>4. CursorOK /\ RowLocks /\ TableLocks
  BY <1>2, <1>3 DEF CursorOK, RowLocks, NoDoubleRemoval, TableLocks
<1>5. FlagFollows
  BY <1>2, <1>3 DEF FlagFollows, OnlineMatchesSessions, SessionsOf, Init
<1> QED
  BY <1>1, <1>4, <1>5 DEF IInv

LEMMA NextIInv == IInv /\ [Next]_vars => IInv'
<1> SUFFICES ASSUME IInv, [Next]_vars PROVE IInv'
  OBVIOUS
<1>1. ASSUME NEW g \in Procs, Statement(g) \/ TxEnd(g)
      PROVE  IInv'
  BY <1>1, StatementStep, TxEndStep
<1>2. CASE \/ \E s \in Sockets : Socket(s)
           \/ \E i \in Instances : Boot(i) \/ \E s \in Sockets : RemoveNext(i, s)
  <2>1. CASE UNCHANGED tx
    <3>1. TypeOK'
      BY <1>2, <2>1, LifeCycleStep DEF IInv, TypeOK
    <3> QED
      BY <1>2, <2>1, <3>1, LifeCycleStep, IdleStep DEF IInv
  <2>2. CASE \E g \in Procs, t \in Transactions : Fresh(t) /\ Becomes(g, t)
    <3>1. PICK g \in Procs, t \in Transactions : Fresh(t) /\ Becomes(g, t)
      BY <2>2
    <3>2. tx' \in [Procs -> Transactions]
      BY <3>1, BecomesType DEF IInv, TypeOK
    <3>3. TypeOK'
      BY <1>2, <3>2, LifeCycleStep DEF IInv, TypeOK
    <3>4. UNCHANGED <<rows, online>>
      BY <1>2, LifeCycleStep DEF IInv
    <3> QED
      BY <3>1, <3>3, <3>4, FreshStep DEF IInv
  <2> QED
    BY <1>2, <2>1, <2>2, LifeCycleStep DEF IInv
<1>3. ASSUME NEW i \in Instances, Shutdown(i)
      PROVE  IInv'
  <2>1. TypeOK'
    BY <1>3 DEF Shutdown, IInv, TypeOK, ServerStates
  <2> QED
    BY <1>3, <2>1, IdleStep DEF Shutdown
<1>4. ASSUME NEW i \in Instances, Exit(i)
      PROVE  IInv'
  BY <1>4, ExitStep
<1>5. CASE UNCHANGED vars
  <2>1. TypeOK'
    BY <1>5 DEF vars, IInv, TypeOK
  <2> QED
    BY <1>5, <2>1, IdleStep DEF vars
<1> QED
  BY <1>1, <1>2, <1>3, <1>4, <1>5 DEF Next, Instance

-----------------------------------------------------------------------------
(* The theorems.                                                           *)

\* What transactions have seen, locked and done so far fits the committed rows
\* and flags at every statement: the invariant the other theorems rest on.
THEOREM Invariance == Spec => []IInv
  BY InitIInv, NextIInv, PTL DEF Spec

\* Every variable keeps its type, for any number of probes, sockets and servers.
THEOREM TypeCorrect == Spec => []TypeOK
<1>1. IInv => TypeOK
  BY DEF IInv
<1> QED
  BY <1>1, Invariance, PTL

\* A session row is deleted and announced by one transaction only, on both
\* databases: what deleteProbeSession deletes is there when it commits.
THEOREM SingleRemoval == Spec => []NoDoubleRemoval
<1>1. IInv => NoDoubleRemoval
  BY DEF IInv, RowLocks
<1> QED
  BY <1>1, Invariance, PTL

\* On the serializable database a probe is online exactly while it has a session.
THEOREM OnlineFollowsSessions ==
  ASSUME Isolation = "serializable"
  PROVE  Spec => []OnlineMatchesSessions
<1>1. IInv => OnlineMatchesSessions
  BY DEF IInv, FlagFollows
<1> QED
  BY <1>1, Invariance, PTL

-----------------------------------------------------------------------------
(* The refinement of ProbePresence.                                        *)

LEMMA OneKindFresh ==
  ASSUME NEW g \in Procs, NEW t, Fresh(t), t.pc = "insert" => t.todo = {},
         TypeOK, OneKind, Becomes(g, t)
  PROVE  OneKind'
<1>1. /\ tx'[g] = t
      /\ \A h \in Procs \ {g} : tx'[h] = tx[h]
  BY DEF Becomes, TypeOK
<1>2. t.pc # "online" /\ t.ins = {} /\ t.del = {}
  BY DEF Fresh
<1> QED
  BY <1>1, <1>2 DEF OneKind

LEMMA OneKindStatement ==
  ASSUME TypeOK, CursorOK, OneKind, NEW g \in Procs, Statement(g)
  PROVE  OneKind'
<1>1. tx[g] \in Transactions
  BY DEF TypeOK
<1>2. ASSUME NEW t \in Transactions, Becomes(g, t),
             /\ t.ins # {} => /\ t.del = {} /\ t.todo = {}
                              /\ t.pc \in {"online", "next"}
                              /\ \E s \in Sockets : t.ins = {s}
             /\ t.pc # "insert"
             /\ t.pc = "online" => t.ins # {}
      PROVE  OneKind'
  <2>1. /\ tx'[g] = t
        /\ \A h \in Procs \ {g} : tx'[h] = tx[h]
    BY <1>2 DEF Becomes, TypeOK
  <2> QED
    BY <1>2, <2>1 DEF OneKind
<1>3. TypeOK'
  BY StatementType
<1>4. /\ tx'[g] \in Transactions
      /\ Becomes(g, tx'[g])
  BY <1>3 DEF TypeOK, Statement, List, GetExisting, DeleteRow, CountSessions,
            MarkOffline, InsertRow, MarkOnline, Becomes
<1>5. CASE List(g)
  <2>1. tx'[g].pc = "next" /\ tx'[g].ins = {}
    BY <1>1, <1>5 DEF List, Becomes, Transactions, OneKind, TypeOK
  <2> QED
    BY <1>2, <1>4, <2>1
<1>6. ASSUME NEW s \in Sockets, GetExisting(g, s)
      PROVE  OneKind'
  <2>1. tx'[g].pc \in {"delete", "next"} /\ tx'[g].ins = {}
    BY <1>1, <1>6 DEF GetExisting, Becomes, Transactions, OneKind, TypeOK
  <2> QED
    BY <1>2, <1>4, <2>1
<1>7. CASE DeleteRow(g) \/ CountSessions(g) \/ MarkOffline(g)
  <2>1. tx[g].ins = {}
    BY <1>7 DEF DeleteRow, CountSessions, MarkOffline, OneKind
  <2>2. tx'[g].pc \in {"next", "count", "offline"} /\ tx'[g].ins = {}
    <3>1. CASE DeleteRow(g)
      <4>1. \/ tx'[g] = [tx[g] EXCEPT !.pc = "count",
                                     !.del = tx[g].del \cup {tx[g].cur}]
            \/ tx'[g] = [tx[g] EXCEPT !.pc = "next"]
        BY <3>1 DEF DeleteRow, Becomes, TypeOK
      <4> QED
        BY <1>1, <2>1, <4>1 DEF Transactions
    <3>2. CASE CountSessions(g)
      <4>1. \/ tx'[g] = [tx[g] EXCEPT !.pc = "offline"]
            \/ tx'[g] = [tx[g] EXCEPT !.pc = "next"]
        BY <3>2 DEF CountSessions, Becomes, TypeOK
      <4> QED
        BY <1>1, <2>1, <4>1 DEF Transactions
    <3>3. CASE MarkOffline(g)
      BY <1>1, <2>1, <3>3 DEF MarkOffline, Becomes, Transactions, TypeOK
    <3> QED
      BY <1>7, <3>1, <3>2, <3>3
  <2> QED
    BY <1>2, <1>4, <2>2
<1>8. CASE InsertRow(g)
  <2>1. tx[g].cur \in Sockets /\ tx[g].del = {} /\ tx[g].todo = {}
    BY <1>8 DEF InsertRow, CursorOK, OneKind
  <2>2. /\ tx'[g].pc = "online" /\ tx'[g].ins = {tx[g].cur}
        /\ tx'[g].del = {} /\ tx'[g].todo = {}
    BY <1>1, <1>8, <2>1 DEF InsertRow, Becomes, Transactions, TypeOK
  <2> QED
    BY <1>2, <1>4, <2>1, <2>2
<1>9. CASE MarkOnline(g)
  <2>1. /\ tx'[g].pc = "next" /\ tx'[g].ins = tx[g].ins
        /\ tx'[g].del = tx[g].del /\ tx'[g].todo = tx[g].todo
    BY <1>1, <1>9 DEF MarkOnline, Becomes, Transactions, TypeOK
  <2>2. tx[g].pc = "online"
    BY <1>9 DEF MarkOnline
  <2> QED
    BY <1>2, <1>4, <2>1, <2>2 DEF OneKind
<1> QED
  BY <1>5, <1>6, <1>7, <1>8, <1>9 DEF Statement

LEMMA OneKindReset ==
  ASSUME OneKind, \A g \in Procs : tx'[g] = NoTx \/ tx'[g] = tx[g]
  PROVE  OneKind'
<1>1. NoTx.pc = "idle" /\ NoTx.ins = {}
  BY DEF NoTx
<1> QED
  BY <1>1 DEF OneKind

\* Which step begins which transaction.
LEMMA LifeCycleFresh ==
  ASSUME TypeOK,
         \/ \E s \in Sockets : Socket(s)
         \/ \E i \in Instances : Boot(i) \/ \E s \in Sockets : RemoveNext(i, s)
  PROVE  \/ UNCHANGED tx
         \/ \E g \in Procs, t \in Transactions :
              Fresh(t) /\ (t.pc = "insert" => t.todo = {}) /\ Becomes(g, t)
<1>1. \A s \in Sockets :
        /\ [NoTx EXCEPT !.pc = "insert", !.cur = s].todo = {}
        /\ [NoTx EXCEPT !.pc = "next", !.todo = {s}].pc = "next"
  BY DEF NoTx
<1>2. [NoTx EXCEPT !.pc = "list"].pc = "list"
  BY DEF NoTx
<1>3. ASSUME NEW s \in Sockets, Register(s), LastSocket[s] # None
      PROVE  \E g \in Procs, t \in Transactions :
               Fresh(t) /\ (t.pc = "insert" => t.todo = {}) /\ Becomes(g, t)
  <2> DEFINE t == [NoTx EXCEPT !.pc = "next", !.todo = {LastSocket[s]}]
  <2>1. Fresh(t) /\ t.pc = "next"
    <3>1. LastSocket[s] \in Sockets
      BY <1>3, ConstantsAssumption
    <3> QED
      BY <1>1, <3>1, FreshTx
  <2>2. Becomes(s, t)
    BY <1>3 DEF Register
  <2> HIDE DEF t
  <2> QED
    BY <2>1, <2>2 DEF Fresh, Procs
<1>4. ASSUME NEW s \in Sockets, Socket(s)
      PROVE  \/ UNCHANGED tx
             \/ \E g \in Procs, t \in Transactions :
                  Fresh(t) /\ (t.pc = "insert" => t.todo = {}) /\ Becomes(g, t)
  <2>1. CASE Register(s)
    BY <1>3, <2>1 DEF Register
  <2>2. CASE Start(s)
    BY <1>1, <2>2, FreshTx DEF Start, Procs, Fresh
  <2>3. CASE OnDisconnection(s)
    BY <1>1, <2>3, FreshTx DEF OnDisconnection, Procs, Fresh
  <2> QED
    BY <1>4, <2>1, <2>2, <2>3 DEF Socket
<1>5. ASSUME NEW i \in Instances, Boot(i)
      PROVE  \E g \in Procs, t \in Transactions :
               Fresh(t) /\ (t.pc = "insert" => t.todo = {}) /\ Becomes(g, t)
  BY <1>2, <1>5, FreshTx DEF Boot, Procs, Fresh
<1>6. ASSUME NEW i \in Instances, NEW s \in Sockets, RemoveNext(i, s)
      PROVE  \E g \in Procs, t \in Transactions :
               Fresh(t) /\ (t.pc = "insert" => t.todo = {}) /\ Becomes(g, t)
  BY <1>1, <1>6, FreshTx DEF RemoveNext, Procs, Fresh
<1> QED
  BY <1>4, <1>5, <1>6

LEMMA OneKindNext == IInv /\ OneKind /\ [Next]_vars => OneKind'
<1> SUFFICES ASSUME IInv, OneKind, [Next]_vars PROVE OneKind'
  OBVIOUS
<1>1. ASSUME NEW g \in Procs, Statement(g)
      PROVE  OneKind'
  BY <1>1, OneKindStatement DEF IInv
<1>2. ASSUME NEW g \in Procs, TxEnd(g)
      PROVE  OneKind'
  BY <1>2, OneKindReset
     DEF TxEnd, Commit, CommitLost, StatementFails, Becomes, IInv, TypeOK
<1>3. CASE \/ \E s \in Sockets : Socket(s)
           \/ \E i \in Instances : Boot(i) \/ \E s \in Sockets : RemoveNext(i, s)
  <2>1. CASE UNCHANGED tx
    BY <2>1, OneKindReset
  <2>2. CASE ~UNCHANGED tx
    BY <1>3, <2>2, LifeCycleFresh, OneKindFresh DEF IInv
  <2> QED
    BY <2>1, <2>2
<1>4. ASSUME NEW i \in Instances, Shutdown(i) \/ Exit(i)
      PROVE  OneKind'
  BY <1>4, OneKindReset DEF Shutdown, Exit
<1>5. CASE UNCHANGED vars
  BY <1>5, OneKindReset DEF vars
<1> QED
  BY <1>1, <1>2, <1>3, <1>4, <1>5 DEF Next, Instance

\* A step of the database is a step of ProbePresence or changes neither table.
LEMMA AbstractStep ==
  ASSUME Isolation = "serializable", IInv, IInv', OneKind, [Next]_vars
  PROVE  [Abstract!Next]_<<rows, online>>
<1>1. CASE \E g \in Procs : Commit(g)
  <2>1. PICK g \in Procs : Commit(g)
    BY <1>1
  <2>2. rows' = (rows \ tx[g].del) \cup tx[g].ins
    BY <2>1 DEF Commit
  <2>3. online' = Abstract!Presence(rows')
    <3>1. online' \in [Probes -> BOOLEAN]
      BY DEF IInv, TypeOK
    <3>2. \A p \in Probes : online'[p] <=> \E s \in rows' : ProbeOf[s] = p
      BY DEF IInv, FlagFollows, OnlineMatchesSessions, SessionsOf
    <3> QED
      BY <3>1, <3>2 DEF Abstract!Presence
  <2>4. CASE tx[g].ins = {}
    <3>1. tx[g].del \subseteq rows /\ tx[g].del \in SUBSET Sockets
      BY DEF IInv, RowLocks, NoDoubleRemoval, TypeOK, Transactions
    <3>2. Abstract!DeleteSessions(tx[g].del)
      BY <2>2, <2>3, <2>4, <3>1 DEF Abstract!DeleteSessions
    <3> QED
      BY <3>1, <3>2 DEF Abstract!Next
  <2>5. CASE tx[g].ins # {}
    <3>1. PICK s \in Sockets : tx[g].ins = {s}
      BY <2>5 DEF OneKind
    <3>2. tx[g].del = {}
      BY <2>5 DEF OneKind
    <3>3. Abstract!AddSession(s)
      BY <2>2, <2>3, <3>1, <3>2 DEF Abstract!AddSession
    <3> QED
      BY <3>3 DEF Abstract!Next
  <2> QED
    BY <2>4, <2>5
<1>2. CASE ~\E g \in Procs : Commit(g)
  <2>1. ASSUME NEW g \in Procs, Statement(g) \/ TxEnd(g)
        PROVE  UNCHANGED <<rows, online>>
    BY <1>2, <2>1 DEF Statement, List, GetExisting, DeleteRow, CountSessions,
       MarkOffline, InsertRow, MarkOnline, TxEnd, CommitLost, StatementFails
  <2>2. ASSUME NEW s \in Sockets, Socket(s)
        PROVE  UNCHANGED <<rows, online>>
    BY <2>2 DEF Socket, Register, Start, OnDisconnection
  <2>3. ASSUME NEW i \in Instances, Instance(i)
        PROVE  UNCHANGED <<rows, online>>
    BY <2>3 DEF Instance, Boot, Shutdown, RemoveNext, Exit
  <2> QED
    BY <2>1, <2>2, <2>3 DEF Next, vars
<1> QED
  BY <1>1, <1>2

\* Each committed transaction of the serializable database is one atomic step
\* of the abstract specification.
THEOREM ImplementsPresence ==
  ASSUME Isolation = "serializable"
  PROVE  Spec => PresenceSpec
<1>1. Init => Abstract!Init
  BY DEF Init, Abstract!Init, Abstract!Presence
<1>2. Init => OneKind
  BY DEF Init, OneKind, NoTx
<1>3. IInv /\ IInv' /\ OneKind /\ [Next]_vars => [Abstract!Next]_<<rows, online>>
  BY AbstractStep
<1> QED
  BY <1>1, <1>2, <1>3, Invariance, OneKindNext, PTL
     DEF Spec, PresenceSpec, Abstract!Spec

-----------------------------------------------------------------------------
(* Whose row is whose.                                                     *)

\* What OwnInv says of the transaction t of goroutine g.
Fits(g, t) ==
  /\ t.pc \in {"insert", "online"} \/ t.ins # {} =>
       /\ g \in Sockets /\ conn[g] = "start" /\ t.ins \subseteq {g}
       /\ t.pc \in {"insert", "online"} => t.cur = g
  /\ g \in Sockets /\ conn[g] = "up" => t.pc = "idle"
  /\ g \in Sockets /\ conn[g] = "closing" =>
       /\ t.pc \in {"next", "delete", "count", "offline"}
       /\ t.todo \subseteq {g}
       /\ g \in t.todo => t.pc = "next" /\ ~t.open /\ t.del = {}
       /\ g \in rows => g \in Ahead(t) \cup t.del
  /\ g \in Instances /\ server[g] = "starting" =>
       /\ t.pc \in {"list", "next", "delete", "count", "offline"}
       /\ t.pc = "list" => t.del = {}
       /\ t.pc # "list" =>
            /\ t.open /\ t.todo \subseteq t.view \ t.del
            /\ t.pc = "delete" => t.cur \notin t.todo
            /\ \A s \in rows : InstanceOf[s] = g => s \in Ahead(t) \cup t.del

Announces(t, P) ==
  /\ \A s \in t.del : [type |-> "deleted", sock |-> s] \in P
                      \/ (t.pc \in {"count", "offline"} /\ t.cur = s)
  /\ \A s \in t.ins : [type |-> "created", sock |-> s] \in P
                      \/ (t.pc = "online" /\ t.cur = s)

\* No socket of a server that is down, or starts, is connected.
Detached ==
  \A s \in Sockets :
    server[InstanceOf[s]] \in {"down", "starting"} => conn[s] \in {"new", "gone"}

OwnPartsHold == /\ \A g \in Procs : Fits(g, tx[g]) /\ Announces(tx[g], published)
                /\ Detached /\ SessionsOwned

\* The invariant, goroutine by goroutine.
LEMMA OwnPartsAll == OwnInv <=> OwnPartsHold
<1>1. \A s \in Sockets : InstanceOf[s] \in Instances
  BY ConstantsAssumption
<1>2. Procs = Sockets \cup Instances
  BY DEF Procs
<1>3. ASSUME OwnInv
      PROVE  OwnPartsHold
  <2>1. ASSUME NEW g \in Procs
        PROVE  Fits(g, tx[g])
    <3>1. g \in Sockets \/ g \in Instances
      BY <1>2
    <3> QED
      BY <1>3, <3>1 DEF OwnInv, InsertsOwn, ClosesOwn, ClearsOwn, Fits
  <2>2. ASSUME NEW g \in Procs
        PROVE  Announces(tx[g], published)
    BY <1>3 DEF OwnInv, Announced, Announces
  <2>3. Detached
    BY <1>1, <1>3 DEF OwnInv, ClearsOwn, Detached
  <2> QED
    BY <1>3, <2>1, <2>2, <2>3 DEF OwnInv, OwnPartsHold
<1>4. ASSUME OwnPartsHold
      PROVE  OwnInv
  <2>1. InsertsOwn
    BY <1>4 DEF OwnPartsHold, InsertsOwn, Fits
  <2>2. ClosesOwn
    BY <1>2, <1>4 DEF OwnPartsHold, ClosesOwn, Fits
  <2>3. ClearsOwn
    BY <1>2, <1>4 DEF OwnPartsHold, ClearsOwn, Detached, Fits
  <2>4. Announced
    BY <1>4 DEF OwnPartsHold, Announced, Announces
  <2> QED
    BY <1>4, <2>1, <2>2, <2>3, <2>4 DEF OwnInv, OwnPartsHold
<1> QED
  BY <1>3, <1>4

\* The same, to be used in a state
LEMMA OwnParts ==
  ASSUME OwnInv
  PROVE  /\ \A g \in Procs : Fits(g, tx[g]) /\ Announces(tx[g], published)
         /\ Detached /\ SessionsOwned
  BY OwnPartsAll DEF OwnPartsHold

\* and to be shown of the next.
LEMMA OwnPartsNext ==
  ASSUME \A g \in Procs : Fits(g, tx[g])' /\ Announces(tx[g], published)',
         Detached', SessionsOwned'
  PROVE  OwnInv'
<1>1. OwnPartsHold'
  BY DEF OwnPartsHold
<1>2. OwnPartsHold' => OwnInv'
  BY OwnPartsAll, PTL
<1> QED
  BY <1>1, <1>2

\* What a goroutine's transaction becomes, it is.
LEMMA AfterBecomes ==
  ASSUME TypeOK, NEW g \in Procs, NEW t, Becomes(g, t)
  PROVE  tx'[g] = t /\ \A h \in Procs \ {g} : tx'[h] = tx[h]
  BY DEF Becomes, TypeOK

\* A statement keeps its goroutine to its own rows, and tells of what it did.
LEMMA StatementFits ==
  ASSUME TypeOK, CursorOK, NEW g \in Procs, Statement(g),
         Fits(g, tx[g]), Announces(tx[g], published)
  PROVE  Fits(g, tx'[g]) /\ Announces(tx'[g], published')
<1> DEFINE t == tx[g]
           u == tx'[g]
<1>t. t \in Transactions
  BY DEF TypeOK
<1>1. CASE List(g)
  <2>1. /\ t.pc = "list" /\ published' = published
        /\ Becomes(g, [t EXCEPT !.pc = "next", !.open = TRUE, !.view = rows,
                                !.todo = {s \in rows : InstanceOf[s] = g}])
    BY <1>1 DEF List
  <2>2. u = [t EXCEPT !.pc = "next", !.open = TRUE, !.view = rows,
                      !.todo = {s \in rows : InstanceOf[s] = g}]
    BY <2>1, AfterBecomes
  <2>3. /\ u.pc = "next" /\ u.open /\ u.view = rows /\ u.todo = {s \in rows : InstanceOf[s] = g}
        /\ u.del = t.del /\ u.ins = t.ins
    BY <1>t, <2>2 DEF Transactions
  <2> HIDE DEF u
  <2>4. Fits(g, u)
    BY <2>1, <2>3 DEF Fits, Ahead
  <2>5. Announces(u, published')
    BY <2>1, <2>3 DEF Announces
  <2> QED
    BY <2>4, <2>5 DEF u
<1>2. ASSUME NEW s \in Sockets, GetExisting(g, s)
      PROVE  Fits(g, u) /\ Announces(u, published')
  <2>1. /\ t.pc = "next" /\ s \in t.todo /\ published' = published
        /\ Becomes(g, [t EXCEPT !.open = TRUE, !.view = Snapshot(g), !.cur = s,
                                !.pc = IF s \in Visible(g) THEN "delete" ELSE "next",
                                !.todo = t.todo \ {s}])
    BY <1>2 DEF GetExisting
  <2>2. u = [t EXCEPT !.open = TRUE, !.view = Snapshot(g), !.cur = s,
                      !.pc = IF s \in Visible(g) THEN "delete" ELSE "next",
                      !.todo = t.todo \ {s}]
    BY <2>1, AfterBecomes
  <2>3. /\ u.pc = IF s \in Visible(g) THEN "delete" ELSE "next"
        /\ u.open /\ u.view = Snapshot(g) /\ u.cur = s /\ u.todo = t.todo \ {s}
        /\ u.del = t.del /\ u.ins = t.ins
    BY <1>t, <2>2 DEF Transactions
  <2>4. u.pc = "delete" \/ (u.pc = "next" /\ s \notin Visible(g))
    BY <2>3
  <2> HIDE DEF u
  <2>5. g \in Sockets /\ conn[g] = "closing" => s = g /\ ~t.open /\ t.del = {}
    BY <2>1 DEF Fits
  <2>6. g \in Sockets /\ conn[g] = "closing" => (g \in rows => u.pc = "delete")
    BY <2>4, <2>5 DEF Visible, Snapshot
  <2>7. g \in Instances /\ server[g] = "starting" =>
          t.open /\ Snapshot(g) = t.view /\ u.pc = "delete"
    BY <2>1, <2>4 DEF Fits, Visible, Snapshot
  <2>8. Fits(g, u)
    BY <2>1, <2>3, <2>4, <2>5, <2>6, <2>7 DEF Fits, Ahead
  <2>9. Announces(u, published')
    BY <2>1, <2>3 DEF Announces
  <2> QED
    BY <2>8, <2>9
<1>3. CASE DeleteRow(g)
  <2>1. /\ t.pc = "delete" /\ published' = published
        /\ \/ Becomes(g, [t EXCEPT !.pc = "count", !.del = t.del \cup {t.cur}])
           \/ t.cur \notin rows /\ Becomes(g, [t EXCEPT !.pc = "next"])
    BY <1>3 DEF DeleteRow
  <2>2. \/ u = [t EXCEPT !.pc = "count", !.del = t.del \cup {t.cur}]
        \/ t.cur \notin rows /\ u = [t EXCEPT !.pc = "next"]
    BY <2>1, AfterBecomes
  <2>3. /\ u.open = t.open /\ u.todo = t.todo /\ u.cur = t.cur /\ u.view = t.view /\ u.ins = t.ins
        /\ \/ u.pc = "count" /\ u.del = t.del \cup {t.cur}
           \/ u.pc = "next" /\ u.del = t.del /\ t.cur \notin rows
    BY <1>t, <2>2 DEF Transactions
  <2> HIDE DEF u
  <2>5. Fits(g, u)
    BY <2>1, <2>3 DEF Fits, Ahead
  <2>6. Announces(u, published')
    BY <2>1, <2>3 DEF Announces
  <2> QED
    BY <2>5, <2>6 DEF u
<1>4. CASE CountSessions(g)
  <2>1. /\ t.pc = "count"
        /\ \/ Becomes(g, [t EXCEPT !.pc = "offline"]) /\ published' = published
           \/ /\ Becomes(g, [t EXCEPT !.pc = "next"])
              /\ published' = published \cup {[type |-> "deleted", sock |-> t.cur]}
    BY <1>4 DEF CountSessions
  <2>2. /\ u.open = t.open /\ u.todo = t.todo /\ u.cur = t.cur /\ u.view = t.view
        /\ u.ins = t.ins /\ u.del = t.del
        /\ \/ u.pc = "offline" /\ published' = published
           \/ u.pc = "next" /\ published' = published \cup {[type |-> "deleted", sock |-> t.cur]}
    <3>1. \/ u = [t EXCEPT !.pc = "offline"] /\ published' = published
          \/ /\ u = [t EXCEPT !.pc = "next"]
             /\ published' = published \cup {[type |-> "deleted", sock |-> t.cur]}
      BY <2>1, AfterBecomes
    <3> QED
      BY <1>t, <3>1 DEF Transactions
  <2> HIDE DEF u
  <2>3. Fits(g, u)
    BY <2>1, <2>2 DEF Fits, Ahead
  <2>4. Announces(u, published')
    BY <2>1, <2>2 DEF Announces
  <2> QED
    BY <2>3, <2>4 DEF u
<1>5. CASE MarkOffline(g)
  <2>1. /\ t.pc = "offline"
        /\ Becomes(g, [t EXCEPT !.pc = "next", !.onl = [t.onl EXCEPT ![ProbeOf[t.cur]] = "off"]])
        /\ published' = published \cup {[type |-> "deleted", sock |-> t.cur]}
    BY <1>5 DEF MarkOffline
  <2>2. /\ u.open = t.open /\ u.todo = t.todo /\ u.cur = t.cur /\ u.view = t.view
        /\ u.ins = t.ins /\ u.del = t.del /\ u.pc = "next"
    <3>1. u = [t EXCEPT !.pc = "next", !.onl = [t.onl EXCEPT ![ProbeOf[t.cur]] = "off"]]
      BY <2>1, AfterBecomes
    <3> QED
      BY <1>t, <3>1 DEF Transactions
  <2> HIDE DEF u
  <2>3. Fits(g, u)
    BY <2>1, <2>2 DEF Fits, Ahead
  <2>4. Announces(u, published')
    BY <2>1, <2>2 DEF Announces
  <2> QED
    BY <2>3, <2>4 DEF u
<1>6. CASE InsertRow(g)
  <2>1. /\ t.pc = "insert" /\ published' = published
        /\ Becomes(g, [t EXCEPT !.pc = "online", !.open = TRUE, !.view = rows, !.ins = {t.cur}])
    BY <1>6 DEF InsertRow
  <2>2. u = [t EXCEPT !.pc = "online", !.open = TRUE, !.view = rows, !.ins = {t.cur}]
    BY <2>1, AfterBecomes
  <2>3. u.pc = "online" /\ u.ins = {t.cur} /\ u.cur = t.cur /\ u.del = t.del
    BY <1>t, <2>2 DEF Transactions
  <2> HIDE DEF u
  <2>4. g \in Sockets /\ g \notin Instances
    BY <2>1, ConstantsAssumption DEF Fits
  <2>5. Fits(g, u)
    BY <2>1, <2>3, <2>4 DEF Fits, Ahead
  <2>6. Announces(u, published')
    BY <2>1, <2>3 DEF Announces
  <2> QED
    BY <2>5, <2>6 DEF u
<1>7. CASE MarkOnline(g)
  <2>1. /\ t.pc = "online"
        /\ Becomes(g, [t EXCEPT !.pc = "next", !.onl = [t.onl EXCEPT ![ProbeOf[t.cur]] = "on"]])
        /\ published' = published \cup {[type |-> "created", sock |-> t.cur]}
    BY <1>7 DEF MarkOnline
  <2>2. /\ u.open = t.open /\ u.todo = t.todo /\ u.cur = t.cur /\ u.view = t.view
        /\ u.ins = t.ins /\ u.del = t.del /\ u.pc = "next"
    <3>1. u = [t EXCEPT !.pc = "next", !.onl = [t.onl EXCEPT ![ProbeOf[t.cur]] = "on"]]
      BY <2>1, AfterBecomes
    <3> QED
      BY <1>t, <3>1 DEF Transactions
  <2> HIDE DEF u
  <2>3. g \in Sockets /\ g \notin Instances /\ conn[g] = "start"
    BY <2>1, ConstantsAssumption DEF Fits
  <2>4. Fits(g, u)
    BY <2>1, <2>2, <2>3 DEF Fits, Ahead
  <2>5. Announces(u, published')
    BY <2>1, <2>2 DEF Announces
  <2> QED
    BY <2>4, <2>5 DEF u
<1> QED
  BY <1>1, <1>2, <1>3, <1>4, <1>5, <1>6, <1>7 DEF Statement

\* What a transaction means depends on its own record, its goroutine's state and
\* the rows, of which others' can only go.
LEMMA FitsUnchanged ==
  ASSUME NEW h \in Procs, Fits(h, tx[h]), tx'[h] = tx[h],
         h \in Sockets => conn'[h] = conn[h] /\ (h \in rows' => h \in rows),
         h \in Instances => /\ server'[h] = "starting" => server[h] = "starting"
                            /\ server[h] = "starting" =>
                                 \A s \in rows' : InstanceOf[s] = h => s \in rows
  PROVE  Fits(h, tx[h])'
  BY DEF Fits

\* No statement takes over or loses a row.
LEMMA OwnStatement ==
  ASSUME TypeOK, CursorOK, OwnInv, NEW g \in Procs, Statement(g)
  PROVE  OwnInv'
<1>1. /\ UNCHANGED <<rows, conn, server, lost>> /\ published \subseteq published'
      /\ tx' = [tx EXCEPT ![g] = tx'[g]]
  BY DEF Statement, List, GetExisting, DeleteRow, CountSessions, MarkOffline, InsertRow,
         MarkOnline, Becomes, TypeOK
<1>2. \A h \in Procs \ {g} : tx'[h] = tx[h]
  BY <1>1 DEF TypeOK
<1>3. Fits(g, tx'[g]) /\ Announces(tx'[g], published')
  BY OwnParts, StatementFits
<1>4. Fits(g, tx[g])'
  BY <1>1, <1>3 DEF Fits
<1>5. \A h \in Procs : Fits(h, tx[h])'
  BY <1>1, <1>2, <1>4, FitsUnchanged, OwnParts
<1>6. \A h \in Procs : Announces(tx[h], published)'
  BY <1>1, <1>2, <1>3, OwnParts DEF Announces
<1>7. Detached' /\ SessionsOwned'
  BY <1>1, OwnParts DEF Detached, SessionsOwned
<1> QED
  BY <1>5, <1>6, <1>7, OwnPartsNext

\* What a transaction that ends does to conn and server.
LEMMA ReturnedFacts ==
  ASSUME TypeOK, NEW g \in Procs, NEW ok \in BOOLEAN, Returned(g, ok)
  PROVE  /\ g \in Sockets =>
              /\ server' = server /\ \A s \in Sockets \ {g} : conn'[s] = conn[s]
              /\ conn'[g] \in {"registered", "up", "unsaved", "gone"}
              /\ conn'[g] = "up" => conn[g] = "start" /\ ok
              /\ ok /\ conn[g] = "start" => conn'[g] = "up"
              /\ conn[g] \in {"new", "gone"} => conn'[g] = "gone"
         /\ g \in Instances =>
              /\ conn' = conn /\ \A i \in Instances \ {g} : server'[i] = server[i]
              /\ server[g] # "starting" => server'[g] = server[g]
              /\ server[g] = "starting" => server'[g] = IF ok THEN "up" ELSE "down"
<1>1. CASE g \in Sockets
  <2>1. g \notin Instances
    BY <1>1, ConstantsAssumption
  <2> QED
    BY <1>1, <2>1 DEF Returned, TypeOK, ConnStates
<1>2. CASE g \in Instances
  <2>1. g \notin Sockets
    BY <1>2, ConstantsAssumption
  <2> QED
    BY <1>2, <2>1 DEF Returned, TypeOK, ServerStates
<1> QED
  BY <1>1, <1>2 DEF Procs

\* A transaction that ends leaves the rows that its goroutine is to take away to
\* no one: they are gone, or the failure is logged.
LEMMA OwnEnds ==
  ASSUME TypeOK, OwnInv, NEW g \in Procs, NEW ok \in BOOLEAN, Returned(g, ok),
         Becomes(g, NoTx), tx[g].pc # "idle", lost \subseteq lost', published' = published,
         \/ /\ rows' = (rows \ tx[g].del) \cup tx[g].ins /\ ok
            /\ tx[g].pc = "next" /\ tx[g].todo = {}
         \/ rows' = rows /\ Unremoved(g) \subseteq lost'
  PROVE  OwnInv'
<1>a. /\ tx'[g] = NoTx /\ \A h \in Procs \ {g} : tx'[h] = tx[h]
      /\ NoTx.pc = "idle" /\ NoTx.ins = {} /\ NoTx.del = {}
  BY AfterBecomes DEF NoTx
<1>g. /\ \A h \in Procs : Fits(h, tx[h]) /\ Announces(tx[h], published)
      /\ Detached /\ SessionsOwned
  BY OwnParts
<1>s. /\ g \in Sockets \/ g \in Instances
      /\ g \in Sockets => g \notin Instances
      /\ \A s \in Sockets : InstanceOf[s] \in Instances /\ s \in Procs /\ s \notin Instances
      /\ \A i \in Instances : i \in Procs
  BY ConstantsAssumption DEF Procs
<1>r. /\ g \in Sockets =>
              /\ server' = server /\ \A s \in Sockets \ {g} : conn'[s] = conn[s]
              /\ conn'[g] \in {"registered", "up", "unsaved", "gone"}
              /\ conn'[g] = "up" => conn[g] = "start" /\ ok
              /\ ok /\ conn[g] = "start" => conn'[g] = "up"
              /\ conn[g] \in {"new", "gone"} => conn'[g] = "gone"
      /\ g \in Instances =>
              /\ conn' = conn /\ \A i \in Instances \ {g} : server'[i] = server[i]
              /\ server[g] # "starting" => server'[g] = server[g]
              /\ server[g] = "starting" => server'[g] = IF ok THEN "up" ELSE "down"
  BY ReturnedFacts
<1>i. /\ tx[g].ins # {} => g \in Sockets /\ conn[g] = "start" /\ tx[g].ins = {g}
      /\ rows \subseteq Sockets
  BY <1>g DEF Fits, TypeOK
<1>1. \A s \in rows' : s \in rows \/ (s = g /\ g \in Sockets /\ conn[g] = "start" /\ ok)
  BY <1>i
<1>d. Detached'
  BY <1>g, <1>r, <1>s DEF Detached
<1>2. ASSUME NEW h \in Procs \ {g}
      PROVE  Fits(h, tx[h])'
  <2>1. h \in Sockets => conn'[h] = conn[h] /\ (h \in rows' => h \in rows)
    BY <1>1, <1>r, <1>s
  <2>2. h \in Instances => /\ server'[h] = "starting" => server[h] = "starting"
                           /\ server[h] = "starting" =>
                                \A s \in rows' : InstanceOf[s] = h => s \in rows
    BY <1>1, <1>g, <1>r, <1>s DEF Detached
  <2> QED
    BY <1>a, <1>g, <2>1, <2>2, FitsUnchanged
<1>3. Fits(g, tx[g])'
  BY <1>a, <1>r, <1>s DEF Fits
<1>4. \A h \in Procs : Announces(tx[h], published)'
  BY <1>a, <1>g DEF Announces
<1>5. ASSUME NEW s \in rows', server'[InstanceOf[s]] = "up"
      PROVE  conn'[s] \in {"up", "closing"} \/ s \in lost'
  <2>1. CASE s = g /\ g \in Sockets /\ conn[g] = "start" /\ ok
    BY <1>r, <2>1
  <2>2. CASE s \in rows /\ s = g
    <3>1. g \in Sockets /\ server[InstanceOf[s]] = "up"
      BY <1>5, <1>i, <1>r, <2>2
    <3>2. conn[g] = "closing" \/ s \in lost'
      BY <1>g, <2>2, <3>1 DEF Fits, SessionsOwned
    <3>3. CASE conn[g] = "closing"
      <4>1. g \in Ahead(tx[g]) \cup tx[g].del
        BY <1>g, <2>2, <3>1, <3>3 DEF Fits
      <4>2. CASE rows' = rows /\ Unremoved(g) \subseteq lost'
        BY <1>s, <2>2, <3>1, <3>3, <4>2 DEF Unremoved
      <4>3. CASE /\ rows' = (rows \ tx[g].del) \cup tx[g].ins
                 /\ tx[g].pc = "next" /\ tx[g].todo = {}
        BY <1>5, <1>i, <2>2, <3>3, <4>1, <4>3 DEF Ahead
      <4> QED
        BY <4>2, <4>3
    <3> QED
      BY <3>2, <3>3
  <2>3. CASE s \in rows /\ s # g /\ server[InstanceOf[s]] = "up"
    BY <1>g, <1>i, <1>r, <1>s, <2>3 DEF SessionsOwned
  <2>4. CASE s \in rows /\ s # g /\ server[InstanceOf[s]] # "up"
    <3>1. g = InstanceOf[s] /\ g \in Instances /\ server[g] = "starting" /\ ok
      BY <1>5, <1>i, <1>r, <1>s, <2>4
    <3>2. CASE rows' = rows /\ Unremoved(g) \subseteq lost'
      BY <1>i, <1>s, <2>4, <3>1, <3>2 DEF Unremoved
    <3>3. CASE /\ rows' = (rows \ tx[g].del) \cup tx[g].ins
               /\ tx[g].pc = "next" /\ tx[g].todo = {}
      <4>1. s \in Ahead(tx[g]) \cup tx[g].del
        BY <1>g, <2>4, <3>1, <3>3 DEF Fits
      <4> QED
        BY <1>5, <1>i, <1>s, <3>1, <3>3, <4>1 DEF Ahead
    <3> QED
      BY <3>2, <3>3
  <2> QED
    BY <1>1, <2>1, <2>2, <2>3, <2>4
<1>6. SessionsOwned'
  BY <1>5 DEF SessionsOwned
<1> QED
  BY <1>2, <1>3, <1>4, <1>d, <1>6, OwnPartsNext

\* However a transaction ends, whose row is whose stays true.
LEMMA OwnTxEnd ==
  ASSUME TypeOK, OwnInv, NEW g \in Procs, TxEnd(g)
  PROVE  OwnInv'
<1>1. CASE Commit(g)
  BY <1>1, OwnEnds DEF Commit
<1>2. CASE CommitLost(g)
  BY <1>2, OwnEnds DEF CommitLost
<1>3. CASE StatementFails(g)
  BY <1>3, OwnEnds DEF StatementFails
<1> QED
  BY <1>1, <1>2, <1>3 DEF TxEnd

\* A socket comes, starts or closes.
LEMMA OwnSocket ==
  ASSUME TypeOK, OwnInv, NEW s \in Sockets, Socket(s)
  PROVE  OwnInv'
<1>s. /\ s \in Procs /\ s \notin Instances /\ InstanceOf[s] \in Instances
      /\ \A i \in Instances : i \in Procs /\ i \notin Sockets
  BY ConstantsAssumption DEF Procs
<1>g. /\ \A h \in Procs : Fits(h, tx[h]) /\ Announces(tx[h], published)
      /\ Detached /\ SessionsOwned
  BY OwnParts
<1>u. /\ UNCHANGED <<rows, server, published, lost>> /\ \A h \in Procs \ {s} : tx'[h] = tx[h]
      /\ \A h \in Sockets \ {s} : conn'[h] = conn[h]
  BY DEF Socket, Register, Start, OnDisconnection, Becomes, TypeOK
<1>n. \A l : /\ [NoTx EXCEPT !.pc = "next", !.todo = {l}].pc = "next"
             /\ [NoTx EXCEPT !.pc = "next", !.todo = {l}].todo = {l}
             /\ ~[NoTx EXCEPT !.pc = "next", !.todo = {l}].open
             /\ [NoTx EXCEPT !.pc = "next", !.todo = {l}].del = {}
             /\ [NoTx EXCEPT !.pc = "next", !.todo = {l}].ins = {}
             /\ [NoTx EXCEPT !.pc = "insert", !.cur = l].pc = "insert"
             /\ [NoTx EXCEPT !.pc = "insert", !.cur = l].cur = l
             /\ [NoTx EXCEPT !.pc = "insert", !.cur = l].ins = {}
             /\ [NoTx EXCEPT !.pc = "insert", !.cur = l].del = {}
  BY DEF NoTx
<1>1. /\ Fits(s, tx[s])' /\ Announces(tx[s], published)'
      /\ server[InstanceOf[s]] \notin {"down", "starting"}
      /\ conn[s] \in {"up", "closing"} => conn'[s] \in {"up", "closing"}
  <2>1. CASE Register(s)
    <3>1. /\ conn[s] = "new" /\ server[InstanceOf[s]] = "up"
          /\ conn'[s] \in {"registered", "register"}
          /\ UNCHANGED tx \/ Becomes(s, [NoTx EXCEPT !.pc = "next", !.todo = {LastSocket[s]}])
      BY <2>1 DEF Register, TypeOK
    <3>2. tx'[s] = tx[s] \/ (tx'[s].pc = "next" /\ tx'[s].del = {} /\ tx'[s].ins = {})
      <4>1. \/ tx'[s] = tx[s]
            \/ tx'[s] = [NoTx EXCEPT !.pc = "next", !.todo = {LastSocket[s]}]
        BY <1>s, <3>1, AfterBecomes
      <4> QED
        BY <1>n, <4>1
    <3>3. tx[s].ins = {} /\ tx[s].pc \notin {"insert", "online"}
      BY <1>g, <1>s, <3>1 DEF Fits
    <3>4. Announces(tx[s], published)'
      BY <1>g, <1>s, <1>u, <3>2 DEF Announces
    <3> QED
      BY <1>s, <3>1, <3>2, <3>3, <3>4 DEF Fits
  <2>2. CASE Start(s)
    <3>1. /\ conn[s] = "registered"
          /\ \/ conn'[s] = "gone" /\ UNCHANGED tx
             \/ conn'[s] = "start" /\ Becomes(s, [NoTx EXCEPT !.pc = "insert", !.cur = s])
      BY <2>2 DEF Start, TypeOK
    <3>2. \/ conn'[s] = "gone" /\ tx'[s] = tx[s]
          \/ /\ conn'[s] = "start" /\ tx'[s].pc = "insert" /\ tx'[s].cur = s
             /\ tx'[s].ins = {} /\ tx'[s].del = {}
      <4>1. \/ conn'[s] = "gone" /\ tx'[s] = tx[s]
            \/ conn'[s] = "start" /\ tx'[s] = [NoTx EXCEPT !.pc = "insert", !.cur = s]
        BY <1>s, <3>1, AfterBecomes
      <4> QED
        BY <1>n, <4>1
    <3>3. tx[s].ins = {} /\ tx[s].pc \notin {"insert", "online"}
      BY <1>g, <1>s, <3>1 DEF Fits
    <3>4. Announces(tx[s], published)'
      BY <1>g, <1>s, <1>u, <3>2 DEF Announces
    <3>5. server[InstanceOf[s]] \notin {"down", "starting"}
      BY <1>g, <3>1 DEF Detached
    <3> QED
      BY <1>s, <3>1, <3>2, <3>3, <3>4, <3>5 DEF Fits
  <2>3. CASE OnDisconnection(s)
    <3>1. /\ conn[s] \in {"up", "unsaved"} /\ conn'[s] = "closing"
          /\ Becomes(s, [NoTx EXCEPT !.pc = "next", !.todo = {s}])
      BY <2>3 DEF OnDisconnection, TypeOK
    <3>2. /\ tx'[s].pc = "next" /\ tx'[s].todo = {s} /\ ~tx'[s].open
          /\ tx'[s].ins = {} /\ tx'[s].del = {}
      <4>1. tx'[s] = [NoTx EXCEPT !.pc = "next", !.todo = {s}]
        BY <1>s, <3>1, AfterBecomes
      <4> QED
        BY <1>n, <4>1
    <3>3. server[InstanceOf[s]] \notin {"down", "starting"}
      BY <1>g, <3>1 DEF Detached
    <3>4. Announces(tx[s], published)'
      BY <3>2 DEF Announces
    <3> QED
      BY <1>s, <3>1, <3>2, <3>3, <3>4 DEF Fits, Ahead
  <2> QED
    BY <2>1, <2>2, <2>3 DEF Socket
<1>2. \A h \in Procs \ {s} : Fits(h, tx[h])' /\ Announces(tx[h], published)'
  <2> SUFFICES ASSUME NEW h \in Procs \ {s} PROVE Fits(h, tx[h])' /\ Announces(tx[h], published)'
    OBVIOUS
  <2>1. Fits(h, tx[h])'
    BY <1>g, <1>u, FitsUnchanged
  <2> QED
    BY <1>g, <1>u, <2>1 DEF Announces
<1>3. Detached' /\ SessionsOwned'
  <2>1. \A r \in rows : r \in Sockets
    BY DEF TypeOK
  <2> QED
    BY <1>1, <1>g, <1>u, <2>1 DEF Detached, SessionsOwned
<1> QED
  BY <1>1, <1>2, <1>3, OwnPartsNext

\* A server starts, shuts down or ends.
LEMMA OwnInstance ==
  ASSUME TypeOK, OwnInv, NEW i \in Instances, Instance(i)
  PROVE  OwnInv'
<1>s. /\ i \in Procs /\ i \notin Sockets
      /\ \A s \in Sockets : InstanceOf[s] \in Instances /\ s \in Procs /\ s \notin Instances
      /\ Procs = Sockets \cup Instances
  BY ConstantsAssumption DEF Procs
<1>g. /\ \A h \in Procs : Fits(h, tx[h]) /\ Announces(tx[h], published)
      /\ Detached /\ SessionsOwned
  BY OwnParts
<1>n. /\ NoTx.pc = "idle" /\ NoTx.ins = {} /\ NoTx.del = {}
      /\ [NoTx EXCEPT !.pc = "list"].pc = "list" /\ [NoTx EXCEPT !.pc = "list"].ins = {}
      /\ [NoTx EXCEPT !.pc = "list"].del = {}
      /\ \A l : /\ [NoTx EXCEPT !.pc = "next", !.todo = {l}].pc = "next"
                /\ [NoTx EXCEPT !.pc = "next", !.todo = {l}].del = {}
                /\ [NoTx EXCEPT !.pc = "next", !.todo = {l}].ins = {}
  BY DEF NoTx
<1>u. UNCHANGED <<rows, published, lost>> /\ \A j \in Instances \ {i} : server'[j] = server[j]
  BY DEF Instance, Boot, Shutdown, RemoveNext, Exit, TypeOK
<1>r. \A r \in rows : r \in Sockets
  BY DEF TypeOK
<1>1. ASSUME UNCHANGED conn, \A h \in Procs \ {i} : tx'[h] = tx[h],
             server'[i] \in {"down", "starting"} => server[i] \in {"down", "starting"},
             server'[i] = "up" => server[i] = "up",
             Fits(i, tx[i])', Announces(tx[i], published)'
      PROVE  OwnInv'
  <2>1. \A h \in Procs \ {i} : Fits(h, tx[h])' /\ Announces(tx[h], published)'
    <3> SUFFICES ASSUME NEW h \in Procs \ {i} PROVE Fits(h, tx[h])' /\ Announces(tx[h], published)'
      OBVIOUS
    <3>1. Fits(h, tx[h])'
      BY <1>1, <1>g, <1>u, FitsUnchanged
    <3> QED
      BY <1>1, <1>g, <1>u, <3>1 DEF Announces
  <2>2. Detached' /\ SessionsOwned'
    BY <1>1, <1>g, <1>r, <1>s, <1>u DEF Detached, SessionsOwned
  <2> QED
    BY <1>1, <2>1, <2>2, OwnPartsNext
<1>2. CASE Boot(i)
  <2>1. /\ server[i] = "down" /\ server'[i] = "starting" /\ UNCHANGED conn
        /\ Becomes(i, [NoTx EXCEPT !.pc = "list"])
    BY <1>2 DEF Boot, TypeOK
  <2>2. /\ tx'[i].pc = "list" /\ tx'[i].ins = {} /\ tx'[i].del = {}
        /\ \A h \in Procs \ {i} : tx'[h] = tx[h]
    BY <1>n, <1>s, <2>1, AfterBecomes
  <2>3. Fits(i, tx[i])' /\ Announces(tx[i], published)'
    BY <1>s, <2>2 DEF Fits, Announces
  <2> QED
    BY <1>1, <2>1, <2>2, <2>3
<1>3. CASE Shutdown(i)
  <2>1. server'[i] = "stopping" /\ UNCHANGED <<conn, tx>>
    BY <1>3 DEF Shutdown, TypeOK
  <2>2. Fits(i, tx[i])' /\ Announces(tx[i], published)'
    BY <1>g, <1>s, <1>u, <2>1 DEF Fits, Announces
  <2> QED
    BY <1>1, <2>1, <2>2
<1>4. ASSUME NEW s \in Sockets, RemoveNext(i, s)
      PROVE  OwnInv'
  <2>1. /\ server[i] = "stopping" /\ UNCHANGED <<conn, server>>
        /\ Becomes(i, [NoTx EXCEPT !.pc = "next", !.todo = {s}])
    BY <1>4 DEF RemoveNext
  <2>2. /\ tx'[i].pc = "next" /\ tx'[i].ins = {} /\ tx'[i].del = {}
        /\ \A h \in Procs \ {i} : tx'[h] = tx[h]
    <3>1. /\ tx'[i] = [NoTx EXCEPT !.pc = "next", !.todo = {s}]
          /\ \A h \in Procs \ {i} : tx'[h] = tx[h]
      BY <1>s, <2>1, AfterBecomes
    <3> QED
      BY <1>n, <3>1
  <2>3. Fits(i, tx[i])' /\ Announces(tx[i], published)'
    BY <1>s, <2>1, <2>2 DEF Fits, Announces
  <2> QED
    BY <1>1, <2>1, <2>2, <2>3
<1>5. CASE Exit(i)
  <2>1. /\ server'[i] = "down"
        /\ \A g \in Procs : tx'[g] = IF g = i \/ (g \in Sockets /\ InstanceOf[g] = i)
                                     THEN NoTx ELSE tx[g]
        /\ \A s \in Sockets : conn'[s] = IF InstanceOf[s] = i /\ conn[s] # "new" THEN "gone"
                                         ELSE conn[s]
    BY <1>5 DEF Exit, TypeOK
  <2>2. ASSUME NEW h \in Procs
        PROVE  Fits(h, tx[h])' /\ Announces(tx[h], published)'
    <3>1. CASE h = i \/ (h \in Sockets /\ InstanceOf[h] = i)
      <4>1. tx'[h] = NoTx
        BY <2>1, <3>1
      <4>2. h \in Sockets => conn'[h] \notin {"up", "closing"}
        BY <1>s, <2>1, <3>1
      <4>3. h \in Instances => server'[h] # "starting"
        BY <1>s, <2>1, <3>1
      <4> QED
        BY <1>n, <4>1, <4>2, <4>3 DEF Fits, Announces
    <3>2. CASE ~(h = i \/ (h \in Sockets /\ InstanceOf[h] = i))
      <4>1. tx'[h] = tx[h] /\ (h \in Sockets => conn'[h] = conn[h])
        BY <2>1, <3>2
      <4>2. h \in Instances => server'[h] = server[h]
        BY <1>u, <3>2
      <4>3. Fits(h, tx[h])'
        BY <1>g, <1>u, <4>1, <4>2, FitsUnchanged
      <4> QED
        BY <1>g, <1>u, <4>1, <4>3 DEF Announces
    <3> QED
      BY <3>1, <3>2
  <2>3. Detached'
    BY <1>g, <1>s, <1>u, <2>1 DEF Detached
  <2>4. SessionsOwned'
    BY <1>g, <1>r, <1>s, <1>u, <2>1 DEF SessionsOwned
  <2> QED
    BY <2>2, <2>3, <2>4, OwnPartsNext
<1> QED
  BY <1>2, <1>3, <1>4, <1>5 DEF Instance

\* The invariant holds at first,
LEMMA OwnInit == Init => OwnInv
<1> SUFFICES ASSUME Init PROVE OwnInv
  OBVIOUS
<1>1. \A g \in Procs : tx[g] = NoTx
  BY DEF Init
<1>2. NoTx.pc = "idle" /\ NoTx.ins = {} /\ NoTx.del = {}
  BY DEF NoTx
<1>3. \A i \in Instances : i \in Procs /\ server[i] = "down"
  BY DEF Init, Procs
<1>4. \A s \in Sockets : s \in Procs /\ conn[s] = "new"
  BY DEF Init, Procs
<1>5. InsertsOwn /\ ClosesOwn /\ ClearsOwn /\ Announced
  BY <1>1, <1>2, <1>3, <1>4 DEF InsertsOwn, ClosesOwn, ClearsOwn, Announced
<1> QED
  BY <1>5 DEF OwnInv, SessionsOwned, Init

\* and every step keeps it.
LEMMA OwnNext == IInv /\ OwnInv /\ [Next]_vars => OwnInv'
<1> SUFFICES ASSUME IInv, OwnInv, [Next]_vars PROVE OwnInv'
  OBVIOUS
<1>1. CASE UNCHANGED vars
  BY <1>1 DEF vars, OwnInv, InsertsOwn, ClosesOwn, ClearsOwn, SessionsOwned, Announced, Ahead
<1> QED
  BY <1>1, OwnStatement, OwnTxEnd, OwnSocket, OwnInstance DEF Next, IInv

\* A row of a running server is that of a connected socket, or its removal has
\* failed and was logged, for both databases and whatever fails, crashes or
\* reconnects.
THEOREM RowsHaveOwners == Spec => []SessionsOwned
<1>1. OwnInv => SessionsOwned
  BY DEF OwnInv
<1> QED
  BY <1>1, OwnInit, OwnNext, Invariance, PTL DEF Spec

\* A session that is in the table or has left it was announced to the servers
\* before its transaction committed.
THEOREM CommitsAnnounced == Spec => ChangesAnnounced
<1>1. OwnInv /\ [Next]_vars =>
        [/\ \A s \in rows \ rows' : [type |-> "deleted", sock |-> s] \in published
         /\ \A s \in rows' \ rows : [type |-> "created", sock |-> s] \in published]_rows
  <2> SUFFICES ASSUME OwnInv, [Next]_vars, rows' # rows
               PROVE  /\ \A s \in rows \ rows' : [type |-> "deleted", sock |-> s] \in published
                      /\ \A s \in rows' \ rows : [type |-> "created", sock |-> s] \in published
    OBVIOUS
  <2>1. PICK g \in Procs : Commit(g)
    BY DEF Next, Statement, List, GetExisting, DeleteRow, CountSessions, MarkOffline, InsertRow,
           MarkOnline, TxEnd, CommitLost, StatementFails, Socket, Register, Start,
           OnDisconnection, Instance, Boot, Shutdown, RemoveNext, Exit, vars
  <2>2. tx[g].pc = "next" /\ rows' = (rows \ tx[g].del) \cup tx[g].ins
    BY <2>1 DEF Commit
  <2>3. /\ \A s \in tx[g].del : [type |-> "deleted", sock |-> s] \in published
        /\ \A s \in tx[g].ins : [type |-> "created", sock |-> s] \in published
    BY <2>2 DEF OwnInv, Announced
  <2> QED
    BY <2>2, <2>3
<1> QED
  BY <1>1, OwnInit, OwnNext, Invariance, PTL DEF Spec, ChangesAnnounced
=============================================================================
