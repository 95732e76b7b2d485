-------------------------- MODULE SocketCacheProofs --------------------------
(***************************************************************************)
(* Refreshes of a socket never overlap nor leave their flag behind, and    *)
(* the cache holds the connected sockets: for any number of sockets,       *)
(* probes, events and workers, and any capacity of the refresh channel.    *)
(***************************************************************************)
EXTENDS SocketCache, TLAPS

-----------------------------------------------------------------------------
(* Types.                                                                  *)

LEMMA Members ==
  /\ Sockets \subseteq Procs /\ Updates \subseteq Procs /\ Emitters \subseteq Procs
  /\ Requests \subseteq Procs /\ Workers \subseteq Procs /\ Refreshers \subseteq Procs
  /\ Queue \in Procs /\ Loop \in Procs /\ Stopper \in Procs
  BY DEF Procs, Refreshers, Singles

LEMMA TypeNext == TypeOK /\ [Next]_vars => TypeOK'
<1> SUFFICES ASSUME TypeOK, [Next]_vars
             PROVE  TypeOK'
  OBVIOUS
<1> USE Members
        DEF cacheLock, requests, flags, SocketPcs, OtherPcs, Goto, RLock, RUnlock,
            Lock, MayWrite, Unlock, Return
<1>1. ASSUME NEW s \in Sockets, Connect(s) PROVE TypeOK'
  BY <1>1 DEF TypeOK, Connect
<1>2. ASSUME NEW s \in Sockets, Set(s) PROVE TypeOK'
  BY <1>2 DEF TypeOK, Set
<1>3. ASSUME NEW s \in Sockets, EmitReady(s) PROVE TypeOK'
  BY <1>3 DEF TypeOK, EmitReady
<1>4. ASSUME NEW s \in Sockets, AddSession(s) PROVE TypeOK'
  BY <1>4 DEF TypeOK, AddSession
<1>5. ASSUME NEW s \in Sockets, Disconnect(s) PROVE TypeOK'
  BY <1>5 DEF TypeOK, Disconnect
<1>6. ASSUME NEW s \in Sockets, RemoveLock(s) PROVE TypeOK'
  BY <1>6 DEF TypeOK, RemoveLock
<1>7. ASSUME NEW s \in Sockets, Remove(s) PROVE TypeOK'
  BY <1>7 DEF TypeOK, Remove
<1>8. ASSUME NEW s \in Sockets, DeleteSession(s) PROVE TypeOK'
  BY <1>8 DEF TypeOK, DeleteSession
<1>9. ASSUME NEW u \in Updates, UpdateProbe(u) PROVE TypeOK'
  BY <1>9 DEF TypeOK, UpdateProbe
<1>10. ASSUME NEW u \in Updates, UpdateCollect(u) PROVE TypeOK'
  BY <1>10 DEF TypeOK, UpdateCollect, SocketsOf
<1>11. ASSUME NEW u \in Updates, NEW s \in Sockets, UpdateEmit(u, s) PROVE TypeOK'
  BY <1>11 DEF TypeOK, UpdateEmit
<1>12. ASSUME NEW u \in Updates, UpdateReturn(u) PROVE TypeOK'
  BY <1>12 DEF TypeOK, UpdateReturn
<1>13. ASSUME NEW e \in Emitters, Emit(e) PROVE TypeOK'
  BY <1>13 DEF TypeOK, Emit
<1>14. ASSUME NEW e \in Emitters, Lookup(e) PROVE TypeOK'
  BY <1>14 DEF TypeOK, Lookup
<1>15. ASSUME NEW e \in Emitters, EmitOut(e) PROVE TypeOK'
  BY <1>15 DEF TypeOK, EmitOut
<1>16. ASSUME NEW r \in Requests, Request(r) PROVE TypeOK'
  <2>1. \A p \in Probes : /\ Append(refreshChan, p) \in Seq(Probes)
                         /\ Len(Append(refreshChan, p)) = Len(refreshChan) + 1
    BY DEF TypeOK
  <2>2. refreshChan' \in Seq(Probes) /\ Len(refreshChan') <= QueueCap
    BY <1>16, <2>1, CacheAssumption DEF TypeOK, Request
  <2> QED
    BY <1>16, <2>2 DEF TypeOK, Request
<1>17. ASSUME NEW g \in Refreshers, TryRefresh(g) PROVE TypeOK'
  <2>1. refreshing' \in [Sockets -> BOOLEAN]
    BY <1>17 DEF TypeOK, TryRefresh
  <2>2. pc' \in [Procs -> SocketPcs \cup OtherPcs] /\ cur' \in [Procs -> Sockets \cup {None}]
    BY <1>17 DEF TypeOK, TryRefresh
  <2> QED
    BY <1>17, <2>1, <2>2 DEF TypeOK, TryRefresh
<1>18. ASSUME NEW g \in Refreshers, ReadChecks(g) PROVE TypeOK'
  BY <1>18 DEF TypeOK, ReadChecks
<1>19. ASSUME NEW g \in Refreshers, SendRefresh(g) PROVE TypeOK'
  BY <1>19 DEF TypeOK, SendRefresh
<1>20. ASSUME NEW g \in Refreshers, ClearRefresh(g) PROVE TypeOK'
  BY <1>20 DEF TypeOK, ClearRefresh
<1>21. CASE QueueReceive
  <2>1. refreshChan' \in Seq(Probes) /\ Len(refreshChan') <= QueueCap /\ Head(refreshChan) \in Probes
    BY <1>21, CacheAssumption DEF TypeOK, QueueReceive
  <2> QED
    BY <1>21, <2>1 DEF TypeOK, QueueReceive
<1>22. CASE QueueTick
  BY <1>22 DEF TypeOK, QueueTick
<1>23. CASE QueueCollect
  BY <1>23 DEF TypeOK, QueueCollect, SocketsOf
<1>24. ASSUME NEW s \in Sockets, QueueVisit(s) PROVE TypeOK'
  BY <1>24 DEF TypeOK, QueueVisit
<1>25. CASE LoopTick
  BY <1>25 DEF TypeOK, LoopTick
<1>26. CASE LoopCollect
  BY <1>26 DEF TypeOK, LoopCollect
<1>27. ASSUME NEW s \in Sockets, LoopVisit(s) PROVE TypeOK'
  BY <1>27 DEF TypeOK, LoopVisit
<1>28. ASSUME NEW w \in Workers, LoopSpawn(w) PROVE TypeOK'
  BY <1>28 DEF TypeOK, LoopSpawn
<1>29. CASE LoopEnd
  BY <1>29 DEF TypeOK, LoopEnd
<1>30. CASE Signal
  BY <1>30 DEF TypeOK, Signal
<1>31. ASSUME NEW g \in {Queue, Loop}, SendDone(g) PROVE TypeOK'
  BY <1>31 DEF TypeOK, SendDone
<1>32. CASE ShutdownLock
  BY <1>32 DEF TypeOK, ShutdownLock
<1>33. CASE ShutdownCollect
  BY <1>33 DEF TypeOK, ShutdownCollect
<1>34. CASE ShutdownRemove
  BY <1>34 DEF TypeOK, ShutdownRemove
<1>35. CASE UNCHANGED vars
  BY <1>35 DEF TypeOK, vars
<1> QED
  BY <1>1, <1>2, <1>3, <1>4, <1>5, <1>6, <1>7, <1>8, <1>9, <1>10, <1>11, <1>12,
     <1>13, <1>14, <1>15, <1>16, <1>17, <1>18, <1>19, <1>20, <1>21, <1>22, <1>23,
     <1>24, <1>25, <1>26, <1>27, <1>28, <1>29, <1>30, <1>31, <1>32, <1>33, <1>34,
     <1>35
     DEF Next, Arrival, SocketStep, UpdateStep, EmitStep, RefreshStep, QueueStep,
         LoopStep, StopperStep, Stopping

-----------------------------------------------------------------------------
(* Goroutines that keep to their own code.                                 *)

LEMMA Others ==
  /\ \A s \in Sockets : s \notin Updates \cup Emitters \cup Requests \cup Refreshers \cup {Loop, Stopper}
  /\ Stopper \notin Sockets \cup Updates \cup Emitters \cup Requests \cup Refreshers \cup {Loop}
  BY CacheAssumption DEF Refreshers

\* What the steps of everybody else leave alone.
LEMMA OthersKeep ==
  ASSUME TypeOK,
         \/ \E u \in Updates : UpdateProbe(u) \/ UpdateStep(u)
         \/ \E e \in Emitters : Emit(e) \/ EmitStep(e)
         \/ \E r \in Requests : Request(r)
         \/ \E g \in Refreshers : RefreshStep(g)
         \/ QueueStep \/ LoopStep
  PROVE  /\ cached' = cached
         /\ \A s \in Sockets : pc'[s] = pc[s]
         /\ pc'[Stopper] = pc[Stopper]
<1> USE Members, Others DEF flags, cacheLock, requests, Goto, Return, TypeOK
<1>1. ASSUME NEW u \in Updates, UpdateProbe(u) \/ UpdateStep(u)
      PROVE  cached' = cached /\ \A g \in Procs \ {u} : pc'[g] = pc[g]
  BY <1>1 DEF UpdateProbe, UpdateStep, UpdateCollect, UpdateEmit, UpdateReturn
<1>2. ASSUME NEW e \in Emitters, Emit(e) \/ EmitStep(e)
      PROVE  cached' = cached /\ \A g \in Procs \ {e} : pc'[g] = pc[g]
  BY <1>2 DEF Emit, EmitStep, Lookup, EmitOut
<1>3. ASSUME NEW r \in Requests, Request(r)
      PROVE  cached' = cached /\ \A g \in Procs \ {r} : pc'[g] = pc[g]
  BY <1>3 DEF Request
<1>4. ASSUME NEW r \in Refreshers, RefreshStep(r)
      PROVE  cached' = cached /\ \A g \in Procs \ {r} : pc'[g] = pc[g]
  BY <1>4 DEF RefreshStep, TryRefresh, ReadChecks, SendRefresh, ClearRefresh
<1>5. ASSUME QueueStep
      PROVE  cached' = cached /\ \A g \in Procs \ {Queue} : pc'[g] = pc[g]
  BY <1>5 DEF QueueStep, QueueReceive, QueueTick, QueueCollect, QueueVisit
<1>6. ASSUME LoopStep
      PROVE  cached' = cached /\ \A g \in Procs \ (Workers \cup {Loop}) : pc'[g] = pc[g]
  BY <1>6 DEF LoopStep, LoopTick, LoopCollect, LoopEnd, LoopVisit, LoopSpawn
<1>7. Queue \in Refreshers /\ Workers \subseteq Refreshers
  BY DEF Refreshers
<1> HIDE DEF TypeOK
<1> QED
  BY <1>1, <1>2, <1>3, <1>4, <1>5, <1>6, <1>7

\* Until Shutdown has emptied the cache, and what a socket's place says of it.
Serving == {"idle", "signal", "lock", "collect"}
Connected == {"ready", "binding", "up", "leaked", "closing", "removing"}

LEMMA CacheParts ==
  TypeOK /\ OwnCode =>
    (CacheMatchesConnections <=>
       /\ \A s \in cached : pc[s] \in Connected
       /\ pc[Stopper] \in Serving =>
            \A s \in Sockets : pc[s] \in Connected => s \in cached)
  BY DEF TypeOK, OwnCode, CacheMatchesConnections, Serving, Connected, SocketPcs

LEMMA CacheNext ==
  TypeOK /\ OwnCode /\ CacheMatchesConnections /\ [Next]_vars
    => OwnCode' /\ CacheMatchesConnections'
<1> SUFFICES ASSUME TypeOK, OwnCode, CacheMatchesConnections, [Next]_vars
             PROVE  OwnCode' /\ CacheMatchesConnections'
  OBVIOUS
<1> USE Members, Others
<1>1. ASSUME cached' = cached, \A s \in Sockets : pc'[s] = pc[s], pc'[Stopper] = pc[Stopper]
      PROVE  OwnCode' /\ CacheMatchesConnections'
  BY <1>1 DEF TypeOK, OwnCode, CacheMatchesConnections
<1>2. ASSUME NEW s \in Sockets, Connect(s) \/ Disconnect(s) \/ SocketStep(s)
      PROVE  OwnCode' /\ CacheMatchesConnections'
  <2>1. \A t \in Sockets \ {s} : pc'[t] = pc[t] /\ (t \in cached' <=> t \in cached)
    BY <1>2 DEF TypeOK, Goto, Connect, Disconnect, SocketStep, Set, EmitReady, AddSession,
                RemoveLock, Remove, DeleteSession
  <2>2. pc'[Stopper] = pc[Stopper]
    BY <1>2 DEF TypeOK, Goto, Connect, Disconnect, SocketStep, Set, EmitReady, AddSession,
                RemoveLock, Remove, DeleteSession
  <2>3. /\ pc'[s] \in SocketPcs
        /\ cached' \subseteq Sockets
        /\ s \in cached' => pc'[s] \in Connected
        /\ pc[Stopper] \in Serving /\ pc'[s] \in Connected => s \in cached'
    BY <1>2, CacheParts
       DEF TypeOK, Goto, Connect, Disconnect, SocketStep, Set, EmitReady, AddSession,
           RemoveLock, Remove, DeleteSession, SocketPcs, Connected
  <2> QED
    BY <2>1, <2>2, <2>3
       DEF TypeOK, OwnCode, CacheMatchesConnections, Serving, Connected, SocketPcs
<1>3. ASSUME Signal \/ Stopping \/ StopperStep
      PROVE  OwnCode' /\ CacheMatchesConnections'
  <2>1. \A s \in Sockets : pc'[s] = pc[s]
    BY <1>3 DEF TypeOK, Goto, Signal, Stopping, SendDone, StopperStep, ShutdownLock,
                ShutdownCollect, ShutdownRemove, Refreshers
  <2>2. \/ cached' = cached /\ (pc'[Stopper] \in Serving => pc[Stopper] \in Serving)
        \/ cached' = {} /\ pc'[Stopper] \notin Serving
    BY <1>3 DEF TypeOK, Goto, Signal, Stopping, SendDone, StopperStep, ShutdownLock,
                ShutdownCollect, ShutdownRemove, Serving
  <2>3. pc'[Stopper] \in {"idle", "signal", "lock", "collect", "remove", "done"}
    BY <1>3 DEF TypeOK, OwnCode, Goto, Signal, Stopping, SendDone, StopperStep,
                ShutdownLock, ShutdownCollect, ShutdownRemove
  <2> QED
    BY <2>1, <2>2, <2>3 DEF TypeOK, OwnCode, CacheMatchesConnections, Serving
<1>4. CASE UNCHANGED vars
  BY <1>1, <1>4 DEF vars
<1> QED
  BY <1>1, <1>2, <1>3, <1>4, OthersKeep DEF Next, Arrival

-----------------------------------------------------------------------------
(* Refreshes.                                                              *)

Refreshing == {"read", "send", "clear"}

\* A step that starts and ends no refresh.
LEMMA RefreshKept ==
  ASSUME TypeOK, RefreshFlagOwned, UNCHANGED refreshing,
         \A g \in Refreshers : /\ pc'[g] \in Refreshing <=> pc[g] \in Refreshing
                               /\ pc[g] \in Refreshing => cur'[g] = cur[g]
  PROVE  RefreshFlagOwned'
  BY DEF RefreshFlagOwned, InRefresh, Refreshing

LEMMA RefreshNext == TypeOK /\ RefreshFlagOwned /\ [Next]_vars => RefreshFlagOwned'
<1> SUFFICES ASSUME TypeOK, RefreshFlagOwned, [Next]_vars
             PROVE  RefreshFlagOwned'
  OBVIOUS
<1> USE Members
<1>1. ASSUME NEW g \in Refreshers, TryRefresh(g) PROVE RefreshFlagOwned'
  <2> DEFINE s == cur[g]
  <2>1. /\ pc[g] = "try" /\ \A h \in Refreshers \ {g} : pc'[h] = pc[h] /\ cur'[h] = cur[h]
    BY <1>1 DEF TryRefresh, TypeOK, Goto, Return
  <2>2. CASE UNCHANGED refreshing /\ Return(g)
    BY <2>1, <2>2, RefreshKept DEF Return, Goto, TypeOK, Refreshing
  <2>3. CASE ~refreshing[s] /\ refreshing' = [refreshing EXCEPT ![s] = TRUE]
             /\ Goto(g, "read") /\ UNCHANGED cur
    <3>1. pc'[g] = "read" /\ cur'[g] = s
      BY <2>3 DEF Goto, TypeOK
    <3>2. \A t \in Sockets : /\ t # s => refreshing'[t] = refreshing[t]
                             /\ t = s => refreshing'[t]
      BY <2>3 DEF TypeOK
    <3>3. s \in Sockets => \A h \in Refreshers : ~InRefresh(h, s)
      BY <2>3 DEF RefreshFlagOwned
    <3>4. \A h \in Refreshers \ {g}, t \in Sockets : InRefresh(h, t)' <=> InRefresh(h, t)
      BY <2>1 DEF InRefresh
    <3>5. \A t \in Sockets : InRefresh(g, t)' <=> t = s
      BY <3>1 DEF InRefresh
    <3>6. \A t \in Sockets : ~InRefresh(g, t)
      BY <2>1 DEF InRefresh
    <3> HIDE DEF s
    <3> QED
      BY <3>2, <3>3, <3>4, <3>5, <3>6 DEF RefreshFlagOwned
  <2> QED
    BY <1>1, <2>2, <2>3 DEF TryRefresh
<1>2. ASSUME NEW g \in Refreshers, ClearRefresh(g) PROVE RefreshFlagOwned'
  <2> DEFINE s == cur[g]
  <2>1. /\ pc[g] = "clear" /\ pc'[g] \notin Refreshing
        /\ \A h \in Refreshers \ {g} : pc'[h] = pc[h] /\ cur'[h] = cur[h]
        /\ refreshing' = [refreshing EXCEPT ![s] = FALSE]
    BY <1>2 DEF ClearRefresh, TypeOK, Goto, Return, Refreshing
  <2>2. \A t \in Sockets : /\ t # s => refreshing'[t] = refreshing[t]
                           /\ t = s => ~refreshing'[t]
    BY <2>1 DEF TypeOK
  <2>3. \A h \in Refreshers \ {g}, t \in Sockets : InRefresh(h, t)' <=> InRefresh(h, t)
    BY <2>1 DEF InRefresh
  <2>4. \A t \in Sockets : ~InRefresh(g, t)' /\ (InRefresh(g, t) <=> t = s)
    BY <2>1 DEF InRefresh, Refreshing
  <2> HIDE DEF s
  <2> QED
    BY <2>2, <2>3, <2>4 DEF RefreshFlagOwned
<1>3. ASSUME NEW g \in Refreshers, ReadChecks(g) \/ SendRefresh(g) PROVE RefreshFlagOwned'
  BY <1>3, RefreshKept DEF ReadChecks, SendRefresh, flags, Goto, TypeOK, Refreshing
<1>4. ASSUME NEW s \in Sockets, Connect(s) \/ Disconnect(s) \/ SocketStep(s) PROVE RefreshFlagOwned'
  BY <1>4, RefreshKept
     DEF Connect, Disconnect, SocketStep, Set, EmitReady, AddSession, RemoveLock, Remove,
         DeleteSession, flags, Goto, TypeOK, Refreshing
<1>5. ASSUME NEW u \in Updates, UpdateProbe(u) \/ UpdateStep(u) PROVE RefreshFlagOwned'
  BY <1>5, RefreshKept
     DEF UpdateProbe, UpdateStep, UpdateCollect, UpdateEmit, UpdateReturn, flags, Goto,
         TypeOK, Refreshing
<1>6. ASSUME NEW e \in Emitters, Emit(e) \/ EmitStep(e) PROVE RefreshFlagOwned'
  BY <1>6, RefreshKept DEF Emit, EmitStep, Lookup, EmitOut, flags, Goto, TypeOK, Refreshing
<1>7. ASSUME NEW r \in Requests, Request(r) PROVE RefreshFlagOwned'
  BY <1>7, RefreshKept DEF Request, flags, Goto, TypeOK, Refreshing
<1>8. CASE QueueStep
  BY <1>8, RefreshKept
     DEF QueueStep, QueueReceive, QueueTick, QueueCollect, QueueVisit, flags, Goto,
         TypeOK, Refreshing
<1>9. CASE LoopStep
  BY <1>9, RefreshKept
     DEF LoopStep, LoopTick, LoopCollect, LoopEnd, LoopVisit, LoopSpawn, flags, Goto,
         TypeOK, Refreshing
<1>10. CASE Signal \/ Stopping \/ StopperStep
  BY <1>10, RefreshKept
     DEF Signal, Stopping, SendDone, StopperStep, ShutdownLock, ShutdownCollect,
         ShutdownRemove, flags, Goto, TypeOK, Refreshing
<1>11. CASE UNCHANGED vars
  BY <1>11, RefreshKept DEF vars
<1> QED
  BY <1>1, <1>2, <1>3, <1>4, <1>5, <1>6, <1>7, <1>8, <1>9, <1>10, <1>11
     DEF Next, Arrival, RefreshStep

-----------------------------------------------------------------------------
(* Locks.                                                                  *)

LEMMA Roles ==
  /\ None \notin Procs
  /\ \A s \in Sockets : s \notin Updates /\ s \notin Emitters /\ s # Queue /\ s # Loop /\ s # Stopper
  /\ \A u \in Updates : u \notin Emitters /\ u # Queue /\ u # Loop /\ u # Stopper
  /\ \A e \in Emitters : e # Queue /\ e # Loop /\ e # Stopper
  /\ \A r \in Requests : /\ r \notin Sockets /\ r \notin Updates /\ r \notin Emitters
                         /\ r # Queue /\ r # Loop /\ r # Stopper
  /\ \A w \in Workers : /\ w \notin Sockets /\ w \notin Updates /\ w \notin Emitters
                        /\ w # Queue /\ w # Loop /\ w # Stopper
  /\ Queue # Loop /\ Queue # Stopper /\ Loop # Stopper
  BY CacheAssumption DEF Procs, Singles

\* A step of g that leaves the locks to those who had them.
LEMMA LocksKept ==
  ASSUME TypeOK, LocksOwned, UNCHANGED <<readers, waiting, writer, mutex>>,
         \A g \in Procs : \/ pc'[g] = pc[g]
                          \/ /\ Reading(g)' <=> Reading(g)
                             /\ Writing(g)' <=> Writing(g)
                             /\ Closing(g)' <=> Closing(g)
                             /\ pc'[g] = "emit" => g \notin waiting
  PROVE  LocksOwned'
<1>1. \A g \in Procs : /\ Reading(g)' <=> Reading(g)
                       /\ Writing(g)' <=> Writing(g)
                       /\ Closing(g)' <=> Closing(g)
                       /\ g \in waiting => pc'[g] # "emit"
  BY DEF Reading, Writing, Closing, LocksOwned
<1> QED
  BY <1>1, Members DEF LocksOwned, TypeOK

\* Taking the read lock, or queueing for it.
LEMMA RLockKeeps ==
  ASSUME TypeOK, LocksOwned, NEW g \in Procs, RLock(g), ~Reading(g), Reading(g)',
         ~Writing(g), ~Writing(g)', Closing(g)' <=> Closing(g), pc'[g] # "emit",
         UNCHANGED mutex, \A h \in Procs \ {g} : pc'[h] = pc[h]
  PROVE  LocksOwned'
<1>1. \A h \in Procs \ {g} : /\ Reading(h)' <=> Reading(h)
                             /\ Writing(h)' <=> Writing(h)
                             /\ Closing(h)' <=> Closing(h)
                             /\ h \in waiting => pc'[h] # "emit"
  BY DEF Reading, Writing, Closing, LocksOwned
<1>2. g \notin readers /\ g \notin waiting
  BY DEF LocksOwned
<1>3. /\ writer' = writer
      /\ \/ writer = None /\ readers' = readers \cup {g} /\ waiting' = waiting
         \/ writer # None /\ readers' = readers /\ waiting' = waiting \cup {g}
  BY DEF RLock
<1>4. \A h \in Procs : h \in readers' \cup waiting' <=> Reading(h)'
  BY <1>1, <1>2, <1>3 DEF LocksOwned
<1>5. \A h \in waiting' : h \notin readers' /\ pc'[h] # "emit"
  BY <1>1, <1>2, <1>3 DEF LocksOwned, TypeOK
<1>6. waiting' # {} => writer' # None
  BY <1>3 DEF LocksOwned
<1>7. \A h \in Procs : writer' = h <=> Writing(h)'
  BY <1>1, <1>3 DEF LocksOwned
<1>8. \A s \in Sockets : mutex'[s] = IF Closing(s)' THEN s ELSE None
  BY <1>1, Members DEF LocksOwned
<1> QED
  BY <1>4, <1>5, <1>6, <1>7, <1>8 DEF LocksOwned

\* Giving it back.
LEMMA RUnlockKeeps ==
  ASSUME TypeOK, LocksOwned, NEW g \in readers, RUnlock(g), ~Reading(g)',
         ~Writing(g), ~Writing(g)', Closing(g)' <=> Closing(g),
         UNCHANGED mutex, \A h \in Procs \ {g} : pc'[h] = pc[h]
  PROVE  LocksOwned'
<1>1. \A h \in Procs \ {g} : /\ Reading(h)' <=> Reading(h)
                             /\ Writing(h)' <=> Writing(h)
                             /\ Closing(h)' <=> Closing(h)
                             /\ h \in waiting => pc'[h] # "emit"
  BY DEF Reading, Writing, Closing, LocksOwned
<1>2. g \in Procs /\ g \notin waiting
  BY DEF LocksOwned, TypeOK
<1>3. writer' = writer /\ readers' = readers \ {g} /\ waiting' = waiting
  BY DEF RUnlock
<1>4. \A h \in Procs : h \in readers' \cup waiting' <=> Reading(h)'
  BY <1>1, <1>2, <1>3 DEF LocksOwned
<1>5. \A h \in waiting' : h \notin readers' /\ pc'[h] # "emit"
  BY <1>1, <1>2, <1>3 DEF LocksOwned, TypeOK
<1>6. \A h \in Procs : writer' = h <=> Writing(h)'
  BY <1>1, <1>2, <1>3 DEF LocksOwned
<1>7. \A s \in Sockets : mutex'[s] = IF Closing(s)' THEN s ELSE None
  BY <1>1, <1>2, Members DEF LocksOwned
<1> QED
  BY <1>3, <1>4, <1>5, <1>6, <1>7 DEF LocksOwned

\* Announcing a writer, which keeps new readers out.
LEMMA LockKeeps ==
  ASSUME TypeOK, LocksOwned, NEW g \in Procs, Lock(g), Writing(g)',
         ~Reading(g), ~Reading(g)', Closing(g)' <=> Closing(g),
         UNCHANGED mutex, \A h \in Procs \ {g} : pc'[h] = pc[h]
  PROVE  LocksOwned'
<1>1. \A h \in Procs \ {g} : /\ Reading(h)' <=> Reading(h)
                             /\ Writing(h)' <=> Writing(h)
                             /\ Closing(h)' <=> Closing(h)
  BY DEF Reading, Writing, Closing
<1>2. writer = None /\ writer' = g /\ readers' = readers /\ waiting' = waiting
  BY DEF Lock
<1>3. waiting = {} /\ \A h \in Procs : ~Writing(h)
  BY <1>2, Roles DEF LocksOwned
<1>4. \A h \in Procs : h \in readers' \cup waiting' <=> Reading(h)'
  BY <1>1, <1>2 DEF LocksOwned
<1>5. \A h \in Procs : writer' = h <=> Writing(h)'
  BY <1>1, <1>2, <1>3
<1>6. \A s \in Sockets : mutex'[s] = IF Closing(s)' THEN s ELSE None
  BY <1>1, Members DEF LocksOwned
<1> QED
  BY <1>2, <1>3, <1>4, <1>5, <1>6 DEF LocksOwned

\* The writer is done; who has waited to read may.
LEMMA UnlockKeeps ==
  ASSUME TypeOK, LocksOwned, NEW g \in Procs, MayWrite(g), Unlock, ~Writing(g)',
         ~Reading(g), ~Reading(g)', Closing(g)' <=> Closing(g),
         UNCHANGED mutex, \A h \in Procs \ {g} : pc'[h] = pc[h]
  PROVE  LocksOwned'
<1>1. \A h \in Procs \ {g} : /\ Reading(h)' <=> Reading(h)
                             /\ Writing(h)' <=> Writing(h)
                             /\ Closing(h)' <=> Closing(h)
  BY DEF Reading, Writing, Closing
<1>2. /\ writer = g /\ writer' = None /\ readers = {} /\ readers' = waiting
      /\ waiting' = {}
  BY DEF MayWrite, Unlock
<1>3. \A h \in Procs : h \in readers' \cup waiting' <=> Reading(h)'
  BY <1>1, <1>2 DEF LocksOwned
<1>4. \A h \in Procs : ~Writing(h)' /\ writer' # h
  BY <1>1, <1>2, Roles DEF LocksOwned
<1>5. \A s \in Sockets : mutex'[s] = IF Closing(s)' THEN s ELSE None
  BY <1>1, Members DEF LocksOwned
<1> QED
  BY <1>2, <1>3, <1>4, <1>5 DEF LocksOwned

\* The mutex of s changes hands with its place in OnDisconnection.
LEMMA MutexKeeps ==
  ASSUME TypeOK, LocksOwned, NEW s \in Sockets,
         mutex' = [mutex EXCEPT ![s] = IF Closing(s)' THEN s ELSE None],
         UNCHANGED cacheLock, ~Writing(s), ~Writing(s)',
         \A h \in Procs \ {s} : pc'[h] = pc[h]
  PROVE  LocksOwned'
<1>1. \A h \in Procs \ {s} : /\ Reading(h)' <=> Reading(h)
                             /\ Writing(h)' <=> Writing(h)
                             /\ Closing(h)' <=> Closing(h)
                             /\ h \in waiting => pc'[h] # "emit"
  BY DEF Reading, Writing, Closing, LocksOwned
<1>2. s \in Procs /\ ~Reading(s) /\ ~Reading(s)'
  BY Members, Roles DEF Reading
<1>3. readers' = readers /\ waiting' = waiting /\ writer' = writer
  BY DEF cacheLock
<1>4. \A h \in Procs : h \in readers' \cup waiting' <=> Reading(h)'
  BY <1>1, <1>2, <1>3 DEF LocksOwned
<1>5. \A h \in waiting' : h \notin readers' /\ pc'[h] # "emit"
  BY <1>1, <1>2, <1>3 DEF LocksOwned, TypeOK
<1>6. \A h \in Procs : writer' = h <=> Writing(h)'
  BY <1>1, <1>2, <1>3 DEF LocksOwned
<1>7. \A t \in Sockets : mutex'[t] = IF Closing(t)' THEN t ELSE None
  BY <1>1, Members DEF LocksOwned, TypeOK
<1> QED
  BY <1>3, <1>4, <1>5, <1>6, <1>7 DEF LocksOwned

LEMMA LocksNext == TypeOK /\ OwnCode /\ LocksOwned /\ [Next]_vars => LocksOwned'
<1> SUFFICES ASSUME TypeOK, OwnCode, LocksOwned, [Next]_vars
             PROVE  LocksOwned'
  OBVIOUS
<1> USE Members, Roles
<1>1. ASSUME NEW s \in Sockets, Connect(s) PROVE LocksOwned'
  <2>1. /\ s \in Procs /\ \A h \in Procs \ {s} : pc'[h] = pc[h]
        /\ UNCHANGED mutex
    BY <1>1 DEF Connect, Goto, TypeOK
  <2>2. /\ Writing(s)' /\ ~Reading(s) /\ ~Reading(s)'
        /\ (Closing(s)' <=> Closing(s))
    BY <1>1 DEF Connect, Goto, TypeOK, Reading, Writing, Closing
  <2> QED
    BY <1>1, <2>1, <2>2, LockKeeps DEF Connect
<1>2. ASSUME NEW s \in Sockets, Set(s) PROVE LocksOwned'
  <2>1. /\ s \in Procs /\ \A h \in Procs \ {s} : pc'[h] = pc[h]
        /\ UNCHANGED mutex
    BY <1>2 DEF Set, Goto, TypeOK
  <2>2. /\ ~Writing(s)' /\ ~Reading(s) /\ ~Reading(s)'
        /\ (Closing(s)' <=> Closing(s))
    BY <1>2 DEF Set, Goto, TypeOK, Reading, Writing, Closing
  <2> QED
    BY <1>2, <2>1, <2>2, UnlockKeeps DEF Set
<1>3. ASSUME NEW s \in Sockets, RemoveLock(s) PROVE LocksOwned'
  <2>1. /\ s \in Procs /\ \A h \in Procs \ {s} : pc'[h] = pc[h]
        /\ UNCHANGED mutex
    BY <1>3 DEF RemoveLock, Goto, TypeOK
  <2>2. /\ Writing(s)' /\ ~Reading(s) /\ ~Reading(s)'
        /\ (Closing(s)' <=> Closing(s))
    BY <1>3 DEF RemoveLock, Goto, TypeOK, Reading, Writing, Closing
  <2> QED
    BY <1>3, <2>1, <2>2, LockKeeps DEF RemoveLock
<1>4. ASSUME NEW s \in Sockets, Remove(s) PROVE LocksOwned'
  <2>1. /\ s \in Procs /\ \A h \in Procs \ {s} : pc'[h] = pc[h]
        /\ UNCHANGED mutex
    BY <1>4 DEF Remove, Goto, TypeOK
  <2>2. /\ ~Writing(s)' /\ ~Reading(s) /\ ~Reading(s)'
        /\ (Closing(s)' <=> Closing(s))
    BY <1>4 DEF Remove, Goto, TypeOK, Reading, Writing, Closing
  <2> QED
    BY <1>4, <2>1, <2>2, UnlockKeeps DEF Remove
<1>5. CASE ShutdownLock
  <2>1. /\ Stopper \in Procs /\ \A h \in Procs \ {Stopper} : pc'[h] = pc[h]
        /\ UNCHANGED mutex
    BY <1>5 DEF ShutdownLock, Goto, TypeOK
  <2>2. /\ Writing(Stopper)' /\ ~Reading(Stopper) /\ ~Reading(Stopper)'
        /\ (Closing(Stopper)' <=> Closing(Stopper))
    BY <1>5 DEF ShutdownLock, Goto, TypeOK, Reading, Writing, Closing
  <2> QED
    BY <1>5, <2>1, <2>2, LockKeeps DEF ShutdownLock
<1>6. CASE ShutdownCollect
  <2>1. /\ Stopper \in Procs /\ \A h \in Procs \ {Stopper} : pc'[h] = pc[h]
        /\ UNCHANGED mutex
    BY <1>6 DEF ShutdownCollect, Goto, TypeOK
  <2>2. /\ ~Writing(Stopper)' /\ ~Reading(Stopper) /\ ~Reading(Stopper)'
        /\ (Closing(Stopper)' <=> Closing(Stopper))
    BY <1>6 DEF ShutdownCollect, Goto, TypeOK, Reading, Writing, Closing
  <2> QED
    BY <1>6, <2>1, <2>2, UnlockKeeps DEF ShutdownCollect
<1>7. ASSUME NEW u \in Updates, UpdateProbe(u) PROVE LocksOwned'
  <2>1. /\ u \in Procs /\ \A h \in Procs \ {u} : pc'[h] = pc[h]
        /\ UNCHANGED mutex
    BY <1>7 DEF UpdateProbe, Goto, TypeOK
  <2>2. /\ ~Reading(u) /\ Reading(u)' /\ ~Writing(u) /\ ~Writing(u)'
        /\ (Closing(u)' <=> Closing(u)) /\ pc'[u] # "emit"
    BY <1>7 DEF UpdateProbe, Goto, TypeOK, Reading, Writing, Closing
  <2> QED
    BY <1>7, <2>1, <2>2, RLockKeeps DEF UpdateProbe
<1>8. ASSUME NEW u \in Updates, UpdateReturn(u) PROVE LocksOwned'
  <2>1. /\ u \in Procs /\ \A h \in Procs \ {u} : pc'[h] = pc[h]
        /\ UNCHANGED mutex
    BY <1>8 DEF UpdateReturn, Goto, TypeOK
  <2>2. /\ ~Reading(u)' /\ ~Writing(u) /\ ~Writing(u)'
        /\ (Closing(u)' <=> Closing(u))
    BY <1>8 DEF UpdateReturn, Goto, TypeOK, Reading, Writing, Closing
  <2>3. u \in readers
    BY <1>8 DEF UpdateReturn, LocksOwned, Reading
  <2> QED
    BY <1>8, <2>1, <2>2, <2>3, RUnlockKeeps DEF UpdateReturn
<1>9. ASSUME NEW e \in Emitters, Emit(e) PROVE LocksOwned'
  <2>1. /\ e \in Procs /\ \A h \in Procs \ {e} : pc'[h] = pc[h]
        /\ UNCHANGED mutex
    BY <1>9 DEF Emit, Goto, TypeOK
  <2>2. /\ ~Reading(e) /\ Reading(e)' /\ ~Writing(e) /\ ~Writing(e)'
        /\ (Closing(e)' <=> Closing(e)) /\ pc'[e] # "emit"
    BY <1>9 DEF Emit, Goto, TypeOK, Reading, Writing, Closing
  <2> QED
    BY <1>9, <2>1, <2>2, RLockKeeps DEF Emit
<1>10. ASSUME NEW e \in Emitters, Lookup(e) PROVE LocksOwned'
  <2>1. /\ e \in Procs /\ \A h \in Procs \ {e} : pc'[h] = pc[h]
        /\ UNCHANGED mutex
    BY <1>10 DEF Lookup, Goto, TypeOK
  <2>2. /\ e \in readers /\ ~Reading(e)' /\ ~Writing(e) /\ ~Writing(e)'
        /\ (Closing(e)' <=> Closing(e))
    BY <1>10 DEF Lookup, Goto, TypeOK, Reading, Writing, Closing
  <2> QED
    BY <1>10, <2>1, <2>2, RUnlockKeeps DEF Lookup
<1>11. CASE LoopTick
  <2>1. /\ Loop \in Procs /\ \A h \in Procs \ {Loop} : pc'[h] = pc[h]
        /\ UNCHANGED mutex
    BY <1>11 DEF LoopTick, Goto, TypeOK
  <2>2. /\ ~Reading(Loop) /\ Reading(Loop)' /\ ~Writing(Loop) /\ ~Writing(Loop)'
        /\ (Closing(Loop)' <=> Closing(Loop)) /\ pc'[Loop] # "emit"
    BY <1>11 DEF LoopTick, Goto, TypeOK, Reading, Writing, Closing
  <2> QED
    BY <1>11, <2>1, <2>2, RLockKeeps DEF LoopTick
<1>12. CASE LoopCollect
  <2>1. /\ Loop \in Procs /\ \A h \in Procs \ {Loop} : pc'[h] = pc[h]
        /\ UNCHANGED mutex
    BY <1>12 DEF LoopCollect, Goto, TypeOK
  <2>2. /\ Loop \in readers /\ ~Reading(Loop)' /\ ~Writing(Loop) /\ ~Writing(Loop)'
        /\ (Closing(Loop)' <=> Closing(Loop))
    BY <1>12 DEF LoopCollect, Goto, TypeOK, Reading, Writing, Closing
  <2> QED
    BY <1>12, <2>1, <2>2, RUnlockKeeps DEF LoopCollect
<1>13. CASE QueueCollect
  <2>1. /\ Queue \in Procs /\ \A h \in Procs \ {Queue} : pc'[h] = pc[h]
        /\ UNCHANGED mutex
    BY <1>13 DEF QueueCollect, Goto, TypeOK
  <2>2. /\ Queue \in readers /\ ~Reading(Queue)' /\ ~Writing(Queue) /\ ~Writing(Queue)'
        /\ (Closing(Queue)' <=> Closing(Queue))
    BY <1>13 DEF QueueCollect, Goto, TypeOK, Reading, Writing, Closing
  <2> QED
    BY <1>13, <2>1, <2>2, RUnlockKeeps DEF QueueCollect
<1>14. CASE QueueTick
  <2>1. CASE RLock(Queue) /\ Goto(Queue, "collect")
    <3>1. /\ Queue \in Procs /\ \A h \in Procs \ {Queue} : pc'[h] = pc[h]
          /\ UNCHANGED mutex
      BY <1>14, <2>1 DEF QueueTick, Goto, TypeOK
    <3>2. /\ ~Reading(Queue) /\ Reading(Queue)' /\ ~Writing(Queue) /\ ~Writing(Queue)'
          /\ (Closing(Queue)' <=> Closing(Queue)) /\ pc'[Queue] # "emit"
      BY <1>14, <2>1 DEF QueueTick, Goto, TypeOK, Reading, Writing, Closing
    <3> QED
      BY <2>1, <3>1, <3>2, RLockKeeps
  <2>2. CASE Goto(Queue, "idle") /\ pc[Queue] = "visit" /\ UNCHANGED cacheLock
    BY <1>14, <2>2, LocksKept
       DEF QueueTick, Goto, TypeOK, Reading, Writing, Closing, cacheLock
  <2> QED
    BY <1>14, <2>1, <2>2 DEF QueueTick
<1>15. ASSUME NEW s \in Sockets, Disconnect(s) \/ DeleteSession(s) PROVE LocksOwned'
  <2>1. /\ mutex' = [mutex EXCEPT ![s] = IF Closing(s)' THEN s ELSE None]
        /\ UNCHANGED cacheLock /\ ~Writing(s) /\ ~Writing(s)'
        /\ \A h \in Procs \ {s} : pc'[h] = pc[h]
    BY <1>15 DEF Disconnect, DeleteSession, Goto, TypeOK, Writing, Closing
  <2> QED
    BY <2>1, MutexKeeps
<1>16. ASSUME NEW s \in Sockets, EmitReady(s) \/ AddSession(s) PROVE LocksOwned'
  BY <1>16, LocksKept
     DEF EmitReady, AddSession, Goto, TypeOK, Reading, Writing, Closing, cacheLock
<1>17. ASSUME NEW u \in Updates, UpdateCollect(u) PROVE LocksOwned'
  BY <1>17, LocksKept
     DEF UpdateCollect, Goto, TypeOK, Reading, Writing, Closing, cacheLock, LocksOwned
<1>18. ASSUME NEW u \in Updates, NEW s \in Sockets, UpdateEmit(u, s) PROVE LocksOwned'
  BY <1>18, LocksKept DEF UpdateEmit, cacheLock
<1>19. ASSUME NEW e \in Emitters, EmitOut(e) PROVE LocksOwned'
  BY <1>19, LocksKept DEF EmitOut, Goto, TypeOK, Reading, Writing, Closing, cacheLock
<1>20. ASSUME NEW r \in Requests, Request(r) PROVE LocksOwned'
  BY <1>20, LocksKept DEF Request, Goto, TypeOK, Reading, Writing, Closing, cacheLock
<1>21. ASSUME NEW g \in Refreshers, RefreshStep(g) PROVE LocksOwned'
  BY <1>21, LocksKept
     DEF RefreshStep, TryRefresh, ReadChecks, SendRefresh, ClearRefresh, Return, Goto,
         TypeOK, Refreshers, Reading, Writing, Closing, cacheLock, flags
<1>22. ASSUME QueueReceive \/ \E s \in Sockets : QueueVisit(s) PROVE LocksOwned'
  BY <1>22, LocksKept
     DEF QueueReceive, QueueVisit, Goto, TypeOK, Reading, Writing, Closing, cacheLock
<1>23. ASSUME LoopEnd \/ \E s \in Sockets : LoopVisit(s) PROVE LocksOwned'
  BY <1>23, LocksKept
     DEF LoopEnd, LoopVisit, Goto, TypeOK, Reading, Writing, Closing, cacheLock
<1>24. ASSUME NEW w \in Workers, LoopSpawn(w) PROVE LocksOwned'
  BY <1>24, LocksKept
     DEF LoopSpawn, TypeOK, Reading, Writing, Closing, cacheLock
<1>25. CASE Signal \/ Stopping \/ ShutdownRemove
  BY <1>25, LocksKept
     DEF Signal, Stopping, SendDone, ShutdownRemove, Goto, TypeOK, Reading, Writing,
         Closing, cacheLock
<1>26. CASE UNCHANGED vars
  BY <1>26, LocksKept DEF vars
<1> QED
  BY <1>1, <1>2, <1>3, <1>4, <1>5, <1>6, <1>7, <1>8, <1>9, <1>10, <1>11, <1>12, <1>13,
     <1>14, <1>15, <1>16, <1>17, <1>18, <1>19, <1>20, <1>21, <1>22, <1>23, <1>24, <1>25,
     <1>26
     DEF Next, Arrival, SocketStep, UpdateStep, EmitStep, QueueStep, LoopStep, StopperStep

\* A reader that does not get on is an UpdateProbe that waits for mutexes, which are
\* all with sockets that are being closed.
LEMMA ReadersGetOn == TypeOK /\ LocksOwned => OnlyLockOrder
<1> SUFFICES ASSUME TypeOK, LocksOwned, NEW g \in readers, ~GetsOn(g)
             PROVE  g \in Updates /\ todo[g] # {} /\ \A s \in todo[g] : Closing(s)
  BY DEF OnlyLockOrder
<1>1. g \in Procs /\ Reading(g) /\ todo[g] \subseteq Sockets
  BY DEF TypeOK, LocksOwned
<1>2. g \in Updates /\ pc[g] = "emit"
  BY <1>1 DEF Reading, GetsOn
<1>3. todo[g] # {} /\ \A s \in todo[g] : ~Free(s)
  BY <1>2 DEF GetsOn
<1> QED
  BY <1>1, <1>2, <1>3 DEF LocksOwned, Free

-----------------------------------------------------------------------------
LEMMA InitInvariant == Init => IInv
<1> SUFFICES ASSUME Init PROVE IInv
  OBVIOUS
<1> USE Members, Others, CacheAssumption
<1>1. TypeOK
  BY DEF Init, TypeOK, SocketPcs, OtherPcs
<1>2. OwnCode
  BY DEF Init, OwnCode, SocketPcs
<1>3. RefreshFlagOwned
  BY DEF Init, RefreshFlagOwned, InRefresh
<1>4. CacheMatchesConnections
  BY DEF Init, CacheMatchesConnections
<1>5. LocksOwned
  BY Roles DEF Init, LocksOwned, Reading, Writing, Closing
<1> QED
  BY <1>1, <1>2, <1>3, <1>4, <1>5 DEF IInv

\* Whatever the goroutines and their order, the invariant of the cache holds.
THEOREM Invariance == Spec => []IInv
<1>1. IInv /\ [Next]_vars => IInv'
  BY TypeNext, CacheNext, RefreshNext, LocksNext DEF IInv
<1> QED
  BY InitInvariant, <1>1, PTL DEF Spec

\* The refresh channel stays within its capacity, and a goroutine that holds or
\* awaits a lock is one that exists.
THEOREM TypeCorrect == Spec => []TypeOK
<1>1. IInv => TypeOK
  BY DEF IInv
<1> QED
  BY Invariance, <1>1, PTL

\* ProbeSocket.Refresh: two refreshes of a socket never overlap, and the flag
\* that one sets is cleared by the same one, on every path out.
THEOREM RefreshesNeverOverlap == Spec => []RefreshFlagOwned
<1>1. IInv => RefreshFlagOwned
  BY DEF IInv
<1> QED
  BY Invariance, <1>1, PTL

\* Cache.Set, Cache.Remove and Shutdown: until the shutdown empties the cache it
\* holds every connected socket, and never one that has been removed.
THEOREM CacheHoldsConnections == Spec => []CacheMatchesConnections
<1>1. IInv => CacheMatchesConnections
  BY DEF IInv
<1> QED
  BY Invariance, <1>1, PTL

\* RWMutex and Mutex: each lock is held, or awaited, exactly by the goroutines that are
\* in the code that gives it back, and nobody waits to read at a free lock.
THEOREM LocksGivenBack == Spec => []LocksOwned
<1>1. IInv => LocksOwned
  BY DEF IInv
<1> QED
  BY Invariance, <1>1, PTL

\* UpdateProbe and OnDisconnection take the two locks in opposite orders: that is
\* the one way in which a goroutine that holds the read lock is held up by another.
THEOREM OnlyLockOrderBlocks == Spec => []OnlyLockOrder
<1>1. IInv => OnlyLockOrder
  BY ReadersGetOn DEF IInv
<1> QED
  BY Invariance, <1>1, PTL
=============================================================================
