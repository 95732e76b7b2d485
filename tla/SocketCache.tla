---------------------------- MODULE SocketCache ----------------------------
(***************************************************************************)
(* The websockets of one server instance (pkg/api/sockets): the cache of   *)
(* connected probes behind a sync.RWMutex, the sync.Mutex of each socket,  *)
(* and the goroutines that take them: connection and disconnection         *)
(* handlers, consumers of events, refreshQueue, refreshLoop and the        *)
(* refreshes it spawns, and Shutdown.                                      *)
(*                                                                         *)
(* A critical section that takes no second lock is one step, enabled when  *)
(* the lock is free.  What is held while another lock is awaited is state. *)
(***************************************************************************)
EXTENDS Naturals, Sequences, FiniteSets

CONSTANTS
    Sockets,    \* connections of this instance
    Probes,     \* the probes they belong to
    ProbeOf,
    Updates,    \* goroutines that handle a Probe.updated event
    Emitters,   \* goroutines that handle an Endpoint event for one socket
    Requests,   \* goroutines that handle a ProbeSession event
    Workers,    \* slots of refreshLoop's limiter
    Queue, Loop, Stopper,   \* refreshQueue, refreshLoop, Shutdown
    QueueCap,   \* capacity of refreshChan
    None

ASSUME CacheAssumption ==
    /\ ProbeOf \in [Sockets -> Probes]
    /\ QueueCap \in Nat \ {0}
    /\ None \notin Sockets \cup Updates \cup Emitters \cup Requests \cup Workers
                     \cup {Queue, Loop, Stopper}
    /\ (Workers \cup {Queue, Loop, Stopper}) \cap
         (Sockets \cup Updates \cup Emitters \cup Requests) = {}
    /\ Sockets \cap (Updates \cup Emitters \cup Requests) = {}
    /\ Updates \cap Emitters = {} /\ Requests \cap (Updates \cup Emitters) = {}
    /\ Stopper \notin Workers \cup {Queue, Loop}
    /\ Queue # Loop /\ Workers \cap {Queue, Loop} = {}

Singles == {Queue, Loop, Stopper}
Refreshers == Workers \cup {Queue}
Procs == Sockets \cup Updates \cup Emitters \cup Requests \cup Workers \cup Singles

VARIABLES
    cached,      \* keys of Cache.Sockets
    readers,     \* holders of the cache's read lock
    waiting,     \* goroutines blocked in RLock
    writer,      \* the goroutine in Lock: it keeps new readers out
    mutex,       \* holder of each socket's mutex
    closed,      \* ProbeSocket.closed
    refreshing,  \* ProbeSocket.refreshing
    pc,          \* where each goroutine is
    todo,        \* sockets it has collected and not visited yet
    cur,         \* the socket it is visiting
    refreshChan, \* Cache.refreshChan
    buffer       \* ids that refreshQueue collects between two ticks

vars == <<cached, readers, waiting, writer, mutex, closed, refreshing, pc,
          todo, cur, refreshChan, buffer>>
cacheLock == <<readers, waiting, writer>>
requests == <<refreshChan, buffer>>
flags == <<closed, refreshing>>

SocketPcs == {"new", "setting", "ready", "binding", "up", "leaked",
              "closing", "removing", "deleting", "gone"}
OtherPcs == {"idle", "lookup", "collect", "visit", "spawn", "try", "read", "send",
             "clear", "emit", "signal", "lock", "remove", "done"}

TypeOK ==
    /\ cached \subseteq Sockets
    /\ readers \subseteq Procs /\ waiting \subseteq Procs
    /\ writer \in Procs \cup {None}
    /\ mutex \in [Sockets -> Procs \cup {None}]
    /\ closed \in [Sockets -> BOOLEAN] /\ refreshing \in [Sockets -> BOOLEAN]
    /\ pc \in [Procs -> SocketPcs \cup OtherPcs]
    /\ todo \in [Procs -> SUBSET Sockets]
    /\ cur \in [Procs -> Sockets \cup {None}]
    /\ refreshChan \in Seq(Probes) /\ Len(refreshChan) <= QueueCap
    /\ buffer \subseteq Probes

Goto(g, l) == pc' = [pc EXCEPT ![g] = l]
Free(s) == mutex[s] = None
SocketsOf(p) == {s \in cached : ProbeOf[s] = p}

-----------------------------------------------------------------------------
(* sync.RWMutex: a goroutine in Lock shuts out later readers, waits for    *)
(* the present ones, and lets the blocked ones in when it unlocks.         *)

RLock(g) ==
    /\ IF writer = None
       THEN readers' = readers \cup {g} /\ UNCHANGED waiting
       ELSE waiting' = waiting \cup {g} /\ UNCHANGED readers
    /\ UNCHANGED writer
RUnlock(g) == readers' = readers \ {g} /\ UNCHANGED <<waiting, writer>>

Lock(g) == writer = None /\ writer' = g /\ UNCHANGED <<readers, waiting>>
MayWrite(g) == writer = g /\ readers = {}
Unlock == writer' = None /\ readers' = waiting /\ waiting' = {}

-----------------------------------------------------------------------------
(* The goroutine of a socket.                                              *)

\* Start: Set, then EmitReady; when that fails the handlers are not bound.
Connect(s) ==
    /\ pc[s] = "new"
    /\ Lock(s)
    /\ Goto(s, "setting")
    /\ UNCHANGED <<cached, mutex, flags, todo, cur, requests>>

Set(s) ==
    /\ pc[s] = "setting"
    /\ MayWrite(s)
    /\ cached' = cached \cup {s}
    /\ Unlock
    /\ Goto(s, "ready")
    /\ UNCHANGED <<mutex, flags, todo, cur, requests>>

EmitReady(s) ==
    /\ pc[s] = "ready"
    /\ Free(s)
    /\ Goto(s, "binding") \/ Goto(s, "leaked")
    /\ UNCHANGED <<cached, cacheLock, mutex, flags, todo, cur, requests>>

\* AddProbeSession, whatever its outcome, then the heartbeats.
AddSession(s) ==
    /\ pc[s] = "binding"
    /\ Goto(s, "up")
    /\ UNCHANGED <<cached, cacheLock, mutex, flags, todo, cur, requests>>

\* Mutant: the handler leaves the socket in the cache.
DisconnectStayCached(s) ==
    /\ pc[s] = "up"
    /\ Free(s)
    /\ mutex' = [mutex EXCEPT ![s] = s]
    /\ closed' = [closed EXCEPT ![s] = TRUE]
    /\ Goto(s, "deleting")
    /\ UNCHANGED <<cached, cacheLock, refreshing, todo, cur, requests>>

\* OnDisconnection keeps the socket's mutex through the cache's lock and the
\* database.
Disconnect(s) ==
    /\ pc[s] = "up"
    /\ Free(s)
    /\ mutex' = [mutex EXCEPT ![s] = s]
    /\ closed' = [closed EXCEPT ![s] = TRUE]
    /\ Goto(s, "closing")
    /\ UNCHANGED <<cached, cacheLock, refreshing, todo, cur, requests>>

RemoveLock(s) ==
    /\ pc[s] = "closing"
    /\ Lock(s)
    /\ Goto(s, "removing")
    /\ UNCHANGED <<cached, mutex, flags, todo, cur, requests>>

Remove(s) ==
    /\ pc[s] = "removing"
    /\ MayWrite(s)
    /\ cached' = cached \ {s}
    /\ Unlock
    /\ Goto(s, "deleting")
    /\ UNCHANGED <<mutex, flags, todo, cur, requests>>

\* DeleteProbeSession, then the deferred Unlock.
DeleteSession(s) ==
    /\ pc[s] = "deleting"
    /\ mutex' = [mutex EXCEPT ![s] = None]
    /\ Goto(s, "gone")
    /\ UNCHANGED <<cached, cacheLock, flags, todo, cur, requests>>

-----------------------------------------------------------------------------
(* Consumers of events.                                                    *)

\* UpdateProbe: EmitReady on every socket of the probe under the read lock.
UpdateProbe(u) ==
    /\ pc[u] = "idle"
    /\ RLock(u)
    /\ Goto(u, "lookup")
    /\ UNCHANGED <<cached, mutex, flags, todo, cur, requests>>

UpdateCollect(u) ==
    /\ pc[u] = "lookup"
    /\ u \in readers
    /\ \E p \in Probes : todo' = [todo EXCEPT ![u] = SocketsOf(p)]
    /\ Goto(u, "emit")
    /\ UNCHANGED <<cached, cacheLock, mutex, flags, cur, requests>>

UpdateEmit(u, s) ==
    /\ pc[u] = "emit"
    /\ s \in todo[u]
    /\ Free(s)
    /\ todo' = [todo EXCEPT ![u] = @ \ {s}]
    /\ UNCHANGED <<cached, cacheLock, mutex, flags, pc, cur, requests>>

UpdateReturn(u) ==
    /\ pc[u] = "emit"
    /\ todo[u] = {}
    /\ RUnlock(u)
    /\ Goto(u, "done")
    /\ UNCHANGED <<cached, mutex, flags, todo, cur, requests>>

\* Cache.Emit: look the socket up, then emit without the cache's lock.
Emit(e) ==
    /\ pc[e] = "idle"
    /\ RLock(e)
    /\ Goto(e, "lookup")
    /\ UNCHANGED <<cached, mutex, flags, todo, cur, requests>>

Lookup(e) ==
    /\ pc[e] = "lookup"
    /\ e \in readers
    /\ RUnlock(e)
    /\ \/ \E s \in cached : Goto(e, "emit") /\ cur' = [cur EXCEPT ![e] = s]
       \/ cached # Sockets /\ Goto(e, "done") /\ UNCHANGED cur
    /\ UNCHANGED <<cached, mutex, flags, todo, requests>>

EmitOut(e) ==
    /\ pc[e] = "emit"
    /\ Free(cur[e])
    /\ Goto(e, "done")
    /\ cur' = [cur EXCEPT ![e] = None]
    /\ UNCHANGED <<cached, cacheLock, mutex, flags, todo, requests>>

\* Mutant: the channel grows without bound.
RequestUnbounded(r) ==
    /\ pc[r] = "idle"
    /\ \E p \in Probes : refreshChan' = Append(refreshChan, p)
    /\ Goto(r, "done")
    /\ UNCHANGED <<cached, cacheLock, mutex, flags, todo, cur, buffer>>

\* Cache.Refresh: blocks while refreshChan is full.
Request(r) ==
    /\ pc[r] = "idle"
    /\ Len(refreshChan) < QueueCap
    /\ \E p \in Probes : refreshChan' = Append(refreshChan, p)
    /\ Goto(r, "done")
    /\ UNCHANGED <<cached, cacheLock, mutex, flags, todo, cur, buffer>>

-----------------------------------------------------------------------------
(* ProbeSocket.Refresh of cur[g], by refreshQueue, which then visits its   *)
(* next socket, or by a worker, which ends.                                *)

Return(g) ==
    /\ Goto(g, IF g = Queue THEN "visit" ELSE "idle")
    /\ cur' = [cur EXCEPT ![g] = None]

\* Mutant: a running refresh is not looked at.
TryRefreshAlways(g) ==
    LET s == cur[g] IN
    /\ pc[g] = "try"
    /\ Free(s)
    /\ \/ closed[s] /\ Return(g) /\ UNCHANGED refreshing
       \/ /\ ~closed[s]
          /\ refreshing' = [refreshing EXCEPT ![s] = TRUE]
          /\ Goto(g, "read")
          /\ UNCHANGED cur
    /\ UNCHANGED <<cached, cacheLock, mutex, closed, todo, requests>>

\* Nothing on a closed socket; ignored while another refresh is running.
TryRefresh(g) ==
    LET s == cur[g] IN
    /\ pc[g] = "try"
    /\ Free(s)
    /\ \/ /\ closed[s] \/ refreshing[s]
          /\ Return(g)
          /\ UNCHANGED refreshing
       \/ /\ ~closed[s] /\ ~refreshing[s]
          /\ refreshing' = [refreshing EXCEPT ![s] = TRUE]
          /\ Goto(g, "read")
          /\ UNCHANGED cur
    /\ UNCHANGED <<cached, cacheLock, mutex, closed, todo, requests>>

\* Sessions and checks are read without a lock; an error or no session ends it.
ReadChecks(g) ==
    /\ pc[g] = "read"
    /\ Goto(g, "send") \/ Goto(g, "clear")
    /\ UNCHANGED <<cached, cacheLock, mutex, flags, todo, cur, requests>>

SendRefresh(g) ==
    /\ pc[g] = "send"
    /\ Free(cur[g])
    /\ Goto(g, "clear")
    /\ UNCHANGED <<cached, cacheLock, mutex, flags, todo, cur, requests>>

ClearRefresh(g) ==
    /\ pc[g] = "clear"
    /\ Free(cur[g])
    /\ refreshing' = [refreshing EXCEPT ![cur[g]] = FALSE]
    /\ Return(g)
    /\ UNCHANGED <<cached, cacheLock, mutex, closed, todo, requests>>

-----------------------------------------------------------------------------
(* refreshQueue: "idle" is its select.                                     *)

QueueReceive ==
    /\ pc[Queue] = "idle"
    /\ refreshChan # <<>>
    /\ buffer' = buffer \cup {Head(refreshChan)}
    /\ refreshChan' = Tail(refreshChan)
    /\ UNCHANGED <<cached, cacheLock, mutex, flags, pc, todo, cur>>

\* A tick goes through the buffered ids, once each.
QueueTick ==
    /\ pc[Queue] \in {"idle", "visit"}
    /\ todo[Queue] = {}
    /\ \/ /\ buffer # {}
          /\ RLock(Queue)
          /\ Goto(Queue, "collect")
       \/ /\ pc[Queue] = "visit" /\ buffer = {}
          /\ Goto(Queue, "idle")
          /\ UNCHANGED cacheLock
    /\ UNCHANGED <<cached, mutex, flags, todo, cur, requests>>

\* Mutant: the buffer is not emptied after a tick.
QueueCollectKeep ==
    /\ pc[Queue] = "collect"
    /\ Queue \in readers
    /\ RUnlock(Queue)
    /\ \E p \in buffer : todo' = [todo EXCEPT ![Queue] = SocketsOf(p)]
    /\ Goto(Queue, "visit")
    /\ UNCHANGED <<cached, mutex, flags, cur, requests>>

QueueCollect ==
    /\ pc[Queue] = "collect"
    /\ Queue \in readers
    /\ RUnlock(Queue)
    /\ \E p \in buffer :
         /\ todo' = [todo EXCEPT ![Queue] = SocketsOf(p)]
         /\ buffer' = buffer \ {p}
    /\ Goto(Queue, "visit")
    /\ UNCHANGED <<cached, mutex, flags, cur, refreshChan>>

QueueVisit(s) ==
    /\ pc[Queue] = "visit"
    /\ s \in todo[Queue]
    /\ todo' = [todo EXCEPT ![Queue] = @ \ {s}]
    /\ cur' = [cur EXCEPT ![Queue] = s]
    /\ Goto(Queue, "try")
    /\ UNCHANGED <<cached, cacheLock, mutex, flags, requests>>

-----------------------------------------------------------------------------
(* refreshLoop.                                                            *)

LoopTick ==
    /\ pc[Loop] = "idle"
    /\ RLock(Loop)
    /\ Goto(Loop, "collect")
    /\ UNCHANGED <<cached, mutex, flags, todo, cur, requests>>

\* Mutant: the read lock is not given back.
LoopCollectLocked ==
    /\ pc[Loop] = "collect"
    /\ Loop \in readers
    /\ todo' = [todo EXCEPT ![Loop] = cached]
    /\ Goto(Loop, "visit")
    /\ UNCHANGED <<cached, cacheLock, mutex, flags, cur, requests>>

LoopCollect ==
    /\ pc[Loop] = "collect"
    /\ Loop \in readers
    /\ RUnlock(Loop)
    /\ todo' = [todo EXCEPT ![Loop] = cached]
    /\ Goto(Loop, "visit")
    /\ UNCHANGED <<cached, mutex, flags, cur, requests>>

\* LastRefresh, and a refresh when it is long ago.
LoopVisit(s) ==
    /\ pc[Loop] = "visit"
    /\ s \in todo[Loop]
    /\ Free(s)
    /\ todo' = [todo EXCEPT ![Loop] = @ \ {s}]
    /\ \/ UNCHANGED <<pc, cur>>
       \/ Goto(Loop, "spawn") /\ cur' = [cur EXCEPT ![Loop] = s]
    /\ UNCHANGED <<cached, cacheLock, mutex, flags, requests>>

\* The limiter blocks while every worker is busy.
LoopSpawn(w) ==
    /\ pc[Loop] = "spawn"
    /\ pc[w] = "idle"
    /\ pc' = [pc EXCEPT ![Loop] = "visit", ![w] = "try"]
    /\ cur' = [cur EXCEPT ![w] = cur[Loop], ![Loop] = None]
    /\ UNCHANGED <<cached, cacheLock, mutex, flags, todo, requests>>

LoopEnd ==
    /\ pc[Loop] = "visit"
    /\ todo[Loop] = {}
    /\ Goto(Loop, "idle")
    /\ UNCHANGED <<cached, cacheLock, mutex, flags, todo, cur, requests>>

-----------------------------------------------------------------------------
(* Shutdown.                                                               *)

Signal ==
    /\ pc[Stopper] = "idle"
    /\ Goto(Stopper, "signal")
    /\ UNCHANGED <<cached, cacheLock, mutex, flags, todo, cur, requests>>

\* The one value sent on done stops whichever loop receives it.
SendDone(g) ==
    /\ pc[Stopper] = "signal"
    /\ g \in {Queue, Loop} /\ pc[g] = "idle"
    /\ pc' = [pc EXCEPT ![Stopper] = "lock", ![g] = "done"]
    /\ UNCHANGED <<cached, cacheLock, mutex, flags, todo, cur, requests>>

\* Mutant: the write lock is awaited with the read lock in hand.
ShutdownUpgrade ==
    /\ pc[Stopper] = "lock"
    /\ writer = None
    /\ writer' = Stopper
    /\ readers' = readers \cup {Stopper}
    /\ Goto(Stopper, "collect")
    /\ UNCHANGED <<cached, waiting, mutex, flags, todo, cur, requests>>

ShutdownLock ==
    /\ pc[Stopper] = "lock"
    /\ Lock(Stopper)
    /\ Goto(Stopper, "collect")
    /\ UNCHANGED <<cached, mutex, flags, todo, cur, requests>>

ShutdownCollect ==
    /\ pc[Stopper] = "collect"
    /\ MayWrite(Stopper)
    /\ todo' = [todo EXCEPT ![Stopper] = cached]
    /\ cached' = {}
    /\ Unlock
    /\ Goto(Stopper, "remove")
    /\ UNCHANGED <<mutex, flags, cur, requests>>

\* ProbeSocket.Remove deletes the session; it takes no lock.
ShutdownRemove ==
    /\ pc[Stopper] = "remove"
    /\ \/ \E s \in todo[Stopper] :
            /\ todo' = [todo EXCEPT ![Stopper] = @ \ {s}]
            /\ UNCHANGED pc
       \/ /\ todo[Stopper] = {}
          /\ Goto(Stopper, "done")
          /\ UNCHANGED todo
    /\ UNCHANGED <<cached, cacheLock, mutex, flags, cur, requests>>

-----------------------------------------------------------------------------
Init ==
    /\ cached = {} /\ readers = {} /\ waiting = {} /\ writer = None
    /\ mutex = [s \in Sockets |-> None]
    /\ closed = [s \in Sockets |-> FALSE]
    /\ refreshing = [s \in Sockets |-> FALSE]
    /\ pc = [g \in Procs |-> IF g \in Sockets THEN "new" ELSE "idle"]
    /\ todo = [g \in Procs |-> {}]
    /\ cur = [g \in Procs |-> None]
    /\ refreshChan = <<>> /\ buffer = {}

\* What the outside world decides: connections, disconnections, events, signals.
Arrival ==
    \/ \E s \in Sockets : Connect(s) \/ Disconnect(s)
    \/ \E u \in Updates : UpdateProbe(u)
    \/ \E e \in Emitters : Emit(e)
    \/ \E r \in Requests : Request(r)
    \/ Signal

SocketStep(s) ==
    \/ Set(s) \/ EmitReady(s) \/ AddSession(s)
    \/ RemoveLock(s) \/ Remove(s) \/ DeleteSession(s)
UpdateStep(u) ==
    UpdateCollect(u) \/ (\E s \in Sockets : UpdateEmit(u, s)) \/ UpdateReturn(u)
EmitStep(e) == Lookup(e) \/ EmitOut(e)
RefreshStep(g) ==
    TryRefresh(g) \/ ReadChecks(g) \/ SendRefresh(g) \/ ClearRefresh(g)
QueueStep ==
    \/ QueueReceive \/ QueueTick \/ QueueCollect
    \/ \E s \in Sockets : QueueVisit(s)
LoopStep ==
    \/ LoopTick \/ LoopCollect \/ LoopEnd
    \/ \E s \in Sockets : LoopVisit(s)
    \/ \E w \in Workers : LoopSpawn(w)
StopperStep == ShutdownLock \/ ShutdownCollect \/ ShutdownRemove
Stopping == \E g \in {Queue, Loop} : SendDone(g)

Next ==
    \/ Arrival
    \/ \E s \in Sockets : SocketStep(s)
    \/ \E u \in Updates : UpdateStep(u)
    \/ \E e \in Emitters : EmitStep(e)
    \/ \E g \in Refreshers : RefreshStep(g)
    \/ QueueStep \/ LoopStep \/ StopperStep \/ Stopping

Spec == Init /\ [][Next]_vars

\* A goroutine that can go on does; arrivals are up to the world.  A select
\* picks among its ready cases at random, so a sender on done is not passed
\* over for ever.
Fairness ==
    /\ \A s \in Sockets : WF_vars(SocketStep(s))
    /\ \A u \in Updates : WF_vars(UpdateStep(u))
    /\ \A e \in Emitters : WF_vars(EmitStep(e))
    /\ \A g \in Refreshers : WF_vars(RefreshStep(g))
    /\ WF_vars(QueueStep) /\ WF_vars(LoopStep) /\ WF_vars(StopperStep)
    /\ SF_vars(Stopping)

FairSpec == Spec /\ Fairness

-----------------------------------------------------------------------------
(* Properties.                                                             *)

InRefresh(g, s) == cur[g] = s /\ pc[g] \in {"read", "send", "clear"}

\* The refreshing flag is up exactly while one refresh runs: two never overlap
\* on a socket, and none leaves the flag behind, which would end its refreshes.
RefreshFlagOwned ==
    \A s \in Sockets :
        /\ refreshing[s] <=> \E g \in Refreshers : InRefresh(g, s)
        /\ \A g, h \in Refreshers : InRefresh(g, s) /\ InRefresh(h, s) => g = h

\* Until the shutdown empties it, the cache holds the sockets between Set and
\* Remove, neither one that is gone nor all but one that is connected.
CacheMatchesConnections ==
    /\ \A s \in cached : pc[s] \notin {"new", "setting", "deleting", "gone"}
    /\ pc[Stopper] \in {"idle", "signal", "lock", "collect"} =>
         \A s \in Sockets :
            pc[s] \notin {"new", "setting", "deleting", "gone"} => s \in cached

\* The invariant by which these are proved: the goroutine of a socket and
\* Shutdown keep to their own code.
OwnCode ==
    /\ \A s \in Sockets : pc[s] \in SocketPcs
    /\ pc[Stopper] \in {"idle", "signal", "lock", "collect", "remove", "done"}

\* Between RLock and RUnlock, between Lock and Unlock, and with a mutex.
Reading(g) ==
    \/ g \in Updates /\ pc[g] \in {"lookup", "emit"}
    \/ g \in Emitters /\ pc[g] = "lookup"
    \/ g \in {Queue, Loop} /\ pc[g] = "collect"
Writing(g) ==
    \/ g \in Sockets /\ pc[g] \in {"setting", "removing"}
    \/ g = Stopper /\ pc[g] = "collect"
Closing(s) == pc[s] \in {"closing", "removing", "deleting"}

\* No lock is left behind and no wake-up is lost: each is held, or awaited, exactly
\* by those who are in the code that gives it back; nobody waits to read but
\* behind a writer.
LocksOwned ==
    /\ \A g \in Procs : g \in readers \cup waiting <=> Reading(g)
    /\ \A g \in waiting : g \notin readers /\ pc[g] # "emit"
    /\ waiting # {} => writer # None
    /\ \A g \in Procs : writer = g <=> Writing(g)
    /\ \A s \in Sockets : mutex[s] = IF Closing(s) THEN s ELSE None

IInv ==
    /\ TypeOK /\ OwnCode /\ RefreshFlagOwned /\ CacheMatchesConnections
    /\ LocksOwned

\* Whoever holds the read lock, which a writer and all behind it wait for, can take
\* its next step, but for a goroutine of UpdateProbe whose sockets are all being
\* closed.
GetsOn(g) ==
    \/ pc[g] \in {"lookup", "collect"}
    \/ pc[g] = "emit" /\ (todo[g] = {} \/ \E s \in todo[g] : Free(s))
OnlyLockOrder ==
    \A g \in readers :
        GetsOn(g) \/ (g \in Updates /\ todo[g] # {} /\ \A s \in todo[g] : Closing(s))

\* A closed socket's probe is removed and its session deleted in the end.
DisconnectCompletes ==
    \A s \in Sockets : pc[s] = "closing" ~> pc[s] = "gone"

\* A requested refresh is started on the sockets of the probe, unless the
\* shutdown ends refreshQueue first.
Asked(p) == p \in buffer \/ \E i \in DOMAIN refreshChan : refreshChan[i] = p
RequestsServed ==
    \A p \in Probes : Asked(p) ~> ~Asked(p) \/ pc[Queue] = "done"

\* A shutdown gets past both loops and the cache's lock and removes every
\* session, whatever the other goroutines are doing.
ShutdownCompletes == pc[Stopper] = "signal" ~> pc[Stopper] = "done"
=============================================================================
