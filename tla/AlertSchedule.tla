--------------------------- MODULE AlertSchedule ---------------------------
(***************************************************************************)
(* The clock of the alerting: dispatchJobs asks for the checks of second   *)
(* after second, each when it is offset seconds old, and queues their jobs *)
(* until an executor, or the producer to Kafka, takes them.  The offset is *)
(* read again every minute by a goroutine that hands it over when it can.  *)
(*                                                                         *)
(* One server; what others do to the stored offset is what operators do.   *)
(* What becomes of a job in Kafka and after it is in AlertPipeline.        *)
(***************************************************************************)
EXTENDS Integers, Sequences, FiniteSets, SequencesExt

CONSTANTS
    Checks,          \* checks that are enabled and have health settings
    Frequency, OffsetOf, \* of each check: it is due at frequency * k + offset
    Offsets,         \* offsets that an operator may store
    Default,         \* 30 seconds
    Loaders,         \* goroutines that read the offset, as many as overlap
    QueueSize,       \* internal_jobqueue_size
    None, Garbled,   \* no tick, no offset stored; one that is not a number
    Now,             \* when the model starts
    MaxTime,         \* bound: the clock then stands still, but ticks
    MaxChanges,      \* bound: changes of the stored offset
    MaxFaults        \* bound: failing queries and crashes

ASSUME ScheduleAssumption ==
    /\ Frequency \in [Checks -> Nat \ {0}] /\ OffsetOf \in [Checks -> Nat]
    /\ Default \in Offsets /\ Offsets \subseteq Nat
    /\ QueueSize \in Nat \ {0}
    /\ {None, Garbled} \cap Int = {} /\ None # Garbled
    /\ {MaxTime, MaxChanges, MaxFaults} \subseteq Nat
    /\ Now \in 0 .. MaxTime /\ \A o \in Offsets : o <= Now

VARIABLES
    distributed, \* how the server is configured
    up,
    clock,
    tick,     \* ticker.C: one tick, later ones are dropped
    pc,       \* where dispatchJobs is
    last,     \* lastPointAt, while the loop runs
    next,
    todo,     \* checks of second next - 1 that are not queued yet
    offset,
    stored,   \* alert_scheduler_value
    loader,
    queue,    \* jobsIn
    sending,  \* goroutines in sendMessage
    changes, faults,
    start,    \* history: the first second since the server started
    lost,     \* history: seconds whose query has failed since
    handed    \* history: the points of each check that left the queue

dispatcher == <<pc, last, next, todo>>
history == <<start, lost, handed>>
vars == <<distributed, up, clock, tick, dispatcher, offset, stored, loader,
          queue, sending, changes, faults, history>>

Jobs == [check : Checks, point : Int]
Idle == [pc |-> "idle", value |-> Default]
NoJobs == [c \in Checks |-> <<>>]

TypeOK ==
    /\ distributed \in BOOLEAN /\ up \in BOOLEAN
    /\ clock \in Now .. MaxTime
    /\ tick \in (Now .. MaxTime) \cup {None}
    /\ pc \in {"select", "loop", "queue"}
    /\ last \in Now .. MaxTime
    /\ next \in 0 .. MaxTime + 1
    /\ todo \subseteq Checks
    /\ offset \in Offsets
    /\ stored \in Offsets \cup {None, Garbled}
    /\ loader \in [Loaders -> [pc : {"idle", "load", "compare", "send"},
                               value : Offsets]]
    /\ queue \in Seq(Jobs) /\ Len(queue) <= QueueSize
    /\ sending \subseteq Jobs
    /\ changes \in 0 .. MaxChanges /\ faults \in 0 .. MaxFaults
    /\ start \in 0 .. MaxTime /\ start <= next /\ lost \subseteq start .. next - 1
    /\ handed \in [Checks -> Seq(Int)]

Fault == faults < MaxFaults /\ faults' = faults + 1

-----------------------------------------------------------------------------
(* The offset.                                                             *)

\* LoadOrSetOffset returns v: the default when the query fails, and when
\* nothing is stored yet, which is then put right unless that fails.
LoadOrSetOffset(v) ==
    \/ /\ stored = v
       /\ UNCHANGED <<stored, faults>>
    \/ /\ stored = None /\ v = Default
       /\ stored' = Default
       /\ UNCHANGED faults
    \/ /\ Fault /\ v = Default
       /\ UNCHANGED stored

\* An operator, or another server, changes the row.
ChangeOffset(v) ==
    /\ changes < MaxChanges
    /\ v # stored
    /\ stored' = v
    /\ changes' = changes + 1
    /\ UNCHANGED <<distributed, up, clock, tick, dispatcher, offset, loader,
                   queue, sending, faults, history>>

\* case <-offsetTicker.C
SpawnLoader(l) ==
    /\ up /\ pc = "select"
    /\ loader[l].pc = "idle"
    /\ loader' = [loader EXCEPT ![l].pc = "load"]
    /\ UNCHANGED <<distributed, up, clock, tick, dispatcher, offset, stored,
                   queue, sending, changes, faults, history>>

Load(l) ==
    /\ loader[l].pc = "load"
    /\ \E v \in Offsets :
         /\ LoadOrSetOffset(v)
         /\ loader' = [loader EXCEPT ![l] = [pc |-> "compare", value |-> v]]
    /\ UNCHANGED <<distributed, up, clock, tick, dispatcher, offset, queue,
                   sending, changes, history>>

\* Mutant: the default is not passed on.
CompareWithDefault(l) ==
    /\ loader[l].pc = "compare"
    /\ loader' = [loader EXCEPT ![l] =
                    IF @.value # Default THEN [@ EXCEPT !.pc = "send"] ELSE Idle]
    /\ UNCHANGED <<distributed, up, clock, tick, dispatcher, offset, stored,
                   queue, sending, changes, faults, history>>

\* The variable is read while dispatchJobs may be writing it.
Compare(l) ==
    /\ loader[l].pc = "compare"
    /\ loader' = [loader EXCEPT ![l] =
                    IF @.value # offset THEN [@ EXCEPT !.pc = "send"] ELSE Idle]
    /\ UNCHANGED <<distributed, up, clock, tick, dispatcher, offset, stored,
                   queue, sending, changes, faults, history>>

\* Mutant: the schedule starts anew from the new offset.
ReceiveOffsetAnew(l) ==
    /\ up /\ pc = "select"
    /\ loader[l].pc = "send"
    /\ offset' = loader[l].value
    /\ next' = clock - offset'
    /\ loader' = [loader EXCEPT ![l] = Idle]
    /\ UNCHANGED <<distributed, up, clock, tick, pc, last, todo, stored, queue,
                   sending, changes, faults, history>>

\* case newOffset := <-newOffsetChan
ReceiveOffset(l) ==
    /\ up /\ pc = "select"
    /\ loader[l].pc = "send"
    /\ offset' = loader[l].value
    /\ loader' = [loader EXCEPT ![l] = Idle]
    /\ UNCHANGED <<distributed, up, clock, tick, dispatcher, stored, queue,
                   sending, changes, faults, history>>

-----------------------------------------------------------------------------
(* Ticks and the seconds that are due.                                     *)

Tick ==
    /\ clock' = IF clock < MaxTime THEN clock + 1 ELSE clock
    /\ tick' = IF up /\ tick = None THEN clock' ELSE tick
    /\ UNCHANGED <<distributed, up, dispatcher, offset, stored, loader, queue,
                   sending, changes, faults, history>>

\* case lastPointAt := <-ticker.C
ReceiveTick ==
    /\ up /\ pc = "select"
    /\ tick # None
    /\ last' = tick
    /\ tick' = None
    /\ pc' = "loop"
    /\ UNCHANGED <<distributed, up, clock, next, todo, offset, stored, loader,
                   queue, sending, changes, faults, history>>

\* Mutant: the second that is exactly as old as the offset is not due.
DueStrictly(second) == second < last - offset

Due(second) == second <= last - offset

\* getChecksForAlerts.
ChecksAt(second) == {c \in Checks : second % Frequency[c] = OffsetOf[c]}

GetJobs ==
    /\ up /\ pc = "loop"
    /\ Due(next)
    /\ next' = next + 1
    /\ todo' = ChecksAt(next)
    /\ pc' = IF todo' = {} THEN "loop" ELSE "queue"
    /\ UNCHANGED <<distributed, up, clock, tick, last, offset, stored, loader,
                   queue, sending, changes, faults, history>>

\* continue: the second is left out.
GetJobsFails ==
    /\ up /\ pc = "loop"
    /\ Due(next)
    /\ Fault
    /\ next' = next + 1
    /\ lost' = lost \cup {next}
    /\ UNCHANGED <<distributed, up, clock, tick, pc, last, todo, offset, stored,
                   loader, queue, sending, changes, start, handed>>

\* The loop ends, for this tick.
AllScheduled ==
    /\ up /\ pc = "loop"
    /\ ~Due(next)
    /\ pc' = "select" /\ last' = Now
    /\ UNCHANGED <<distributed, up, clock, tick, next, todo, offset, stored,
                   loader, queue, sending, changes, faults, history>>

\* Mutant: next has gone on, and the job says so.
QueueJobNext(c) ==
    /\ up /\ pc = "queue"
    /\ c \in todo
    /\ Len(queue) < QueueSize
    /\ queue' = Append(queue, [check |-> c, point |-> next])
    /\ todo' = todo \ {c}
    /\ pc' = IF todo' = {} THEN "loop" ELSE "queue"
    /\ UNCHANGED <<distributed, up, clock, tick, last, next, offset, stored,
                   loader, sending, changes, faults, history>>

\* Mutant: the queue has no bound.
QueueJobUnblocked(c) ==
    /\ up /\ pc = "queue"
    /\ c \in todo
    /\ queue' = Append(queue, [check |-> c, point |-> next - 1])
    /\ todo' = todo \ {c}
    /\ pc' = IF todo' = {} THEN "loop" ELSE "queue"
    /\ UNCHANGED <<distributed, up, clock, tick, last, next, offset, stored,
                   loader, sending, changes, faults, history>>

\* QueueJob blocks while the channel is full.
QueueJob(c) ==
    /\ up /\ pc = "queue"
    /\ c \in todo
    /\ Len(queue) < QueueSize
    /\ queue' = Append(queue, [check |-> c, point |-> next - 1])
    /\ todo' = todo \ {c}
    /\ pc' = IF todo' = {} THEN "loop" ELSE "queue"
    /\ UNCHANGED <<distributed, up, clock, tick, last, next, offset, stored,
                   loader, sending, changes, faults, history>>

-----------------------------------------------------------------------------
(* Who takes the jobs.                                                     *)

HandOver(j) ==
    handed' = [handed EXCEPT ![j.check] = Append(@, j.point)]

\* ChanExecutor starts a goroutine for every job.
ReceiveJob ==
    /\ up /\ ~distributed
    /\ queue # <<>>
    /\ queue' = Tail(queue)
    /\ HandOver(Head(queue))
    /\ UNCHANGED <<distributed, up, clock, tick, dispatcher, offset, stored,
                   loader, sending, changes, faults, start, lost>>

\* produce starts one that sends it,
Produce ==
    /\ up /\ distributed
    /\ queue # <<>>
    /\ queue' = Tail(queue)
    /\ sending' = sending \cup {Head(queue)}
    /\ UNCHANGED <<distributed, up, clock, tick, dispatcher, offset, stored,
                   loader, changes, faults, history>>

\* as often as it takes: a failure only waits a second.
SendMessage(j) ==
    /\ sending' = sending \ {j}
    /\ HandOver(j)
    /\ UNCHANGED <<distributed, up, clock, tick, dispatcher, offset, stored,
                   loader, queue, changes, faults, start, lost>>

-----------------------------------------------------------------------------
(* Crashes and restarts.                                                   *)

\* Nothing in memory survives.
Stop ==
    /\ up' = FALSE
    /\ tick' = None
    /\ pc' = "select" /\ last' = Now /\ next' = Now /\ todo' = {}
    /\ offset' = Default
    /\ loader' = [l \in Loaders |-> Idle]
    /\ queue' = <<>> /\ sending' = {}
    /\ start' = Now /\ lost' = {} /\ handed' = NoJobs
    /\ UNCHANGED <<distributed, clock, stored, changes>>

Crash == up /\ Fault /\ Stop

\* LoadOrSetOffset panics, in a goroutine: the whole server stops.
Panic(l) ==
    /\ loader[l].pc = "load"
    /\ stored = Garbled
    /\ Stop
    /\ UNCHANGED faults

\* dispatchJobs starts at the second that is due now.
Start ==
    /\ ~up
    /\ up' = TRUE
    /\ \E v \in Offsets : LoadOrSetOffset(v) /\ offset' = v
    /\ next' = clock - offset'
    /\ start' = next'
    /\ UNCHANGED <<distributed, clock, tick, pc, last, todo, loader, queue,
                   sending, changes, lost, handed>>

-----------------------------------------------------------------------------
Init ==
    /\ distributed \in BOOLEAN
    /\ up = FALSE
    /\ clock = Now /\ tick = None
    /\ pc = "select" /\ last = Now /\ next = Now /\ todo = {}
    /\ offset = Default
    /\ stored \in Offsets \cup {None}
    /\ loader = [l \in Loaders |-> Idle]
    /\ queue = <<>> /\ sending = {}
    /\ changes = 0 /\ faults = 0
    /\ start = Now /\ lost = {} /\ handed = NoJobs

Dispatch ==
    \/ ReceiveTick \/ GetJobs \/ GetJobsFails \/ AllScheduled
    \/ \E c \in Checks : QueueJob(c)
Loading(l) == Load(l) \/ Compare(l) \/ Panic(l)
Consume == ReceiveJob \/ Produce \/ \E j \in sending : SendMessage(j)

Next ==
    \/ Tick
    \/ Dispatch
    \/ \E l \in Loaders : SpawnLoader(l) \/ ReceiveOffset(l) \/ Loading(l)
    \/ Consume
    \/ \E v \in Offsets \cup {Garbled} : ChangeOffset(v)
    \/ Crash \/ Start

Spec == Init /\ [][Next]_vars

\* Time goes on, goroutines run, Kafka comes back; select picks at random
\* among the cases that are ready, none of which is passed over for ever.
Fairness ==
    /\ WF_vars(Tick) /\ WF_vars(Dispatch) /\ SF_vars(ReceiveTick)
    /\ WF_vars(ReceiveJob) /\ WF_vars(Produce)
    /\ WF_vars(\E j \in sending : SendMessage(j))
    /\ \A l \in Loaders : /\ WF_vars(Loading(l))
                          /\ SF_vars(SpawnLoader(l)) /\ SF_vars(ReceiveOffset(l))

FairSpec == Spec /\ Fairness

-----------------------------------------------------------------------------
(* Properties.                                                             *)

\* The points of check c that are queued or about to be, or being sent.
OnTheWay(c) ==
    {j.point : j \in {i \in ToSet(queue) \cup sending : i.check = c}}
      \cup (IF c \in todo THEN {next - 1} ELSE {})

\* Whatever ticks are dropped while the queue is full, whatever offsets come
\* and go, late or out of date: since the server has started, each point of a
\* check leaves the queue once or is on its way, and none that was due is
\* missing but for the seconds whose query failed.
EachPointOnce ==
    up => \A c \in Checks :
        /\ IsInjective(handed[c])
        /\ ToSet(handed[c]) \cap OnTheWay(c) = {}
        /\ ToSet(handed[c]) \cup OnTheWay(c) =
             {s \in start .. next - 1 : c \in ChecksAt(s)} \ lost

\* Without Kafka the executor gets the points of a check in their order.
InOrder ==
    ~distributed => \A c \in Checks : \A i, j \in DOMAIN handed[c] :
                        i < j => handed[c][i] < handed[c][j]

\* The invariant by which the two are proved.  What is down has nothing;
Emptied ==
    ~up => todo = {} /\ queue = <<>> /\ sending = {} /\ lost = {} /\ handed = NoJobs
\* jobs are left to queue only where dispatchJobs queues them;
TodoOK == todo # {} => pc = "queue"
\* the queue has the points of a check in their order;
Sorted ==
    \A i, j \in DOMAIN queue :
        i < j /\ queue[i].check = queue[j].check => queue[i].point < queue[j].point
\* a job is in one place;
OnePlace ==
    /\ ToSet(queue) \cap sending = {}
    /\ \A c \in todo : [check |-> c, point |-> next - 1] \notin ToSet(queue) \cup sending
\* and without Kafka what was handed over came before what is in the queue.
Earlier ==
    ~distributed =>
        /\ sending = {}
        /\ \A c \in Checks : \A i \in DOMAIN handed[c], j \in DOMAIN queue :
             queue[j].check = c => handed[c][i] < queue[j].point

IInv ==
    /\ TypeOK /\ Emptied /\ TodoOK /\ Sorted /\ OnePlace
    /\ EachPointOnce /\ Earlier /\ InOrder

\* A scheduler that was held up catches up: again and again all that is due is
\* scheduled and has left the server.
CatchesUp ==
    []<>(up => /\ next > clock - offset
               /\ todo = {} /\ queue = <<>> /\ sending = {})

\* When changes and failures end, the scheduler settles on the stored offset,
\* however many goroutines still hold older ones.
FollowsOffset == <>[](up => offset = stored)
=============================================================================
