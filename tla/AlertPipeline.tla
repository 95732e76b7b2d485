--------------------------- MODULE AlertPipeline ---------------------------
(***************************************************************************)
(* One check on its way through the alerting: schedulers dispatch a job    *)
(* for every point, Kafka brings the jobs to the workers, a goroutine per  *)
(* job asks Graphite and decides on a state, writers record it in the row  *)
(* of the check, and a notification is sent for each recorded change.      *)
(* Meanwhile users save the same row.                                      *)
(*                                                                         *)
(* Jobs are delivered in any order, at least once unless the queue of the  *)
(* worker is full, and run concurrently.  updateCheckState is one step:    *)
(* its first UPDATE locks the row, in both databases, until the end.       *)
(***************************************************************************)
EXTENDS AlertEval, Integers, Bags

CONSTANTS
    Schedulers,   \* servers with enable_scheduler
    Workers,      \* servers with enable_worker
    Writers,      \* their goroutines in storeResults
    WorkerOf,     \* the server of a writer
    CacheSize,    \* executor_lru_size
    QueueSize,    \* capacity of ResultQueue and of stateChanges
    MaxAge,       \* the ten minutes after which a job is too old
    StaleAfter,   \* twice the frequency: state_check is then updated anyway
    LostAfter,    \* three times the frequency: the state then reads unknown
    MaxPoints,    \* bound: points to evaluate
    MaxTime,      \* bound: the clock
    MaxFaults,    \* bound: failures, redeliveries and crashes
    MaxSaves      \* bound: updates by users

ASSUME PipelineAssumption ==
    /\ WorkerOf \in [Writers -> Workers] /\ IsFiniteSet(Writers)
    /\ {CacheSize, QueueSize, MaxPoints} \subseteq Nat \ {0}
    /\ {MaxAge, StaleAfter, LostAfter, MaxTime, MaxFaults, MaxSaves} \subseteq Nat

VARIABLES
    clock,
    next,     \* the point each scheduler dispatches next
    row,      \* the row of the check
    form,     \* the row as a user has read it
    wire,     \* jobs that are published and not yet executed
    seen,     \* LRU of each worker: the points it has executed
    runs,     \* executions that wait for Graphite
    results,  \* ResultQueue of each worker
    writer,   \* what each writer is doing
    changes,  \* stateChanges of each worker
    mails,    \* emails each worker is sending
    faults, saves,
    asked,    \* history: the points each worker has executed since it started
    owed,     \* history: the changes each worker has committed, not yet mailed
    alone     \* history: the job that was dispatched when nothing else ran

vars == <<clock, next, row, form, wire, seen, runs, results, writer,
          changes, mails, faults, saves, asked, owed, alone>>

States == {"ok", "crit", "unknown"}
Times == 0 .. MaxTime
Points == 1 .. MaxPoints
Changes == [state : States, exec : Times]
Rows == [state : States, change : Times, check : Times, enabled : BOOLEAN]
Jobs == [from : Schedulers, point : Points, state : States, check : Times,
         generated : Times]
Runs == [at : Workers, point : Points, state : States, check : Times,
         exec : Times]
NoChange == [state |-> "unknown", exec |-> 0]
Idle == [pc |-> "idle", job |-> NoChange, attempts |-> 0]

TypeOK ==
    /\ clock \in Times
    /\ next \in [Schedulers -> 1 .. MaxPoints + 1]
    /\ row \in Rows /\ form \in Rows
    /\ wire \subseteq Jobs
    /\ seen \in [Workers -> Seq(Points)]
    /\ runs \subseteq Runs
    /\ results \in [Workers -> Seq(Changes)]
    /\ writer \in [Writers -> [pc : {"idle", "save", "notify"},
                               job : Changes, attempts : 0 .. 2]]
    /\ changes \in [Workers -> Seq(Changes)]
    /\ \A w \in Workers : /\ Len(seen[w]) <= CacheSize
                          /\ Len(results[w]) <= QueueSize
                          /\ Len(changes[w]) <= QueueSize
    /\ DOMAIN mails = Workers /\ DOMAIN owed = Workers
    /\ \A w \in Workers : /\ IsABag(mails[w]) /\ IsABag(owed[w])
                          /\ BagToSet(mails[w]) \cup BagToSet(owed[w])
                               \subseteq Changes
    /\ faults \in 0 .. MaxFaults /\ saves \in 0 .. MaxSaves
    /\ asked \in [Workers -> Seq(Points)]
    /\ alone \in {"none", "wait"} \cup States

history == <<asked, owed>>
stages == <<wire, seen, runs, results, writer, changes, mails>>

Fault == faults < MaxFaults /\ faults' = faults + 1

\* No job of the check is anywhere on its way.
Quiet ==
    /\ wire = {} /\ runs = {}
    /\ \A w \in Workers : results[w] = <<>>
    /\ \A k \in Writers : writer[k].pc # "save"

-----------------------------------------------------------------------------
Tick ==
    /\ clock < MaxTime
    /\ clock' = clock + 1
    /\ UNCHANGED <<next, row, form, stages, faults, saves, history, alone>>

-----------------------------------------------------------------------------
(* dispatchJobs: a job carries what the row said when it was dispatched.   *)

Dispatch(d) ==
    /\ next[d] \in Points
    /\ next' = [next EXCEPT ![d] = @ + 1]
    /\ wire' = wire \cup
         (IF row.enabled
          THEN {[from |-> d, point |-> next[d], state |-> row.state,
                 check |-> row.check, generated |-> clock]}
          ELSE {})
    /\ alone' = IF Quiet /\ row.enabled /\ clock > row.change THEN "wait"
                ELSE "none"
    /\ UNCHANGED <<clock, row, form, seen, runs, results, writer, changes,
                   mails, faults, saves, history>>

\* getJobs fails: its point is left out.
SkipPoint(d) ==
    /\ next[d] \in Points
    /\ Fault
    /\ next' = [next EXCEPT ![d] = @ + 1]
    /\ UNCHANGED <<clock, row, form, stages, saves, history, alone>>

-----------------------------------------------------------------------------
(* ConsumeClaim and execute.                                               *)

\* The message is marked, unless it comes again: a rebalance or a crash came
\* before the mark was committed, or the producer has sent it twice.
Consume(j) ==
    \/ wire' = wire \ {j} /\ UNCHANGED <<faults, alone>>
    \/ Fault /\ alone' = "none" /\ UNCHANGED wire

\* The channel to the executor is full.
DropJob(j) ==
    /\ Fault
    /\ wire' = wire \ {j}
    /\ alone' = "none"
    /\ UNCHANGED <<clock, next, row, form, seen, runs, results, writer,
                   changes, mails, saves, history>>

TooOld(j) == clock - j.generated > MaxAge
Known(w, j) == Contains(seen[w], j.point)

\* Mutant: nothing is ever evicted.
RememberAll(s, p) == Append(s, p)

\* The LRU is not refreshed by ContainsOrAdd: the first one in goes first.
Remember(s, p) ==
    IF Len(s) < CacheSize THEN Append(s, p) ELSE Append(Tail(s), p)

\* Mutant: what is found in the cache is executed again.
ExecuteAlways(w, j) ==
    /\ ~TooOld(j)
    /\ Consume(j)
    /\ seen' = [seen EXCEPT ![w] = Remember(@, j.point)]
    /\ asked' = [asked EXCEPT ![w] = Append(@, j.point)]
    /\ runs' = runs \cup
         {[at |-> w, point |-> j.point, state |-> j.state,
           check |-> j.check, exec |-> clock]}
    /\ UNCHANGED <<clock, next, row, form, results, writer, changes, mails,
                   saves, owed>>

Execute(w, j) ==
    /\ ~TooOld(j) /\ ~Known(w, j)
    /\ Consume(j)
    /\ seen' = [seen EXCEPT ![w] = Remember(@, j.point)]
    /\ asked' = [asked EXCEPT ![w] = Append(@, j.point)]
    /\ runs' = runs \cup
         {[at |-> w, point |-> j.point, state |-> j.state,
           check |-> j.check, exec |-> clock]}
    /\ UNCHANGED <<clock, next, row, form, results, writer, changes, mails,
                   saves, owed>>

Discard(w, j) ==
    /\ TooOld(j) \/ Known(w, j)
    /\ wire' = wire \ {j}
    /\ alone' = "none"
    /\ UNCHANGED <<clock, next, row, form, seen, runs, results, writer,
                   changes, mails, faults, saves, history>>

\* Graphite fails, has no series or garbles a value, which eval may meet at
\* any time ("error"): the point is in the cache all the same.
QueryFails(r) ==
    /\ runs' = runs \ {r}
    /\ alone' = "none"
    /\ UNCHANGED <<clock, next, row, form, wire, seen, results, writer,
                   changes, mails, faults, saves, history>>

\* Mutant: only every second check is written, changed or not.
WorthWritingWhenStale(r, v) == r.exec - r.check > StaleAfter

WorthWriting(r, v) == r.state # v \/ r.exec - r.check > StaleAfter

\* execute goes on with the state v that eval finds.
Evaluate(r, v) ==
    /\ runs' = runs \ {r}
    /\ alone' = IF alone = "wait" THEN v ELSE alone
    /\ \/ /\ WorthWriting(r, v)
          /\ Len(results[r.at]) < QueueSize
          /\ results' = [results EXCEPT ![r.at] =
                           Append(@, [state |-> v, exec |-> r.exec])]
       \/ ~WorthWriting(r, v) /\ UNCHANGED results
    /\ UNCHANGED <<clock, next, row, form, wire, seen, writer, changes,
                   mails, faults, saves, history>>

-----------------------------------------------------------------------------
(* storeResults and UpdateCheckState.                                      *)

Take(k) ==
    LET w == WorkerOf[k] IN
    /\ writer[k].pc = "idle"
    /\ results[w] # <<>>
    /\ writer' = [writer EXCEPT ![k] =
                    [pc |-> "save", job |-> Head(results[w]), attempts |-> 0]]
    /\ results' = [results EXCEPT ![w] = Tail(@)]
    /\ UNCHANGED <<clock, next, row, form, wire, seen, runs, changes, mails,
                   faults, saves, history, alone>>

\* UPDATE ... WHERE state != ? AND state_change < ?
Records(j) == row.state # j.state /\ row.change < j.exec

Save(k) ==
    LET j == writer[k].job IN
    /\ writer[k].pc = "save"
    /\ row' = [row EXCEPT
                 !.state = IF Records(j) THEN j.state ELSE row.state,
                 !.change = IF Records(j) THEN j.exec ELSE row.change,
                 !.check = IF row.check < j.exec THEN j.exec ELSE row.check]
    /\ IF Records(j)
       THEN /\ writer' = [writer EXCEPT ![k].pc = "notify"]
            /\ owed' = [owed EXCEPT ![WorkerOf[k]] = @ (+) SetToBag({j})]
       ELSE writer' = [writer EXCEPT ![k] = Idle] /\ UNCHANGED owed
    /\ UNCHANGED <<clock, next, form, wire, seen, runs, results, changes,
                   mails, faults, saves, asked, alone>>

\* The database fails for as long as it takes: three attempts in all.
SaveFails(k) ==
    /\ writer[k].pc = "save"
    /\ IF writer[k].attempts = 0 THEN Fault ELSE UNCHANGED faults
    /\ IF writer[k].attempts = 2
       THEN writer' = [writer EXCEPT ![k] = Idle] /\ alone' = "none"
       ELSE writer' = [writer EXCEPT ![k].attempts = @ + 1] /\ UNCHANGED alone
    /\ UNCHANGED <<clock, next, row, form, wire, seen, runs, results,
                   changes, mails, saves, history>>

\* Mutant: the writer keeps the change that it has passed on.
NotifyAgain(k) ==
    LET w == WorkerOf[k] IN
    /\ writer[k].pc = "notify"
    /\ Len(changes[w]) < QueueSize
    /\ changes' = [changes EXCEPT ![w] = Append(@, writer[k].job)]
    /\ UNCHANGED <<clock, next, row, form, wire, seen, runs, results, writer,
                   mails, faults, saves, history, alone>>

Notify(k) ==
    LET w == WorkerOf[k] IN
    /\ writer[k].pc = "notify"
    /\ Len(changes[w]) < QueueSize
    /\ changes' = [changes EXCEPT ![w] = Append(@, writer[k].job)]
    /\ writer' = [writer EXCEPT ![k] = Idle]
    /\ UNCHANGED <<clock, next, row, form, wire, seen, runs, results, mails,
                   faults, saves, history, alone>>

-----------------------------------------------------------------------------
(* handleStateChange: a goroutine for every email.                         *)

HandleStateChange(w) ==
    /\ changes[w] # <<>>
    /\ mails' = [mails EXCEPT ![w] = @ (+) SetToBag({Head(changes[w])})]
    /\ changes' = [changes EXCEPT ![w] = Tail(@)]
    /\ UNCHANGED <<clock, next, row, form, wire, seen, runs, results, writer,
                   faults, saves, history, alone>>

SendEmail(w, c) ==
    /\ mails' = [mails EXCEPT ![w] = @ (-) SetToBag({c})]
    /\ owed' = [owed EXCEPT ![w] = @ (-) SetToBag({c})]
    /\ UNCHANGED <<clock, next, row, form, wire, seen, runs, results, writer,
                   changes, faults, saves, asked, alone>>

-----------------------------------------------------------------------------
(* Users and crashes.                                                      *)

\* scrutinizeState: a state that was not checked lately is not believed.
Scrutinized(r) ==
    IF r.state # "unknown" /\ clock - r.check > LostAfter
    THEN [r EXCEPT !.state = "unknown", !.change = r.check]
    ELSE r

ReadForm ==
    /\ form # Scrutinized(row)
    /\ form' = Scrutinized(row)
    /\ UNCHANGED <<clock, next, row, stages, faults, saves, history, alone>>

\* updateCheck writes the columns of the form that are not zero: "ok" is 0,
\* and a payload may leave out the state and the times.  Disabling resets them.
SaveForm(enabled, carry) ==
    LET kept == IF carry
                THEN [form EXCEPT !.state = IF @ = "ok" THEN row.state ELSE @]
                ELSE row IN
    /\ saves < MaxSaves
    /\ saves' = saves + 1
    /\ row' = IF row.enabled /\ ~enabled
              THEN [kept EXCEPT !.state = "unknown", !.change = clock,
                                !.enabled = FALSE]
              ELSE [kept EXCEPT !.enabled = enabled]
    /\ alone' = "none"
    /\ UNCHANGED <<clock, next, form, stages, faults, history>>

\* What a worker has in memory is lost, jobs in Kafka are not.
Crash(w) ==
    /\ Fault
    /\ seen' = [seen EXCEPT ![w] = <<>>]
    /\ runs' = {r \in runs : r.at # w}
    /\ results' = [results EXCEPT ![w] = <<>>]
    /\ writer' = [k \in Writers |->
                    IF WorkerOf[k] = w THEN Idle ELSE writer[k]]
    /\ changes' = [changes EXCEPT ![w] = <<>>]
    /\ mails' = [mails EXCEPT ![w] = EmptyBag]
    /\ asked' = [asked EXCEPT ![w] = <<>>]
    /\ owed' = [owed EXCEPT ![w] = EmptyBag]
    /\ alone' = "none"
    /\ UNCHANGED <<clock, next, row, form, wire, saves>>

-----------------------------------------------------------------------------
\* addCheck: unknown, since the moment it was added.
NewRow == [state |-> "unknown", change |-> 0, check |-> 0, enabled |-> TRUE]

Init ==
    /\ clock = 0
    /\ next = [d \in Schedulers |-> 1]
    /\ row = NewRow /\ form = NewRow
    /\ wire = {} /\ runs = {}
    /\ seen = [w \in Workers |-> <<>>]
    /\ results = [w \in Workers |-> <<>>]
    /\ changes = [w \in Workers |-> <<>>]
    /\ mails = [w \in Workers |-> EmptyBag]
    /\ writer = [k \in Writers |-> Idle]
    /\ faults = 0 /\ saves = 0
    /\ asked = [w \in Workers |-> <<>>]
    /\ owed = [w \in Workers |-> EmptyBag]
    /\ alone = "none"

Scheduler(d) == Dispatch(d) \/ SkipPoint(d)
Worker(w) ==
    \/ \E j \in wire : Execute(w, j) \/ Discard(w, j)
    \/ HandleStateChange(w)
    \/ \E c \in BagToSet(mails[w]) : SendEmail(w, c)
    \/ Crash(w)
\* Graphite's answer decides; the series of a point may be anything.
Outcomes == {Eval(res) : res \in Responses} \ {"error"}
Execution(r) == QueryFails(r) \/ \E v \in Outcomes : Evaluate(r, v)
Writer(k) == Take(k) \/ Save(k) \/ SaveFails(k) \/ Notify(k)
User == ReadForm \/ \E enabled, carry \in BOOLEAN : SaveForm(enabled, carry)

Next ==
    \/ Tick
    \/ \E d \in Schedulers : Scheduler(d)
    \/ \E j \in wire : DropJob(j)
    \/ \E w \in Workers : Worker(w)
    \/ \E r \in runs : Execution(r)
    \/ \E k \in Writers : Writer(k)
    \/ User

Spec == Init /\ [][Next]_vars

-----------------------------------------------------------------------------
(* Properties.                                                             *)

Copies(c, b) == IF BagIn(c, b) THEN b[c] ELSE 0

\* How many notifications of a change are on their way in a worker.
Notices(w, c) ==
    Cardinality({k \in Writers : /\ WorkerOf[k] = w /\ writer[k].pc = "notify"
                                 /\ writer[k].job = c})
    + Cardinality({i \in DOMAIN changes[w] : changes[w][i] = c})
    + Copies(c, mails[w])

\* However often and in whatever order a point is evaluated, by whichever
\* servers, each change that is committed is notified once, and nothing else
\* is; only a server that crashes takes notifications with it.
NotifiedOnce ==
    \A w \in Workers, c \in Changes : Notices(w, c) = Copies(c, owed[w])

\* Whatever older jobs, redeliveries, crashes and stale forms have done to the
\* row, a job that runs alone and gets an answer leaves the state it found.
Healed == Quiet /\ alone \in States => row.state = alone

\* However many schedulers and copies of a job there are, a worker that has
\* asked Graphite about a point does so again only after CacheSize others.
AskedOnce ==
    \A w \in Workers : \A i, j \in DOMAIN asked[w] :
        i < j /\ asked[w][i] = asked[w][j] => j - i > CacheSize

\* The invariant by which these are proved.  The cache of a worker holds what
\* it executed last, all of it while there is room;
LastOf(s, a) ==
    LET n == Len(a) - Len(s) IN
    /\ n >= 0 /\ (n > 0 => Len(s) = CacheSize)
    /\ \A i \in DOMAIN s : s[i] = a[n + i]
Cached == \A w \in Workers : LastOf(seen[w], asked[w])
\* a job that was dispatched when nothing else ran is nowhere but in Kafka, or
\* else at Graphite, and its point is later than the last change;
NoResult ==
    /\ \A w \in Workers : results[w] = <<>>
    /\ \A k \in Writers : writer[k].pc # "save"
Unanswered ==
    alone = "wait" =>
        /\ NoResult
        /\ \/ \E j \in Jobs : /\ wire = {j} /\ runs = {} /\ j.state = row.state
                              /\ row.change < j.generated
           \/ \E r \in Runs : /\ wire = {} /\ runs = {r} /\ r.state = row.state
                              /\ row.change < r.exec
\* and its answer is in the row, in one queue or with one writer.
Answer(c) == c.state = alone /\ row.change < c.exec
Answered ==
    alone \in States =>
        /\ wire = {} /\ runs = {}
        /\ \/ NoResult /\ row.state = alone
           \/ /\ \A k \in Writers : writer[k].pc # "save"
              /\ \E w \in Workers, c \in Changes :
                    /\ Answer(c) /\ results[w] = <<c>>
                    /\ \A v \in Workers \ {w} : results[v] = <<>>
           \/ /\ \A w \in Workers : results[w] = <<>>
              /\ \E k \in Writers :
                    /\ Answer(writer[k].job) /\ writer[k].pc = "save"
                    /\ \A l \in Writers \ {k} : writer[l].pc # "save"
\* No job is older than it says.
Generated == \A j \in wire : j.generated <= clock

IInv ==
    /\ TypeOK /\ NotifiedOnce /\ AskedOnce /\ Cached
    /\ Generated /\ Unanswered /\ Answered

\* Whatever Graphite will answer to an execution that waits for it, eval finds
\* the state that the settings describe: a series is bad when it has enough bad
\* points in a row, gaps aside, wherever in the series they are.
EvalIsRight == runs # {} => FindsState
=============================================================================
