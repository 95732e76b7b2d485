------------------------ MODULE AlertScheduleProofs ------------------------
(***************************************************************************)
(* Each point of a check leaves the scheduler once, and in its order where *)
(* there is no Kafka: for any checks, offsets, goroutines that read them,  *)
(* lengths of the queue and of time, and any number of faults.             *)
(*                                                                         *)
(* A point that was due is in one of three places (still to be queued, on  *)
(* its way, handed over), and a job is in one place at most.  Every action *)
(* moves one job on, or makes the next second due.                         *)
(***************************************************************************)
EXTENDS AlertSchedule, SequenceLemmas

LEMMA Constants ==
  /\ MaxTime \in Nat /\ MaxChanges \in Nat /\ MaxFaults \in Nat
  /\ Now \in Nat /\ Now <= MaxTime
  /\ Default \in Offsets /\ QueueSize \in Nat /\ QueueSize > 0
  /\ \A o \in Offsets : o \in Nat /\ o <= Now
  /\ None \notin Int
  BY ScheduleAssumption

USE Constants

-----------------------------------------------------------------------------
(* Types.                                                                  *)

LEMMA OffsetLoaded ==
  ASSUME TypeOK, NEW v \in Offsets, LoadOrSetOffset(v)
  PROVE  stored' \in Offsets \cup {None, Garbled} /\ faults' \in 0 .. MaxFaults
  BY DEF TypeOK, LoadOrSetOffset, Fault

LEMMA InitType == Init => TypeOK
<1> SUFFICES ASSUME Init PROVE TypeOK
  OBVIOUS
<1>1. queue \in Seq(Jobs) /\ Len(queue) <= QueueSize
  BY EmptyFacts DEF Init
<1>2. handed \in [Checks -> Seq(Int)]
  BY EmptyFacts DEF Init, NoJobs
<1>3. loader \in [Loaders -> [pc : {"idle", "load", "compare", "send"},
                             value : Offsets]]
  BY DEF Init, Idle
<1>4. start \in 0 .. MaxTime /\ start <= next /\ next \in 0 .. MaxTime + 1 /\ lost \subseteq start .. next - 1
  BY DEF Init
<1>5. distributed \in BOOLEAN /\ up \in BOOLEAN
  BY Zenon DEF Init
<1>6. /\ clock \in Now .. MaxTime /\ last \in Now .. MaxTime
      /\ changes \in 0 .. MaxChanges /\ faults \in 0 .. MaxFaults
  BY DEF Init
<1>7. /\ tick \in (Now .. MaxTime) \cup {None} /\ pc \in {"select", "loop", "queue"}
      /\ todo \subseteq Checks /\ sending \subseteq Jobs /\ offset \in Offsets
      /\ stored \in Offsets \cup {None, Garbled}
  BY DEF Init
<1> QED
  BY <1>1, <1>2, <1>3, <1>4, <1>5, <1>6, <1>7 DEF TypeOK

LEMMA TypeNext == TypeOK /\ Emptied /\ [Next]_vars => TypeOK'
<1> SUFFICES ASSUME TypeOK, Emptied, [Next]_vars PROVE TypeOK'
  OBVIOUS
<1>1. ASSUME NEW v \in Offsets \cup {Garbled}, ChangeOffset(v) PROVE TypeOK'
  BY <1>1 DEF TypeOK, ChangeOffset, dispatcher, history
<1>2. ASSUME NEW l \in Loaders, SpawnLoader(l) PROVE TypeOK'
  BY <1>2 DEF TypeOK, SpawnLoader, dispatcher, history
<1>3. ASSUME NEW l \in Loaders, Load(l) PROVE TypeOK'
  BY <1>3, OffsetLoaded DEF TypeOK, Load, dispatcher, history
<1>4. ASSUME NEW l \in Loaders, Compare(l) PROVE TypeOK'
  BY <1>4 DEF TypeOK, Compare, Idle, dispatcher, history
<1>5. ASSUME NEW l \in Loaders, ReceiveOffset(l) PROVE TypeOK'
  BY <1>5 DEF TypeOK, ReceiveOffset, Idle, dispatcher, history
<1>6. CASE Tick
  BY <1>6 DEF TypeOK, Tick, dispatcher, history
<1>7. CASE ReceiveTick
  BY <1>7 DEF TypeOK, ReceiveTick, history
<1>8. CASE GetJobs
  <2>1. next' \in 0 .. MaxTime + 1 /\ next' = next + 1
    BY <1>8 DEF TypeOK, GetJobs, Due
  <2>2. lost' \subseteq start' .. next' - 1
    BY <1>8, <2>1 DEF TypeOK, GetJobs, history
  <2>3. todo' \subseteq Checks /\ pc' \in {"select", "loop", "queue"}
    BY <1>8 DEF GetJobs, ChecksAt
  <2> QED
    BY <1>8, <2>1, <2>2, <2>3 DEF TypeOK, GetJobs, history
<1>9. CASE GetJobsFails
  <2>0. faults' \in 0 .. MaxFaults
    BY <1>9 DEF TypeOK, GetJobsFails, Fault
  <2>a. next' = next + 1 /\ next <= last - offset
    BY <1>9 DEF GetJobsFails, Due
  <2>b. next \in Nat /\ last \in Nat /\ last <= MaxTime /\ offset \in Nat
    BY DEF TypeOK
  <2>1. next' \in 0 .. MaxTime + 1 /\ next' = next + 1
    BY <2>a, <2>b
  <2>2. lost' \subseteq start' .. next' - 1
    BY <1>9, <2>1 DEF TypeOK, GetJobsFails
  <2> QED
    BY <1>9, <2>0, <2>1, <2>2 DEF TypeOK, GetJobsFails
<1>10. CASE AllScheduled
  BY <1>10 DEF TypeOK, AllScheduled, history
<1>11. ASSUME NEW c \in Checks, QueueJob(c) PROVE TypeOK'
  <2>1. [check |-> c, point |-> next - 1] \in Jobs
    BY DEF TypeOK, Jobs
  <2>2. queue' \in Seq(Jobs) /\ Len(queue') <= QueueSize
    BY <1>11, <2>1, AppendFacts, SeqFacts DEF TypeOK, QueueJob
  <2> QED
    BY <1>11, <2>2 DEF TypeOK, QueueJob, history
<1>12. ASSUME ReceiveJob \/ Produce PROVE TypeOK'
  <2>0. queue \in Seq(Jobs) /\ queue # <<>> /\ queue' = Tail(queue)
    BY <1>12 DEF TypeOK, ReceiveJob, Produce
  <2>1. /\ Head(queue) \in Jobs /\ queue' \in Seq(Jobs)
        /\ Len(queue') <= QueueSize
    BY <2>0, TailFacts, SeqFacts DEF TypeOK
  <2>2. CASE ReceiveJob
    <3>1. handed' \in [Checks -> Seq(Int)]
      BY <2>1, <2>2, AppendFacts DEF TypeOK, ReceiveJob, HandOver, Jobs
    <3> QED
      BY <2>1, <2>2, <3>1 DEF TypeOK, ReceiveJob, dispatcher
  <2>3. CASE Produce
    BY <2>1, <2>3 DEF TypeOK, Produce, dispatcher, history
  <2> QED
    BY <1>12, <2>2, <2>3
<1>13. ASSUME NEW j \in sending, SendMessage(j) PROVE TypeOK'
  <2>1. handed' \in [Checks -> Seq(Int)]
    BY <1>13, AppendFacts DEF TypeOK, SendMessage, HandOver, Jobs
  <2> QED
    BY <1>13, <2>1 DEF TypeOK, SendMessage, dispatcher
<1>14. ASSUME Stop, faults' \in 0 .. MaxFaults PROVE TypeOK'
  <2>1. queue' \in Seq(Jobs) /\ Len(queue') <= QueueSize
    BY <1>14, EmptyFacts DEF Stop
  <2>2. handed' \in [Checks -> Seq(Int)]
    BY <1>14, EmptyFacts DEF Stop, NoJobs
  <2>3. loader' \in [Loaders -> [pc : {"idle", "load", "compare", "send"},
                                value : Offsets]]
    BY <1>14 DEF Stop, Idle
  <2>4. /\ start' \in 0 .. MaxTime /\ start' <= next' /\ next' \in 0 .. MaxTime + 1
        /\ lost' \subseteq start' .. next' - 1 /\ last' \in Now .. MaxTime
    BY <1>14 DEF Stop
  <2> QED
    BY <1>14, <2>1, <2>2, <2>3, <2>4 DEF TypeOK, Stop
<1>15. CASE Crash
  BY <1>14, <1>15 DEF Crash, Fault, TypeOK
<1>16. ASSUME NEW l \in Loaders, Panic(l) PROVE TypeOK'
  BY <1>14, <1>16 DEF Panic, TypeOK
<1>17. CASE Start
  <2>1. offset' \in Offsets /\ stored' \in Offsets \cup {None, Garbled} /\ faults' \in 0 .. MaxFaults
    BY <1>17, OffsetLoaded DEF Start
  <2>2. next' \in 0 .. MaxTime /\ start' = next' /\ start' <= next'
    BY <1>17, <2>1 DEF TypeOK, Start
  <2>3. lost' \subseteq start' .. next' - 1
    BY <1>17 DEF TypeOK, Emptied, Start
  <2> QED
    BY <1>17, <2>1, <2>2, <2>3 DEF TypeOK, Start
<1>18. CASE UNCHANGED vars
  BY <1>18 DEF TypeOK, vars, dispatcher, history
<1> QED
  BY <1>1, <1>2, <1>3, <1>4, <1>5, <1>6, <1>7, <1>8, <1>9, <1>10, <1>11,
     <1>12, <1>13, <1>15, <1>16, <1>17, <1>18
     DEF Next, Dispatch, Loading, Consume
-----------------------------------------------------------------------------
(* The three places of a point.                                            *)

Job(c, p) == [check |-> c, point |-> p]
Underway(c, p) == Job(c, p) \in ToSet(queue) \cup sending
Coming(c, p) == Underway(c, p) \/ (c \in todo /\ p = next - 1)
Was(c, p) == p \in start .. next - 1 /\ c \in ChecksAt(p) /\ p \notin lost

LEMMA OnTheWayFacts ==
  ASSUME TypeOK, NEW c \in Checks, NEW p \in Int
  PROVE  p \in OnTheWay(c) <=> Coming(c, p)
<1> DEFINE J == ToSet(queue) \cup sending
           P == {j.point : j \in {i \in J : i.check = c}}
<1>1. \A j \in J : j = Job(j.check, j.point)
  <2>1. \A j \in Jobs : j = Job(j.check, j.point)
    BY DEF Jobs, Job
  <2>2. J \subseteq Jobs
    BY SeqFacts DEF TypeOK
  <2> QED
    BY <2>1, <2>2, Zenon
<1>2. /\ Job(c, p).check = c /\ Job(c, p).point = p
  BY DEF Job
<1>3. p \in P <=> Job(c, p) \in J
  <2> HIDE DEF J
  <2>1. ASSUME p \in P PROVE Job(c, p) \in J
    <3>1. PICK j \in J : j.check = c /\ j.point = p
      BY <2>1
    <3> QED
      BY <3>1, <1>1
  <2>2. ASSUME Job(c, p) \in J PROVE p \in P
    BY <2>2, <1>2
  <2> QED
    BY <2>1, <2>2
<1> QED
  BY <1>3 DEF OnTheWay, Coming, Underway

\* EachPointOnce, point by point.
Once(c) ==
  /\ IsInjective(handed[c])
  /\ \A p \in Int : ~(p \in ToSet(handed[c]) /\ Coming(c, p))
  /\ \A p \in Int : Was(c, p) <=> p \in ToSet(handed[c]) \/ Coming(c, p)

LEMMA OncePerCheck ==
  ASSUME TypeOK, NEW c \in Checks
  PROVE  Once(c) <=>
           /\ IsInjective(handed[c])
           /\ ToSet(handed[c]) \cap OnTheWay(c) = {}
           /\ ToSet(handed[c]) \cup OnTheWay(c) =
                {s \in start .. next - 1 : c \in ChecksAt(s)} \ lost
<1> DEFINE H == ToSet(handed[c])
           O == OnTheWay(c)
           W == {s \in start .. next - 1 : c \in ChecksAt(s)} \ lost
<1>1. H \subseteq Int
  BY SeqFacts DEF TypeOK
<1>2. O \subseteq Int
  <2>1. \A j \in ToSet(queue) \cup sending : j.point \in Int
    <3>1. ToSet(queue) \cup sending \subseteq Jobs
      BY SeqFacts DEF TypeOK
    <3> QED
      BY <3>1 DEF Jobs
  <2>2. next - 1 \in Int
    BY DEF TypeOK
  <2> QED
    BY <2>1, <2>2 DEF OnTheWay
<1>3. W \subseteq Int /\ \A p \in Int : (p \in W <=> Was(c, p))
  <2>1. start \in Int /\ next - 1 \in Int
    BY DEF TypeOK
  <2>2. \A p : p \in W <=> Was(c, p)
    BY Zenon DEF Was
  <2>3. \A p : Was(c, p) => p \in Int
    BY <2>1 DEF Was
  <2> QED
    BY <2>2, <2>3, Zenon
<1>4. \A p \in Int : p \in O <=> Coming(c, p)
  BY OnTheWayFacts
<1>5. H \cap O = {} <=> \A p \in Int : ~(p \in H /\ p \in O)
  BY <1>1
<1>6. H \cup O = W <=> \A p \in Int : p \in W <=> p \in H \/ p \in O
  <2> HIDE DEF H, O, W
  <2> QED
    BY <1>1, <1>2, <1>3
<1>7. Once(c) <=> /\ IsInjective(handed[c])
                  /\ \A p \in Int : ~(p \in H /\ p \in O)
                  /\ \A p \in Int : p \in W <=> p \in H \/ p \in O
  <2> HIDE DEF O, W
  <2> QED
    BY <1>3, <1>4, Zenon DEF Once
<1> QED
  BY <1>5, <1>6, <1>7

LEMMA OnceOfPoints ==
  TypeOK /\ EachPointOnce => (up => \A c \in Checks : Once(c))
<1> SUFFICES ASSUME TypeOK, EachPointOnce, up, NEW c \in Checks
             PROVE  Once(c)
  OBVIOUS
<1> QED
  BY OncePerCheck DEF EachPointOnce

LEMMA PointsOfOnce ==
  TypeOK /\ (up => \A c \in Checks : Once(c)) => EachPointOnce
<1> SUFFICES ASSUME TypeOK, up => \A c \in Checks : Once(c), up, NEW c \in Checks
             PROVE  /\ IsInjective(handed[c])
                    /\ ToSet(handed[c]) \cap OnTheWay(c) = {}
                    /\ ToSet(handed[c]) \cup OnTheWay(c) =
                         {s \in start .. next - 1 : c \in ChecksAt(s)} \ lost
  BY DEF EachPointOnce
<1> QED
  BY OncePerCheck

-----------------------------------------------------------------------------
(* What the actions do to the three places.                                *)

LEMMA JobFacts ==
  ASSUME TypeOK, NEW j \in ToSet(queue) \cup sending
  PROVE  /\ j \in Jobs /\ j.check \in Checks /\ j.point \in Int
         /\ j = Job(j.check, j.point)
<1>1. j \in Jobs
  BY SeqFacts DEF TypeOK
<1> QED
  BY <1>1 DEF Jobs, Job

LEMMA HandingOver ==
  ASSUME TypeOK, OnePlace, NEW c \in Checks, Once(c),
         NEW j \in ToSet(queue) \cup sending, HandOver(j),
         UNCHANGED <<next, todo, start, lost>>,
         ToSet(queue') \cup sending' = (ToSet(queue) \cup sending) \ {j}
  PROVE  Once(c)'
<1>1. CASE c # j.check
  <2>1. handed'[c] = handed[c]
    BY <1>1 DEF HandOver, TypeOK
  <2>2. \A p \in Int : j # Job(c, p)
    BY <1>1 DEF Job
  <2>3. \A p \in Int : Coming(c, p)' <=> Coming(c, p)
    BY <2>2 DEF Coming, Underway
  <2>4. IsInjective(handed[c])'
    BY <2>1 DEF Once
  <2>5. \A p \in Int : ~(p \in ToSet(handed[c])' /\ Coming(c, p)')
    BY <2>1, <2>3 DEF Once
  <2>6. \A p \in Int : Was(c, p)' <=> p \in ToSet(handed[c])' \/ Coming(c, p)'
    BY <2>1, <2>3 DEF Once, Was
  <2> QED
    BY <2>4, <2>5, <2>6 DEF Once
<1>2. CASE c = j.check
  <2>0. j.point \in Int /\ j = Job(c, j.point) /\ handed[c] \in Seq(Int)
    BY <1>2, JobFacts DEF TypeOK
  <2>1. PICK q \in Int : q = j.point
    BY <2>0
  <2>2. j = Job(c, q) /\ handed'[c] = Append(handed[c], q)
    BY <1>2, <2>0, <2>1 DEF HandOver, TypeOK
  <2>3. Coming(c, q) /\ q \notin ToSet(handed[c])
    BY <2>2 DEF Once, Coming, Underway
  <2>4. IsInjective(handed'[c])
    BY <2>0, <2>2, <2>3, AppendNew DEF Once
  <2>5. ToSet(handed'[c]) = ToSet(handed[c]) \cup {q}
    BY <2>0, <2>2, AppendFacts
  <2>6. \A p \in Int : j = Job(c, p) <=> p = q
    BY <2>2 DEF Job
  <2>7. ~(c \in todo /\ q = next - 1)
    BY <2>2 DEF OnePlace, Job
  <2>8. \A p \in Int : Coming(c, p)' <=> Coming(c, p) /\ p # q
    BY <2>6, <2>7 DEF Coming, Underway
  <2>9. \A p \in Int : ~(p \in ToSet(handed[c])' /\ Coming(c, p)')
    BY <2>5, <2>8 DEF Once
  <2>10. \A p \in Int : Was(c, p)' <=> p \in ToSet(handed[c])' \/ Coming(c, p)'
    BY <2>3, <2>5, <2>8 DEF Once, Was
  <2> QED
    BY <2>4, <2>9, <2>10 DEF Once
<1> QED
  BY <1>1, <1>2

\* IInv, but for TypeOK, with EachPointOnce point by point.
Rest ==
  /\ Emptied /\ TodoOK /\ Sorted /\ OnePlace /\ Earlier /\ InOrder
  /\ up => \A c \in Checks : Once(c)

LEMMA RestOfInv == IInv => Rest
  BY OnceOfPoints DEF IInv, Rest

LEMMA InvOfRest == TypeOK /\ Rest => IInv
  BY PointsOfOnce DEF IInv, Rest

\* The steps of the clock and of the offset, and what only moves pc.
LEMMA Untouched ==
  ASSUME Rest, pc' = pc \/ todo = {},
         UNCHANGED <<distributed, up, next, todo, queue, sending, history>>
  PROVE  Rest'
<1>1. ASSUME NEW c \in Checks, up'
      PROVE  Once(c)'
  BY <1>1 DEF Rest, Once, Was, Coming, Underway, history
<1>2. Emptied' /\ TodoOK' /\ Sorted' /\ OnePlace' /\ Earlier' /\ InOrder'
  BY DEF Rest, Emptied, TodoOK, Sorted, OnePlace, Earlier, InOrder, history
<1> QED
  BY <1>1, <1>2 DEF Rest

\* Nothing is left of the second before when the next is due.
LEMMA NextSecond ==
  ASSUME TypeOK, Rest, NEW c \in Checks, up, todo = {}
  PROVE  /\ ~Was(c, next) /\ next \notin lost
         /\ ~Underway(c, next) /\ next \notin ToSet(handed[c])
<1>1. next \in Nat /\ lost \subseteq start .. next - 1
  BY DEF TypeOK
<1>2. ~Was(c, next) /\ next \notin lost
  BY <1>1 DEF Was
<1> QED
  BY <1>1, <1>2 DEF Rest, Once, Coming

LEMMA GetJobsRest == TypeOK /\ Rest /\ GetJobs => Rest'
<1> SUFFICES ASSUME TypeOK, Rest, GetJobs
             PROVE  Rest'
  OBVIOUS
<1>0. up /\ todo = {} /\ next \in Nat /\ start \in Nat /\ start <= next
  BY DEF Rest, TodoOK, GetJobs, TypeOK
<1>1. ASSUME NEW c \in Checks
      PROVE  Once(c)'
  <2>1. \A p \in Int : Coming(c, p)' <=> Coming(c, p) \/ (c \in ChecksAt(next) /\ p = next)
    BY <1>0 DEF GetJobs, Coming, Underway
  <2>2. \A p \in Int : Was(c, p)' <=> Was(c, p) \/ (c \in ChecksAt(next) /\ p = next)
    BY <1>0, NextSecond DEF GetJobs, Was, history
  <2>3. handed' = handed /\ Once(c)
    BY <1>0 DEF GetJobs, history, Rest
  <2>4. \A p \in Int : ~(p \in ToSet(handed[c])' /\ Coming(c, p)')
    BY <1>0, <2>1, <2>3, NextSecond DEF Once
  <2>5. \A p \in Int : Was(c, p)' <=> p \in ToSet(handed[c])' \/ Coming(c, p)'
    BY <2>1, <2>2, <2>3 DEF Once, Was
  <2> QED
    BY <2>3, <2>4, <2>5 DEF Once
<1>2. OnePlace'
  BY <1>0, NextSecond DEF Rest, OnePlace, GetJobs, Underway, Job, ChecksAt
<1>3. Emptied' /\ TodoOK' /\ Sorted' /\ Earlier' /\ InOrder'
  BY <1>0 DEF Rest, Emptied, TodoOK, Sorted, Earlier, InOrder, GetJobs, history
<1> QED
  BY <1>1, <1>2, <1>3 DEF Rest

LEMMA GetJobsFailsRest == TypeOK /\ Rest /\ GetJobsFails => Rest'
<1> SUFFICES ASSUME TypeOK, Rest, GetJobsFails
             PROVE  Rest'
  OBVIOUS
<1>0. up /\ todo = {} /\ next \in Nat /\ start \in Nat /\ start <= next
  BY DEF Rest, TodoOK, GetJobsFails, TypeOK
<1>1. ASSUME NEW c \in Checks
      PROVE  Once(c)'
  <2>1. \A p \in Int : Coming(c, p)' <=> Coming(c, p)
    BY <1>0 DEF GetJobsFails, Coming, Underway
  <2>2. \A p \in Int : Was(c, p)' <=> Was(c, p)
    BY <1>0, NextSecond DEF GetJobsFails, Was
  <2>3. handed' = handed /\ Once(c)
    BY <1>0 DEF GetJobsFails, Rest
  <2>4. \A p \in Int : ~(p \in ToSet(handed[c])' /\ Coming(c, p)')
    BY <2>1, <2>3 DEF Once
  <2>5. \A p \in Int : Was(c, p)' <=> p \in ToSet(handed[c])' \/ Coming(c, p)'
    BY <2>1, <2>2, <2>3 DEF Once, Was
  <2> QED
    BY <2>3, <2>4, <2>5 DEF Once
<1>2. Emptied' /\ TodoOK' /\ Sorted' /\ OnePlace' /\ Earlier' /\ InOrder'
  BY <1>0 DEF Rest, Emptied, TodoOK, Sorted, OnePlace, Earlier, InOrder, GetJobsFails
<1> QED
  BY <1>1, <1>2 DEF Rest

\* What is left to queue is later than all that went before it.
LEMMA LastSecond ==
  ASSUME TypeOK, Rest, NEW c \in todo
  PROVE  /\ up /\ c \in Checks /\ next - 1 \in Int
         /\ Job(c, next - 1) \in Jobs
         /\ Job(c, next - 1) \notin ToSet(queue) \cup sending
         /\ \A i \in DOMAIN queue : queue[i].check = c => queue[i].point < next - 1
         /\ \A i \in DOMAIN handed[c] : handed[c][i] < next - 1
<1>1. up /\ c \in Checks /\ next \in Nat /\ start \in Nat
  BY DEF Rest, Emptied, TypeOK
<1>2. Job(c, next - 1) \in Jobs /\ Job(c, next - 1) \notin ToSet(queue) \cup sending
  BY <1>1 DEF Rest, OnePlace, Job, Jobs
<1>3. Once(c)
  BY <1>1 DEF Rest
<1>4. \A p \in Int : Was(c, p) /\ p # next - 1 => p < next - 1
  BY <1>1 DEF Was
<1>5. ASSUME NEW i \in DOMAIN queue, queue[i].check = c
      PROVE  queue[i].point < next - 1
  <2>1. queue[i] \in ToSet(queue)
    BY DEF ToSet
  <2>2. PICK p \in Int : p = queue[i].point
    BY <2>1, JobFacts
  <2>3. queue[i] = Job(c, p)
    BY <1>5, <2>1, <2>2, JobFacts
  <2>4. Was(c, p) /\ p # next - 1
    BY <1>2, <1>3, <2>1, <2>3 DEF Once, Coming, Underway
  <2> QED
    BY <1>4, <2>2, <2>4
<1>6. ASSUME NEW i \in DOMAIN handed[c]
      PROVE  handed[c][i] < next - 1
  <2>1. handed[c] \in Seq(Int) /\ handed[c][i] \in ToSet(handed[c])
    BY <1>1 DEF TypeOK, ToSet
  <2>2. PICK p \in Int : p = handed[c][i]
    BY <2>1
  <2>3. Was(c, p) /\ p # next - 1
    BY <1>3, <2>1, <2>2 DEF Once, Coming
  <2> QED
    BY <1>4, <2>2, <2>3
<1> QED
  BY <1>1, <1>2, <1>5, <1>6

LEMMA QueueJobRest ==
  ASSUME TypeOK, Rest, NEW d \in Checks, QueueJob(d)
  PROVE  Rest'
<1> DEFINE j == Job(d, next - 1)
           n == Len(queue) + 1
<1>1. /\ up /\ d \in todo /\ pc = "queue" /\ todo' = todo \ {d}
      /\ queue' = Append(queue, j)
      /\ pc' = IF todo' = {} THEN "loop" ELSE "queue"
      /\ UNCHANGED <<distributed, up, next, sending, start, lost, handed>>
  BY DEF QueueJob, Job, history
<1>2. queue \in Seq(Jobs) /\ next \in Nat /\ j \in Jobs
  BY LastSecond, <1>1 DEF TypeOK
<1>3. /\ DOMAIN queue' = DOMAIN queue \cup {n} /\ queue'[n] = j
      /\ \A i \in DOMAIN queue : queue'[i] = queue[i] /\ i < n
      /\ ToSet(queue') = ToSet(queue) \cup {j}
  BY <1>1, <1>2, AppendFacts
<1>4. /\ j \notin ToSet(queue) \cup sending
      /\ \A i \in DOMAIN queue : queue[i].check = d => queue[i].point < next - 1
      /\ \A i \in DOMAIN handed[d] : handed[d][i] < next - 1
  BY <1>1, LastSecond
<1>5. j.check = d /\ j.point = next - 1
  BY DEF Job
<1>6. ASSUME NEW c \in Checks
      PROVE  Once(c)'
  <2>1. \A p \in Int : Job(c, p) = j <=> c = d /\ p = next - 1
    BY DEF Job
  <2>2. \A p \in Int : Coming(c, p)' <=> Coming(c, p)
    <3> HIDE DEF j
    <3> QED
      BY <1>1, <1>3, <2>1 DEF Coming, Underway
  <2>3. handed' = handed /\ Once(c)
    BY <1>1 DEF Rest
  <2>4. \A p \in Int : ~(p \in ToSet(handed[c])' /\ Coming(c, p)')
    BY <2>2, <2>3 DEF Once
  <2>5. \A p \in Int : Was(c, p)' <=> p \in ToSet(handed[c])' \/ Coming(c, p)'
    BY <1>1, <2>2, <2>3 DEF Once, Was
  <2> QED
    BY <2>3, <2>4, <2>5 DEF Once
<1>7. Sorted'
  <2> SUFFICES ASSUME NEW i \in DOMAIN queue', NEW k \in DOMAIN queue', i < k,
                      queue'[i].check = queue'[k].check
               PROVE  queue'[i].point < queue'[k].point
    BY DEF Sorted
  <2>1. i \in DOMAIN queue
    BY <1>2, <1>3, SeqFacts
  <2>2. CASE k \in DOMAIN queue
    BY <1>3, <2>1, <2>2 DEF Rest, Sorted
  <2>3. CASE k = n
    BY <1>3, <1>4, <1>5, <2>1, <2>3
  <2> QED
    BY <1>3, <2>2, <2>3
<1>8. Earlier'
  <2>1. ASSUME ~distributed, NEW c \in Checks, NEW i \in DOMAIN handed[c],
               NEW k \in DOMAIN queue', queue'[k].check = c
        PROVE  handed[c][i] < queue'[k].point
    <3>1. CASE k \in DOMAIN queue
      BY <1>3, <2>1, <3>1 DEF Rest, Earlier
    <3>2. CASE k = n
      BY <1>3, <1>4, <1>5, <2>1, <3>2
    <3> QED
      BY <1>3, <3>1, <3>2
  <2> QED
    BY <1>1, <2>1 DEF Rest, Earlier
<1>9. OnePlace'
  <2>1. \A c \in todo' : Job(c, next - 1) # j /\ c \in todo
    BY <1>1 DEF Job
  <2> HIDE DEF j
  <2> QED
    BY <1>1, <1>3, <1>4, <2>1 DEF Rest, OnePlace, Job
<1>10. Emptied' /\ TodoOK' /\ InOrder'
  BY <1>1 DEF Rest, Emptied, TodoOK, InOrder
<1> QED
  BY <1>6, <1>7, <1>8, <1>9, <1>10 DEF Rest

\* The first job of the queue is there once, and before the others.
LEMMA FirstOfQueue ==
  ASSUME TypeOK, Rest, queue # <<>>
  PROVE  /\ up /\ Head(queue) = queue[1] /\ 1 \in DOMAIN queue
         /\ Head(queue) \in ToSet(queue) /\ Head(queue) \in Jobs
         /\ Head(queue) \notin ToSet(Tail(queue)) /\ Head(queue) \notin sending
         /\ ToSet(queue) = ToSet(Tail(queue)) \cup {Head(queue)}
         /\ \A i \in DOMAIN Tail(queue) :
               /\ Tail(queue)[i] = queue[i + 1] /\ i + 1 \in DOMAIN queue
               /\ queue[1].check = queue[i + 1].check => queue[1].point < queue[i + 1].point
<1> DEFINE t == Tail(queue)
<1>1. queue \in Seq(Jobs) /\ up
  BY DEF TypeOK, Rest, Emptied
<1>2. /\ Head(queue) = queue[1] /\ 1 \in DOMAIN queue /\ Head(queue) \in Jobs
      /\ \A i \in DOMAIN t : t[i] = queue[i + 1] /\ i + 1 \in DOMAIN queue
      /\ ToSet(queue) = ToSet(t) \cup {Head(queue)}
  BY <1>1, TailFacts
<1>3. ASSUME NEW i \in DOMAIN t, queue[1].check = queue[i + 1].check
      PROVE  queue[1].point < queue[i + 1].point
  <2>1. i \in Nat \ {0}
    BY <1>1, TailFacts, SeqFacts
  <2> HIDE DEF t
  <2> QED
    BY <1>2, <1>3, <2>1 DEF Rest, Sorted
<1>4. queue[1].point \in Int
  BY <1>2 DEF Jobs
<1>5. Head(queue) \notin ToSet(t)
  <2> SUFFICES ASSUME NEW i \in DOMAIN t, t[i] = Head(queue)
               PROVE  FALSE
    BY DEF ToSet
  <2> QED
    BY <1>2, <1>3, <1>4
<1>6. Head(queue) \notin sending
  BY <1>2 DEF Rest, OnePlace
<1> QED
  BY <1>1, <1>2, <1>3, <1>5, <1>6

LEMMA TailSorted ==
  ASSUME TypeOK, Rest, queue # <<>>, queue' = Tail(queue)
  PROVE  Sorted'
<1> SUFFICES ASSUME NEW i \in DOMAIN queue', NEW k \in DOMAIN queue', i < k,
                    queue'[i].check = queue'[k].check
             PROVE  queue'[i].point < queue'[k].point
  BY DEF Sorted
<1>1. queue \in Seq(Jobs)
  BY DEF TypeOK
<1>2. i \in Nat /\ k \in Nat
  BY <1>1, TailFacts, SeqFacts
<1>3. /\ queue'[i] = queue[i + 1] /\ i + 1 \in DOMAIN queue
      /\ queue'[k] = queue[k + 1] /\ k + 1 \in DOMAIN queue
  BY <1>1, TailFacts
<1> QED
  BY <1>2, <1>3 DEF Rest, Sorted

LEMMA ReceiveJobRest == TypeOK /\ Rest /\ ReceiveJob => Rest'
<1> SUFFICES ASSUME TypeOK, Rest, ReceiveJob
             PROVE  Rest'
  OBVIOUS
<1> DEFINE j == Head(queue)
<1>1. /\ queue # <<>> /\ queue' = Tail(queue) /\ HandOver(j) /\ ~distributed
      /\ UNCHANGED <<distributed, up, pc, next, todo, sending, start, lost>>
  BY DEF ReceiveJob, dispatcher
<1>2. j \in Jobs /\ j \in ToSet(queue) /\ up /\ j = queue[1] /\ 1 \in DOMAIN queue
  BY <1>1, FirstOfQueue
<1>3. ToSet(queue') \cup sending' = (ToSet(queue) \cup sending) \ {j}
  BY <1>1, FirstOfQueue
<1>4. \A i \in DOMAIN queue' :
        /\ queue'[i] = queue[i + 1] /\ i + 1 \in DOMAIN queue
        /\ j.check = queue[i + 1].check => j.point < queue[i + 1].point
  BY <1>1, FirstOfQueue
<1>5. Sorted'
  BY <1>1, TailSorted
<1> HIDE DEF j
<1>6. ASSUME NEW c \in Checks
      PROVE  Once(c)'
  BY <1>1, <1>2, <1>3, HandingOver DEF Rest
<1>7. OnePlace'
  BY <1>1, <1>3 DEF Rest, OnePlace, Earlier
<1>8. Emptied' /\ TodoOK' /\ sending = {}
  BY <1>1, <1>2 DEF Rest, Emptied, TodoOK, Earlier
<1>9. ASSUME NEW c \in Checks
      PROVE  /\ \A i \in DOMAIN handed'[c], k \in DOMAIN queue' :
                  queue'[k].check = c => handed'[c][i] < queue'[k].point
             /\ \A i, k \in DOMAIN handed'[c] : i < k => handed'[c][i] < handed'[c][k]
  <2> DEFINE h == handed[c]
             g == handed'[c]
             n == Len(h) + 1
  <2>1. /\ \A i \in DOMAIN h, k \in DOMAIN queue : queue[k].check = c => h[i] < queue[k].point
        /\ \A i, k \in DOMAIN h : i < k => h[i] < h[k]
    BY <1>1 DEF Rest, Earlier, InOrder
  <2>2. CASE c # j.check
    <3>1. g = h
      BY <1>1, <2>2 DEF HandOver, TypeOK
    <3> QED
      BY <1>4, <2>1, <3>1
  <2>3. CASE c = j.check
    <3>1. g = Append(h, j.point) /\ h \in Seq(Int) /\ j.point \in Int
      BY <1>1, <1>2, <2>3 DEF HandOver, TypeOK, Jobs
    <3>2. /\ DOMAIN g = DOMAIN h \cup {n} /\ g[n] = j.point
          /\ \A i \in DOMAIN h : g[i] = h[i] /\ i < n /\ i \in Nat
          /\ n \in Nat
      BY <3>1, AppendFacts, SeqFacts
    <3>3. \A i \in DOMAIN h : h[i] < j.point
      BY <1>2, <2>1, <2>3
    <3>4. \A i \in DOMAIN g, k \in DOMAIN queue' : queue'[k].check = c => g[i] < queue'[k].point
      <4> HIDE DEF g, h, n
      <4> QED
        BY <1>4, <2>1, <2>3, <3>2
    <3>5. \A i, k \in DOMAIN g : i < k => g[i] < g[k]
      <4> HIDE DEF g, h, n
      <4> QED
        BY <2>1, <3>2, <3>3
    <3> QED
      BY <3>4, <3>5
  <2> QED
    BY <2>2, <2>3
<1> QED
  BY <1>1, <1>5, <1>6, <1>7, <1>8, <1>9 DEF Rest, Earlier, InOrder

LEMMA ProduceRest == TypeOK /\ Rest /\ Produce => Rest'
<1> SUFFICES ASSUME TypeOK, Rest, Produce
             PROVE  Rest'
  OBVIOUS
<1> DEFINE j == Head(queue)
<1>1. /\ queue # <<>> /\ queue' = Tail(queue) /\ sending' = sending \cup {j} /\ distributed
      /\ UNCHANGED <<distributed, up, pc, next, todo, start, lost, handed>>
  BY DEF Produce, dispatcher, history
<1>2. up /\ ToSet(queue') \cup sending' = ToSet(queue) \cup sending
  BY <1>1, FirstOfQueue
<1>3. j \notin ToSet(queue') /\ ToSet(queue') \subseteq ToSet(queue)
  BY <1>1, FirstOfQueue
<1>4. Sorted'
  BY <1>1, TailSorted
<1> HIDE DEF j
<1>5. ASSUME NEW c \in Checks
      PROVE  Once(c)'
  <2>1. Once(c)
    BY <1>2 DEF Rest
  <2> QED
    BY <1>1, <1>2, <2>1 DEF Once, Was, Coming, Underway
<1>6. OnePlace'
  BY <1>1, <1>2, <1>3 DEF Rest, OnePlace
<1>7. Emptied' /\ TodoOK' /\ Earlier' /\ InOrder'
  BY <1>1, <1>2 DEF Rest, Emptied, TodoOK, Earlier, InOrder
<1> QED
  BY <1>4, <1>5, <1>6, <1>7 DEF Rest

LEMMA SendMessageRest ==
  ASSUME TypeOK, Rest, NEW j \in sending, SendMessage(j)
  PROVE  Rest'
<1>1. /\ sending' = sending \ {j} /\ HandOver(j)
      /\ UNCHANGED <<distributed, up, pc, next, todo, queue, start, lost>>
  BY DEF SendMessage, dispatcher
<1>2. up /\ distributed /\ j \notin ToSet(queue)
  BY DEF Rest, Emptied, Earlier, OnePlace
<1>3. ToSet(queue') \cup sending' = (ToSet(queue) \cup sending) \ {j}
  BY <1>1, <1>2
<1>4. ASSUME NEW c \in Checks
      PROVE  Once(c)'
  BY <1>1, <1>2, <1>3, HandingOver DEF Rest
<1>5. OnePlace'
  BY <1>1, <1>3 DEF Rest, OnePlace
<1>6. Emptied' /\ TodoOK' /\ Sorted' /\ Earlier' /\ InOrder'
  BY <1>1, <1>2 DEF Rest, Emptied, TodoOK, Sorted, Earlier, InOrder
<1> QED
  BY <1>4, <1>5, <1>6 DEF Rest

\* A server that has stopped, or has just started, has nothing anywhere.
LEMMA NothingRest ==
  ASSUME todo' = {}, queue' = <<>>, sending' = {}, lost' = {}, handed' = NoJobs,
         up' => start' \in Int /\ start' = next'
  PROVE  Rest'
<1>1. /\ \A c \in Checks : handed'[c] = <<>>
      /\ DOMAIN <<>> = {} /\ ToSet(<<>>) = {} /\ IsInjective(<<>>)
  BY EmptyFacts DEF NoJobs, IsInjective
<1>2. ASSUME NEW c \in Checks, up'
      PROVE  Once(c)'
  <2>1. \A p \in Int : ~Coming(c, p)'
    BY <1>1 DEF Coming, Underway
  <2>2. \A p \in Int : ~Was(c, p)'
    BY <1>2 DEF Was
  <2>3. IsInjective(handed[c])' /\ ToSet(handed[c])' = {}
    BY <1>1
  <2> QED
    BY <2>1, <2>2, <2>3 DEF Once
<1>3. Emptied' /\ TodoOK' /\ Sorted' /\ OnePlace'
  BY <1>1 DEF Emptied, TodoOK, Sorted, OnePlace
<1>4. Earlier' /\ InOrder'
  BY <1>1 DEF Earlier, InOrder
<1> QED
  BY <1>2, <1>3, <1>4 DEF Rest

LEMMA InitRest == Init => Rest
<1> SUFFICES ASSUME Init
             PROVE  Rest
  OBVIOUS
<1>1. \A c \in Checks : handed[c] = <<>>
  BY DEF Init, NoJobs
<1>2. DOMAIN <<>> = {} /\ ToSet(<<>>) = {}
  BY EmptyFacts
<1>3. Emptied /\ TodoOK /\ Sorted /\ OnePlace
  BY <1>2 DEF Init, Emptied, TodoOK, Sorted, OnePlace
<1>4. Earlier /\ InOrder
  BY <1>1, <1>2 DEF Init, Earlier, InOrder
<1> QED
  BY <1>3, <1>4 DEF Init, Rest

LEMMA StopRest == Stop => Rest'
  BY NothingRest DEF Stop

LEMMA StartRest == TypeOK /\ Rest /\ Start => Rest'
<1> SUFFICES ASSUME TypeOK, Rest, Start
             PROVE  Rest'
  OBVIOUS
<1>1. /\ todo' = {} /\ queue' = <<>> /\ sending' = {} /\ lost' = {} /\ handed' = NoJobs
  BY DEF Rest, Emptied, Start
<1>2. start' \in Int /\ start' = next'
  BY DEF TypeOK, Start
<1> QED
  BY <1>1, <1>2, NothingRest

LEMMA RestNext == TypeOK /\ Rest /\ [Next]_vars => Rest'
<1> SUFFICES ASSUME TypeOK, Rest, [Next]_vars
             PROVE  Rest'
  OBVIOUS
<1>1. ASSUME NEW v \in Offsets \cup {Garbled}, ChangeOffset(v) PROVE Rest'
  BY <1>1, Untouched DEF ChangeOffset, dispatcher
<1>2. ASSUME NEW l \in Loaders,
             SpawnLoader(l) \/ Load(l) \/ Compare(l) \/ ReceiveOffset(l)
      PROVE  Rest'
  BY <1>2, Untouched DEF SpawnLoader, Load, Compare, ReceiveOffset, dispatcher
<1>3. CASE Tick
  BY <1>3, Untouched DEF Tick, dispatcher
<1>4. CASE ReceiveTick \/ AllScheduled
  <2>1. todo = {}
    BY <1>4 DEF ReceiveTick, AllScheduled, Rest, TodoOK
  <2> QED
    BY <1>4, <2>1, Untouched DEF ReceiveTick, AllScheduled
<1>5. CASE GetJobs \/ GetJobsFails
  BY <1>5, GetJobsRest, GetJobsFailsRest
<1>6. ASSUME NEW c \in Checks, QueueJob(c) PROVE Rest'
  BY <1>6, QueueJobRest
<1>7. CASE ReceiveJob \/ Produce
  BY <1>7, ReceiveJobRest, ProduceRest
<1>8. ASSUME NEW j \in sending, SendMessage(j) PROVE Rest'
  BY <1>8, SendMessageRest
<1>9. CASE Crash
  BY <1>9, StopRest DEF Crash
<1>10. ASSUME NEW l \in Loaders, Panic(l) PROVE Rest'
  BY <1>10, StopRest DEF Panic
<1>11. CASE Start
  BY <1>11, StartRest
<1>12. CASE UNCHANGED vars
  BY <1>12, Untouched DEF vars, dispatcher
<1> QED
  BY <1>1, <1>2, <1>3, <1>4, <1>5, <1>6, <1>7, <1>8, <1>9, <1>10, <1>11, <1>12
     DEF Next, Dispatch, Loading, Consume

-----------------------------------------------------------------------------
(* The theorems.                                                           *)

\* The inductive invariant of the scheduler holds always: a due point is in
\* one of its three places, each job in one, and the queue is in order.
THEOREM Invariance == Spec => []IInv
<1>1. Init => TypeOK /\ Rest
  BY InitType, InitRest
<1>2. (TypeOK /\ Rest) /\ [Next]_vars => (TypeOK /\ Rest)'
  BY TypeNext, RestNext DEF Rest
<1>3. TypeOK /\ Rest => IInv
  BY InvOfRest
<1> QED
  BY <1>1, <1>2, <1>3, PTL DEF Spec

\* The variables of dispatchJobs, of the goroutines that read the offset and
\* of the queue keep their types; in particular the queue keeps to its size, and
\* a failed second lies between the first since the start and the next.
THEOREM TypeCorrect == Spec => []TypeOK
<1>1. IInv => TypeOK
  BY DEF IInv
<1> QED
  BY <1>1, Invariance, PTL

\* Since a server has started, each point of a check that was due left the
\* queue once or is on its way, but for those whose query failed, whatever
\* ticks were dropped and whatever offsets came in between.
THEOREM PointsOnce == Spec => []EachPointOnce
<1>1. IInv => EachPointOnce
  BY DEF IInv
<1> QED
  BY <1>1, Invariance, PTL

\* Without Kafka the executor gets the points of a check in their order.
THEOREM PointsInOrder == Spec => []InOrder
<1>1. IInv => InOrder
  BY DEF IInv
<1> QED
  BY <1>1, Invariance, PTL
=============================================================================
