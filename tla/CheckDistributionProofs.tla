----------------------- MODULE CheckDistributionProofs -----------------------
(***************************************************************************)
(* The sessions that count divide the checks among them, for any number of *)
(* sessions, servers and checks, any updates and any faults.               *)
(*                                                                         *)
(* Sessions have different ids, so that counting those with smaller ids    *)
(* gives each of the n sessions another position below n, and each         *)
(* remainder of a division by n is taken.                                  *)
(***************************************************************************)
EXTENDS CheckDistribution, FiniteSetTheorems, TLAPS

USE DistributionAssumption

-----------------------------------------------------------------------------
(* Positions.                                                              *)

\* Sessions with different ids have different positions, all below their
\* number.
LEMMA PositionsDiffer ==
  ASSUME TypeOK, IdsOnce
  PROVE  /\ IsFiniteSet(rows) /\ Total \in Nat
         /\ \A s \in Sockets : Position(s) \in Nat
         /\ \A s \in rows : Position(s) \in 0 .. Total - 1
         /\ \A s, t \in rows : Position(s) = Position(t) => s = t
<1> DEFINE Before(s) == {t \in rows : rowId[t] < rowId[s]}
<1>1. IsFiniteSet(rows) /\ Total \in Nat
  BY FS_Subset, FS_CardinalityType DEF IdsOnce, Total
<1>2. ASSUME NEW s \in Sockets
      PROVE  IsFiniteSet(Before(s)) /\ Cardinality(Before(s)) \in Nat
  <2>1. Before(s) \in SUBSET rows
    OBVIOUS
  <2>2. IsFiniteSet(Before(s))
    BY <1>1, <2>1, FS_Subset
  <2> QED
    BY <2>2, FS_CardinalityType
<1>3. ASSUME NEW s \in rows
      PROVE  Cardinality(Before(s)) < Total
  <2>1. s \in Sockets /\ rowId[s] \in Nat /\ s \notin Before(s)
    BY DEF TypeOK
  <2>2. Before(s) \in SUBSET rows /\ Before(s) # rows
    BY <2>1
  <2>3. Cardinality(Before(s)) <= Total /\ Cardinality(Before(s)) # Total
    BY <1>1, <2>2, FS_Subset DEF Total
  <2> QED
    BY <1>1, <1>2, <2>1, <2>3
<1>4. ASSUME NEW s \in rows, NEW t \in rows, rowId[s] < rowId[t]
      PROVE  Cardinality(Before(s)) # Cardinality(Before(t))
  <2>1. s \in Sockets /\ t \in Sockets /\ \A u \in rows : rowId[u] \in Nat
    BY DEF TypeOK
  <2>2. Before(s) \in SUBSET Before(t) /\ s \in Before(t) /\ s \notin Before(s)
    BY <1>4, <2>1
  <2> QED
    BY <1>2, <2>1, <2>2, FS_Subset
<1>5. \A s : Position(s) = Cardinality(Before(s))
  BY DEF Position
<1>6. ASSUME NEW s \in rows, NEW t \in rows, s # t
      PROVE  rowId[s] < rowId[t] \/ rowId[t] < rowId[s]
  <2>1. rowId[s] \in Nat /\ rowId[t] \in Nat /\ rowId[s] # rowId[t]
    BY <1>6 DEF TypeOK, IdsOnce
  <2> QED
    BY <2>1
<1> HIDE DEF Before
<1>7. \A s \in Sockets : Position(s) \in Nat
  BY <1>2, <1>5
<1>8. rows \subseteq Sockets
  BY DEF TypeOK
<1>9. \A s \in rows : Position(s) \in 0 .. Total - 1
  BY <1>1, <1>3, <1>5, <1>7, <1>8
<1>10. \A s, t \in rows : Position(s) = Position(t) => s = t
  BY <1>4, <1>5, <1>6
<1> QED
  BY <1>1, <1>7, <1>9, <1>10

\* And so each remainder is the position of one of them.
LEMMA PositionsTaken ==
  ASSUME TypeOK, IdsOnce, NEW n \in 0 .. Total - 1
  PROVE  \E s \in rows : Position(s) = n
<1> DEFINE f == [s \in rows |-> Position(s)]
<1>1. IsFiniteSet(0 .. Total - 1) /\ Cardinality(0 .. Total - 1) = Total
  <2>1. Total \in Nat /\ Total > 0
    BY PositionsDiffer
  <2>2. 0 \in Int /\ Total - 1 \in Int /\ ~(0 > Total - 1)
    BY <2>1
  <2> QED
    BY <2>1, <2>2, FS_Interval
<1>2. f \in Injection(rows, 0 .. Total - 1)
  BY PositionsDiffer DEF Injection, IsInjective
<1>3. f \in Surjection(rows, 0 .. Total - 1)
  BY <1>1, <1>2, FS_Injection, PositionsDiffer DEF Total
<1> QED
  BY <1>3 DEF Surjection

LEMMA SharesNow ==
  ASSUME TypeOK, IdsOnce, rows # {}, NEW c \in Checks
  PROVE  \E s \in rows : {t \in Sockets : Owns(t, c)} = {s}
<1>1. Total \in Nat /\ Total > 0
  BY PositionsDiffer, FS_EmptySet DEF Total
<1>2. c \in Nat /\ c % Total \in 0 .. Total - 1
  BY <1>1
<1>3. PICK s \in rows : Position(s) = c % Total
  BY <1>2, PositionsTaken
<1>4. rows \subseteq Sockets
  BY DEF TypeOK
<1>5. \A t \in Sockets : Owns(t, c) <=> t = s
  BY <1>3, <1>4, PositionsDiffer DEF Owns
<1> QED
  BY <1>4, <1>5

-----------------------------------------------------------------------------
(* Types.                                                                  *)

LEMMA InitType == Init => TypeOK
<1> SUFFICES ASSUME Init PROVE TypeOK
  OBVIOUS
<1>1. Cardinality(Connected) \in Nat
  BY FS_CardinalityType
<1>2. 0 \in Versions /\ 1 \in Versions
  BY DEF Versions
<1>3. checks \in Assignments /\ NoCheck \in Assignments
  BY <1>2 DEF Init, Assignments, NoCheck
<1>4. NoRefresh \in Refreshes
  BY <1>3 DEF NoRefresh, Refreshes
<1>5. has \in [Sockets -> Assignments]
  BY <1>2, <1>3 DEF Init, Assignments
<1>6. rowId \in [Sockets -> Nat]
  BY <1>1 DEF Init
<1> QED
  BY <1>3, <1>4, <1>5, <1>6 DEF Init, TypeOK, ConnStates

LEMMA ProceedType ==
  ASSUME jobs \subseteq Jobs, NEW j, NEW k \in Jobs, Proceed(j, k)
  PROVE  jobs' \subseteq Jobs
BY DEF Proceed

LEMMA TypeNext == TypeOK /\ IdsOnce /\ [Next]_vars => TypeOK'
<1> SUFFICES ASSUME TypeOK, IdsOnce, [Next]_vars
             PROVE  TypeOK'
  OBVIOUS
<1>0. NoCheck \in Assignments /\ NoRefresh \in Refreshes
  BY DEF NoCheck, NoRefresh, Refreshes, Assignments, Versions
<1>1. ASSUME NEW s \in Sockets, AddSession(s) PROVE TypeOK'
  <2>1. Cardinality(Added) \in Nat
    BY FS_CardinalityType DEF IdsOnce
  <2> QED
    BY <1>1, <2>1 DEF AddSession, Announce, TypeOK, ConnStates, Added, dbVars
<1>2. ASSUME NEW s \in Sockets, DeleteSession(s) PROVE TypeOK'
  BY <1>0, <1>2 DEF DeleteSession, Announce, TypeOK, ConnStates, dbVars
<1>3. ASSUME NEW now \in Assignments, ChangeEndpoint(now) PROVE TypeOK'
  <2>1. changes' \in Nat /\ changes' \in 0 .. MaxChanges
    BY <1>3 DEF ChangeEndpoint, TypeOK
  <2>2. jobs' \subseteq Jobs
    BY <1>3, <2>1 DEF ChangeEndpoint, TypeOK, Jobs, Sent
  <2> QED
    BY <1>3, <2>1, <2>2 DEF ChangeEndpoint, TypeOK, dbVars
<1>4. ASSUME NEW i \in Instances, Crash(i) PROVE TypeOK'
  <2>1. conn' \in [Sockets -> ConnStates]
    BY <1>4 DEF Crash, TypeOK, ConnStates
  <2> QED
    BY <1>0, <1>4, <2>1 DEF Crash, Fault, TypeOK, dbVars
<1>5. ASSUME NEW i \in Instances, LoseNews(i) PROVE TypeOK'
  BY <1>5 DEF LoseNews, Fault, TypeOK, dbVars
<1>6. CASE LoseChange
  BY <1>6 DEF LoseChange, Fault, TypeOK, dbVars
<1>7. ASSUME NEW j \in jobs, LoseJob(j) PROVE TypeOK'
  BY <1>7 DEF LoseJob, Fault, TypeOK, dbVars
<1>8. ASSUME NEW s \in Sockets, FailRefresh(s) PROVE TypeOK'
  BY <1>0, <1>8 DEF FailRefresh, Fault, TypeOK, dbVars
<1>9. CASE CommitChange
  BY <1>9 DEF CommitChange, TypeOK
<1>10. ASSUME NEW s \in Sockets, Commit(s) \/ Expire(s) PROVE TypeOK'
  BY <1>10 DEF Commit, CommitAdd, CommitDelete, Expire, TypeOK, ConnStates
<1>11. ASSUME NEW j \in jobs, NEW c \in Checks, FindSession(j, c) PROVE TypeOK'
  <2>1. j \in Jobs
    BY DEF TypeOK
  <2>2. [j EXCEPT !.todo = @ \ {c}] \in Jobs
    BY <2>1 DEF Jobs
  <2>3. ASSUME NEW s \in rows
        PROVE  [[j EXCEPT !.todo = @ \ {c}] EXCEPT !.at = c, !.to = s] \in Jobs
    BY <2>1 DEF Jobs, TypeOK
  <2>4. \/ Proceed(j, [j EXCEPT !.todo = @ \ {c}])
        \/ \E s \in rows :
             Proceed(j, [[j EXCEPT !.todo = @ \ {c}] EXCEPT !.at = c, !.to = s])
    BY <1>11 DEF FindSession
  <2>5. jobs' \subseteq Jobs
    BY <2>2, <2>3, <2>4, ProceedType DEF TypeOK
  <2> QED
    BY <1>11, <2>5 DEF FindSession, TypeOK, dbVars
<1>12. ASSUME NEW j \in jobs, EmitCheck(j) PROVE TypeOK'
  <2>1. j \in Jobs /\ j.at \in Checks /\ j.now \in Assignments
    BY <1>12 DEF EmitCheck, TypeOK, Jobs
  <2>2. [j EXCEPT !.at = None, !.to = None] \in Jobs
    BY <2>1 DEF Jobs
  <2>3. jobs' \subseteq Jobs
    BY <1>12, <2>2, ProceedType DEF EmitCheck, TypeOK
  <2>4. has' \in [Sockets -> Assignments]
    BY <1>12, <2>1 DEF EmitCheck, TypeOK, Assignments
  <2> QED
    BY <1>12, <2>3, <2>4 DEF EmitCheck, TypeOK, dbVars
<1>13. ASSUME NEW i \in Instances, QueueRefreshes(i) PROVE TypeOK'
  <2>1. [NoRefresh EXCEPT !.pc = "sessions"] \in Refreshes
    BY <1>0 DEF NoRefresh, Refreshes
  <2>2. refresh' \in [Sockets -> Refreshes]
    BY <1>13, <2>1 DEF QueueRefreshes, TypeOK
  <2>3. news' \in [Instances -> Nat]
    BY <1>13 DEF QueueRefreshes, TypeOK
  <2> QED
    BY <1>13, <2>2, <2>3 DEF QueueRefreshes, TypeOK, dbVars
<1>14. ASSUME NEW s \in Sockets, PeriodicRefresh(s) PROVE TypeOK'
  BY <1>14 DEF PeriodicRefresh, TypeOK, Refreshes, dbVars
<1>15. ASSUME NEW s \in Sockets, ReadSessions(s) PROVE TypeOK'
  <2>1. Position(s) \in Nat /\ Total \in Nat
    BY PositionsDiffer
  <2> QED
    BY <1>0, <1>15, <2>1 DEF ReadSessions, TypeOK, Refreshes, dbVars
<1>16. ASSUME NEW s \in Sockets, ReadChecks(s) PROVE TypeOK'
  <2>1. Share(refresh[s].pos, refresh[s].total) \in Assignments
    BY DEF Share, Assignments, TypeOK, Versions
  <2>2. [NoRefresh EXCEPT !.pc = "emit",
                          !.load = Share(refresh[s].pos, refresh[s].total)]
          \in Refreshes
    BY <1>0, <2>1 DEF NoRefresh, Refreshes
  <2> QED
    BY <1>16, <2>2 DEF ReadChecks, TypeOK, dbVars
<1>17. ASSUME NEW s \in Sockets, EmitRefresh(s) PROVE TypeOK'
  <2>1. refresh[s].load \in Assignments
    BY DEF TypeOK, Refreshes
  <2> QED
    BY <1>0, <1>17, <2>1 DEF EmitRefresh, TypeOK, dbVars
<1>18. CASE UNCHANGED vars
  BY <1>18 DEF vars, TypeOK
<1> QED
  BY <1>1, <1>2, <1>3, <1>4, <1>5, <1>6, <1>7, <1>8, <1>9, <1>10, <1>11, <1>12,
     <1>13, <1>14, <1>15, <1>16, <1>17, <1>18
     DEF Next, World, Failure, Progress, Handle, RunRefresh

-----------------------------------------------------------------------------
(* Ids.                                                                    *)

LEMMA InitIds == Init => IdsOnce
<1> SUFFICES ASSUME Init PROVE IdsOnce
  OBVIOUS
<1>1. Added = Connected
  BY DEF Init, Added
<1>2. Cardinality(Connected) \in Nat
  BY FS_CardinalityType
<1> QED
  BY <1>1, <1>2 DEF Init, IdsOnce

\* Who has an id depends on these variables only.
LEMMA IdsStay ==
  ASSUME IdsOnce, rowId' = rowId, rows' \subseteq Added,
         \A s \in Sockets : conn'[s] = "new" <=> conn[s] = "new"
  PROVE  IdsOnce'
<1>1. Added' = Added
  BY DEF Added
<1> QED
  BY <1>1 DEF IdsOnce

LEMMA IdsNext == TypeOK /\ IdsOnce /\ [Next]_vars => IdsOnce'
<1> SUFFICES ASSUME TypeOK, IdsOnce, [Next]_vars
             PROVE  IdsOnce'
  OBVIOUS
<1>0. rows \subseteq Added /\ \A s \in Sockets : s \in Added <=> conn[s] # "new"
  BY DEF IdsOnce
<1>1. ASSUME NEW s \in Sockets, AddSession(s) PROVE IdsOnce'
  <2>1. s \notin Added /\ IsFiniteSet(Added) /\ Cardinality(Added) \in Nat
    BY <1>1, FS_CardinalityType DEF AddSession, IdsOnce
  <2>2. rowId' = [rowId EXCEPT ![s] = 1 + Cardinality(Added)]
    BY <1>1 DEF AddSession, Added
  <2>3. Added' = Added \cup {s}
    BY <2>1, <2>2 DEF Added, TypeOK
  <2>4. IsFiniteSet(Added') /\ Cardinality(Added') = 1 + Cardinality(Added)
    <3> HIDE DEF Added
    <3> QED
      BY <2>1, <2>3, FS_AddElement
  <2>5. rows' = rows /\ \A t \in Sockets : conn'[t] = "new" <=> t \notin Added'
    BY <1>0, <1>1, <2>3 DEF AddSession, dbVars, TypeOK
  <2>6. \A t \in Sockets : rowId'[t] <= Cardinality(Added')
    BY <2>1, <2>2, <2>4 DEF IdsOnce, TypeOK
  <2>7. \A t \in Added : rowId'[t] = rowId[t] /\ rowId'[t] # rowId'[s]
    BY <2>1, <2>2 DEF IdsOnce, TypeOK, Added
  <2>8. \A t, u \in Added' : rowId'[t] = rowId'[u] => t = u
    BY <2>3, <2>7 DEF IdsOnce
  <2> QED
    BY <1>0, <2>3, <2>4, <2>5, <2>6, <2>8 DEF IdsOnce
<1>2. ASSUME NEW s \in Sockets, DeleteSession(s) PROVE IdsOnce'
  BY <1>0, <1>2, IdsStay DEF DeleteSession, TypeOK, dbVars
<1>3. ASSUME NEW i \in Instances, Crash(i) PROVE IdsOnce'
  BY <1>0, <1>3, IdsStay DEF Crash, TypeOK, dbVars
<1>4. ASSUME NEW s \in Sockets, Commit(s) \/ Expire(s) PROVE IdsOnce'
  BY <1>0, <1>4, IdsStay DEF Commit, CommitAdd, CommitDelete, Expire, TypeOK
<1>5. CASE UNCHANGED <<conn, rowId, rows>>
  BY <1>0, <1>5, IdsStay
<1>6. ASSUME NEW now \in Assignments, ChangeEndpoint(now) PROVE IdsOnce'
  BY <1>5, <1>6 DEF ChangeEndpoint, dbVars
<1>7. ASSUME NEW i \in Instances, LoseNews(i) \/ QueueRefreshes(i) PROVE IdsOnce'
  BY <1>5, <1>7 DEF LoseNews, QueueRefreshes, dbVars
<1>8. ASSUME NEW j \in jobs, LoseJob(j) \/ Handle(j) PROVE IdsOnce'
  BY <1>5, <1>8 DEF LoseJob, Handle, FindSession, EmitCheck, dbVars
<1>9. ASSUME NEW s \in Sockets, FailRefresh(s) \/ PeriodicRefresh(s) \/ RunRefresh(s)
      PROVE  IdsOnce'
  BY <1>5, <1>9 DEF FailRefresh, PeriodicRefresh, RunRefresh, ReadSessions,
                    ReadChecks, EmitRefresh, dbVars
<1>10. CASE LoseChange \/ CommitChange \/ UNCHANGED vars
  BY <1>5, <1>10 DEF LoseChange, CommitChange, vars, dbVars
<1> QED
  BY <1>1, <1>2, <1>3, <1>4, <1>6, <1>7, <1>8, <1>9, <1>10
     DEF Next, World, Failure, Progress

-----------------------------------------------------------------------------
(* Shares.                                                                 *)

PositionsRead ==
    \A s \in Sockets : refresh[s].pc = "checks" => refresh[s].pos < refresh[s].total

\* A refresh goes on with a position that it has read.
LEMMA PositionsNext ==
  TypeOK /\ IdsOnce /\ PositionsRead /\ [Next]_vars => PositionsRead'
<1> SUFFICES ASSUME TypeOK, IdsOnce, PositionsRead, [Next]_vars
             PROVE  PositionsRead'
  OBVIOUS
<1>0. ASSUME \A s \in Sockets : \/ refresh'[s] = refresh[s]
                                \/ refresh'[s].pc # "checks"
      PROVE  PositionsRead'
  BY <1>0 DEF PositionsRead
<1>1. ASSUME NEW s \in Sockets, ReadSessions(s) PROVE PositionsRead'
  <2>1. s \in rows => Position(s) < Total
    BY PositionsDiffer
  <2>2. refresh'[s].pc = "checks" => refresh'[s].pos < refresh'[s].total
    BY <1>1, <2>1 DEF ReadSessions, NoRefresh, TypeOK, Refreshes
  <2>3. \A t \in Sockets \ {s} : refresh'[t] = refresh[t]
    BY <1>1 DEF ReadSessions, TypeOK
  <2> QED
    BY <2>2, <2>3 DEF PositionsRead
<1>2. ASSUME NEW s \in Sockets,
             ReadChecks(s) \/ EmitRefresh(s) \/ FailRefresh(s) \/ PeriodicRefresh(s)
      PROVE  PositionsRead'
  <2>1. refresh[s] \in Refreshes
    BY DEF TypeOK
  <2>2. refresh'[s].pc # "checks"
    <3>1. refresh \in [Sockets -> Refreshes]
      BY DEF TypeOK
    <3>2. CASE ReadChecks(s)
      BY <3>1, <3>2 DEF ReadChecks, NoRefresh
    <3>3. CASE EmitRefresh(s) \/ FailRefresh(s)
      BY <3>1, <3>3 DEF EmitRefresh, FailRefresh, NoRefresh
    <3>4. CASE PeriodicRefresh(s)
      <4>1. refresh'[s] = [refresh[s] EXCEPT !.pc = "sessions"]
        BY <3>1, <3>4 DEF PeriodicRefresh
      <4> QED
        BY <2>1, <4>1 DEF Refreshes
    <3> QED
      BY <1>2, <3>2, <3>3, <3>4
  <2>3. \A t \in Sockets \ {s} : refresh'[t] = refresh[t]
    BY <1>2 DEF ReadChecks, EmitRefresh, FailRefresh, PeriodicRefresh, TypeOK
  <2> QED
    BY <1>0, <2>2, <2>3
<1>3. ASSUME NEW i \in Instances, Crash(i) PROVE PositionsRead'
  BY <1>0, <1>3 DEF Crash, NoRefresh
<1>4. ASSUME NEW i \in Instances, QueueRefreshes(i) PROVE PositionsRead'
  BY <1>0, <1>4 DEF QueueRefreshes, NoRefresh
<1>5. CASE UNCHANGED refresh
  BY <1>0, <1>5
<1>6. ASSUME NEW s \in Sockets,
             AddSession(s) \/ DeleteSession(s) \/ Commit(s) \/ Expire(s)
      PROVE  PositionsRead'
  BY <1>5, <1>6 DEF AddSession, DeleteSession, Commit, CommitAdd, CommitDelete, Expire
<1>7. ASSUME NEW now \in Assignments, ChangeEndpoint(now) PROVE PositionsRead'
  BY <1>5, <1>7 DEF ChangeEndpoint
<1>8. ASSUME NEW i \in Instances, LoseNews(i) PROVE PositionsRead'
  BY <1>5, <1>8 DEF LoseNews
<1>9. ASSUME NEW j \in jobs, LoseJob(j) \/ Handle(j) PROVE PositionsRead'
  BY <1>5, <1>9 DEF LoseJob, Handle, FindSession, EmitCheck
<1>10. CASE LoseChange \/ CommitChange \/ UNCHANGED vars
  BY <1>5, <1>10 DEF LoseChange, CommitChange, vars
<1> QED
  BY <1>1, <1>2, <1>3, <1>4, <1>6, <1>7, <1>8, <1>9, <1>10
     DEF Next, World, Failure, Progress, RunRefresh

LEMMA Shares == TypeOK /\ IdsOnce /\ PositionsRead => SharesPartition
  BY SharesNow DEF PositionsRead, SharesPartition

\* A session that is connected keeps its row until it is deleted.
LEMMA UpNext == TypeOK /\ UpCounted /\ [Next]_vars => UpCounted'
<1> SUFFICES ASSUME TypeOK, UpCounted, [Next]_vars
             PROVE  UpCounted'
  OBVIOUS
<1>1. ASSUME NEW s \in Sockets,
             AddSession(s) \/ DeleteSession(s) \/ Commit(s) \/ Expire(s)
      PROVE  UpCounted'
  BY <1>1 DEF AddSession, DeleteSession, Commit, CommitAdd, CommitDelete, Expire,
              UpCounted, TypeOK, dbVars
<1>2. ASSUME NEW i \in Instances, Crash(i) PROVE UpCounted'
  BY <1>2 DEF Crash, UpCounted, TypeOK, dbVars
<1>3. CASE UNCHANGED <<conn, rows>>
  BY <1>3 DEF UpCounted
<1>4. ASSUME NEW now \in Assignments, ChangeEndpoint(now) PROVE UpCounted'
  BY <1>3, <1>4 DEF ChangeEndpoint, dbVars
<1>5. ASSUME NEW i \in Instances, LoseNews(i) \/ QueueRefreshes(i) PROVE UpCounted'
  BY <1>3, <1>5 DEF LoseNews, QueueRefreshes, dbVars
<1>6. ASSUME NEW j \in jobs, LoseJob(j) \/ Handle(j) PROVE UpCounted'
  BY <1>3, <1>6 DEF LoseJob, Handle, FindSession, EmitCheck, dbVars
<1>7. ASSUME NEW s \in Sockets, FailRefresh(s) \/ PeriodicRefresh(s) \/ RunRefresh(s)
      PROVE  UpCounted'
  BY <1>3, <1>7 DEF FailRefresh, PeriodicRefresh, RunRefresh, ReadSessions,
                    ReadChecks, EmitRefresh, dbVars
<1>8. CASE LoseChange \/ CommitChange \/ UNCHANGED vars
  BY <1>3, <1>8 DEF LoseChange, CommitChange, vars, dbVars
<1> QED
  BY <1>1, <1>2, <1>4, <1>5, <1>6, <1>7, <1>8 DEF Next, World, Failure, Progress

LEMMA InitInv == Init => IInv
<1> SUFFICES ASSUME Init PROVE IInv
  OBVIOUS
<1>1. TypeOK /\ IdsOnce
  BY InitType, InitIds
<1>2. PositionsRead
  BY DEF Init, PositionsRead, NoRefresh
<1>3. UpCounted
  BY DEF Init, UpCounted
<1> QED
  BY <1>1, <1>2, <1>3, Shares DEF IInv

LEMMA InvNext == IInv /\ [Next]_vars => IInv'
<1> SUFFICES ASSUME IInv, [Next]_vars PROVE IInv'
  OBVIOUS
<1>1. TypeOK /\ IdsOnce /\ PositionsRead /\ UpCounted
  BY DEF IInv, SharesPartition, PositionsRead
<1>2. TypeOK'
  BY <1>1, TypeNext
<1>3. IdsOnce'
  BY <1>1, IdsNext
<1>4. PositionsRead'
  BY <1>1, PositionsNext
<1>5. SharesPartition'
  <2> SUFFICES ASSUME (TypeOK /\ IdsOnce /\ PositionsRead => SharesPartition)'
               PROVE  SharesPartition'
    BY Shares, PTL
  <2> QED
    BY <1>2, <1>3, <1>4
<1>6. UpCounted'
  BY <1>1, UpNext
<1> QED
  BY <1>2, <1>3, <1>5, <1>6 DEF IInv

-----------------------------------------------------------------------------
(* A calm.                                                                 *)

Refreshing == \E s \in Sockets : PeriodicRefresh(s) \/ RunRefresh(s)

\* Nothing is left but refreshes.
LEMMA CalmStep == Calm /\ (Progress \/ Refreshing) => Refreshing
<1> SUFFICES ASSUME Calm, Progress PROVE FALSE
  OBVIOUS
<1>1. CASE CommitChange
  BY <1>1 DEF Calm, CommitChange
<1>2. ASSUME NEW s \in Sockets, Commit(s) \/ Expire(s) PROVE FALSE
  BY <1>2 DEF Calm, Commit, CommitAdd, CommitDelete, Expire
<1>3. ASSUME NEW j \in jobs PROVE FALSE
  BY <1>3 DEF Calm
<1>4. ASSUME NEW i \in Instances, QueueRefreshes(i) PROVE FALSE
  BY <1>4 DEF Calm, QueueRefreshes
<1> QED
  BY <1>1, <1>2, <1>3, <1>4 DEF Progress

\* They change no share.
LEMMA RefreshingKeeps ==
  ASSUME NEW s \in Sockets, PeriodicRefresh(s) \/ RunRefresh(s)
  PROVE  /\ UNCHANGED <<conn, rowId, rows, checks, update, jobs, news>>
         /\ Total' = Total
         /\ \A t \in Sockets : /\ Position(t)' = Position(t)
                             /\ Share(Position(t), Total)' = Share(Position(t), Total)
<1>1. UNCHANGED <<conn, rowId, rows, checks, update, jobs, news>>
  BY DEF PeriodicRefresh, RunRefresh, ReadSessions, ReadChecks, EmitRefresh, dbVars
<1>2. Total' = Total
  BY <1>1 DEF Total
<1>3. \A t \in Sockets : Position(t)' = Position(t)
  BY <1>1 DEF Position
<1>4. \A t \in Sockets : Share(Position(t), Total)' = Share(Position(t), Total)
  BY <1>1, <1>2, <1>3 DEF Share
<1> QED
  BY <1>1, <1>2, <1>3, <1>4

LEMMA CalmSettles ==
  ASSUME TypeOK, UpCounted, Calm, Refreshing
  PROVE  /\ Calm'
         /\ \A s \in Sockets : conn[s] = "up" /\ Fresh(s) =>
              /\ Fresh(s)'
              /\ Settled(s) \/ (refresh[s] # NoRefresh /\ refresh'[s] = NoRefresh) =>
                   Settled(s)'
<1>1. PICK s \in Sockets : PeriodicRefresh(s) \/ RunRefresh(s)
  BY DEF Refreshing
<1>2. Calm'
  BY <1>1, RefreshingKeeps DEF Calm
<1>3. ASSUME NEW t \in Sockets, conn[t] = "up", Fresh(t)
      PROVE  /\ Fresh(t)'
             /\ Settled(t) \/ (refresh[t] # NoRefresh /\ refresh'[t] = NoRefresh) =>
                  Settled(t)'
  <2> DEFINE share == Share(Position(t), Total)
  <2>1. /\ Total' = Total /\ Position(t)' = Position(t) /\ share' = share
    BY <1>1, RefreshingKeeps
  <2> HIDE DEF share
  <2>2. refresh \in [Sockets -> Refreshes] /\ t \in rows /\ Cached(t)
    BY <1>3 DEF TypeOK, UpCounted, Cached
  <2>3. CASE refresh'[t] = refresh[t] /\ has'[t] = has[t]
    <3>1. Fresh(t)'
      BY <1>3, <2>1, <2>3 DEF Fresh, share
    <3>2. Settled(t) => Settled(t)'
      BY <2>1, <2>3 DEF Settled, share
    <3> QED
      BY <2>3, <3>1, <3>2
  <2>4. CASE s = t /\ PeriodicRefresh(s)
    <3>1. refresh'[t].pc = "sessions" /\ has'[t] = has[t]
      BY <2>2, <2>4 DEF PeriodicRefresh, Refreshes
    <3>2. refresh'[t] # NoRefresh
      BY <3>1 DEF NoRefresh
    <3>3. Fresh(t)'
      BY <3>1 DEF Fresh
    <3>4. Settled(t) => Settled(t)'
      BY <2>1, <3>1 DEF Settled, share
    <3> QED
      BY <3>2, <3>3, <3>4
  <2>5. CASE s = t /\ ReadSessions(s)
    <3>1. /\ refresh'[t].pc = "checks" /\ refresh'[t].pos = Position(t)
          /\ refresh'[t].total = Total /\ has'[t] = has[t]
      BY <2>2, <2>5 DEF ReadSessions, Refreshes
    <3>2. refresh'[t] # NoRefresh
      BY <3>1 DEF NoRefresh
    <3>3. Fresh(t)'
      BY <2>1, <3>1 DEF Fresh
    <3>4. Settled(t) => Settled(t)'
      BY <2>1, <3>1 DEF Settled, share
    <3> QED
      BY <3>2, <3>3, <3>4
  <2>6. CASE s = t /\ ReadChecks(s)
    <3>1. refresh'[t].pc = "emit" /\ has'[t] = has[t]
      BY <2>2, <2>6 DEF ReadChecks, NoRefresh
    <3>2. refresh'[t].load = Share(Position(t), Total)
      BY <1>3, <2>2, <2>6 DEF ReadChecks, NoRefresh, Fresh
    <3>3. refresh'[t] # NoRefresh
      BY <3>1 DEF NoRefresh
    <3>4. Fresh(t)'
      BY <2>1, <3>1, <3>2 DEF Fresh, share
    <3>5. Settled(t) => Settled(t)'
      BY <2>1, <3>1 DEF Settled, share
    <3> QED
      BY <3>3, <3>4, <3>5
  <2>7. CASE s = t /\ EmitRefresh(s)
    <3>1. refresh'[t].pc = "idle" /\ has'[t] = share
      BY <1>3, <2>2, <2>7 DEF EmitRefresh, NoRefresh, Fresh, TypeOK, share
    <3>2. Fresh(t)'
      BY <3>1 DEF Fresh
    <3>3. Settled(t)'
      BY <2>1, <3>1 DEF Settled, share
    <3> QED
      BY <3>2, <3>3
  <2>8. s = t \/ (refresh'[t] = refresh[t] /\ has'[t] = has[t])
    BY <1>1 DEF PeriodicRefresh, RunRefresh, ReadSessions, ReadChecks, EmitRefresh, TypeOK
  <2> QED
    BY <1>1, <2>3, <2>4, <2>5, <2>6, <2>7, <2>8 DEF RunRefresh
<1> QED
  BY <1>2, <1>3

-----------------------------------------------------------------------------
(* Theorems.                                                               *)

\* Ids of sessions are given out in order and once, connected sessions are counted,
\* positions that were read are positions, and the sessions divide the checks: in every reachable state.
THEOREM Invariance == Spec => []IInv
  BY InitInv, InvNext, PTL DEF Spec

\* Every reachable state is well typed.
THEOREM TypeCorrect == Spec => []TypeOK
<1>1. IInv => TypeOK
  BY DEF IInv
<1> QED
  BY <1>1, Invariance, PTL

\* Whichever sessions GetProbeSessions finds, each check falls to exactly one of
\* them, and a refresh computes its share with a position below their number.
THEOREM ChecksDivided == Spec => []SharesPartition
<1>1. IInv => SharesPartition
  BY DEF IInv
<1> QED
  BY <1>1, Invariance, PTL

\* Refresh: in a calm the first refresh of a session that began in it gives it its
\* share, and it keeps it.
THEOREM RefreshesSettle == Spec => Settles
<1>1. ASSUME IInv, [Next]_vars
      PROVE  [Calm /\ (Progress \/ Refreshing) =>
                /\ Calm'
                /\ \A s \in Sockets : conn[s] = "up" /\ Fresh(s) =>
                     /\ Fresh(s)'
                     /\ Settled(s) \/ (refresh[s] # NoRefresh /\ refresh'[s] = NoRefresh) =>
                          Settled(s)']_vars
  BY <1>1, CalmStep, CalmSettles DEF IInv
<1> QED
  BY <1>1, Invariance, PTL DEF Spec, Settles, Refreshing
=============================================================================
