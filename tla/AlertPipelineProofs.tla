------------------------ MODULE AlertPipelineProofs ------------------------
(***************************************************************************)
(* Each change of a state is notified once, no point is asked for twice    *)
(* while it is in the cache, a job that runs alone decides the state, and  *)
(* that state is the one the settings describe: for any servers, writers,  *)
(* responses, settings, sizes of the queues and of the cache, ages,        *)
(* lengths of time, and any number of faults and saves.                    *)
(***************************************************************************)
EXTENDS AlertPipeline, SequenceLemmas

-----------------------------------------------------------------------------
(* Induction: a set of numbers has a least one.                            *)

LEMMA LeastOf ==
  ASSUME NEW T \in SUBSET Nat, T # {}
  PROVE  \E n \in T : \A m \in T : n <= m
<1> DEFINE R == OpToRel(<, Nat)
<1>1. IsWellFoundedOn(R, Nat)
  BY NatLessThanWellFounded, Zenon
<1>2. \A m, n \in Nat : m < n => <<m, n>> \in R
  BY DEF OpToRel
<1> HIDE DEF R
<1>3. PICK n \in T : \A m \in T : <<m, n>> \notin R
  BY <1>1, WFMin
<1>4. \A m \in T : ~(m < n)
  BY <1>2, <1>3
<1>5. T \subseteq Nat /\ n \in Nat
  OBVIOUS
<1>6. \A m \in T : n <= m
  BY <1>4, <1>5
<1> QED
  BY <1>6

\* What holds of 0, and of n + 1 if of n, holds up to N.
LEMMA InductUpTo ==
  ASSUME NEW N \in Nat, NEW T, 0 \in T,
         \A n \in 0 .. N : n < N /\ n \in T => n + 1 \in T
  PROVE  0 .. N \subseteq T
<1> SUFFICES ASSUME (0 .. N) \ T # {} PROVE FALSE
  OBVIOUS
<1>0. (0 .. N) \ T \in SUBSET Nat
  OBVIOUS
<1>1. PICK n \in (0 .. N) \ T : \A m \in (0 .. N) \ T : n <= m
  BY <1>0, LeastOf
<1>2. n # 0 /\ n - 1 \in 0 .. N /\ n - 1 < N /\ (n - 1) + 1 = n /\ ~(n <= n - 1)
  BY <1>1
<1> QED
  BY <1>1, <1>2

-----------------------------------------------------------------------------
(* The loop.                                                               *)

\* g has the loop's variables after each of the first n points.
Counts(s, n, g) ==
  g = [i \in 0 .. n |-> IF i = 0 THEN NoPoints ELSE Count(g[i - 1], s[i])]

LEMMA CountersExist ==
  ASSUME NEW s, Len(s) \in Nat
  PROVE  \A n \in 0 .. Len(s) : \E g : Counts(s, n, g)
<1> DEFINE T == {n \in 0 .. Len(s) : \E g : Counts(s, n, g)}
<1>1. 0 \in T
  <2>1. Counts(s, 0, [i \in 0 .. 0 |-> NoPoints])
    BY DEF Counts
  <2> QED
    BY <2>1
<1>2. ASSUME NEW n \in 0 .. Len(s), n < Len(s), n \in T
      PROVE  n + 1 \in T
  <2>1. PICK g : Counts(s, n, g)
    BY <1>2
  <2> DEFINE h == [i \in 0 .. n + 1 |-> IF i = n + 1 THEN Count(g[n], s[n + 1])
                                        ELSE g[i]]
  <2>2. \A i \in 0 .. n : g[i] = IF i = 0 THEN NoPoints ELSE Count(g[i - 1], s[i])
    BY <2>1 DEF Counts
  <2>3. ASSUME NEW i \in 0 .. n + 1
        PROVE  h[i] = IF i = 0 THEN NoPoints ELSE Count(h[i - 1], s[i])
    <3>1. CASE i = n + 1
      <4>1. i # 0 /\ i - 1 = n /\ n \in 0 .. n + 1 /\ n # n + 1
        BY <3>1
      <4>2. h[i] = Count(g[n], s[i]) /\ h[n] = g[n]
        BY <3>1, <4>1
      <4> QED
        BY <4>1, <4>2
    <3>2. CASE i \in 0 .. n /\ i # 0
      <4>1. i - 1 \in 0 .. n + 1 /\ i - 1 # n + 1 /\ i # n + 1
        BY <3>2
      <4>2. h[i] = g[i] /\ h[i - 1] = g[i - 1]
        BY <4>1
      <4> QED
        BY <2>2, <3>2, <4>2
    <3>3. CASE i = 0
      BY <2>2, <3>3
    <3> QED
      BY <3>1, <3>2, <3>3
  <2> HIDE DEF h
  <2>4. h = [i \in 0 .. n + 1 |-> h[i]]
    BY DEF h
  <2>5. Counts(s, n + 1, h)
    BY <2>3, <2>4 DEF Counts
  <2>6. n + 1 \in 0 .. Len(s)
    BY <1>2
  <2> QED
    BY <2>5, <2>6
<1> HIDE DEF T
<1>3. 0 .. Len(s) \subseteq T
  BY <1>1, <1>2, InductUpTo
<1> QED
  BY <1>3 DEF T

LEMMA CountersFacts ==
  ASSUME NEW s, Len(s) \in Nat
  PROVE  /\ Counters(s)[0] = NoPoints
         /\ \A n \in 0 .. Len(s) :
              n < Len(s) => Counters(s)[n + 1] = Count(Counters(s)[n], s[n + 1])
<1>1. PICK g : Counts(s, Len(s), g)
  BY CountersExist
<1>2. Counts(s, Len(s), Counters(s))
  BY <1>1 DEF Counts, Counters
<1> DEFINE c == Counters(s)
<1> HIDE DEF c
<1>3. \A i \in 0 .. Len(s) : c[i] = IF i = 0 THEN NoPoints ELSE Count(c[i - 1], s[i])
  BY <1>2 DEF Counts, c
<1>4. c[0] = NoPoints
  BY <1>3
<1>5. ASSUME NEW n \in 0 .. Len(s), n < Len(s)
      PROVE  c[n + 1] = Count(c[n], s[n + 1])
  <2>1. n + 1 \in 0 .. Len(s) /\ n + 1 # 0 /\ (n + 1) - 1 = n
    BY <1>5
  <2> QED
    BY <1>3, <2>1
<1> QED
  BY <1>4, <1>5 DEF c

-----------------------------------------------------------------------------
(* Streaks.                                                                *)

Clean(s, a, b) == \A i \in a .. b : s[i] # "good"
BadsIn(s, a, b) == {i \in a .. b : s[i] = "bad"}
NumBad(s, a, b) == Cardinality(BadsIn(s, a, b))

LEMMA NumBadFacts ==
  ASSUME NEW s, NEW a \in Nat, NEW n \in Nat
  PROVE  /\ NumBad(s, a, n) \in Nat
         /\ a > n => NumBad(s, a, n) = 0
         /\ NumBad(s, a, n) > 0 => \E i \in a .. n : s[i] = "bad"
         /\ a <= n + 1 => NumBad(s, a, n + 1) =
              IF s[n + 1] = "bad" THEN NumBad(s, a, n) + 1 ELSE NumBad(s, a, n)
<1>1. IsFiniteSet(a .. n)
  BY FS_Interval
<1>2. IsFiniteSet(BadsIn(s, a, n))
  <2>1. BadsIn(s, a, n) \in SUBSET (a .. n)
    BY DEF BadsIn
  <2> QED
    BY <1>1, <2>1, FS_Subset
<1>3. NumBad(s, a, n) \in Nat
  BY <1>2, FS_CardinalityType DEF NumBad
<1>4. NumBad(s, a, n) = 0 <=> BadsIn(s, a, n) = {}
  BY <1>2, FS_EmptySet DEF NumBad
<1>5. a > n => BadsIn(s, a, n) = {}
  BY DEF BadsIn
<1>6. NumBad(s, a, n) > 0 => \E i \in a .. n : s[i] = "bad"
  BY <1>3, <1>4 DEF BadsIn
<1>7. ASSUME a <= n + 1
      PROVE  NumBad(s, a, n + 1) =
               IF s[n + 1] = "bad" THEN NumBad(s, a, n) + 1 ELSE NumBad(s, a, n)
  <2>1. a .. n + 1 = (a .. n) \cup {n + 1} /\ n + 1 \notin a .. n
    BY <1>7
  <2>2. CASE s[n + 1] = "bad"
    <3>1. /\ BadsIn(s, a, n + 1) = BadsIn(s, a, n) \cup {n + 1}
          /\ n + 1 \notin BadsIn(s, a, n)
      BY <2>1, <2>2 DEF BadsIn
    <3> QED
      BY <1>2, <2>2, <3>1, FS_AddElement DEF NumBad
  <2>3. CASE s[n + 1] # "bad"
    <3>1. BadsIn(s, a, n + 1) = BadsIn(s, a, n)
      BY <2>1, <2>3 DEF BadsIn
    <3> QED
      BY <2>3, <3>1 DEF NumBad
  <2> QED
    BY <2>2, <2>3
<1> QED
  BY <1>3, <1>4, <1>5, <1>6, <1>7

\* What the loop's variables are after n points: curStreak has the bad points
\* since the last good one, maxStreak those of the longest streak that a good one
\* has ended, as far as there was a longer one.
Current(s, n, k) ==
  /\ \E a \in 1 .. n + 1 : Clean(s, a, n) /\ NumBad(s, a, n) = k
  /\ \A a \in 1 .. n + 1 : Clean(s, a, n) => NumBad(s, a, n) <= k
Longest(s, n, k, m) ==
  /\ m = 0 \/ \E a, b \in 1 .. n : Clean(s, a, b) /\ NumBad(s, a, b) = m
  /\ \A a, b \in 1 .. n : Clean(s, a, b) => NumBad(s, a, b) <= Larger(k, m)
AnyPoint(s, n) == \E i \in 1 .. n : s[i] \in {"good", "bad"}
After(s, n, c) ==
  /\ c \in [curStreak : Nat, maxStreak : Nat, nonNullPoints : Nat]
  /\ Current(s, n, c.curStreak)
  /\ Longest(s, n, c.curStreak, c.maxStreak)
  /\ c.nonNullPoints > 0 <=> AnyPoint(s, n)

LEMMA AfterNothing == ASSUME NEW s PROVE After(s, 0, NoPoints)
<1>1. 1 \in 1 .. 0 + 1 /\ Clean(s, 1, 0) /\ \A a \in 1 .. 0 + 1 : a = 1
  BY DEF Clean
<1>2. NumBad(s, 1, 0) = 0
  <2>1. 1 \in Nat /\ 0 \in Nat /\ 1 > 0
    OBVIOUS
  <2> QED
    BY <2>1, NumBadFacts
<1>3. Current(s, 0, 0)
  BY <1>1, <1>2 DEF Current
<1>4. Longest(s, 0, 0, 0) /\ ~AnyPoint(s, 0)
  BY DEF Longest, AnyPoint
<1> QED
  BY <1>3, <1>4 DEF After, NoPoints

LEMMA CurrentNext ==
  ASSUME NEW s, NEW n \in Nat, NEW k \in Nat, Current(s, n, k)
  PROVE  Current(s, n + 1, IF s[n + 1] = "good" THEN 0
                           ELSE IF s[n + 1] = "bad" THEN k + 1 ELSE k)
<1>1. \A a \in 1 .. n + 1 :
        Clean(s, a, n + 1) <=> Clean(s, a, n) /\ s[n + 1] # "good"
  <2>1. \A a \in 1 .. n + 1 : a .. n + 1 = (a .. n) \cup {n + 1}
    OBVIOUS
  <2> QED
    BY <2>1 DEF Clean
<1>2. /\ n + 2 \in 1 .. n + 1 + 1 /\ Clean(s, n + 2, n + 1) /\ NumBad(s, n + 2, n + 1) = 0
      /\ \A a \in 1 .. n + 1 + 1 : a = n + 2 \/ a \in 1 .. n + 1
  <2>1. /\ n + 2 \in Nat /\ n + 1 \in Nat /\ n + 2 > n + 1
        /\ n + 2 \in 1 .. n + 1 + 1
        /\ \A a \in 1 .. n + 1 + 1 : a = n + 2 \/ a \in 1 .. n + 1
    OBVIOUS
  <2>2. NumBad(s, n + 2, n + 1) = 0
    BY <2>1, NumBadFacts
  <2>3. Clean(s, n + 2, n + 1)
    BY DEF Clean
  <2> QED
    BY <2>1, <2>2, <2>3
<1>3. \A a \in 1 .. n + 1 : /\ NumBad(s, a, n) \in Nat
                            /\ NumBad(s, a, n + 1) =
                                 IF s[n + 1] = "bad" THEN NumBad(s, a, n) + 1
                                 ELSE NumBad(s, a, n)
  BY NumBadFacts
<1>4. CASE s[n + 1] = "good"
  <2>1. \A a \in 1 .. n + 1 + 1 : Clean(s, a, n + 1) => a = n + 2
    BY <1>1, <1>2, <1>4
  <2> QED
    BY <1>2, <1>4, <2>1 DEF Current
<1>5. CASE s[n + 1] # "good"
  <2> DEFINE l == IF s[n + 1] = "bad" THEN k + 1 ELSE k
  <2>1. PICK a \in 1 .. n + 1 : Clean(s, a, n) /\ NumBad(s, a, n) = k
    BY DEF Current
  <2>2. a \in 1 .. n + 1 + 1 /\ Clean(s, a, n + 1) /\ NumBad(s, a, n + 1) = l
    BY <1>1, <1>3, <1>5, <2>1
  <2>3. ASSUME NEW b \in 1 .. n + 1 + 1, Clean(s, b, n + 1)
        PROVE  NumBad(s, b, n + 1) <= l
    <3>1. CASE b = n + 2
      BY <1>2, <3>1
    <3>2. CASE b \in 1 .. n + 1
      <4>1. Clean(s, b, n)
        BY <1>1, <2>3, <3>2
      <4>2. NumBad(s, b, n) <= k
        BY <3>2, <4>1 DEF Current
      <4> QED
        BY <1>3, <3>2, <4>2
    <3> QED
      BY <1>2, <3>1, <3>2
  <2>4. Current(s, n + 1, l)
    BY <2>2, <2>3 DEF Current
  <2> QED
    BY <1>5, <2>4
<1> QED
  BY <1>4, <1>5

LEMMA LongestNext ==
  ASSUME NEW s, NEW n \in Nat, NEW k \in Nat, NEW m \in Nat, NEW l \in Nat, NEW p \in Nat,
         Current(s, n, k), Longest(s, n, k, m), Current(s, n + 1, l),
         p = IF s[n + 1] = "good" THEN Larger(k, m) ELSE m,
         Larger(k, m) <= Larger(l, p)
  PROVE  Longest(s, n + 1, l, p)
<1>1. p = 0 \/ \E a, b \in 1 .. n + 1 : Clean(s, a, b) /\ NumBad(s, a, b) = p
  <2>1. CASE p = m
    BY <2>1 DEF Longest
  <2>2. CASE p = k
    <3>1. PICK a \in 1 .. n + 1 : Clean(s, a, n) /\ NumBad(s, a, n) = k
      BY DEF Current
    <3>2. k = 0 \/ a <= n
      BY <3>1, NumBadFacts
    <3>3. k = 0 \/ (a \in 1 .. n + 1 /\ n \in 1 .. n + 1)
      BY <3>1, <3>2
    <3> QED
      BY <2>2, <3>1, <3>3
  <2> QED
    BY <2>1, <2>2 DEF Larger
<1>2. ASSUME NEW a \in 1 .. n + 1, NEW b \in 1 .. n + 1, Clean(s, a, b)
      PROVE  NumBad(s, a, b) <= Larger(l, p)
  <2>0. NumBad(s, a, b) \in Nat /\ (a > b => NumBad(s, a, b) = 0)
    <3>1. a \in Nat /\ b \in Nat
      OBVIOUS
    <3> QED
      BY <3>1, NumBadFacts
  <2>1. CASE b = n + 1
    <3>1. NumBad(s, a, b) <= l
      BY <1>2, <2>1 DEF Current
    <3> QED
      BY <2>0, <3>1 DEF Larger
  <2>2. CASE b \in 1 .. n /\ a \in 1 .. n
    <3>1. NumBad(s, a, b) <= Larger(k, m)
      BY <1>2, <2>2 DEF Longest
    <3> QED
      BY <2>0, <3>1 DEF Larger
  <2>3. CASE a > b
    BY <2>0, <2>3 DEF Larger
  <2> QED
    BY <2>1, <2>2, <2>3
<1> QED
  BY <1>1, <1>2 DEF Longest

LEMMA AfterNext ==
  ASSUME NEW s, NEW n \in Nat, NEW c, After(s, n, c)
  PROVE  After(s, n + 1, Count(c, s[n + 1]))
<1> DEFINE v == s[n + 1]
           d == Count(c, v)
           k == c.curStreak
           m == c.maxStreak
<1>0. k \in Nat /\ m \in Nat /\ c.nonNullPoints \in Nat
  BY DEF After
<1>1. /\ d \in [curStreak : Nat, maxStreak : Nat, nonNullPoints : Nat]
      /\ d.curStreak = IF v = "good" THEN 0 ELSE IF v = "bad" THEN k + 1 ELSE k
      /\ d.maxStreak = IF v = "good" THEN Larger(k, m) ELSE m
      /\ d.nonNullPoints = IF v \in {"good", "bad"} THEN c.nonNullPoints + 1
                           ELSE c.nonNullPoints
  <2>1. c \in [curStreak : Nat, maxStreak : Nat, nonNullPoints : Nat]
    BY DEF After
  <2>2. CASE v = "good"
    <3>1. d = [curStreak |-> 0, maxStreak |-> Larger(k, m),
               nonNullPoints |-> c.nonNullPoints + 1]
      BY <2>2 DEF Count
    <3>2. Larger(k, m) \in Nat /\ c.nonNullPoints + 1 \in Nat
      BY <1>0 DEF Larger
    <3> HIDE DEF d, k, m
    <3> QED
      BY <2>2, <3>1, <3>2
  <2>3. CASE v = "bad"
    <3>1. d = [c EXCEPT !.curStreak = @ + 1, !.nonNullPoints = @ + 1]
      BY <2>3 DEF Count
    <3>2. d = [curStreak |-> k + 1, maxStreak |-> m, nonNullPoints |-> c.nonNullPoints + 1]
      BY <2>1, <3>1
    <3> HIDE DEF d, k, m
    <3> QED
      BY <1>0, <2>3, <3>2
  <2>4. CASE v \notin {"good", "bad"}
    <3>1. d = c
      BY <2>4 DEF Count
    <3> QED
      BY <2>1, <2>4, <3>1
  <2> QED
    BY <2>2, <2>3, <2>4
<1>2. Current(s, n + 1, d.curStreak)
  <2>1. Current(s, n, k)
    BY DEF After
  <2> HIDE DEF d, k
  <2> QED
    BY <1>0, <1>1, <2>1, CurrentNext
<1>3. Longest(s, n + 1, d.curStreak, d.maxStreak)
  <2>1. Current(s, n, k) /\ Longest(s, n, k, m)
    BY DEF After
  <2>2. d.curStreak \in Nat /\ d.maxStreak \in Nat
    BY <1>1
  <2>3. Larger(k, m) <= Larger(d.curStreak, d.maxStreak)
    <3> HIDE DEF d, k, m
    <3> QED
      BY <1>0, <1>1 DEF Larger
  <2> HIDE DEF d, k, m
  <2> QED
    BY <1>0, <1>1, <1>2, <2>1, <2>2, <2>3, LongestNext
<1>4. d.nonNullPoints > 0 <=> AnyPoint(s, n + 1)
  <2>1. 1 .. n + 1 = (1 .. n) \cup {n + 1}
    OBVIOUS
  <2>2. AnyPoint(s, n + 1) <=> AnyPoint(s, n) \/ v \in {"good", "bad"}
    BY <2>1 DEF AnyPoint
  <2>3. c.nonNullPoints > 0 <=> AnyPoint(s, n)
    BY DEF After
  <2> HIDE DEF d
  <2> QED
    BY <1>0, <1>1, <2>2, <2>3
<1> HIDE DEF d
<1>5. After(s, n + 1, d)
  BY <1>1, <1>2, <1>3, <1>4 DEF After
<1> QED
  BY <1>5 DEF d

\* After the last point of a series.
LEMMA Scanned ==
  ASSUME NEW s, Len(s) \in Nat
  PROVE  After(s, Len(s), Scan(s))
<1> DEFINE T == {n \in 0 .. Len(s) : After(s, n, Counters(s)[n])}
<1>1. 0 \in T
  BY CountersFacts, AfterNothing
<1>2. ASSUME NEW n \in 0 .. Len(s), n < Len(s), n \in T
      PROVE  n + 1 \in T
  <2>1. n \in Nat /\ n + 1 \in 0 .. Len(s)
    BY <1>2
  <2>2. After(s, n, Counters(s)[n])
    BY <1>2
  <2>3. Counters(s)[n + 1] = Count(Counters(s)[n], s[n + 1])
    BY <1>2, CountersFacts
  <2>4. After(s, n + 1, Counters(s)[n + 1])
    BY <2>1, <2>2, <2>3, AfterNext
  <2> QED
    BY <2>1, <2>4
<1> HIDE DEF T
<1>3. Len(s) \in T
  <2>1. 0 .. Len(s) \subseteq T
    BY <1>1, <1>2, InductUpTo
  <2> QED
    BY <2>1
<1> QED
  BY <1>3 DEF T, Scan

-----------------------------------------------------------------------------
(* The state.                                                              *)

LEMMA BadSeries ==
  ASSUME NEW s \in Seq(Values)
  PROVE  /\ Larger(Scan(s).curStreak, Scan(s).maxStreak) >= Steps <=> BadRun(s)
         /\ Scan(s).nonNullPoints > 0 <=> ToSet(s) \cap {"good", "bad"} # {}
         /\ BadRun(s) => Scan(s).nonNullPoints > 0
<1>0. Steps \in Nat /\ Steps > 0
  BY EvalAssumption
<1> DEFINE n == Len(s)
           k == Scan(s).curStreak
           m == Scan(s).maxStreak
<1>1. n \in Nat /\ DOMAIN s = 1 .. n
  OBVIOUS
<1>2. After(s, n, Scan(s))
  BY <1>1, Scanned
<1>3. k \in Nat /\ m \in Nat /\ Current(s, n, k) /\ Longest(s, n, k, m)
  BY <1>2 DEF After
<1>4. BadRun(s) <=> \E a, b \in 1 .. n : Clean(s, a, b) /\ NumBad(s, a, b) >= Steps
  BY <1>1 DEF BadRun, Clean, NumBad, BadsIn
<1>5. \A a, b \in 1 .. n : NumBad(s, a, b) \in Nat
  BY <1>1, NumBadFacts
<1> HIDE DEF n, k, m
<1>6. ASSUME NEW a \in 1 .. n, NEW b \in 1 .. n, Clean(s, a, b), NumBad(s, a, b) >= Steps
      PROVE  Larger(k, m) >= Steps
  <2>1. NumBad(s, a, b) <= Larger(k, m)
    BY <1>6, <1>3 DEF Longest
  <2> QED
    BY <1>0, <1>3, <1>5, <1>6, <2>1 DEF Larger
<1>7. ASSUME k >= Steps PROVE BadRun(s)
  <2>1. PICK a \in 1 .. n + 1 : Clean(s, a, n) /\ NumBad(s, a, n) = k
    BY <1>3 DEF Current
  <2>2. a <= n
    BY <1>0, <1>1, <1>3, <1>7, <2>1, NumBadFacts
  <2>3. a \in 1 .. n /\ n \in 1 .. n
    BY <1>1, <2>1, <2>2
  <2> QED
    BY <1>4, <1>7, <2>1, <2>3
<1>8. ASSUME m >= Steps PROVE BadRun(s)
  <2>1. PICK a, b \in 1 .. n : Clean(s, a, b) /\ NumBad(s, a, b) = m
    BY <1>0, <1>3, <1>8 DEF Longest
  <2> QED
    BY <1>4, <1>8, <2>1
<1>9. Larger(k, m) >= Steps <=> BadRun(s)
  BY <1>4, <1>6, <1>7, <1>8 DEF Larger
<1>10. Scan(s).nonNullPoints > 0 <=> AnyPoint(s, n)
  BY <1>2 DEF After
<1>11. AnyPoint(s, n) <=> ToSet(s) \cap {"good", "bad"} # {}
  BY <1>1 DEF AnyPoint, ToSet
<1>12. BadRun(s) => AnyPoint(s, n)
  <2> SUFFICES ASSUME BadRun(s) PROVE AnyPoint(s, n)
    OBVIOUS
  <2>1. PICK a, b \in 1 .. n : NumBad(s, a, b) >= Steps
    BY <1>4
  <2>2. \E i \in a .. b : s[i] = "bad"
    <3>1. a \in Nat /\ b \in Nat
      BY <1>1
    <3>2. NumBad(s, a, b) \in Nat /\ NumBad(s, a, b) > 0
      BY <1>0, <1>5, <2>1
    <3> QED
      BY <3>1, <3>2, NumBadFacts
  <2> QED
    BY <1>1, <2>2 DEF AnyPoint
<1> QED
  BY <1>9, <1>10, <1>11, <1>12 DEF k, m

\* Whatever Graphite answers, eval finds the state that the settings describe.
THEOREM EvalFindsState == FindsState
<1> SUFFICES ASSUME NEW res \in Responses, ~Has(res, {"garbled"}), res # <<>>
             PROVE  /\ Eval(res) = "unknown" <=> ~Has(res, {"good", "bad"})
                    /\ Eval(res) = "crit" <=>
                         Cardinality({e \in DOMAIN res : BadRun(res[e])}) >= NumProbes
  BY DEF FindsState
<1>1. res \in Seq(Seq(Values)) /\ NumProbes \in Nat /\ NumProbes > 0
  BY EvalAssumption
<1>2. \A e \in DOMAIN res : res[e] \in Seq(Values)
  BY <1>1
<1>3. ToSet(res) = {res[e] : e \in DOMAIN res}
  BY DEF ToSet
<1>4. ASSUME NEW s \in ToSet(res) PROVE ~Contains(s, "garbled")
  <2>1. s \in Seq(Values)
    BY <1>2, <1>3
  <2>2. "garbled" \notin ToSet(s)
    BY DEF Has
  <2> QED
    BY <2>1, <2>2 DEF Contains, ToSet
<1>5. Eval(res) = IF WithData(res) = {} THEN "unknown"
                  ELSE IF Cardinality(BadEndpoints(res)) >= NumProbes THEN "crit"
                  ELSE "ok"
  BY <1>4 DEF Eval
<1>6. BadEndpoints(res) = {e \in DOMAIN res : BadRun(res[e])}
  BY <1>2, BadSeries DEF BadEndpoints
<1>7. WithData(res) = {} <=> ~Has(res, {"good", "bad"})
  BY <1>2, <1>3, BadSeries DEF WithData, Has
<1>8. WithData(res) = {} => Cardinality(BadEndpoints(res)) = 0
  <2>1. BadEndpoints(res) \subseteq WithData(res)
    BY <1>2, <1>6, BadSeries DEF WithData
  <2> QED
    BY <2>1, FS_EmptySet
<1>9. ~(0 >= NumProbes)
  BY <1>1
<1> QED
  BY <1>5, <1>6, <1>7, <1>8, <1>9

-----------------------------------------------------------------------------
(* The pipeline.                                                           *)

LEMMA Constants ==
  /\ \A k \in Writers : WorkerOf[k] \in Workers
  /\ IsFiniteSet(Writers)
  /\ CacheSize \in Nat /\ CacheSize > 0 /\ QueueSize \in Nat /\ QueueSize > 0
  /\ MaxPoints \in Nat /\ MaxPoints > 0
  /\ MaxAge \in Nat /\ StaleAfter \in Nat /\ LostAfter \in Nat
  /\ MaxTime \in Nat /\ MaxFaults \in Nat /\ MaxSaves \in Nat
  BY PipelineAssumption

USE Constants

-----------------------------------------------------------------------------
(* Bags that gain or lose one copy.                                        *)

LEMMA EmptyBagFacts ==
  /\ IsABag(EmptyBag) /\ BagToSet(EmptyBag) = {}
  /\ \A e : Copies(e, EmptyBag) = 0
  BY DEF IsABag, EmptyBag, SetToBag, BagToSet, Copies, BagIn

LEMMA CopiesFacts ==
  ASSUME NEW B, IsABag(B), NEW e
  PROVE  Copies(e, B) \in Nat /\ (e \in BagToSet(B) <=> Copies(e, B) > 0)
  BY DEF IsABag, BagToSet, Copies, BagIn

LEMMA BagAdd ==
  ASSUME NEW B, IsABag(B), NEW c
  PROVE  /\ IsABag(B (+) SetToBag({c}))
         /\ BagToSet(B (+) SetToBag({c})) = BagToSet(B) \cup {c}
         /\ \A e : Copies(e, B (+) SetToBag({c})) =
                     Copies(e, B) + (IF e = c THEN 1 ELSE 0)
  BY DEF IsABag, (+), SetToBag, BagToSet, Copies, BagIn

LEMMA BagDrop ==
  ASSUME NEW B, IsABag(B), NEW c
  PROVE  /\ IsABag(B (-) SetToBag({c}))
         /\ BagToSet(B (-) SetToBag({c})) \subseteq BagToSet(B)
         /\ \A e : e # c => Copies(e, B (-) SetToBag({c})) = Copies(e, B)
         /\ c \in BagToSet(B) =>
              Copies(c, B (-) SetToBag({c})) = Copies(c, B) - 1
  BY DEF IsABag, (-), SetToBag, BagToSet, Copies, BagIn

-----------------------------------------------------------------------------
(* Types.                                                                  *)

LEMMA InitType == Init => TypeOK
<1> SUFFICES ASSUME Init PROVE TypeOK
  OBVIOUS
<1>1. /\ NoChange \in Changes /\ NewRow \in Rows
      /\ Idle \in [pc : {"idle", "save", "notify"}, job : Changes, attempts : 0 .. 2]
  BY DEF NoChange, Changes, NewRow, Rows, Idle, States, Times
<1>2. /\ seen \in [Workers -> Seq(Points)] /\ asked \in [Workers -> Seq(Points)]
      /\ results \in [Workers -> Seq(Changes)] /\ changes \in [Workers -> Seq(Changes)]
  BY EmptyFacts DEF Init
<1>3. \A w \in Workers : /\ Len(seen[w]) <= CacheSize
                         /\ Len(results[w]) <= QueueSize
                         /\ Len(changes[w]) <= QueueSize
  BY EmptyFacts DEF Init
<1>4. /\ DOMAIN mails = Workers /\ DOMAIN owed = Workers
      /\ \A w \in Workers : /\ IsABag(mails[w]) /\ IsABag(owed[w])
                            /\ BagToSet(mails[w]) \cup BagToSet(owed[w]) \subseteq Changes
  BY EmptyBagFacts DEF Init
<1>5. /\ clock \in Times /\ next \in [Schedulers -> 1 .. MaxPoints + 1]
      /\ faults \in 0 .. MaxFaults /\ saves \in 0 .. MaxSaves
  BY DEF Init, Times
<1> QED
  BY <1>1, <1>2, <1>3, <1>4, <1>5 DEF Init, TypeOK

LEMMA OutcomesAreStates == Outcomes \subseteq States
  BY DEF Outcomes, States, Eval

\* What is taken from or put into the queue of one server.
LEMMA QueueTypes ==
  ASSUME NEW q \in [Workers -> Seq(Changes)], NEW w \in Workers,
         \A v \in Workers : Len(q[v]) <= QueueSize
  PROVE  /\ [q EXCEPT ![w] = <<>>] \in [Workers -> Seq(Changes)]
         /\ \A v \in Workers : Len([q EXCEPT ![w] = <<>>][v]) <= QueueSize
         /\ q[w] # <<>> =>
              /\ Head(q[w]) \in Changes
              /\ [q EXCEPT ![w] = Tail(@)] \in [Workers -> Seq(Changes)]
              /\ \A v \in Workers : Len([q EXCEPT ![w] = Tail(@)][v]) <= QueueSize
         /\ \A c \in Changes : Len(q[w]) < QueueSize =>
              /\ [q EXCEPT ![w] = Append(@, c)] \in [Workers -> Seq(Changes)]
              /\ \A v \in Workers : Len([q EXCEPT ![w] = Append(@, c)][v]) <= QueueSize
<1>1. q[w] \in Seq(Changes)
  OBVIOUS
<1>2. <<>> \in Seq(Changes) /\ Len(<<>>) <= QueueSize
  BY EmptyFacts
<1>3. ASSUME q[w] # <<>>
      PROVE  Head(q[w]) \in Changes /\ Tail(q[w]) \in Seq(Changes) /\ Len(Tail(q[w])) <= QueueSize
  BY <1>1, <1>3, TailFacts, SeqFacts
<1>4. ASSUME NEW c \in Changes, Len(q[w]) < QueueSize
      PROVE  Append(q[w], c) \in Seq(Changes) /\ Len(Append(q[w], c)) <= QueueSize
  BY <1>1, <1>4, AppendFacts, SeqFacts
<1> QED
  BY <1>1, <1>2, <1>3, <1>4

\* What is added to the bag of one server.
LEMMA BagsAdd ==
  ASSUME NEW B, DOMAIN B = Workers, NEW w \in Workers, NEW c \in Changes,
         \A v \in Workers : IsABag(B[v]) /\ BagToSet(B[v]) \subseteq Changes,
         NEW C, C = [B EXCEPT ![w] = @ (+) SetToBag({c})]
  PROVE  /\ DOMAIN C = Workers
         /\ \A v \in Workers : IsABag(C[v]) /\ BagToSet(C[v]) \subseteq Changes
<1> DEFINE b == B[w] (+) SetToBag({c})
<1>1. IsABag(b) /\ BagToSet(b) \subseteq Changes
  <2>1. IsABag(B[w]) /\ BagToSet(B[w]) \subseteq Changes
    OBVIOUS
  <2>2. IsABag(b) /\ BagToSet(b) = BagToSet(B[w]) \cup {c}
    BY <2>1, BagAdd
  <2> HIDE DEF b
  <2> QED
    BY <2>1, <2>2
<1>2. C = [B EXCEPT ![w] = b]
  OBVIOUS
<1> HIDE DEF b
<1> QED
  BY <1>1, <1>2

LEMMA TypeNext == TypeOK /\ [Next]_vars => TypeOK'
<1> SUFFICES ASSUME TypeOK, [Next]_vars
             PROVE  TypeOK'
  OBVIOUS
<1> USE DEF history, stages
<1>1. CASE Tick
  BY <1>1 DEF TypeOK, Tick, Times
<1>2. ASSUME NEW d \in Schedulers, Dispatch(d) PROVE TypeOK'
  <2>1. next' \in [Schedulers -> 1 .. MaxPoints + 1]
    BY <1>2 DEF TypeOK, Dispatch, Points
  <2>2. [from |-> d, point |-> next[d], state |-> row.state,
         check |-> row.check, generated |-> clock] \in Jobs
    BY <1>2 DEF TypeOK, Dispatch, Rows, Jobs
  <2>3. wire' \subseteq Jobs
    BY <1>2, <2>2 DEF TypeOK, Dispatch
  <2>4. alone' \in {"none", "wait"} \cup States
    BY <1>2 DEF Dispatch
  <2> QED
    BY <1>2, <2>1, <2>3, <2>4 DEF TypeOK, Dispatch
<1>3. ASSUME NEW d \in Schedulers, SkipPoint(d) PROVE TypeOK'
  BY <1>3 DEF TypeOK, SkipPoint, Points, Fault
<1>4. ASSUME NEW w \in Workers, NEW j \in wire, Execute(w, j) PROVE TypeOK'
  <2>1. j \in Jobs /\ j.point \in Points
    BY DEF TypeOK, Jobs
  <2>2. Remember(seen[w], j.point) \in Seq(Points) /\ Len(Remember(seen[w], j.point)) <= CacheSize
    <3>1. seen[w] \in Seq(Points) /\ Len(seen[w]) \in Nat /\ Len(seen[w]) <= CacheSize
      BY SeqFacts DEF TypeOK
    <3>2. CASE Len(seen[w]) < CacheSize
      BY <2>1, <3>1, <3>2, AppendFacts DEF Remember
    <3>3. CASE ~(Len(seen[w]) < CacheSize)
      <4>1. seen[w] # <<>>
        BY <3>1, <3>3, EmptyFacts
      <4>2. Tail(seen[w]) \in Seq(Points) /\ Len(Tail(seen[w])) = Len(seen[w]) - 1
        BY <3>1, <4>1, TailFacts
      <4> QED
        BY <2>1, <3>1, <3>3, <4>2, AppendFacts DEF Remember
    <3> QED
      BY <3>2, <3>3
  <2>3. asked' \in [Workers -> Seq(Points)]
    BY <1>4, <2>1, AppendFacts DEF TypeOK, Execute
  <2>4. seen' \in [Workers -> Seq(Points)] /\ \A v \in Workers : Len(seen'[v]) <= CacheSize
    BY <1>4, <2>2 DEF TypeOK, Execute
  <2>5. [at |-> w, point |-> j.point, state |-> j.state, check |-> j.check, exec |-> clock] \in Runs
    BY <2>1 DEF TypeOK, Jobs, Runs
  <2>6. wire' \subseteq Jobs /\ faults' \in 0 .. MaxFaults /\ alone' \in {"none", "wait"} \cup States
    BY <1>4 DEF TypeOK, Execute, Consume, Fault
  <2> QED
    BY <1>4, <2>3, <2>4, <2>5, <2>6 DEF TypeOK, Execute
<1>5. ASSUME NEW w \in Workers, NEW j \in wire, Discard(w, j) PROVE TypeOK'
  BY <1>5 DEF TypeOK, Discard
<1>6. ASSUME NEW j \in wire, DropJob(j) PROVE TypeOK'
  BY <1>6 DEF TypeOK, DropJob, Fault
<1>7. ASSUME NEW r \in runs, QueryFails(r) PROVE TypeOK'
  BY <1>7 DEF TypeOK, QueryFails
<1>8. ASSUME NEW r \in runs, NEW v \in Outcomes, Evaluate(r, v) PROVE TypeOK'
  <2>1. r.at \in Workers /\ v \in States /\ [state |-> v, exec |-> r.exec] \in Changes
    BY OutcomesAreStates DEF TypeOK, Runs, Changes
  <2>2. results' \in [Workers -> Seq(Changes)] /\ \A u \in Workers : Len(results'[u]) <= QueueSize
    <3>1. /\ results \in [Workers -> Seq(Changes)]
          /\ \A u \in Workers : Len(results[u]) <= QueueSize
      BY DEF TypeOK
    <3>2. CASE UNCHANGED results
      BY <3>1, <3>2
    <3>3. CASE /\ Len(results[r.at]) < QueueSize
               /\ results' = [results EXCEPT ![r.at] = Append(@, [state |-> v, exec |-> r.exec])]
      BY <2>1, <3>1, <3>3, QueueTypes
    <3> QED
      BY <1>8, <3>2, <3>3 DEF Evaluate
  <2> QED
    BY <1>8, <2>1, <2>2 DEF TypeOK, Evaluate
<1>9. ASSUME NEW k \in Writers, Take(k) PROVE TypeOK'
  <2>1. /\ Head(results[WorkerOf[k]]) \in Changes
        /\ results' \in [Workers -> Seq(Changes)]
        /\ \A u \in Workers : Len(results'[u]) <= QueueSize
    BY <1>9, QueueTypes DEF TypeOK, Take
  <2>2. writer' \in [Writers -> [pc : {"idle", "save", "notify"}, job : Changes, attempts : 0 .. 2]]
    BY <1>9, <2>1 DEF TypeOK, Take
  <2> QED
    BY <1>9, <2>1, <2>2 DEF TypeOK, Take
<1>10. ASSUME NEW k \in Writers
       PROVE  /\ writer[k].job \in Changes
              /\ [writer EXCEPT ![k] = Idle] \in
                    [Writers -> [pc : {"idle", "save", "notify"}, job : Changes, attempts : 0 .. 2]]
  BY DEF TypeOK, Idle, NoChange, Changes, States, Times
<1>11. ASSUME NEW k \in Writers, Save(k) PROVE TypeOK'
  <2>1. writer[k].job.state \in States /\ writer[k].job.exec \in Times
    BY <1>10 DEF Changes
  <2>2. row' \in Rows
    BY <1>11, <2>1 DEF TypeOK, Save, Rows
  <2>3. writer' \in [Writers -> [pc : {"idle", "save", "notify"}, job : Changes, attempts : 0 .. 2]]
    <3>1. CASE writer' = [writer EXCEPT ![k] = Idle]
      BY <1>10, <3>1
    <3>2. CASE writer' = [writer EXCEPT ![k].pc = "notify"]
      BY <3>2 DEF TypeOK
    <3> QED
      BY <1>11, <3>1, <3>2 DEF Save
  <2>4. /\ DOMAIN owed' = Workers
        /\ \A w \in Workers : IsABag(owed'[w]) /\ BagToSet(owed'[w]) \subseteq Changes
    <3>1. /\ DOMAIN owed = Workers /\ WorkerOf[k] \in Workers
          /\ \A w \in Workers : IsABag(owed[w]) /\ BagToSet(owed[w]) \subseteq Changes
      BY DEF TypeOK
    <3>2. CASE owed' = [owed EXCEPT ![WorkerOf[k]] = @ (+) SetToBag({writer[k].job})]
      <4>1. writer[k].job \in Changes
        BY <1>10
      <4> QED
        BY <3>1, <3>2, <4>1, BagsAdd
    <3>3. CASE UNCHANGED owed
      BY <3>1, <3>3
    <3> QED
      BY <1>11, <3>2, <3>3 DEF Save
  <2> QED
    BY <1>11, <2>2, <2>3, <2>4 DEF TypeOK, Save
<1>12. ASSUME NEW k \in Writers, SaveFails(k) PROVE TypeOK'
  <2>1. writer' \in [Writers -> [pc : {"idle", "save", "notify"}, job : Changes, attempts : 0 .. 2]]
    <3>1. CASE writer' = [writer EXCEPT ![k] = Idle]
      BY <1>10, <3>1
    <3>2. CASE writer[k].attempts # 2 /\ writer' = [writer EXCEPT ![k].attempts = @ + 1]
      <4>1. writer[k].attempts \in 0 .. 2
        BY DEF TypeOK
      <4>2. writer[k].attempts + 1 \in 0 .. 2
        BY <3>2, <4>1
      <4> QED
        BY <3>2, <4>2 DEF TypeOK
    <3> QED
      BY <1>12, <3>1, <3>2 DEF SaveFails
  <2>2. faults' \in 0 .. MaxFaults /\ alone' \in {"none", "wait"} \cup States
    BY <1>12 DEF TypeOK, SaveFails, Fault
  <2> QED
    BY <1>12, <2>1, <2>2 DEF TypeOK, SaveFails
<1>13. ASSUME NEW k \in Writers, Notify(k) PROVE TypeOK'
  <2>1. /\ changes' \in [Workers -> Seq(Changes)]
        /\ \A u \in Workers : Len(changes'[u]) <= QueueSize
    BY <1>10, <1>13, QueueTypes DEF TypeOK, Notify
  <2> QED
    BY <1>10, <1>13, <2>1 DEF TypeOK, Notify
<1>14. ASSUME NEW w \in Workers, HandleStateChange(w) PROVE TypeOK'
  <2>1. /\ Head(changes[w]) \in Changes
        /\ changes' \in [Workers -> Seq(Changes)]
        /\ \A u \in Workers : Len(changes'[u]) <= QueueSize
    BY <1>14, QueueTypes DEF TypeOK, HandleStateChange
  <2>2. /\ DOMAIN mails' = Workers
        /\ \A v \in Workers : IsABag(mails'[v]) /\ BagToSet(mails'[v]) \subseteq Changes
    <3>1. /\ DOMAIN mails = Workers
          /\ \A v \in Workers : IsABag(mails[v]) /\ BagToSet(mails[v]) \subseteq Changes
      BY DEF TypeOK
    <3>2. mails' = [mails EXCEPT ![w] = @ (+) SetToBag({Head(changes[w])})]
      BY <1>14 DEF HandleStateChange
    <3> QED
      BY <2>1, <3>1, <3>2, BagsAdd
  <2> QED
    BY <1>14, <2>1, <2>2 DEF TypeOK, HandleStateChange
<1>15. ASSUME NEW w \in Workers, NEW c \in BagToSet(mails[w]), SendEmail(w, c) PROVE TypeOK'
  <2>1. /\ DOMAIN mails = Workers /\ DOMAIN owed = Workers
        /\ \A v \in Workers : /\ IsABag(mails[v]) /\ BagToSet(mails[v]) \subseteq Changes
                              /\ IsABag(owed[v]) /\ BagToSet(owed[v]) \subseteq Changes
    BY DEF TypeOK
  <2>2. /\ mails' = [mails EXCEPT ![w] = @ (-) SetToBag({c})]
        /\ owed' = [owed EXCEPT ![w] = @ (-) SetToBag({c})]
    BY <1>15 DEF SendEmail
  <2>3. /\ DOMAIN mails' = Workers /\ DOMAIN owed' = Workers
        /\ \A v \in Workers : /\ IsABag(mails'[v]) /\ BagToSet(mails'[v]) \subseteq Changes
                              /\ IsABag(owed'[v]) /\ BagToSet(owed'[v]) \subseteq Changes
    BY <2>1, <2>2, BagDrop
  <2> QED
    BY <1>15, <2>3 DEF TypeOK, SendEmail
<1>16. CASE ReadForm
  BY <1>16 DEF TypeOK, ReadForm, Scrutinized, Rows, States
<1>17. ASSUME NEW enabled \in BOOLEAN, NEW carry \in BOOLEAN, SaveForm(enabled, carry) PROVE TypeOK'
  <2>1. row' \in Rows
    BY <1>17 DEF TypeOK, SaveForm, Rows, States
  <2> QED
    BY <1>17, <2>1 DEF TypeOK, SaveForm
<1>18. ASSUME NEW w \in Workers, Crash(w) PROVE TypeOK'
  <2>1. writer' \in [Writers -> [pc : {"idle", "save", "notify"}, job : Changes, attempts : 0 .. 2]]
    BY <1>18, <1>10 DEF TypeOK, Crash, Idle, NoChange, Changes, States, Times
  <2>2. /\ seen' \in [Workers -> Seq(Points)] /\ asked' \in [Workers -> Seq(Points)]
        /\ results' \in [Workers -> Seq(Changes)] /\ changes' \in [Workers -> Seq(Changes)]
    BY <1>18, EmptyFacts DEF TypeOK, Crash
  <2>3. \A v \in Workers : /\ Len(seen'[v]) <= CacheSize
                           /\ Len(results'[v]) <= QueueSize
                           /\ Len(changes'[v]) <= QueueSize
    BY <1>18, EmptyFacts DEF TypeOK, Crash
  <2>4. /\ DOMAIN mails' = Workers /\ DOMAIN owed' = Workers
        /\ \A v \in Workers : /\ IsABag(mails'[v]) /\ IsABag(owed'[v])
                              /\ BagToSet(mails'[v]) \cup BagToSet(owed'[v]) \subseteq Changes
    BY <1>18, EmptyBagFacts DEF TypeOK, Crash
  <2> QED
    BY <1>18, <2>1, <2>2, <2>3, <2>4 DEF TypeOK, Crash, Fault
<1>19. CASE UNCHANGED vars
  BY <1>19 DEF TypeOK, vars
<1> QED
  BY <1>1, <1>2, <1>3, <1>4, <1>5, <1>6, <1>7, <1>8, <1>9, <1>11, <1>12, <1>13,
     <1>14, <1>15, <1>16, <1>17, <1>18, <1>19
     DEF Next, Scheduler, Worker, Execution, Writer, User

-----------------------------------------------------------------------------
(* The cache of a worker.                                                  *)

\* AskedOnce, for the points that one worker has asked for.
Spaced(a) == \A i, j \in DOMAIN a : i < j /\ a[i] = a[j] => j - i > CacheSize

\* The cache holds what was asked last also with one point more,
LEMMA RememberLast ==
  ASSUME NEW s \in Seq(Points), NEW a \in Seq(Points), NEW p \in Points,
         Len(s) <= CacheSize, LastOf(s, a)
  PROVE  LastOf(Remember(s, p), Append(a, p))
<1> DEFINE b == Append(a, p)
           r == Remember(s, p)
<1>1. PICK m \in Nat, n \in Nat : m = Len(s) /\ n = Len(a)
  BY SeqFacts
<1>2. PICK d \in Nat : /\ d = n - m /\ (d > 0 => m = CacheSize)
                       /\ \A i \in 1 .. m : s[i] = a[d + i]
  <2>1. /\ n - m >= 0 /\ (n - m > 0 => m = CacheSize)
        /\ \A i \in DOMAIN s : s[i] = a[n - m + i]
    BY <1>1 DEF LastOf
  <2>2. n - m \in Nat
    BY <2>1
  <2>3. DOMAIN s = 1 .. m
    BY <1>1, SeqFacts
  <2> QED
    BY <2>1, <2>2, <2>3, Zenon
<1>3. /\ DOMAIN s = 1 .. m /\ DOMAIN a = 1 .. n /\ m <= CacheSize
      /\ Len(b) = n + 1 /\ b[n + 1] = p
      /\ \A i \in 1 .. n : b[i] = a[i]
  BY <1>1, SeqFacts, AppendFacts
<1> SUFFICES /\ Len(b) - Len(r) >= 0 /\ (Len(b) - Len(r) > 0 => Len(r) = CacheSize)
             /\ \A i \in DOMAIN r : r[i] = b[Len(b) - Len(r) + i]
  BY DEF LastOf
<1>4. CASE m < CacheSize
  <2>1. /\ Len(r) = m + 1 /\ DOMAIN r = 1 .. m + 1
        /\ r[m + 1] = p /\ \A i \in 1 .. m : r[i] = s[i]
    BY <1>1, <1>3, <1>4, AppendFacts, SeqFacts DEF Remember
  <2>2. d = 0 /\ n = m
    BY <1>2, <1>4
  <2> HIDE DEF b, r
  <2>3. Len(b) - Len(r) = 0
    BY <1>3, <2>1, <2>2
  <2>4. ASSUME NEW i \in 1 .. m + 1
        PROVE  r[i] = b[i] /\ 0 + i = i
    <3>1. CASE i = m + 1
      BY <1>3, <2>1, <2>2, <3>1
    <3>2. CASE i \in 1 .. m
      <4>1. s[i] = a[d + i] /\ d + i = i
        BY <1>2, <2>2, <3>2
      <4> QED
        BY <1>3, <2>1, <2>2, <3>2, <4>1
    <3> QED
      BY <3>1, <3>2
  <2> QED
    BY <2>1, <2>3, <2>4
<1>5. CASE m = CacheSize
  <2> DEFINE t == Tail(s)
  <2>1. s # <<>>
    <3>1. m # 0
      BY <1>5
    <3>2. Len(<<>>) = 0
      BY EmptyFacts
    <3> QED
      BY <1>1, <3>1, <3>2, Zenon
  <2>2. /\ t \in Seq(Points) /\ Len(t) = m - 1
        /\ \A i \in DOMAIN t : t[i] = s[i + 1]
    BY <1>1, <2>1, TailFacts
  <2>3. DOMAIN t = 1 .. m - 1
    BY <2>2, SeqFacts
  <2>4. r = Append(t, p)
    BY <1>1, <1>5 DEF Remember
  <2> HIDE DEF t, r
  <2>5. /\ Len(r) = m /\ DOMAIN r = 1 .. m
        /\ r[m] = p /\ \A i \in 1 .. m - 1 : r[i] = s[i + 1]
    <3>1. /\ Append(t, p) \in Seq(Points)
          /\ Len(Append(t, p)) = (m - 1) + 1
          /\ Append(t, p)[(m - 1) + 1] = p
          /\ \A i \in 1 .. m - 1 : Append(t, p)[i] = t[i]
      BY <2>2, <2>3, AppendFacts
    <3>2. (m - 1) + 1 = m
      OBVIOUS
    <3>3. r \in Seq(Points) /\ Len(r) = m
      BY <2>4, <3>1, <3>2
    <3>4. DOMAIN r = 1 .. m
      BY <3>3, SeqFacts
    <3> QED
      BY <2>2, <2>3, <2>4, <3>1, <3>2, <3>3, <3>4
  <2> HIDE DEF b
  <2>6. Len(b) - Len(r) = d + 1
    BY <1>2, <1>3, <2>5
  <2>7. ASSUME NEW i \in 1 .. m
        PROVE  r[i] = b[d + 1 + i]
    <3>1. CASE i = m
      BY <1>2, <1>3, <2>5, <3>1
    <3>2. CASE i \in 1 .. m - 1
      <4>1. i + 1 \in 1 .. m /\ d + (i + 1) \in 1 .. n /\ d + (i + 1) = d + 1 + i
        BY <1>2, <3>2
      <4>2. r[i] = a[d + (i + 1)]
        BY <1>2, <2>5, <3>2, <4>1
      <4> QED
        BY <1>3, <4>1, <4>2
    <3> QED
      BY <3>1, <3>2
  <2>8. \A i \in DOMAIN r : r[i] = b[Len(b) - Len(r) + i]
    BY <2>5, <2>6, <2>7, Zenon
  <2> QED
    BY <1>5, <2>5, <2>6, <2>8
<1> HIDE DEF b, r
<1> QED
  BY <1>3, <1>4, <1>5

\* and a point that it does not hold was not asked for lately.
LEMMA UnknownIsSpaced ==
  ASSUME NEW s \in Seq(Points), NEW a \in Seq(Points), NEW p \in Points,
         ~Contains(s, p), LastOf(s, a), Spaced(a)
  PROVE  Spaced(Append(a, p))
<1> DEFINE b == Append(a, p)
<1>1. PICK m \in Nat, n \in Nat : m = Len(s) /\ n = Len(a)
  BY SeqFacts
<1>2. PICK d \in Nat : /\ d = n - m /\ (d > 0 => m = CacheSize)
                       /\ \A i \in 1 .. m : s[i] = a[d + i]
  <2>1. /\ n - m >= 0 /\ (n - m > 0 => m = CacheSize)
        /\ \A i \in DOMAIN s : s[i] = a[n - m + i]
    BY <1>1 DEF LastOf
  <2>2. n - m \in Nat
    BY <2>1
  <2>3. DOMAIN s = 1 .. m
    BY <1>1, SeqFacts
  <2> QED
    BY <2>1, <2>2, <2>3, Zenon
<1>3. /\ DOMAIN a = 1 .. n /\ DOMAIN b = DOMAIN a \cup {n + 1} /\ b[n + 1] = p
      /\ \A i \in 1 .. n : b[i] = a[i]
  BY <1>1, SeqFacts, AppendFacts
<1>4. \A i \in 1 .. m : s[i] # p
  BY <1>1 DEF Contains
<1>5. ASSUME NEW i \in DOMAIN b, NEW j \in DOMAIN b, i < j, b[i] = b[j]
      PROVE  j - i > CacheSize
  <2> HIDE DEF b
  <2>1. i \in 1 .. n
    BY <1>3, <1>5
  <2>2. CASE j \in 1 .. n
    BY <1>3, <1>5, <2>1, <2>2 DEF Spaced
  <2>3. CASE j = n + 1
    <3>1. a[i] = p
      BY <1>3, <1>5, <2>1, <2>3
    <3>2. i <= d
      <4>1. ASSUME i > d PROVE FALSE
        <5>1. i - d \in 1 .. m /\ d + (i - d) = i
          BY <1>2, <2>1, <4>1
        <5> QED
          BY <1>2, <1>4, <3>1, <5>1
      <4> QED
        BY <2>1, <4>1
    <3> QED
      BY <1>2, <2>1, <2>3, <3>2
  <2> QED
    BY <1>3, <2>2, <2>3
<1> QED
  BY <1>5 DEF Spaced

LEMMA CacheNext ==
  TypeOK /\ Cached /\ AskedOnce /\ [Next]_vars => Cached' /\ AskedOnce'
<1> SUFFICES ASSUME TypeOK, Cached, AskedOnce, [Next]_vars
             PROVE  Cached' /\ AskedOnce'
  OBVIOUS
<1>1. CASE UNCHANGED <<seen, asked>>
  BY <1>1 DEF Cached, AskedOnce
<1>2. ASSUME NEW w \in Workers, NEW j \in wire, Execute(w, j)
      PROVE  Cached' /\ AskedOnce'
  <2> DEFINE p == j.point
  <2>1. /\ p \in Points /\ seen[w] \in Seq(Points) /\ asked[w] \in Seq(Points)
        /\ Len(seen[w]) <= CacheSize /\ LastOf(seen[w], asked[w]) /\ Spaced(asked[w])
        /\ ~Contains(seen[w], p)
    BY <1>2 DEF TypeOK, Jobs, Cached, AskedOnce, Spaced, Execute, Known
  <2>2. /\ seen'[w] = Remember(seen[w], p) /\ asked'[w] = Append(asked[w], p)
        /\ \A v \in Workers \ {w} : seen'[v] = seen[v] /\ asked'[v] = asked[v]
    BY <1>2 DEF TypeOK, Execute
  <2> HIDE DEF p
  <2>3. LastOf(seen'[w], asked'[w]) /\ Spaced(asked'[w])
    BY <2>1, <2>2, RememberLast, UnknownIsSpaced
  <2>4. \A v \in Workers \ {w} : LastOf(seen'[v], asked'[v]) /\ Spaced(asked'[v])
    BY <2>2 DEF Cached, AskedOnce, Spaced
  <2> QED
    BY <2>3, <2>4 DEF Cached, AskedOnce, Spaced
<1>3. ASSUME NEW w \in Workers, Crash(w)
      PROVE  Cached' /\ AskedOnce'
  <2>1. /\ seen'[w] = <<>> /\ asked'[w] = <<>>
        /\ \A v \in Workers \ {w} : seen'[v] = seen[v] /\ asked'[v] = asked[v]
    BY <1>3 DEF TypeOK, Crash
  <2>2. LastOf(<<>>, <<>>) /\ Spaced(<<>>)
    BY EmptyFacts DEF LastOf, Spaced
  <2>3. \A v \in Workers : LastOf(seen'[v], asked'[v]) /\ Spaced(asked'[v])
    BY <2>1, <2>2 DEF Cached, AskedOnce, Spaced
  <2> QED
    BY <2>3 DEF Cached, AskedOnce, Spaced
<1> QED
  BY <1>1, <1>2, <1>3
     DEF Next, Scheduler, Worker, Execution, Writer, User, vars, stages, history,
         Tick, Dispatch, SkipPoint, Discard, DropJob, QueryFails, Evaluate, Take, Save,
         SaveFails, Notify, HandleStateChange, SendEmail, ReadForm, SaveForm

-----------------------------------------------------------------------------
(* The notifications of a change.                                          *)

Notifying(w, c) ==
  {k \in Writers : WorkerOf[k] = w /\ writer[k].pc = "notify" /\ writer[k].job = c}

LEMMA NoticesParts ==
  ASSUME NEW w, NEW c
  PROVE  Notices(w, c) =
           Cardinality(Notifying(w, c)) + Cardinality(Places(changes[w], c))
             + Copies(c, mails[w])
  BY DEF Notices, Notifying, Places

LEMMA NoticesTypes ==
  ASSUME TypeOK, NEW w \in Workers, NEW c
  PROVE  /\ IsFiniteSet(Notifying(w, c)) /\ Cardinality(Notifying(w, c)) \in Nat
         /\ Cardinality(Places(changes[w], c)) \in Nat
         /\ Copies(c, mails[w]) \in Nat /\ Copies(c, owed[w]) \in Nat
<1>1. Notifying(w, c) \in SUBSET Writers
  BY DEF Notifying
<1>2. IsFiniteSet(Notifying(w, c)) /\ Cardinality(Notifying(w, c)) \in Nat
  BY <1>1, FS_Subset, FS_CardinalityType
<1>3. changes[w] \in Seq(Changes) /\ IsABag(mails[w]) /\ IsABag(owed[w])
  BY DEF TypeOK
<1> QED
  BY <1>2, <1>3, CountType, CopiesFacts

\* NotifiedOnce, part by part.
LEMMA NotifiedParts ==
  NotifiedOnce <=>
    \A w \in Workers, c \in Changes :
       Cardinality(Notifying(w, c)) + Cardinality(Places(changes[w], c))
         + Copies(c, mails[w]) = Copies(c, owed[w])
  BY NoticesParts DEF NotifiedOnce

LEMMA NotifiedNext ==
  TypeOK /\ NotifiedOnce /\ [Next]_vars => NotifiedOnce'
<1> SUFFICES ASSUME TypeOK, NotifiedOnce, [Next]_vars
             PROVE  \A w \in Workers, c \in Changes :
                      Cardinality(Notifying(w, c)') + Cardinality(Places(changes'[w], c))
                        + Copies(c, mails'[w]) = Copies(c, owed'[w])
  BY DEF NotifiedOnce, Notices, Notifying, Places
<1>0. \A w \in Workers, c \in Changes :
        Cardinality(Notifying(w, c)) + Cardinality(Places(changes[w], c))
          + Copies(c, mails[w]) = Copies(c, owed[w])
  BY NotifiedParts
<1>1. ASSUME UNCHANGED <<changes, mails, owed>>,
             \A w \in Workers, c \in Changes : Notifying(w, c)' = Notifying(w, c)
      PROVE  \A w \in Workers, c \in Changes :
               Cardinality(Notifying(w, c)') + Cardinality(Places(changes'[w], c))
                 + Copies(c, mails'[w]) = Copies(c, owed'[w])
  BY <1>0, <1>1
<1>2. CASE UNCHANGED <<writer, changes, mails, owed>>
  BY <1>1, <1>2 DEF Notifying
<1>3. ASSUME NEW k \in Writers, Take(k) \/ SaveFails(k) \/ (Save(k) /\ ~Records(writer[k].job))
      PROVE  UNCHANGED <<changes, mails, owed>> /\
             \A w \in Workers, c \in Changes : Notifying(w, c)' = Notifying(w, c)
  <2>1. /\ UNCHANGED <<changes, mails, owed>>
        /\ \A l \in Writers \ {k} : writer'[l] = writer[l]
        /\ writer[k].pc # "notify" /\ writer'[k].pc # "notify"
    BY <1>3 DEF Take, SaveFails, Save, history, TypeOK, Idle
  <2> QED
    BY <2>1 DEF Notifying
<1>4. ASSUME NEW k \in Writers, Save(k), Records(writer[k].job),
             NEW w \in Workers, NEW c \in Changes
      PROVE  Cardinality(Notifying(w, c)') + Cardinality(Places(changes'[w], c))
               + Copies(c, mails'[w]) = Copies(c, owed'[w])
  <2> DEFINE j == writer[k].job
             v == WorkerOf[k]
  <2>1. /\ UNCHANGED <<changes, mails>>
        /\ \A l \in Writers \ {k} : writer'[l] = writer[l]
        /\ writer[k].pc # "notify" /\ writer'[k].pc = "notify" /\ writer'[k].job = j
        /\ owed' = [owed EXCEPT ![v] = @ (+) SetToBag({j})]
    BY <1>4 DEF Save, TypeOK
  <2>2. j \in Changes /\ v \in Workers /\ DOMAIN owed = Workers
        /\ \A u \in Workers : IsABag(owed[u]) /\ BagToSet(owed[u]) \subseteq Changes
    BY DEF TypeOK
  <2>3. Copies(c, owed'[w]) = Copies(c, owed[w]) + (IF w = v /\ c = j THEN 1 ELSE 0)
    <3>1. /\ owed'[v] = owed[v] (+) SetToBag({j})
          /\ w # v => owed'[w] = owed[w]
      BY <2>1, <2>2
    <3>2. Copies(c, owed[v] (+) SetToBag({j})) = Copies(c, owed[v]) + (IF c = j THEN 1 ELSE 0)
      BY <2>2, BagAdd
    <3>3. CASE w = v
      BY <3>1, <3>2, <3>3
    <3>4. CASE w # v
      BY <3>1, <3>4, NoticesTypes
    <3> QED
      BY <3>3, <3>4
  <2>4. CASE w = v /\ c = j
    <3>1. Notifying(w, c)' = Notifying(w, c) \cup {k} /\ k \notin Notifying(w, c)
      BY <2>1, <2>4 DEF Notifying
    <3>2. Cardinality(Notifying(w, c)') = Cardinality(Notifying(w, c)) + 1
      BY <3>1, NoticesTypes, FS_AddElement
    <3> HIDE DEF j, v
    <3> QED
      BY <1>0, <2>1, <2>3, <2>4, <3>2, NoticesTypes
  <2>5. CASE ~(w = v /\ c = j)
    <3>1. Notifying(w, c)' = Notifying(w, c)
      BY <2>1, <2>5 DEF Notifying
    <3> HIDE DEF j, v
    <3> QED
      BY <1>0, <2>1, <2>3, <2>5, <3>1, NoticesTypes
  <2> QED
    BY <2>4, <2>5
<1>5. ASSUME NEW k \in Writers, Notify(k), NEW w \in Workers, NEW c \in Changes
      PROVE  Cardinality(Notifying(w, c)') + Cardinality(Places(changes'[w], c))
               + Copies(c, mails'[w]) = Copies(c, owed'[w])
  <2> DEFINE j == writer[k].job
             v == WorkerOf[k]
  <2>1. /\ UNCHANGED <<mails, owed>>
        /\ \A l \in Writers \ {k} : writer'[l] = writer[l]
        /\ writer[k].pc = "notify" /\ writer'[k].pc # "notify"
        /\ changes'[v] = Append(changes[v], j)
        /\ \A u \in Workers \ {v} : changes'[u] = changes[u]
    BY <1>5 DEF Notify, TypeOK, Idle, history
  <2>2. j \in Changes /\ v \in Workers /\ changes[v] \in Seq(Changes)
    BY DEF TypeOK
  <2>3. Cardinality(Places(changes'[v], c)) =
          Cardinality(Places(changes[v], c)) + (IF j = c THEN 1 ELSE 0)
    BY <2>1, <2>2, CountAppend
  <2>4. CASE w = v /\ c = j
    <3>1. Notifying(w, c)' = Notifying(w, c) \ {k} /\ k \in Notifying(w, c)
      BY <2>1, <2>4 DEF Notifying
    <3>2. Cardinality(Notifying(w, c)') = Cardinality(Notifying(w, c)) - 1
      BY <3>1, NoticesTypes, FS_RemoveElement
    <3>3. Cardinality(Places(changes'[w], c)) = Cardinality(Places(changes[w], c)) + 1
      BY <2>3, <2>4
    <3>4. mails' = mails /\ owed' = owed
      BY <2>1
    <3> QED
      BY <1>0, <3>2, <3>3, <3>4, NoticesTypes
  <2>5. CASE ~(w = v /\ c = j)
    <3>1. Notifying(w, c)' = Notifying(w, c)
      BY <2>1, <2>5 DEF Notifying
    <3>2. Cardinality(Places(changes'[w], c)) = Cardinality(Places(changes[w], c))
      <4>1. CASE w = v
        <5>1. j # c /\ Cardinality(Places(changes[w], c)) \in Nat
          BY <2>5, <4>1, NoticesTypes
        <5> QED
          BY <2>3, <4>1, <5>1
      <4>2. CASE w # v
        BY <2>1, <4>2
      <4> QED
        BY <4>1, <4>2
    <3>3. mails' = mails /\ owed' = owed
      BY <2>1
    <3> QED
      BY <1>0, <3>1, <3>2, <3>3
  <2> QED
    BY <2>4, <2>5
<1>6. ASSUME NEW v \in Workers, HandleStateChange(v), NEW w \in Workers, NEW c \in Changes
      PROVE  Cardinality(Notifying(w, c)') + Cardinality(Places(changes'[w], c))
               + Copies(c, mails'[w]) = Copies(c, owed'[w])
  <2> DEFINE j == Head(changes[v])
  <2>1. /\ UNCHANGED <<writer, owed>> /\ changes[v] # <<>>
        /\ changes'[v] = Tail(changes[v])
        /\ \A u \in Workers \ {v} : changes'[u] = changes[u]
        /\ mails' = [mails EXCEPT ![v] = @ (+) SetToBag({j})]
    BY <1>6 DEF HandleStateChange, TypeOK, history
  <2>2. changes[v] \in Seq(Changes) /\ DOMAIN mails = Workers
        /\ \A u \in Workers : IsABag(mails[u]) /\ BagToSet(mails[u]) \subseteq Changes
    BY DEF TypeOK
  <2>3. j \in Changes
    BY <2>1, <2>2, TailFacts
  <2>4. Copies(c, mails'[w]) = Copies(c, mails[w]) + (IF w = v /\ c = j THEN 1 ELSE 0)
    <3>1. /\ mails'[v] = mails[v] (+) SetToBag({j})
          /\ w # v => mails'[w] = mails[w]
      BY <2>1, <2>2
    <3>2. Copies(c, mails[v] (+) SetToBag({j})) = Copies(c, mails[v]) + (IF c = j THEN 1 ELSE 0)
      BY <2>2, BagAdd
    <3>3. CASE w = v
      BY <3>1, <3>2, <3>3
    <3>4. CASE w # v
      BY <3>1, <3>4, NoticesTypes
    <3> QED
      BY <3>3, <3>4
  <2>5. Cardinality(Places(changes[v], c)) =
          Cardinality(Places(changes'[v], c)) + (IF j = c THEN 1 ELSE 0)
    BY <2>1, <2>2, CountTail
  <2>6. Cardinality(Places(changes'[v], c)) \in Nat
    BY <2>1, <2>2, <2>3, TailFacts, CountType
  <2>7. Notifying(w, c)' = Notifying(w, c)
    BY <2>1 DEF Notifying
  <2> HIDE DEF j
  <2>8. CASE w = v
    BY <1>0, <2>1, <2>4, <2>5, <2>6, <2>7, <2>8, NoticesTypes
  <2>9. CASE w # v
    BY <1>0, <2>1, <2>4, <2>7, <2>9, NoticesTypes
  <2> QED
    BY <2>8, <2>9
<1>7. ASSUME NEW v \in Workers, NEW e \in BagToSet(mails[v]), SendEmail(v, e),
             NEW w \in Workers, NEW c \in Changes
      PROVE  Cardinality(Notifying(w, c)') + Cardinality(Places(changes'[w], c))
               + Copies(c, mails'[w]) = Copies(c, owed'[w])
  <2>1. /\ UNCHANGED <<writer, changes>>
        /\ DOMAIN mails = Workers /\ DOMAIN owed = Workers
        /\ mails' = [mails EXCEPT ![v] = @ (-) SetToBag({e})]
        /\ owed' = [owed EXCEPT ![v] = @ (-) SetToBag({e})]
    BY <1>7 DEF SendEmail, TypeOK
  <2>2. IsABag(mails[v]) /\ IsABag(owed[v]) /\ e \in Changes
    BY DEF TypeOK
  <2>3. e \in BagToSet(owed[v])
    BY <1>0, <2>2, CopiesFacts, NoticesTypes
  <2>4. Notifying(w, c)' = Notifying(w, c)
    BY <2>1 DEF Notifying
  <2>5. CASE w = v /\ c = e
    <3>1. /\ Copies(c, mails'[w]) = Copies(c, mails[w]) - 1
          /\ Copies(c, owed'[w]) = Copies(c, owed[w]) - 1
      BY <2>1, <2>2, <2>3, <2>5, BagDrop
    <3> QED
      BY <1>0, <2>1, <2>4, <3>1, NoticesTypes
  <2>6. CASE ~(w = v /\ c = e)
    <3>1. /\ Copies(c, mails'[w]) = Copies(c, mails[w])
          /\ Copies(c, owed'[w]) = Copies(c, owed[w])
      <4>1. CASE w # v
        BY <2>1, <4>1
      <4>2. CASE w = v /\ c # e
        <5>1. /\ mails'[w] = mails[v] (-) SetToBag({e})
              /\ owed'[w] = owed[v] (-) SetToBag({e})
          BY <2>1, <4>2
        <5>2. /\ Copies(c, mails[v] (-) SetToBag({e})) = Copies(c, mails[v])
              /\ Copies(c, owed[v] (-) SetToBag({e})) = Copies(c, owed[v])
          BY <2>2, <4>2, BagDrop
        <5> QED
          BY <4>2, <5>1, <5>2
      <4> QED
        BY <2>6, <4>1, <4>2
    <3> QED
      BY <1>0, <2>1, <2>4, <3>1
  <2> QED
    BY <2>5, <2>6
<1>8. ASSUME NEW v \in Workers, Crash(v), NEW w \in Workers, NEW c \in Changes
      PROVE  Cardinality(Notifying(w, c)') + Cardinality(Places(changes'[w], c))
               + Copies(c, mails'[w]) = Copies(c, owed'[w])
  <2>1. DOMAIN mails = Workers /\ DOMAIN owed = Workers /\ DOMAIN changes = Workers
    BY DEF TypeOK
  <2>2. CASE w = v
    <3>1. changes'[w] = <<>> /\ mails'[w] = EmptyBag /\ owed'[w] = EmptyBag
      BY <1>8, <2>1, <2>2 DEF Crash
    <3>2. Notifying(w, c)' = {}
      BY <1>8, <2>2 DEF Crash, Notifying, Idle
    <3>3. /\ Cardinality(Places(changes'[w], c)) = 0 /\ Cardinality(Notifying(w, c)') = 0
          /\ Copies(c, mails'[w]) = 0 /\ Copies(c, owed'[w]) = 0
      BY <3>1, <3>2, CountEmpty, FS_EmptySet, EmptyBagFacts
    <3> QED
      BY <3>3
  <2>3. CASE w # v
    <3>1. changes'[w] = changes[w] /\ mails'[w] = mails[w] /\ owed'[w] = owed[w]
      BY <1>8, <2>1, <2>3 DEF Crash
    <3>2. Notifying(w, c)' = Notifying(w, c)
      BY <1>8, <2>3 DEF Crash, Notifying
    <3> QED
      BY <1>0, <3>1, <3>2
  <2> QED
    BY <2>2, <2>3
<1>9. UNCHANGED <<writer, changes, mails, owed>> \/
      \/ \E k \in Writers : Take(k) \/ SaveFails(k) \/ Save(k) \/ Notify(k)
      \/ \E v \in Workers : \/ HandleStateChange(v) \/ Crash(v)
                            \/ \E e \in BagToSet(mails[v]) : SendEmail(v, e)
  BY DEF Next, Scheduler, Worker, Execution, Writer, User, vars, stages, history,
         Tick, Dispatch, SkipPoint, Execute, Discard, DropJob, QueryFails, Evaluate,
         ReadForm, SaveForm
<1> QED
  BY <1>1, <1>2, <1>3, <1>4, <1>5, <1>6, <1>7, <1>8, <1>9

-----------------------------------------------------------------------------
(* A job that runs alone.                                                  *)

LEMMA AloneIsOneOf == "none" \notin States /\ "wait" \notin States
  BY DEF States

LEMMA OnlyOne ==
  ASSUME NEW c
  PROVE  Append(<<>>, c) = <<c>> /\ Head(<<c>>) = c /\ Tail(<<c>>) = <<>> /\ <<c>> # <<>>
  OBVIOUS

LEMMA CrashKeeps ==
  ASSUME NEW w, Crash(w)
  PROVE  alone' = "none" /\ UNCHANGED <<clock, wire>>
  BY Zenon DEF Crash

LEMMA SaveFormKeeps ==
  ASSUME NEW enabled, NEW carry, SaveForm(enabled, carry)
  PROVE  alone' = "none" /\ UNCHANGED <<clock, wire>>
  BY Zenon DEF SaveForm, stages

LEMMA WriterKeeps ==
  ASSUME NEW k, Writer(k)
  PROVE  UNCHANGED <<clock, wire>>
  BY Zenon DEF Writer, Take, Save, SaveFails, Notify

LEMMA GeneratedNext == TypeOK /\ Generated /\ [Next]_vars => Generated'
<1> SUFFICES ASSUME TypeOK, Generated, [Next]_vars
             PROVE  Generated'
  OBVIOUS
<1>1. clock \in Nat /\ clock' \in Nat /\ clock <= clock'
  <2>1. clock \in Nat
    BY DEF TypeOK, Times
  <2>2. CASE Tick
    BY <2>1, <2>2 DEF Tick
  <2>3. ~Tick => clock' = clock
    BY CrashKeeps, SaveFormKeeps, WriterKeeps
       DEF Next, Scheduler, Worker, Execution, User, vars,
           Dispatch, SkipPoint, Execute, Discard, DropJob, QueryFails, Evaluate,
           HandleStateChange, SendEmail, ReadForm
  <2> QED
    BY <2>1, <2>2, <2>3
<1>2. ASSUME NEW j \in wire' PROVE j \in wire \/ j.generated = clock
  <2>1. ASSUME NEW d \in Schedulers, Dispatch(d) PROVE j \in wire \/ j.generated = clock
    BY <2>1 DEF Dispatch
  <2>2. (\E d \in Schedulers : Dispatch(d)) \/ wire' \subseteq wire
    BY CrashKeeps, SaveFormKeeps, WriterKeeps
       DEF Next, Scheduler, Worker, Execution, User, vars, stages, history,
           Tick, SkipPoint, Execute, Consume, Discard, DropJob, QueryFails, Evaluate,
           HandleStateChange, SendEmail, ReadForm
  <2> QED
    BY <2>1, <2>2
<1>3. \A j \in wire : j.generated \in Nat
  BY DEF TypeOK, Jobs, Times
<1> QED
  BY <1>1, <1>2, <1>3 DEF Generated

\* What does not touch the row, the jobs and the results touches neither.
LEMMA AloneKept ==
  ASSUME Unanswered, Answered, UNCHANGED <<row, wire, runs, results, alone>>,
         \A k \in Writers : /\ writer[k].pc = "save" => writer'[k].job = writer[k].job
                            /\ writer'[k].pc = "save" <=> writer[k].pc = "save"
  PROVE  Unanswered' /\ Answered'
<1>1. Unanswered'
  BY DEF Unanswered, NoResult
<1>2. Answered'
  <2> SUFFICES ASSUME alone \in States
               PROVE  /\ wire = {} /\ runs = {}
                      /\ \/ NoResult' /\ row.state = alone
                         \/ /\ \A k \in Writers : writer'[k].pc # "save"
                            /\ \E w \in Workers, c \in Changes :
                                  /\ Answer(c) /\ results[w] = <<c>>
                                  /\ \A v \in Workers \ {w} : results[v] = <<>>
                         \/ /\ \A w \in Workers : results[w] = <<>>
                            /\ \E k \in Writers :
                                  /\ Answer(writer'[k].job) /\ writer'[k].pc = "save"
                                  /\ \A l \in Writers \ {k} : writer'[l].pc # "save"
    BY DEF Answered, Answer
  <2> QED
    BY DEF Answered, NoResult
<1> QED
  BY <1>1, <1>2

LEMMA DispatchAlone ==
  ASSUME TypeOK, NEW d \in Schedulers, Dispatch(d)
  PROVE  Unanswered' /\ Answered'
<1>1. Answered'
  BY AloneIsOneOf DEF Dispatch, Answered
<1>2. ASSUME alone' = "wait" PROVE Unanswered'
  <2> DEFINE j == [from |-> d, point |-> next[d], state |-> row.state,
                   check |-> row.check, generated |-> clock]
  <2>1. Quiet /\ row.enabled /\ clock > row.change
    BY <1>2 DEF Dispatch
  <2>2. wire' = {j} /\ UNCHANGED <<row, runs, results, writer>>
    BY <2>1 DEF Dispatch, Quiet
  <2>3. j \in Jobs /\ j.state = row.state /\ row.change < j.generated
    BY <2>1 DEF TypeOK, Dispatch, Rows, Jobs, Times
  <2>4. NoResult' /\ runs' = {}
    BY <2>1, <2>2 DEF Quiet, NoResult
  <2> HIDE DEF j
  <2> QED
    BY <2>2, <2>3, <2>4 DEF Unanswered
<1>3. ASSUME alone' # "wait" PROVE Unanswered'
  BY <1>3 DEF Unanswered
<1> QED
  BY <1>1, <1>2, <1>3

LEMMA ExecuteAlone ==
  ASSUME TypeOK, Generated, Unanswered, Answered,
         NEW w \in Workers, NEW j \in wire, Execute(w, j)
  PROVE  Unanswered' /\ Answered'
<1>1. CASE alone' = "none"
  BY <1>1, AloneIsOneOf DEF Unanswered, Answered
<1>2. CASE alone = "wait" /\ alone' = alone /\ wire' = wire \ {j}
  <2> DEFINE r == [at |-> w, point |-> j.point, state |-> j.state,
                   check |-> j.check, exec |-> clock]
  <2>1. /\ NoResult /\ wire = {j} /\ runs = {} /\ j.state = row.state
        /\ row.change < j.generated
    BY <1>2 DEF Unanswered
  <2>2. j \in Jobs /\ j.generated <= clock
    BY DEF TypeOK, Generated
  <2>3. r \in Runs /\ r.state = row.state /\ row.change < r.exec
    BY <2>1, <2>2 DEF TypeOK, Jobs, Runs, Rows, Times
  <2>4. wire' = {} /\ runs' = {r} /\ NoResult' /\ row' = row
    BY <1>2, <2>1 DEF Execute, NoResult
  <2> HIDE DEF r
  <2> QED
    BY <1>2, <2>3, <2>4, AloneIsOneOf DEF Unanswered, Answered
<1>3. CASE alone \in States
  BY <1>3 DEF Answered
<1>4. alone' = "none" \/ (alone' = alone /\ wire' = wire \ {j})
  BY DEF Execute, Consume
<1> QED
  BY <1>1, <1>2, <1>3, <1>4 DEF TypeOK

LEMMA EvaluateAlone ==
  ASSUME TypeOK, Unanswered, Answered,
         NEW r \in runs, NEW v \in Outcomes, Evaluate(r, v)
  PROVE  Unanswered' /\ Answered'
<1>1. CASE alone = "none"
  BY <1>1, AloneIsOneOf DEF Evaluate, Unanswered, Answered
<1>2. CASE alone = "wait"
  <2> DEFINE c == [state |-> v, exec |-> r.exec]
  <2>1. /\ NoResult /\ wire = {} /\ runs = {r} /\ r.state = row.state
        /\ row.change < r.exec
    BY <1>2 DEF Unanswered
  <2>2. v \in States /\ r.at \in Workers /\ c \in Changes
    BY OutcomesAreStates DEF TypeOK, Runs, Changes
  <2>3. /\ alone' = v /\ wire' = {} /\ runs' = {}
        /\ UNCHANGED <<row, writer>>
    BY <1>2, <2>1 DEF Evaluate
  <2>4. CASE ~WorthWriting(r, v) /\ UNCHANGED results
    <3>1. r.state = v
      BY <2>4 DEF WorthWriting
    <3>2. NoResult' /\ row'.state = alone'
      BY <2>1, <2>3, <2>4, <3>1 DEF NoResult
    <3> QED
      BY <2>2, <2>3, <3>2, AloneIsOneOf DEF Unanswered, Answered
  <2>5. CASE results' = [results EXCEPT ![r.at] = Append(@, c)]
    <3>1. /\ results'[r.at] = <<c>>
          /\ \A u \in Workers \ {r.at} : results'[u] = <<>>
      BY <2>1, <2>2, <2>5, OnlyOne DEF NoResult, TypeOK
    <3>2. \A k \in Writers : writer'[k].pc # "save"
      BY <2>1, <2>3 DEF NoResult
    <3>3. c.state = alone' /\ row'.change < c.exec
      BY <2>1, <2>3
    <3> HIDE DEF c
    <3> QED
      BY <2>2, <2>3, <3>1, <3>2, <3>3, AloneIsOneOf DEF Unanswered, Answered, Answer
  <2> QED
    BY <2>4, <2>5 DEF Evaluate
<1>3. CASE alone \in States
  BY <1>3 DEF Answered
<1> QED
  BY <1>1, <1>2, <1>3 DEF TypeOK

LEMMA TakeAlone ==
  ASSUME TypeOK, Unanswered, Answered, NEW k \in Writers, Take(k)
  PROVE  Unanswered' /\ Answered'
<1>1. CASE alone = "none"
  BY <1>1, AloneIsOneOf DEF Take, Unanswered, Answered
<1>2. CASE alone = "wait"
  BY <1>2 DEF Take, Unanswered, NoResult
<1>3. CASE alone \in States
  <2> DEFINE w == WorkerOf[k]
  <2>1. w \in Workers /\ results[w] # <<>>
    BY DEF Take
  <2>2. ~NoResult
    BY <2>1 DEF NoResult
  <2>3. PICK c \in Changes : /\ Answer(c) /\ results[w] = <<c>>
                             /\ \A v \in Workers \ {w} : results[v] = <<>>
                             /\ \A l \in Writers : writer[l].pc # "save"
    BY <1>3, <2>1, <2>2 DEF Answered
  <2>4. /\ writer'[k].pc = "save" /\ writer'[k].job = c
        /\ \A l \in Writers \ {k} : writer'[l] = writer[l]
        /\ results'[w] = <<>>
        /\ \A v \in Workers \ {w} : results'[v] = results[v]
        /\ UNCHANGED <<row, alone, wire, runs>>
    BY <2>1, <2>3, OnlyOne DEF Take, TypeOK
  <2>5. \A v \in Workers : results'[v] = <<>>
    BY <2>3, <2>4
  <2>6. writer'[k].job.state = alone' /\ row'.change < writer'[k].job.exec
    BY <2>3, <2>4 DEF Answer
  <2>7. wire = {} /\ runs = {}
    BY <1>3 DEF Answered
  <2>8. Unanswered'
    BY <1>3, <2>4, AloneIsOneOf DEF Unanswered
  <2>9. Answered'
    BY <2>3, <2>4, <2>5, <2>6, <2>7 DEF Answered, Answer
  <2> QED
    BY <2>8, <2>9
<1> QED
  BY <1>1, <1>2, <1>3 DEF TypeOK

LEMMA SaveAlone ==
  ASSUME TypeOK, Unanswered, Answered, NEW k \in Writers, Save(k)
  PROVE  Unanswered' /\ Answered'
<1>1. CASE alone = "none"
  BY <1>1, AloneIsOneOf DEF Save, Unanswered, Answered
<1>2. CASE alone = "wait"
  BY <1>2 DEF Save, Unanswered, NoResult
<1>3. CASE alone \in States
  <2> DEFINE j == writer[k].job
  <2>1. writer[k].pc = "save" /\ UNCHANGED <<alone, wire, runs, results>>
    BY DEF Save
  <2>2. /\ Answer(j) /\ wire = {} /\ runs = {}
        /\ \A w \in Workers : results[w] = <<>>
        /\ \A l \in Writers \ {k} : writer[l].pc # "save"
    BY <1>3, <2>1 DEF Answered, NoResult
  <2>3. \A l \in Writers : writer'[l].pc # "save"
    <3>1. /\ writer' = [writer EXCEPT ![k] = Idle] \/ writer' = [writer EXCEPT ![k].pc = "notify"]
          /\ Idle.pc = "idle"
      BY DEF Save, Idle
    <3> HIDE DEF j
    <3> QED
      BY <2>2, <3>1 DEF TypeOK
  <2>4. row'.state = alone
    <3>1. row'.state = IF Records(j) THEN j.state ELSE row.state
      BY DEF Save, TypeOK, Rows
    <3>2. j.state = alone /\ (Records(j) \/ row.state = j.state)
      BY <2>2 DEF Answer, Records
    <3> HIDE DEF j
    <3> QED
      BY <3>1, <3>2
  <2> QED
    BY <1>3, <2>1, <2>2, <2>3, <2>4, AloneIsOneOf DEF Unanswered, Answered, NoResult
<1> QED
  BY <1>1, <1>2, <1>3 DEF TypeOK

LEMMA HealedNext ==
  TypeOK /\ Generated /\ Unanswered /\ Answered /\ [Next]_vars
    => Unanswered' /\ Answered'
<1> SUFFICES ASSUME TypeOK, Generated, Unanswered, Answered, [Next]_vars
             PROVE  Unanswered' /\ Answered'
  OBVIOUS
<1>1. CASE alone' = "none"
  BY <1>1, AloneIsOneOf DEF Unanswered, Answered
<1>2. CASE UNCHANGED <<row, wire, runs, results, writer, alone>>
  BY <1>2, AloneKept
<1>3. ASSUME NEW k \in Writers, Notify(k) PROVE Unanswered' /\ Answered'
  <2>1. UNCHANGED <<row, wire, runs, results, alone>>
    BY <1>3 DEF Notify
  <2>2. /\ writer[k].pc # "save" /\ writer'[k].pc # "save"
        /\ \A l \in Writers \ {k} : writer'[l] = writer[l]
    BY <1>3 DEF Notify, TypeOK, Idle
  <2> QED
    BY <2>1, <2>2, AloneKept
<1>4. ASSUME NEW k \in Writers, SaveFails(k), alone' # "none"
      PROVE  Unanswered' /\ Answered'
  <2>1. writer[k].pc = "save" /\ UNCHANGED <<row, wire, runs, results>>
    BY <1>4 DEF SaveFails
  <2>2. alone' = alone /\ writer' = [writer EXCEPT ![k].attempts = @ + 1]
    BY <1>4 DEF SaveFails
  <2>3. \A l \in Writers : writer'[l].pc = writer[l].pc /\ writer'[l].job = writer[l].job
    BY <2>2 DEF TypeOK
  <2> QED
    BY <2>1, <2>2, <2>3, AloneKept
<1>5. ASSUME \/ Tick \/ ReadForm \/ UNCHANGED vars
             \/ \E d \in Schedulers : SkipPoint(d)
             \/ \E w \in Workers : \/ HandleStateChange(w)
                                    \/ \E c \in BagToSet(mails[w]) : SendEmail(w, c)
      PROVE  UNCHANGED <<row, wire, runs, results, writer, alone>>
  BY <1>5 DEF vars, stages, history, Tick, ReadForm, SkipPoint, HandleStateChange, SendEmail
<1>6. ASSUME \/ \E w \in Workers : Crash(w) \/ \E j \in wire : Discard(w, j)
             \/ \E j \in wire : DropJob(j)
             \/ \E r \in runs : QueryFails(r)
             \/ \E enabled, carry \in BOOLEAN : SaveForm(enabled, carry)
      PROVE  alone' = "none"
  BY <1>6, CrashKeeps, SaveFormKeeps DEF Discard, DropJob, QueryFails
<1> QED
  BY <1>1, <1>2, <1>3, <1>4, <1>5, <1>6, DispatchAlone, ExecuteAlone, EvaluateAlone,
     TakeAlone, SaveAlone DEF Next, Scheduler, Worker, Execution, Writer, User

LEMMA AnsweredIsHealed == Answered => Healed
<1> SUFFICES ASSUME Answered, Quiet, alone \in States
             PROVE  row.state = alone
  BY DEF Healed
<1>1. NoResult /\ \A c : <<c>> # <<>>
  BY OnlyOne DEF Quiet, NoResult
<1> QED
  BY <1>1 DEF Answered, NoResult

-----------------------------------------------------------------------------
LEMMA InitInvariant == Init => IInv
<1> SUFFICES ASSUME Init PROVE IInv
  OBVIOUS
<1>1. NotifiedOnce
  <2> SUFFICES ASSUME NEW w \in Workers, NEW c \in Changes
               PROVE  Cardinality(Notifying(w, c)) + Cardinality(Places(changes[w], c))
                        + Copies(c, mails[w]) = Copies(c, owed[w])
    BY NotifiedParts
  <2>1. changes[w] = <<>> /\ mails[w] = EmptyBag /\ owed[w] = EmptyBag
    BY DEF Init
  <2>2. Notifying(w, c) = {}
    BY DEF Init, Notifying, Idle
  <2> QED
    BY <2>1, <2>2, CountEmpty, FS_EmptySet, EmptyBagFacts
<1>2. AskedOnce /\ Cached
  <2>1. \A w \in Workers : seen[w] = <<>> /\ asked[w] = <<>>
    BY DEF Init
  <2>2. LastOf(<<>>, <<>>) /\ Spaced(<<>>)
    BY EmptyFacts DEF LastOf, Spaced
  <2> QED
    BY <2>1, <2>2 DEF AskedOnce, Cached, Spaced
<1>3. Generated /\ Unanswered /\ Answered
  BY AloneIsOneOf DEF Init, Generated, Unanswered, Answered
<1> QED
  BY InitType, <1>1, <1>2, <1>3 DEF IInv

\* Whatever the servers, the invariant of the pipeline holds.
THEOREM Invariance == Spec => []IInv
<1>1. IInv /\ [Next]_vars => IInv'
  BY TypeNext, CacheNext, NotifiedNext, GeneratedNext, HealedNext DEF IInv
<1> QED
  BY InitInvariant, <1>1, PTL DEF Spec

\* The caches and the queues stay within their sizes, the clock and the
\* counters within their bounds.
THEOREM TypeCorrect == Spec => []TypeOK
<1>1. IInv => TypeOK
  BY DEF IInv
<1> QED
  BY Invariance, <1>1, PTL

\* storeResults and handleStateChange: every change that updateCheckState has
\* committed is with a writer, in the channel or in an email, exactly once.
THEOREM NotifiedExactlyOnce == Spec => []NotifiedOnce
<1>1. IInv => NotifiedOnce
  BY DEF IInv
<1> QED
  BY Invariance, <1>1, PTL

\* execute: with ContainsOrAdd on an LRU of CacheSize points, a worker asks
\* Graphite about a point again only after CacheSize others.
THEOREM PointsAskedOnce == Spec => []AskedOnce
<1>1. IInv => AskedOnce
  BY DEF IInv
<1> QED
  BY Invariance, <1>1, PTL

\* dispatchJobs to updateCheckState: what a job found that ran alone is in the
\* row when the pipeline is quiet again, whatever state the row was in before.
THEOREM LoneJobHeals == Spec => []Healed
<1>1. IInv => Healed
  BY AnsweredIsHealed DEF IInv
<1> QED
  BY Invariance, <1>1, PTL

\* eval: whatever Graphite answers to an execution that waits for it, the check is
\* critical exactly if enough series have enough bad points in a row somewhere.
THEOREM EvalAlwaysRight == Spec => []EvalIsRight
<1>1. EvalIsRight
  BY EvalFindsState DEF EvalIsRight
<1> QED
  BY <1>1, PTL
=============================================================================
