--------------------------- MODULE SequenceLemmas ---------------------------
(***************************************************************************)
(* What the queues of the models do, for the proofs about them: a sequence *)
(* gains its last element, or loses its first.                             *)
(***************************************************************************)
EXTENDS Integers, Sequences, SequencesExt, FiniteSetTheorems, SequenceTheorems, TLAPS

LEMMA SeqFacts ==
  ASSUME NEW S, NEW q \in Seq(S)
  PROVE  /\ Len(q) \in Nat /\ DOMAIN q = 1 .. Len(q)
         /\ \A i \in DOMAIN q : q[i] \in S
         /\ ToSet(q) \subseteq S
         /\ q = <<>> <=> Len(q) = 0
         /\ ToSet(q) = {} <=> q = <<>>
  BY DEF ToSet

LEMMA EmptyFacts ==
  ASSUME NEW S
  PROVE  <<>> \in Seq(S) /\ Len(<<>>) = 0 /\ ToSet(<<>>) = {}
  BY DEF ToSet

LEMMA AppendFacts ==
  ASSUME NEW S, NEW q \in Seq(S), NEW e \in S
  PROVE  /\ Append(q, e) \in Seq(S)
         /\ Len(Append(q, e)) = Len(q) + 1
         /\ DOMAIN Append(q, e) = DOMAIN q \cup {Len(q) + 1}
         /\ Append(q, e)[Len(q) + 1] = e
         /\ \A i \in DOMAIN q : Append(q, e)[i] = q[i] /\ i < Len(q) + 1
         /\ ToSet(Append(q, e)) = ToSet(q) \cup {e}
<1> DEFINE a == Append(q, e)
<1>1. /\ a \in Seq(S) /\ Len(a) = Len(q) + 1
      /\ DOMAIN a = DOMAIN q \cup {Len(q) + 1}
      /\ a[Len(q) + 1] = e
      /\ \A i \in DOMAIN q : a[i] = q[i] /\ i < Len(q) + 1
  OBVIOUS
<1>2. ToSet(a) = ToSet(q) \cup {e}
  <2> HIDE DEF a
  <2> QED
    BY <1>1, Zenon DEF ToSet
<1> QED
  BY <1>1, <1>2

LEMMA TailFacts ==
  ASSUME NEW S, NEW q \in Seq(S), q # <<>>
  PROVE  /\ Head(q) = q[1] /\ Head(q) \in S /\ 1 \in DOMAIN q
         /\ Tail(q) \in Seq(S)
         /\ Len(Tail(q)) = Len(q) - 1
         /\ \A i \in DOMAIN Tail(q) : Tail(q)[i] = q[i + 1] /\ i + 1 \in DOMAIN q
         /\ \A i \in DOMAIN q : i # 1 => i - 1 \in DOMAIN Tail(q)
         /\ ToSet(q) = ToSet(Tail(q)) \cup {Head(q)}
<1> DEFINE t == Tail(q)
<1>1. /\ Head(q) = q[1] /\ Head(q) \in S /\ 1 \in DOMAIN q
      /\ t \in Seq(S) /\ Len(t) = Len(q) - 1
      /\ \A i \in DOMAIN t : t[i] = q[i + 1] /\ i + 1 \in DOMAIN q
      /\ \A i \in DOMAIN q : i # 1 => i - 1 \in DOMAIN t
  OBVIOUS
<1>2. ToSet(q) = ToSet(t) \cup {Head(q)}
  <2> HIDE DEF t
  <2>1. \A i \in DOMAIN q : i = 1 \/ (i - 1 \in DOMAIN t /\ q[i] = t[i - 1])
    BY <1>1
  <2>2. ASSUME NEW x \in ToSet(q)
        PROVE  x \in ToSet(t) \cup {Head(q)}
    <3>1. PICK i \in DOMAIN q : x = q[i]
      BY <2>2 DEF ToSet
    <3>2. CASE i = 1
      BY <1>1, <3>1, <3>2
    <3>3. CASE i - 1 \in DOMAIN t /\ q[i] = t[i - 1]
      BY <3>1, <3>3 DEF ToSet
    <3> QED
      BY <2>1, <3>2, <3>3
  <2>3. ASSUME NEW x \in ToSet(t) \cup {Head(q)}
        PROVE  x \in ToSet(q)
    <3>1. CASE x = Head(q)
      BY <1>1, <3>1 DEF ToSet
    <3>2. CASE x \in ToSet(t)
      <4>1. PICK i \in DOMAIN t : x = t[i]
        BY <3>2 DEF ToSet
      <4> QED
        BY <1>1, <4>1 DEF ToSet
    <3> QED
      BY <2>3, <3>1, <3>2
  <2> QED
    BY <2>2, <2>3
<1> QED
  BY <1>1, <1>2

\* An element that is new keeps a sequence free of repetitions.
LEMMA AppendNew ==
  ASSUME NEW S, NEW q \in Seq(S), NEW e \in S, IsInjective(q), e \notin ToSet(q)
  PROVE  IsInjective(Append(q, e))
<1> DEFINE a == Append(q, e)
<1>1. \A i \in DOMAIN q : a[i] = q[i] /\ q[i] # e
  BY AppendFacts DEF ToSet
<1>2. DOMAIN a = DOMAIN q \cup {Len(q) + 1} /\ a[Len(q) + 1] = e
  BY AppendFacts
<1>3. IsInjective(a)
  <2> HIDE DEF a
  <2> SUFFICES ASSUME NEW i \in DOMAIN a, NEW k \in DOMAIN a, a[i] = a[k]
               PROVE  i = k
    BY DEF IsInjective
  <2> QED
    BY <1>1, <1>2 DEF IsInjective
<1> QED
  BY <1>3

-----------------------------------------------------------------------------
(* How often an element is in a sequence.                                  *)

Places(q, e) == {i \in DOMAIN q : q[i] = e}

LEMMA CountType ==
  ASSUME NEW S, NEW q \in Seq(S), NEW e
  PROVE  IsFiniteSet(Places(q, e)) /\ Cardinality(Places(q, e)) \in Nat
<1>1. Len(q) \in Int /\ 1 \in Int /\ DOMAIN q = 1 .. Len(q)
  BY SeqFacts
<1>2. IsFiniteSet(1 .. Len(q))
  BY <1>1, FS_Interval
<1>3. Places(q, e) \in SUBSET (1 .. Len(q))
  BY <1>1, Zenon DEF Places
<1> QED
  BY <1>2, <1>3, FS_Subset, FS_CardinalityType

LEMMA CountEmpty ==
  ASSUME NEW e
  PROVE  Cardinality(Places(<<>>, e)) = 0
<1>1. Places(<<>>, e) = {}
  BY DEF Places
<1> QED
  BY <1>1, FS_EmptySet

LEMMA CountAppend ==
  ASSUME NEW S, NEW q \in Seq(S), NEW x \in S, NEW e
  PROVE  Cardinality(Places(Append(q, x), e)) =
           Cardinality(Places(q, e)) + (IF x = e THEN 1 ELSE 0)
<1> DEFINE n == Len(q) + 1
<1>1. Places(Append(q, x), e) = Places(q, e) \cup (IF x = e THEN {n} ELSE {})
  <2> DEFINE a == Append(q, x)
  <2>1. /\ DOMAIN a = DOMAIN q \cup {n} /\ a[n] = x
        /\ \A i \in DOMAIN q : a[i] = q[i] /\ i # n
    BY AppendFacts
  <2> HIDE DEF a, n
  <2>2. Places(a, e) = Places(q, e) \cup (IF x = e THEN {n} ELSE {})
    BY <2>1, Zenon DEF Places
  <2> QED
    BY <2>2 DEF a
<1>2. n \notin Places(q, e)
  BY SeqFacts DEF Places
<1>3. IsFiniteSet(Places(q, e))
  BY CountType
<1>4. Cardinality(Places(q, e)) \in Nat
  BY CountType
<1>5. Cardinality(Places(q, e) \cup {n}) = Cardinality(Places(q, e)) + 1
  BY <1>2, <1>3, FS_AddElement
<1>6. CASE x = e
  BY <1>1, <1>5, <1>6
<1>7. CASE x # e
  <2>1. Places(Append(q, x), e) = Places(q, e)
    BY <1>1, <1>7
  <2> QED
    BY <1>4, <1>7, <2>1
<1> QED
  BY <1>6, <1>7

LEMMA CountTail ==
  ASSUME NEW S, NEW q \in Seq(S), q # <<>>, NEW e
  PROVE  Cardinality(Places(q, e)) =
           Cardinality(Places(Tail(q), e)) + (IF Head(q) = e THEN 1 ELSE 0)
<1> DEFINE t == Tail(q)
           T == Places(t, e)
           U == Places(q, e) \ {1}
           f == [i \in T |-> i + 1]
<1>1. /\ Head(q) = q[1] /\ 1 \in DOMAIN q /\ t \in Seq(S)
      /\ DOMAIN t \subseteq Nat \ {0} /\ DOMAIN q \subseteq Nat
      /\ \A i \in DOMAIN t : t[i] = q[i + 1] /\ i + 1 \in DOMAIN q
      /\ \A i \in DOMAIN q : i # 1 => i - 1 \in DOMAIN t
  BY TailFacts, SeqFacts
<1>2. f \in Bijection(T, U)
  <2> HIDE DEF t
  <2>1. f \in [T -> U]
    BY <1>1 DEF Places
  <2>2. IsInjective(f)
    BY <1>1 DEF IsInjective, Places
  <2>3. \A u \in U : \E i \in T : f[i] = u
    <3> SUFFICES ASSUME NEW u \in U
                 PROVE  u - 1 \in T /\ f[u - 1] = u
      OBVIOUS
    <3>1. u \in DOMAIN q /\ u # 1 /\ u \in Nat /\ q[u] = e
      BY <1>1 DEF Places
    <3>2. u - 1 \in DOMAIN t /\ t[u - 1] = q[(u - 1) + 1] /\ (u - 1) + 1 = u
      BY <1>1, <3>1
    <3> QED
      BY <3>1, <3>2 DEF Places
  <2> HIDE DEF f, T, U
  <2> QED
    BY <2>1, <2>2, <2>3 DEF Bijection, Injection, Surjection
<1>3. Cardinality(U) = Cardinality(T) /\ Cardinality(T) \in Nat
  <2>1. IsFiniteSet(T) /\ Cardinality(T) \in Nat
    BY <1>1, CountType
  <2>2. ExistsBijection(T, U)
    BY <1>2 DEF ExistsBijection
  <2> HIDE DEF T, U
  <2> QED
    BY <2>1, <2>2, FS_Bijection
<1>4. Cardinality(U) = IF 1 \in Places(q, e) THEN Cardinality(Places(q, e)) - 1
                                             ELSE Cardinality(Places(q, e))
  BY CountType, FS_RemoveElement
<1>5. 1 \in Places(q, e) <=> Head(q) = e
  BY <1>1 DEF Places
<1>6. Cardinality(Places(q, e)) \in Nat
  BY CountType
<1> HIDE DEF T, U
<1> QED
  BY <1>3, <1>4, <1>5, <1>6 DEF T

-----------------------------------------------------------------------------
(* A sequence without one of its elements.                                 *)

LEMMA RemoveAtFacts ==
  ASSUME NEW S, NEW q \in Seq(S), NEW i \in DOMAIN q
  PROVE  LET r == RemoveAt(q, i) IN
         /\ r \in Seq(S) /\ Len(r) = Len(q) - 1
         /\ \A j \in DOMAIN r :
              LET k == IF j < i THEN j ELSE j + 1 IN k \in DOMAIN q \ {i} /\ r[j] = q[k]
         /\ ToSet(r) \subseteq ToSet(q)
<1> DEFINE n == Len(q)
           a == SubSeq(q, 1, i - 1)
           b == SubSeq(q, i + 1, n)
           r == RemoveAt(q, i)
<1>1. n \in Nat /\ i \in 1 .. n /\ DOMAIN q = 1 .. n /\ \A j \in 1 .. n : q[j] \in S
  BY SeqFacts
<1>2. /\ a \in Seq(S) /\ Len(a) = i - 1
      /\ \A j \in 1 .. i - 1 : a[j] = q[j]
  <2> HIDE DEF n
  <2>1. 1 \in Int /\ i - 1 \in Int /\ \A j \in 1 .. i - 1 : q[j] \in S
    BY <1>1
  <2>2. /\ a \in Seq(S)
        /\ Len(a) = IF 1 <= i - 1 THEN i - 1 - 1 + 1 ELSE 0
        /\ \A j \in 1 .. i - 1 - 1 + 1 : a[j] = q[1 + j - 1]
    BY <2>1, SubSeqProperties
  <2> HIDE DEF a
  <2>3. Len(a) = i - 1
    BY <1>1, <2>2
  <2>4. ASSUME NEW j \in 1 .. i - 1 PROVE a[j] = q[j]
    <3>1. j \in 1 .. i - 1 - 1 + 1 /\ 1 + j - 1 = j
      BY <1>1
    <3> QED
      BY <2>2, <3>1
  <2> QED
    BY <2>2, <2>3, <2>4
<1>3. /\ b \in Seq(S) /\ Len(b) = n - i
      /\ \A j \in 1 .. n - i : b[j] = q[i + j]
  <2> HIDE DEF n
  <2>1. i + 1 \in Int /\ n \in Int /\ \A j \in i + 1 .. n : q[j] \in S
    BY <1>1
  <2>2. /\ b \in Seq(S)
        /\ Len(b) = IF i + 1 <= n THEN n - (i + 1) + 1 ELSE 0
        /\ \A j \in 1 .. n - (i + 1) + 1 : b[j] = q[i + 1 + j - 1]
    BY <2>1, SubSeqProperties
  <2> HIDE DEF b
  <2>3. Len(b) = n - i
    BY <1>1, <2>2
  <2>4. ASSUME NEW j \in 1 .. n - i PROVE b[j] = q[i + j]
    <3>1. j \in 1 .. n - (i + 1) + 1 /\ i + 1 + j - 1 = i + j
      BY <1>1
    <3> QED
      BY <2>2, <3>1
  <2> QED
    BY <2>2, <2>3, <2>4
<1>4. /\ r \in Seq(S) /\ Len(r) = Len(a) + Len(b)
      /\ \A j \in 1 .. Len(a) + Len(b) : r[j] = IF j <= Len(a) THEN a[j] ELSE b[j - Len(a)]
  <2> HIDE DEF a, b
  <2>1. /\ a \o b \in Seq(S) /\ Len(a \o b) = Len(a) + Len(b)
        /\ \A j \in 1 .. Len(a) + Len(b) :
             (a \o b)[j] = IF j <= Len(a) THEN a[j] ELSE b[j - Len(a)]
    BY <1>2, <1>3, ConcatProperties
  <2>2. r = a \o b
    BY DEF RemoveAt, a, b
  <2> HIDE DEF r
  <2> QED
    BY <2>1, <2>2
<1> HIDE DEF a, b, r, n
<1>5. r \in Seq(S) /\ Len(r) = n - 1 /\ DOMAIN r = 1 .. n - 1
  BY <1>1, <1>2, <1>3, <1>4, SeqFacts
<1>6. ASSUME NEW j \in DOMAIN r
      PROVE  LET k == IF j < i THEN j ELSE j + 1 IN k \in DOMAIN q \ {i} /\ r[j] = q[k]
  <2>1. j \in 1 .. n - 1
    BY <1>5
  <2>2. CASE j < i
    BY <1>1, <1>2, <1>3, <1>4, <2>1, <2>2
  <2>3. CASE ~(j < i)
    <3>1. r[j] = b[j - (i - 1)] /\ j - (i - 1) \in 1 .. n - i
      BY <1>1, <1>2, <1>3, <1>4, <2>1, <2>3
    <3>2. r[j] = q[i + (j - (i - 1))] /\ i + (j - (i - 1)) = j + 1
      BY <1>1, <1>3, <2>1, <3>1
    <3> QED
      BY <1>1, <2>1, <2>3, <3>2
  <2> QED
    BY <2>2, <2>3
<1>7. ToSet(r) \subseteq ToSet(q)
  BY <1>6 DEF ToSet
<1> QED
  BY <1>5, <1>6, <1>7 DEF r, n

\* The positions in q of the elements of E.
PlacesIn(q, E) == {i \in DOMAIN q : q[i] \in E}

LEMMA PlacesInType ==
  ASSUME NEW S, NEW q \in Seq(S), NEW E
  PROVE  IsFiniteSet(PlacesIn(q, E)) /\ Cardinality(PlacesIn(q, E)) \in Nat
<1>1. Len(q) \in Int /\ 1 \in Int /\ DOMAIN q = 1 .. Len(q)
  BY SeqFacts
<1>2. IsFiniteSet(1 .. Len(q))
  BY <1>1, FS_Interval
<1>3. PlacesIn(q, E) \in SUBSET (1 .. Len(q))
  BY <1>1, Zenon DEF PlacesIn
<1> QED
  BY <1>2, <1>3, FS_Subset, FS_CardinalityType

\* Without q[i] there is one place less where q[i] was in E, and no new one.
LEMMA RemoveAtPlaces ==
  ASSUME NEW S, NEW q \in Seq(S), NEW i \in DOMAIN q, NEW E
  PROVE  Cardinality(PlacesIn(RemoveAt(q, i), E)) <=
           Cardinality(PlacesIn(q, E)) - (IF q[i] \in E THEN 1 ELSE 0)
<1> DEFINE r == RemoveAt(q, i)
           T == PlacesIn(r, E)
           U == PlacesIn(q, E) \ {i}
           f == [j \in T |-> IF j < i THEN j ELSE j + 1]
<1>1. /\ r \in Seq(S) /\ DOMAIN r \subseteq Int /\ i \in Int
      /\ \A j \in DOMAIN r :
           LET k == IF j < i THEN j ELSE j + 1 IN k \in DOMAIN q \ {i} /\ r[j] = q[k]
  BY RemoveAtFacts, SeqFacts
<1>2. f \in Injection(T, U)
  <2> HIDE DEF r
  <2>1. ASSUME NEW j \in T PROVE f[j] \in U
    BY <1>1 DEF PlacesIn
  <2>2. ASSUME NEW j \in T, NEW k \in T, f[j] = f[k] PROVE j = k
    <3>1. j \in Int /\ k \in Int
      BY <1>1 DEF PlacesIn
    <3> QED
      BY <1>1, <2>2, <3>1
  <2> HIDE DEF T, U
  <2>3. f \in [T -> U]
    BY <2>1
  <2>4. DOMAIN f = T
    OBVIOUS
  <2> HIDE DEF f
  <2> QED
    BY <2>2, <2>3, <2>4 DEF Injection, IsInjective
<1>3. IsFiniteSet(U) /\ Cardinality(U) \in Nat
  BY PlacesInType, FS_Subset, FS_CardinalityType
<1>4. Cardinality(T) <= Cardinality(U)
  <2> HIDE DEF T, U, f
  <2> QED
    BY <1>2, <1>3, FS_Injection
<1>5. Cardinality(U) = Cardinality(PlacesIn(q, E)) - (IF q[i] \in E THEN 1 ELSE 0)
  <2>1. IsFiniteSet(PlacesIn(q, E)) /\ Cardinality(PlacesIn(q, E)) \in Nat
    BY PlacesInType
  <2>2. i \in PlacesIn(q, E) <=> q[i] \in E
    BY DEF PlacesIn
  <2>3. CASE q[i] \in E
    BY <2>1, <2>2, <2>3, FS_RemoveElement
  <2>4. CASE q[i] \notin E
    <3>1. Cardinality(U) = Cardinality(PlacesIn(q, E))
      BY <2>2, <2>4
    <3> HIDE DEF U
    <3> QED
      BY <2>1, <2>4, <3>1
  <2> QED
    BY <2>3, <2>4
<1> QED
  BY <1>4, <1>5
=============================================================================
