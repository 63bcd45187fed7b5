--------------------------- MODULE JobLiveViewProofs ---------------------------
(***************************************************************************)
(* The safety properties of JobLiveView for every size of a batch, of a    *)
(* page, of the buffer and of the console, and any number of faults,       *)
(* clicks, changes of the row and lines of its log.                        *)
(*                                                                         *)
(* The argument follows a line on its way to the screen.  The log is       *)
(* gapless but for lines of runs that lost the job; a query returns a      *)
(* gapless piece of it that starts at a cursor; the cursor is the end of   *)
(* what is on the wire; the wire starts where the page ends.  So pieces    *)
(* join without a gap, and trimming them keeps a suffix.  The other half   *)
(* follows a change: a stream that has not seen it has a wake-up ahead.    *)
(***************************************************************************)
EXTENDS JobLiveView, FiniteSetTheorems, SequenceTheorems, WellFoundedInduction, TLAPS

LogIds == 0..MaxLog

\* Lines that were committed in time.
InTime == log \ late

-----------------------------------------------------------------------------
(* Sets of line ids *)

\* Sets of line ids are finite.
LEMMA IdsAreFinite ==
    ASSUME NEW S \in SUBSET LogIds
    PROVE  IsFiniteSet(S) /\ Cardinality(S) \in Nat /\ S \in SUBSET Nat
<1>1. IsFiniteSet(LogIds)
  BY StreamAssumption, FS_Interval DEF LogIds
<1>2. \A x \in LogIds : x \in Nat
  BY DEF LogIds
<1>3. IsFiniteSet(S) /\ Cardinality(S) \in Nat
  BY <1>1, FS_Subset, FS_CardinalityType
<1> QED
  BY <1>2, <1>3

\* A set of naturals has a least member,
LEMMA LeastExists ==
    ASSUME NEW S \in SUBSET Nat, S # {}
    PROVE  \E x \in S : \A y \in S : x <= y
<1>1. PICK x \in S : \A y \in S : ~ (<<y, x>> \in OpToRel(<, Nat))
  BY NatLessThanWellFounded, WFMin
<1>2. \A y \in S : ~(y < x)
  BY <1>1 DEF OpToRel
<1> QED
  BY <1>2

\* and a set of line ids a greatest.
LEMMA GreatestIs ==
    ASSUME NEW S \in SUBSET LogIds, S # {}
    PROVE  Greatest(S) \in S /\ \A y \in S : y <= Greatest(S)
<1> DEFINE T == {MaxLog - s : s \in S}
<1>1. \A s \in S : MaxLog - s \in Nat /\ s \in Nat
  BY StreamAssumption DEF LogIds
<1>2. T \in SUBSET Nat /\ T # {}
  BY <1>1
<1>3. PICK t \in T : \A u \in T : t <= u
  BY <1>2, LeastExists
<1>4. PICK x \in S : t = MaxLog - x
  BY <1>3
<1>5. \A y \in S : MaxLog - x <= MaxLog - y
  BY <1>3, <1>4
<1>6. \E z \in S : \A y \in S : y <= z
  BY <1>1, <1>5, StreamAssumption
<1> QED
  BY <1>6 DEF Greatest

Below(S, x) == {y \in S : y < x}
Beyond(S, x) == {y \in S : y > x}

\* A page starts at the beginning and has no gap,
LEMMA FirstHasNoGap ==
    ASSUME NEW S \in SUBSET LogIds, NEW n \in Int, NEW x \in FirstOf(S, n), NEW y \in S, y <= x
    PROVE  y \in FirstOf(S, n)
<1>1. x \in S /\ Cardinality(Below(S, x)) < n
  BY DEF FirstOf, Below
<1>2. \A z \in S : z \in Int
  BY IdsAreFinite
<1>3. Below(S, y) \in SUBSET Below(S, x)
  BY <1>1, <1>2 DEF Below
<1>4. Below(S, x) \in SUBSET LogIds /\ Below(S, y) \in SUBSET LogIds
  BY DEF Below
<1>5. /\ Cardinality(Below(S, y)) <= Cardinality(Below(S, x))
      /\ Cardinality(Below(S, y)) \in Nat /\ Cardinality(Below(S, x)) \in Nat
  BY <1>3, <1>4, IdsAreFinite, FS_Subset
<1>6. Cardinality(Below(S, y)) < n
  BY <1>1, <1>5
<1> QED
  BY <1>6 DEF FirstOf, Below

\* a short one is everything,
LEMMA ShortFirstIsAll ==
    ASSUME NEW S \in SUBSET LogIds, NEW n \in Int, Cardinality(FirstOf(S, n)) < n
    PROVE  FirstOf(S, n) = S
<1> DEFINE F == FirstOf(S, n)
<1>1. F \in SUBSET S /\ \A x \in S : x \in F <=> Cardinality(Below(S, x)) < n
  BY DEF FirstOf, Below
<1> SUFFICES ASSUME S \ F # {} PROVE FALSE
  BY <1>1
<1> HIDE DEF F
<1>2. PICK x \in S \ F : \A y \in S \ F : x <= y
  <2>1. S \ F \in SUBSET LogIds /\ S \ F \in SUBSET Nat
    BY IdsAreFinite
  <2> QED
    BY <2>1, LeastExists
<1>3. \A y \in S : y \in Int
  BY IdsAreFinite
<1>4. Below(S, x) \in SUBSET F
  BY <1>2, <1>3 DEF Below
<1>5. Cardinality(Below(S, x)) <= Cardinality(F) /\ Cardinality(Below(S, x)) \in Nat
      /\ Cardinality(F) \in Nat
  BY <1>1, <1>4, IdsAreFinite, FS_Subset
<1>6. Cardinality(Below(S, x)) < n
  BY <1>5 DEF F
<1> QED
  BY <1>1, <1>2, <1>6

\* and so it is with the last lines.
LEMMA LastHasNoGap ==
    ASSUME NEW S \in SUBSET LogIds, NEW n \in Int, NEW x \in LastOf(S, n), NEW y \in S, x <= y
    PROVE  y \in LastOf(S, n)
<1>1. x \in S /\ Cardinality(Beyond(S, x)) < n
  BY DEF LastOf, Beyond
<1>2. \A z \in S : z \in Int
  BY IdsAreFinite
<1>3. Beyond(S, y) \in SUBSET Beyond(S, x)
  BY <1>1, <1>2 DEF Beyond
<1>4. Beyond(S, x) \in SUBSET LogIds /\ Beyond(S, y) \in SUBSET LogIds
  BY DEF Beyond
<1>5. /\ Cardinality(Beyond(S, y)) <= Cardinality(Beyond(S, x))
      /\ Cardinality(Beyond(S, y)) \in Nat /\ Cardinality(Beyond(S, x)) \in Nat
  BY <1>3, <1>4, IdsAreFinite, FS_Subset
<1>6. Cardinality(Beyond(S, y)) < n
  BY <1>1, <1>5
<1> QED
  BY <1>6 DEF LastOf, Beyond

\* Few last lines are all.
LEMMA ShortLastIsAll ==
    ASSUME NEW S \in SUBSET LogIds, NEW n \in Int, Cardinality(LastOf(S, n)) < n
    PROVE  LastOf(S, n) = S
<1> DEFINE F == LastOf(S, n)
<1>1. F \in SUBSET S /\ \A x \in S : x \in F <=> Cardinality(Beyond(S, x)) < n
  BY DEF LastOf, Beyond
<1> SUFFICES ASSUME S \ F # {} PROVE FALSE
  BY <1>1
<1> HIDE DEF F
<1>2. PICK x \in S \ F : \A y \in S \ F : y <= x
  <2>1. S \ F \in SUBSET LogIds /\ S \ F \in SUBSET Nat
    BY IdsAreFinite
  <2> QED
    BY <2>1, GreatestIs
<1>3. \A y \in S : y \in Int
  BY IdsAreFinite
<1>4. Beyond(S, x) \in SUBSET F
  BY <1>2, <1>3 DEF Beyond
<1>5. Cardinality(Beyond(S, x)) <= Cardinality(F) /\ Cardinality(Beyond(S, x)) \in Nat
      /\ Cardinality(F) \in Nat
  BY <1>1, <1>4, IdsAreFinite, FS_Subset
<1>6. Cardinality(Beyond(S, x)) < n
  BY <1>5 DEF F
<1> QED
  BY <1>1, <1>2, <1>6

\* The rank of an id among others.
Rank(S) == [x \in S |-> Cardinality(Below(S, x))]

\* The rank of a line of a set is its place in the set, from 0,
LEMMA RankIs ==
    ASSUME NEW S \in SUBSET LogIds, NEW x \in S
    PROVE  /\ Rank(S)[x] = Cardinality(Below(S, x))
           /\ Rank(S)[x] \in 0..Cardinality(S) - 1
           /\ Cardinality(Below(S, x) \cup {x}) = Rank(S)[x] + 1
<1>1. Below(S, x) \in SUBSET LogIds
  BY DEF Below
<1>2. ~(x < x)
  BY IdsAreFinite
<1>3. Below(S, x) \cup {x} \in SUBSET S /\ x \notin Below(S, x)
  BY <1>2 DEF Below
<1>4. IsFiniteSet(Below(S, x)) /\ Cardinality(Below(S, x)) \in Nat
  BY <1>1, IdsAreFinite
<1>5. Cardinality(Below(S, x) \cup {x}) = Cardinality(Below(S, x)) + 1
  BY <1>3, <1>4, FS_AddElement
<1>6. IsFiniteSet(S) /\ Cardinality(S) \in Nat
  BY IdsAreFinite
<1>7. Cardinality(Below(S, x) \cup {x}) <= Cardinality(S)
  BY <1>3, <1>6, FS_Subset
<1>8. Rank(S)[x] = Cardinality(Below(S, x))
  BY DEF Rank
<1> QED
  BY <1>4, <1>5, <1>6, <1>7, <1>8

\* it grows with the line.
LEMMA RankGrows ==
    ASSUME NEW S \in SUBSET LogIds, NEW x \in S, NEW z \in S, x < z
    PROVE  Rank(S)[x] < Rank(S)[z]
<1>1. \A y \in S : y \in Nat
  BY IdsAreFinite
<1>2. Below(S, x) \cup {x} \in SUBSET Below(S, z)
  BY <1>1 DEF Below
<1>3. Below(S, z) \in SUBSET LogIds
  BY DEF Below
<1>4. Cardinality(Below(S, x) \cup {x}) <= Cardinality(Below(S, z))
  BY <1>2, <1>3, IdsAreFinite, FS_Subset
<1>5. Cardinality(S) \in Nat
  BY IdsAreFinite
<1>6. Rank(S)[x] \in 0..Cardinality(S) - 1 /\ Cardinality(Below(S, x) \cup {x}) = Rank(S)[x] + 1
  BY RankIs
<1>7. Rank(S)[z] = Cardinality(Below(S, z)) /\ Rank(S)[z] \in 0..Cardinality(S) - 1
  BY RankIs
<1> QED
  BY <1>4, <1>5, <1>6, <1>7

\* Every rank is taken once.
LEMMA RankIsBijective ==
    ASSUME NEW S \in SUBSET LogIds
    PROVE  Rank(S) \in Injection(S, 0..Cardinality(S) - 1) \cap Surjection(S, 0..Cardinality(S) - 1)
<1> DEFINE n == Cardinality(S)
<1>1. n \in Nat /\ \A x \in S : x \in Nat
  BY IdsAreFinite
<1>2. Rank(S) \in [S -> 0..n - 1]
  BY RankIs DEF Rank
<1>3. ASSUME NEW x \in S, NEW z \in S, Rank(S)[x] = Rank(S)[z]
      PROVE  x = z
  <2>0. Rank(S)[x] \in Int /\ Rank(S)[z] \in Int
    BY <1>2
  <2>1. ~(x < z) /\ ~(z < x)
    BY <1>3, <2>0, RankGrows
  <2> QED
    BY <1>1, <2>1
<1> HIDE DEF n
<1>4. Rank(S) \in Injection(S, 0..n - 1)
  BY <1>2, <1>3 DEF Injection, IsInjective
<1>5. IsFiniteSet(0..n - 1) /\ Cardinality(0..n - 1) = n
  <2>1. 0 \in Int /\ n - 1 \in Int /\ (IF 0 > n - 1 THEN 0 ELSE n - 1 - 0 + 1) = n
    BY <1>1
  <2> QED
    BY <2>1, FS_Interval
<1>6. Rank(S) \in Surjection(S, 0..n - 1)
  BY <1>4, <1>5, FS_Injection DEF n
<1> QED
  BY <1>4, <1>6 DEF n

\* A set of ids in ascending order.
LEMMA AscendingIs ==
    ASSUME NEW S \in SUBSET LogIds
    PROVE  /\ Ascending(S) \in Seq(S) /\ Ascending(S) \in Seq(Nat)
           /\ Len(Ascending(S)) = Cardinality(S)
           /\ \A i, j \in 1..Cardinality(S) : i < j => Ascending(S)[i] < Ascending(S)[j]
           /\ \A x \in S : \E i \in 1..Cardinality(S) : Ascending(S)[i] = x
<1> DEFINE n == Cardinality(S)
<1>1. n \in Nat /\ \A x \in S : x \in Nat
  BY IdsAreFinite
<1>2. ASSUME NEW i \in 1..n
      PROVE  Ascending(S)[i] \in S /\ Rank(S)[Ascending(S)[i]] = i - 1
  <2>1. i - 1 \in 0..n-1
    BY <1>1
  <2>2. \E x \in S : Rank(S)[x] = i - 1
    BY <2>1, RankIsBijective DEF Surjection
  <2>3. \E x \in S : Cardinality({y \in S : y < x}) = i - 1
    BY <2>2, RankIs DEF Below
  <2>4. Ascending(S)[i] = CHOOSE x \in S : Cardinality({y \in S : y < x}) = i - 1
    BY DEF Ascending
  <2>5. Ascending(S)[i] \in S /\ Cardinality({y \in S : y < Ascending(S)[i]}) = i - 1
    BY <2>3, <2>4
  <2> QED
    BY <2>5, RankIs DEF Below
<1>3. Ascending(S) \in [1..n -> S]
  BY <1>2 DEF Ascending
<1>4. Ascending(S) \in Seq(S) /\ Len(Ascending(S)) = n
  BY <1>1, <1>3
<1>5. Ascending(S) \in Seq(Nat)
  BY <1>1, <1>4, SeqMonotonic
<1>6. ASSUME NEW i \in 1..n, NEW j \in 1..n, i < j
      PROVE  Ascending(S)[i] < Ascending(S)[j]
  <2>1. PICK a \in S, b \in S : a = Ascending(S)[i] /\ b = Ascending(S)[j]
    BY <1>2
  <2>2. Rank(S)[a] = i - 1 /\ Rank(S)[b] = j - 1
    BY <1>2, <2>1
  <2>3. ~(b < a) /\ a # b
    BY <1>1, <1>6, <2>2, RankGrows
  <2>4. a < b
    BY <1>1, <2>3
  <2> QED
    BY <2>1, <2>4
<1>7. ASSUME NEW x \in S
      PROVE  \E i \in 1..n : Ascending(S)[i] = x
  <2>1. PICK i \in 1..n : i - 1 = Rank(S)[x]
    <3>1. Rank(S)[x] \in 0..n-1
      BY RankIs
    <3> QED
      BY <1>1, <3>1
  <2>2. Ascending(S)[i] \in S /\ Rank(S)[Ascending(S)[i]] = Rank(S)[x]
    BY <1>2, <2>1
  <2>3. Ascending(S)[i] = x
    BY <2>2, RankIsBijective DEF Injection, IsInjective
  <2> QED
    BY <2>3
<1> QED
  BY <1>1, <1>4, <1>5, <1>6, <1>7

-----------------------------------------------------------------------------
(* The last MaxLines of a sequence *)

\* What Kept leaves of a sequence: its last lines.
LEMMA KeptIs ==
    ASSUME NEW s \in Seq(Nat)
    PROVE  /\ Kept(s) \in Seq(Nat) /\ Over(s) \in Nat
           /\ Len(Kept(s)) + Over(s) = Len(s)
           /\ Len(Kept(s)) = IF Len(s) > MaxLines THEN MaxLines ELSE Len(s)
           /\ \A i \in 1..Len(Kept(s)) : Kept(s)[i] = s[i + Over(s)]
<1> DEFINE m == IF Len(s) > MaxLines THEN Len(s) - MaxLines + 1 ELSE 1
<1>1. Len(s) \in Nat /\ MaxLines \in Nat \ {0}
  BY ViewAssumption
<1>2. m \in Nat \ {0} /\ Over(s) = m - 1 /\ m <= Len(s) + 1
  BY <1>1 DEF Over
<1>3. \A i \in m..Len(s) : s[i] \in Nat
  BY <1>1, <1>2, ElementOfSeq
<1>4. /\ Kept(s) \in Seq(Nat)
      /\ Len(Kept(s)) = IF m <= Len(s) THEN Len(s) - m + 1 ELSE 0
      /\ \A i \in 1..Len(s) - m + 1 : Kept(s)[i] = s[m + i - 1]
  <2> HIDE DEF m
  <2>1. m \in Int /\ Len(s) \in Int
    BY <1>1, <1>2
  <2>2. Kept(s) = SubSeq(s, m, Len(s))
    BY DEF Kept, m
  <2> QED
    BY <1>3, <2>1, <2>2, SubSeqProperties
<1>5. Len(Kept(s)) = Len(s) - m + 1
  <2> HIDE DEF m
  <2> QED
    BY <1>1, <1>2, <1>4
<1>6. \A i \in 1..Len(Kept(s)) : Kept(s)[i] = s[i + Over(s)]
  <2> HIDE DEF m
  <2>1. \A i \in 1..Len(s) - m + 1 : m + i - 1 = i + Over(s)
    BY <1>1, <1>2
  <2> QED
    BY <1>4, <1>5, <2>1
<1>7. PICK l \in Nat, n \in Nat \ {0}, k \in Int :
         l = Len(s) /\ n = MaxLines /\ k = Len(Kept(s)) /\ k = l - m + 1
  <2> HIDE DEF m
  <2> QED
    BY <1>1, <1>2, <1>5
<1>8. k + Over(s) = l /\ k = IF l > n THEN n ELSE l
  <2>1. m = IF l > n THEN l - n + 1 ELSE 1
    BY <1>7
  <2> HIDE DEF m
  <2> QED
    BY <1>2, <1>7, <2>1
<1>9. Over(s) \in Nat
  BY <1>2
<1> HIDE DEF m
<1> QED
  BY <1>4, <1>6, <1>7, <1>8, <1>9

\* Two sequences that end alike.
LEMMA KeptAlike ==
    ASSUME NEW s \in Seq(Nat), NEW t \in Seq(Nat), NEW d \in Nat,
           Len(t) = Len(s) + d, d = 0 \/ Len(s) >= MaxLines,
           \A i \in 1..Len(s) : i > Len(s) - MaxLines => s[i] = t[i + d]
    PROVE  Kept(s) = Kept(t) /\ Over(t) = Over(s) + d
<1>1. PICK l \in Nat, m \in Nat \ {0} : l = Len(s) /\ m = MaxLines
  BY ViewAssumption
<1>2. PICK os \in Nat, ot \in Nat : os = Over(s) /\ ot = Over(t)
  BY KeptIs
<1>3. PICK ks \in Nat, kt \in Nat : ks = Len(Kept(s)) /\ kt = Len(Kept(t))
  BY KeptIs
<1>4. ks + os = l /\ ks = IF l > m THEN m ELSE l
  BY <1>1, <1>2, <1>3, KeptIs
<1>5. kt + ot = l + d /\ kt = IF l + d > m THEN m ELSE l + d
  BY <1>1, <1>2, <1>3, KeptIs
<1>6. d = 0 \/ l >= m
  BY <1>1
<1>7. ks = kt /\ ot = os + d
  BY <1>4, <1>5, <1>6
<1>8. ASSUME NEW i \in 1..ks
      PROVE  Kept(s)[i] = Kept(t)[i]
  <2>1. Kept(s)[i] = s[i + os]
    BY <1>2, <1>3, KeptIs
  <2>2. Kept(t)[i] = t[i + ot]
    BY <1>2, <1>3, <1>7, KeptIs
  <2>3. i + os \in 1..l /\ i + os > l - m /\ i + ot = (i + os) + d
    BY <1>4, <1>7
  <2>4. s[i + os] = t[(i + os) + d]
    BY <1>1, <2>3
  <2> QED
    BY <2>1, <2>2, <2>3, <2>4
<1>9. Kept(s) \in Seq(Nat) /\ Kept(t) \in Seq(Nat)
  BY KeptIs
<1> QED
  BY <1>2, <1>3, <1>7, <1>8, <1>9, SeqEqual

\* Trimming the end of a sequence first changes nothing,
LEMMA KeptTail ==
    ASSUME NEW a \in Seq(Nat), NEW b \in Seq(Nat)
    PROVE  Kept(a \o Kept(b)) = Kept(a \o b) /\ Over(a \o b) = Over(a \o Kept(b)) + Over(b)
<1>1. PICK k \in Seq(Nat) : k = Kept(b)
  BY KeptIs
<1>2. PICK la \in Nat, lb \in Nat, m \in Nat \ {0} : la = Len(a) /\ lb = Len(b) /\ m = MaxLines
  BY ViewAssumption
<1>3. PICK ob \in Nat, lk \in Nat : ob = Over(b) /\ lk = Len(k)
  BY <1>1, KeptIs
<1>4. lk + ob = lb /\ lk = IF lb > m THEN m ELSE lb
  BY <1>1, <1>2, <1>3, KeptIs
<1>5. \A i \in 1..lk : k[i] = b[i + ob]
  BY <1>1, <1>3, KeptIs
<1>6. PICK s \in Seq(Nat), t \in Seq(Nat) : s = a \o k /\ t = a \o b
  BY ConcatProperties
<1>7. Len(s) = la + lk /\ Len(t) = la + lb
  BY <1>2, <1>3, <1>6, ConcatProperties
<1>8. Len(t) = Len(s) + ob /\ (ob = 0 \/ Len(s) >= MaxLines)
  <2>1. PICK ls \in Nat, lt \in Nat : ls = Len(s) /\ lt = Len(t)
    OBVIOUS
  <2>2. ls = la + lk /\ lt = la + lb
    BY <1>7, <2>1
  <2>3. lt = ls + ob /\ (ob = 0 \/ ls >= m)
    BY <1>4, <2>2
  <2> QED
    BY <1>2, <2>1, <2>3
<1>9. ASSUME NEW i \in 1..Len(s), i > Len(s) - MaxLines
      PROVE  s[i] = t[i + ob]
  <2>1. i \in 1..la + lk /\ i + ob \in 1..la + lb
    BY <1>4, <1>7
  <2>2. CASE i <= la
    <3>1. ob = 0
      <4>1. i > (la + lk) - m /\ i \in Int
        BY <1>2, <1>7, <1>9
      <4> QED
        BY <1>4, <2>2, <4>1
    <3>2. i \in 1..la /\ i + ob = i
      BY <2>2, <3>1
    <3>3. s[i] = a[i] /\ t[i] = a[i]
      BY <1>2, <1>3, <1>6, <2>1, <3>1, <3>2, ConcatProperties
    <3> QED
      BY <3>2, <3>3
  <2>3. CASE ~(i <= la)
    <3>1. i - la \in 1..lk /\ ~(i + ob <= la) /\ (i + ob) - la = (i - la) + ob
      BY <2>1, <2>3
    <3>2. s[i] = k[i - la]
      BY <1>2, <1>3, <1>6, <2>1, <2>3, ConcatProperties
    <3>3. t[i + ob] = b[(i + ob) - la]
      BY <1>2, <1>3, <1>6, <2>1, <3>1, ConcatProperties
    <3> QED
      BY <1>5, <3>1, <3>2, <3>3
  <2> QED
    BY <2>2, <2>3
<1>10. Kept(s) = Kept(t) /\ Over(t) = Over(s) + ob
  BY <1>8, <1>9, KeptAlike
<1> QED
  BY <1>1, <1>3, <1>6, <1>10

\* nor does trimming its front.
LEMMA KeptFront ==
    ASSUME NEW a \in Seq(Nat), NEW b \in Seq(Nat)
    PROVE  Kept(Kept(a) \o b) = Kept(a \o b) /\ Over(a \o b) = Over(Kept(a) \o b) + Over(a)
<1>1. PICK k \in Seq(Nat) : k = Kept(a)
  BY KeptIs
<1>2. PICK la \in Nat, lb \in Nat, m \in Nat \ {0} : la = Len(a) /\ lb = Len(b) /\ m = MaxLines
  BY ViewAssumption
<1>3. PICK oa \in Nat, lk \in Nat : oa = Over(a) /\ lk = Len(k)
  BY <1>1, KeptIs
<1>4. lk + oa = la /\ lk = IF la > m THEN m ELSE la
  BY <1>1, <1>2, <1>3, KeptIs
<1>5. \A i \in 1..lk : k[i] = a[i + oa]
  BY <1>1, <1>3, KeptIs
<1>6. PICK s \in Seq(Nat), t \in Seq(Nat) : s = k \o b /\ t = a \o b
  BY ConcatProperties
<1>7. Len(s) = lk + lb /\ Len(t) = la + lb
  BY <1>2, <1>3, <1>6, ConcatProperties
<1>8. Len(t) = Len(s) + oa /\ (oa = 0 \/ Len(s) >= MaxLines)
  <2>1. PICK ls \in Nat, lt \in Nat : ls = Len(s) /\ lt = Len(t)
    OBVIOUS
  <2>2. ls = lk + lb /\ lt = la + lb
    BY <1>7, <2>1
  <2>3. lt = ls + oa /\ (oa = 0 \/ ls >= m)
    BY <1>4, <2>2
  <2> QED
    BY <1>2, <2>1, <2>3
<1>9. ASSUME NEW i \in 1..Len(s), i > Len(s) - MaxLines
      PROVE  s[i] = t[i + oa]
  <2>1. i \in 1..lk + lb /\ i + oa \in 1..la + lb
    BY <1>4, <1>7
  <2>2. CASE i <= lk
    <3>1. i \in 1..lk /\ i + oa <= la
      BY <1>4, <2>1, <2>2
    <3>2. s[i] = k[i]
      BY <1>2, <1>3, <1>6, <2>1, <3>1, ConcatProperties
    <3>3. t[i + oa] = a[i + oa]
      BY <1>2, <1>6, <2>1, <3>1, ConcatProperties
    <3> QED
      BY <1>5, <3>1, <3>2, <3>3
  <2>3. CASE ~(i <= lk)
    <3>1. ~(i + oa <= la) /\ (i + oa) - la = i - lk
      BY <1>4, <2>1, <2>3
    <3>2. s[i] = b[i - lk]
      BY <1>2, <1>3, <1>6, <2>1, <2>3, ConcatProperties
    <3>3. t[i + oa] = b[(i + oa) - la]
      BY <1>2, <1>6, <2>1, <3>1, ConcatProperties
    <3> QED
      BY <3>1, <3>2, <3>3
  <2> QED
    BY <2>2, <2>3
<1>10. Kept(s) = Kept(t) /\ Over(t) = Over(s) + oa
  BY <1>8, <1>9, KeptAlike
<1> QED
  BY <1>1, <1>3, <1>6, <1>10

-----------------------------------------------------------------------------
(* Pages without a gap.  T stands for the lines committed in time, L for the *)
(* log.  A page starts above a line, or where its own first line is.         *)

Above(l, from, S) == IF from = None THEN \E f \in S : f <= l ELSE l > from

Gapless(T, S, from) == \A l \in T : Above(l, from, S) /\ (\E x \in S : l <= x) => l \in S

\* it goes to the end of the log
Complete(T, S, from) == \A l \in T : Above(l, from, S) => l \in S

After(L, S, from) == S \subseteq L /\ (from # None => \A x \in S : x > from)

Froms == {None} \cup LogIds

\* The first lines of a page are gapless,
LEMMA GaplessPrefix ==
    ASSUME NEW T \in SUBSET LogIds, NEW S \in SUBSET LogIds, NEW from \in Froms,
           Gapless(T, S, from),
           NEW P \in SUBSET S, \A x \in P : \A y \in S : y <= x => y \in P
    PROVE  Gapless(T, P, from)
<1> SUFFICES ASSUME NEW l \in T, Above(l, from, P), NEW x \in P, l <= x
             PROVE  l \in P
  BY DEF Gapless
<1>1. Above(l, from, S)
  BY DEF Above
<1>2. l \in S
  BY <1>1 DEF Gapless
<1> QED
  BY <1>2

\* and so are the last ones.
LEMMA GaplessSuffix ==
    ASSUME NEW T \in SUBSET LogIds, NEW S \in SUBSET LogIds, Gapless(T, S, None),
           NEW P \in SUBSET S, \A x \in P : \A y \in S : x <= y => y \in P
    PROVE  Gapless(T, P, None)
<1> SUFFICES ASSUME NEW l \in T, Above(l, None, P), NEW x \in P, l <= x
             PROVE  l \in P
  BY DEF Gapless
<1>1. PICK f \in P : f <= l
  BY DEF Above
<1>2. Above(l, None, S)
  BY <1>1 DEF Above
<1>3. l \in S
  BY <1>2 DEF Gapless
<1> QED
  BY <1>1, <1>3

\* New lines come after those there are.
LEMMA GaplessStays ==
    ASSUME NEW T \in SUBSET LogIds, NEW S \in SUBSET LogIds, NEW from,
           Gapless(T, S, from),
           NEW U \in SUBSET LogIds, \A l \in U \ T : \A x \in S : x < l
    PROVE  Gapless(U, S, from)
<1> SUFFICES ASSUME NEW l \in U, Above(l, from, S), NEW x \in S, l <= x
             PROVE  l \in S
  BY DEF Gapless
<1>1. l \in Nat /\ x \in Nat
  BY IdsAreFinite
<1>2. l \in T
  BY <1>1
<1> QED
  BY <1>2 DEF Gapless

\* Two pages make one.
LEMMA GaplessUnion ==
    ASSUME NEW T \in SUBSET LogIds, NEW A \in SUBSET LogIds, NEW B \in SUBSET LogIds,
           NEW from \in Froms, NEW g \in A, \A a \in A : a <= g,
           \A b \in B : b > g,
           Gapless(T, A, from), Gapless(T, B, g)
    PROVE  Gapless(T, A \cup B, from)
<1> SUFFICES ASSUME NEW l \in T, Above(l, from, A \cup B), NEW x \in A \cup B, l <= x
             PROVE  l \in A \cup B
  BY DEF Gapless
<1>1. l \in Nat /\ x \in Nat /\ g \in Nat /\ g # None
  BY IdsAreFinite, StreamAssumption
<1>2. CASE l <= g
  <2>1. Above(l, from, A)
    <3>1. CASE from = None
      <4>1. PICK f \in A \cup B : f <= l
        BY <3>1 DEF Above
      <4>2. f \in Nat
        BY IdsAreFinite
      <4>3. f \in A
        BY <1>1, <1>2, <4>1, <4>2
      <4> QED
        BY <3>1, <4>1, <4>3 DEF Above
    <3>2. CASE from # None
      BY <3>2 DEF Above
    <3> QED
      BY <3>1, <3>2
  <2> QED
    BY <1>2, <2>1 DEF Gapless
<1>3. CASE l > g
  <2>1. x \in B
    BY <1>1, <1>3
  <2>2. Above(l, g, B)
    BY <1>1, <1>3 DEF Above
  <2> QED
    BY <2>1, <2>2 DEF Gapless
<1> QED
  BY <1>1, <1>2, <1>3

\* the second one goes to the end of the log, so do both.
LEMMA CompleteUnion ==
    ASSUME NEW T \in SUBSET LogIds, NEW A \in SUBSET LogIds, NEW B \in SUBSET LogIds,
           NEW from \in Froms, NEW g \in A, \A a \in A : a <= g,
           \A b \in B : b > g,
           Gapless(T, A, from), Complete(T, B, g)
    PROVE  Complete(T, A \cup B, from)
<1> SUFFICES ASSUME NEW l \in T, Above(l, from, A \cup B)
             PROVE  l \in A \cup B
  BY DEF Complete
<1>1. l \in Nat /\ g \in Nat /\ g # None
  BY IdsAreFinite, StreamAssumption
<1>2. CASE l <= g
  <2>1. Above(l, from, A)
    <3>1. CASE from = None
      <4>1. PICK f \in A \cup B : f <= l
        BY <3>1 DEF Above
      <4>2. f \in Nat
        BY IdsAreFinite
      <4>3. f \in A
        BY <1>1, <1>2, <4>1, <4>2
      <4> QED
        BY <3>1, <4>1, <4>3 DEF Above
    <3>2. CASE from # None
      BY <3>2 DEF Above
    <3> QED
      BY <3>1, <3>2
  <2> QED
    BY <1>2, <2>1 DEF Gapless
<1>3. CASE l > g
  <2>1. Above(l, g, B)
    BY <1>1, <1>3 DEF Above
  <2> QED
    BY <2>1 DEF Complete
<1> QED
  BY <1>1, <1>2, <1>3

\* Ids start at 1, so what lies after 0 also starts at its own first line.
LEMMA GaplessFromStart ==
    ASSUME NEW T \in SUBSET (LogIds \ {0}), NEW S
    PROVE  /\ Gapless(T, S, 0) => Gapless(T, S, None)
           /\ Complete(T, S, 0) => Complete(T, S, None)
<1>1. \A l \in T : l > 0
  BY DEF LogIds
<1>2. 0 # None
  BY StreamAssumption
<1>3. \A l \in T : Above(l, 0, S)
  BY <1>1, <1>2 DEF Above
<1> QED
  BY <1>3 DEF Gapless, Complete

\* What a query of the log returns.
Page(L, from, n) == FirstOf(IF from = None THEN L ELSE {l \in L : l > from}, n)

\* The lines after a cursor: gapless, and all of them if there are few.
LEMMA PageIs ==
    ASSUME NEW L \in SUBSET LogIds, NEW T \in SUBSET L, NEW from \in Froms, NEW n \in Int
    PROVE  /\ Page(L, from, n) \in SUBSET L
           /\ After(L, Page(L, from, n), from)
           /\ Gapless(T, Page(L, from, n), from)
           /\ Cardinality(Page(L, from, n)) < n =>
                \A l \in L : from = None \/ l > from => l \in Page(L, from, n)
<1>1. PICK S \in SUBSET L : S = IF from = None THEN L ELSE {l \in L : l > from}
  BY Zenon
<1>2. \A l \in L : l \in S <=> (from = None \/ l > from)
  BY <1>1
<1>3. PICK P : P = FirstOf(S, n)
  OBVIOUS
<1>4. P \in SUBSET S
  BY <1>3 DEF FirstOf
<1>5. Page(L, from, n) = P
  BY <1>1, <1>3 DEF Page
<1>6. After(L, P, from)
  BY <1>2, <1>4 DEF After
<1>7. ASSUME NEW x \in P, NEW y \in S, y <= x
      PROVE  y \in P
  BY <1>3, <1>7, FirstHasNoGap
<1>8. Gapless(T, P, from)
  <2> SUFFICES ASSUME NEW l \in T, Above(l, from, P), NEW x \in P, l <= x
               PROVE  l \in P
    BY DEF Gapless
  <2>1. l \in S
    BY <1>2 DEF Above
  <2> QED
    BY <1>7, <2>1
<1>9. Cardinality(P) < n => P = S
  BY <1>3, ShortFirstIsAll
<1> QED
  BY <1>2, <1>4, <1>5, <1>6, <1>8, <1>9

\* The last lines of the log: likewise.
LEMMA LastPageIs ==
    ASSUME NEW L \in SUBSET LogIds, NEW T \in SUBSET L, NEW n \in Int
    PROVE  /\ LastOf(L, n) \in SUBSET L
           /\ After(L, LastOf(L, n), None)
           /\ Gapless(T, LastOf(L, n), None)
           /\ Cardinality(LastOf(L, n)) < n => LastOf(L, n) = L
<1>1. PICK P : P = LastOf(L, n)
  OBVIOUS
<1>2. P \in SUBSET L
  BY <1>1 DEF LastOf
<1>3. ASSUME NEW x \in P, NEW y \in L, x <= y
      PROVE  y \in P
  BY <1>1, <1>3, LastHasNoGap
<1>4. Gapless(T, P, None)
  <2> SUFFICES ASSUME NEW l \in T, Above(l, None, P)
               PROVE  l \in P
    BY DEF Gapless
  <2>1. PICK f \in P : f <= l
    BY DEF Above
  <2> QED
    BY <1>3, <2>1
<1> QED
  BY <1>1, <1>2, <1>4, ShortLastIsAll DEF After

-----------------------------------------------------------------------------
(* The console: c is what it will show, last the last line received *)

Elems(c) == {c[i] : i \in 1..Len(c)}

ConsoleOK(L, T, c, last) ==
    /\ last \in {None} \cup L
    /\ c \in Seq(Nat)
    /\ last = None => c = <<>>
    /\ last # None => c # <<>> /\ c[Len(c)] = last
    /\ \A i, j \in 1..Len(c) : i < j => c[i] < c[j]
    /\ \A i \in 1..Len(c) : c[i] \in L
    /\ Gapless(T, Elems(c), None)

\* The console ends with the last line received.
LEMMA ConsoleIsUpToLast ==
    ASSUME NEW L \in SUBSET LogIds, NEW T \in SUBSET L, NEW c, NEW last,
           ConsoleOK(L, T, c, last), last # None
    PROVE  last \in Elems(c) /\ \A x \in Elems(c) : x <= last
<1>1. PICK n \in Nat : n = Len(c)
  BY DEF ConsoleOK
<1>2. c \in Seq(Nat) /\ c # <<>> /\ c[n] = last
  BY <1>1 DEF ConsoleOK
<1>3. n \in 1..n
  BY <1>1, <1>2, EmptySeq
<1>4. last \in Elems(c)
  BY <1>1, <1>2, <1>3 DEF Elems
<1>5. ASSUME NEW i \in 1..n PROVE c[i] <= last
  <2>1. CASE i < n
    <3>1. c[i] < c[n]
      BY <1>1, <1>3, <2>1 DEF ConsoleOK
    <3>2. c[i] \in Nat /\ c[n] \in Nat
      BY <1>1, <1>2, <1>3, ElementOfSeq
    <3> QED
      BY <1>2, <3>1, <3>2
  <2>2. CASE i = n
    <3>2. c[n] \in Nat
      BY <1>1, <1>2, <1>3, ElementOfSeq
    <3> QED
      BY <1>2, <2>2, <3>2
  <2> QED
    BY <2>1, <2>2
<1> QED
  BY <1>1, <1>4, <1>5 DEF Elems

\* A page of new lines, and the first lines of the console gone.
LEMMA ConsoleGrows ==
    ASSUME NEW L \in SUBSET LogIds, NEW T \in SUBSET L, NEW c, NEW last,
           ConsoleOK(L, T, c, last),
           NEW F \in SUBSET L, F # {}, After(L, F, last), Gapless(T, F, last)
    PROVE  ConsoleOK(L, T, Kept(c \o Ascending(F)), Greatest(F))
<1>1. PICK f : f = Ascending(F)
  OBVIOUS
<1>2. PICK n \in Nat : n = Cardinality(F)
  BY IdsAreFinite
<1>3. /\ f \in Seq(Nat) /\ f \in Seq(F) /\ Len(f) = n
      /\ \A i, j \in 1..n : i < j => f[i] < f[j]
      /\ \A x \in F : \E i \in 1..n : f[i] = x
  BY <1>1, <1>2, AscendingIs
<1>4. PICK g \in F : g = Greatest(F) /\ \A x \in F : x <= g
  BY GreatestIs
<1>5. PICK m \in Nat : m = Len(c)
  BY DEF ConsoleOK
<1>6. c \in Seq(Nat)
  BY DEF ConsoleOK
<1>7. PICK a \in Seq(Nat) : a = c \o f
  BY <1>3, <1>6, ConcatProperties
<1>8. /\ Len(a) = m + n
      /\ \A i \in 1..m + n : a[i] = IF i <= m THEN c[i] ELSE f[i - m]
  <2>1. Len(f) = n
    BY <1>3
  <2>2. /\ Len(a) = Len(c) + Len(f)
        /\ \A i \in 1..Len(c) + Len(f) : a[i] = IF i <= Len(c) THEN c[i] ELSE f[i - Len(c)]
    <3>1. PICK u \in Seq(Nat), v \in Seq(Nat) : u = c /\ v = f
      BY <1>3, <1>6
    <3>2. /\ Len(u \o v) = Len(u) + Len(v)
          /\ \A i \in 1..Len(u) + Len(v) : (u \o v)[i] = IF i <= Len(u) THEN u[i] ELSE v[i - Len(u)]
      BY ConcatProperties
    <3> QED
      BY <1>7, <3>1, <3>2
  <2> QED
    BY <1>5, <2>1, <2>2
<1>9. \A i \in 1..n : f[i] \in F
  BY <1>3, ElementOfSeq
<1>10. \A x \in L : x \in Nat
  BY IdsAreFinite
<1>11. ASSUME NEW i \in 1..m, NEW x \in F
       PROVE  c[i] < x /\ c[i] \in L
  <2>1. c[i] \in L
    BY <1>5 DEF ConsoleOK
  <2>2. last # None
    <3>1. last = None => c = <<>>
      BY DEF ConsoleOK
    <3>2. ~(c = <<>>)
      BY <1>5, <1>6, EmptySeq
    <3> QED
      BY <3>1, <3>2
  <2>3. c[i] <= last /\ last \in L
    <3>1. c[i] \in Elems(c)
      BY <1>5 DEF Elems
    <3> QED
      BY <2>2, <3>1, ConsoleIsUpToLast DEF ConsoleOK
  <2>4. last < x
    BY <2>2 DEF After
  <2>5. c[i] \in Nat /\ last \in Nat /\ x \in Nat
    BY <1>10, <2>1, <2>3
  <2> QED
    BY <2>1, <2>3, <2>4, <2>5
<1>12. ASSUME NEW i \in 1..m + n
       PROVE  a[i] \in L /\ (i <= m => a[i] \in Elems(c)) /\ (i > m => a[i] \in F)
  <2>1. CASE i <= m
    <3>1. i \in 1..m /\ a[i] = c[i]
      BY <1>8, <2>1
    <3>2. c[i] \in L /\ c[i] \in Elems(c)
      BY <1>5, <3>1 DEF ConsoleOK, Elems
    <3> QED
      BY <2>1, <3>1, <3>2
  <2>2. CASE ~(i <= m)
    <3>1. i - m \in 1..n /\ a[i] = f[i - m]
      BY <1>8, <2>2
    <3>2. f[i - m] \in F
      BY <1>9, <3>1
    <3> QED
      BY <2>2, <3>1, <3>2
  <2> QED
    BY <2>1, <2>2
<1>13. ASSUME NEW i \in 1..m + n, NEW j \in 1..m + n, i < j
       PROVE  a[i] < a[j]
  <2>1. CASE j <= m
    <3>1. i \in 1..m /\ j \in 1..m /\ a[i] = c[i] /\ a[j] = c[j]
      BY <1>8, <1>13, <2>1
    <3>2. c[i] < c[j]
      BY <1>5, <1>13, <3>1 DEF ConsoleOK
    <3> QED
      BY <3>1, <3>2
  <2>2. CASE i <= m /\ ~(j <= m)
    <3>1. i \in 1..m /\ a[i] = c[i] /\ a[j] \in F
      BY <1>8, <1>12, <2>2
    <3> QED
      BY <1>11, <3>1
  <2>3. CASE ~(i <= m)
    <3>1. i - m \in 1..n /\ j - m \in 1..n /\ i - m < j - m /\ a[i] = f[i - m] /\ a[j] = f[j - m]
      BY <1>8, <1>13, <2>3
    <3> QED
      BY <1>3, <3>1
  <2> QED
    BY <1>13, <2>1, <2>2, <2>3
<1>14. Gapless(T, Elems(c) \cup F, None)
  <2>1. CASE last = None
    <3>1. Elems(c) = {}
      <4>1. c = <<>>
        BY <2>1 DEF ConsoleOK
      <4> QED
        BY <4>1, EmptySeq DEF Elems
    <3>2. Elems(c) \cup F = F
      BY <3>1
    <3> QED
      BY <2>1, <3>2
  <2>2. CASE last # None
    <3>1. PICK e \in SUBSET LogIds : e = Elems(c)
      BY DEF ConsoleOK, Elems
    <3>2. last \in e /\ \A x \in e : x <= last
      BY <2>2, <3>1, ConsoleIsUpToLast
    <3>3. \A x \in F : x > last
      BY <2>2 DEF After
    <3>4. Gapless(T, e, None)
      BY <3>1 DEF ConsoleOK
    <3>5. None \in Froms /\ F \in SUBSET LogIds /\ T \in SUBSET LogIds
      BY DEF Froms
    <3> QED
      BY <3>1, <3>2, <3>3, <3>4, <3>5, GaplessUnion
  <2> QED
    BY <2>1, <2>2
<1>15. ASSUME NEW x \in Elems(c) \cup F
       PROVE  \E i \in 1..m + n : a[i] = x
  <2>1. CASE x \in F
    <3>1. PICK i \in 1..n : f[i] = x
      BY <1>3, <2>1
    <3>2. i + m \in 1..m + n /\ ~(i + m <= m) /\ (i + m) - m = i
      OBVIOUS
    <3> QED
      BY <1>8, <3>1, <3>2
  <2>2. CASE x \in Elems(c)
    <3>1. PICK i \in 1..m : c[i] = x
      BY <1>5, <2>2 DEF Elems
    <3>2. i \in 1..m + n /\ i <= m
      OBVIOUS
    <3> QED
      BY <1>8, <3>1, <3>2
  <2> QED
    BY <2>1, <2>2
<1>16. PICK k \in Seq(Nat), o \in Nat, lk \in Nat : k = Kept(a) /\ o = Over(a) /\ lk = Len(k)
  BY KeptIs
<1>17. lk + o = m + n /\ \A i \in 1..lk : k[i] = a[i + o]
  BY <1>8, <1>16, KeptIs
<1>18. n \in Nat \ {0} /\ lk \in Nat \ {0}
  <2>1. n # 0
    BY <1>2, IdsAreFinite, FS_EmptySet
  <2>2. lk = (IF Len(a) > MaxLines THEN MaxLines ELSE Len(a))
    BY <1>16, KeptIs
  <2>3. Len(a) # 0 /\ MaxLines # 0
    BY <1>8, <2>1, ViewAssumption
  <2> QED
    BY <2>1, <2>2, <2>3
<1>19. \A i \in 1..lk : i + o \in 1..m + n
  BY <1>17
<1>20. \A i \in 1..lk : k[i] \in L
  BY <1>12, <1>17, <1>19
<1>21. ASSUME NEW i \in 1..lk, NEW j \in 1..lk, i < j PROVE k[i] < k[j]
  <2>1. i + o < j + o /\ i + o \in 1..m + n /\ j + o \in 1..m + n
    BY <1>19, <1>21
  <2> QED
    BY <1>13, <1>17, <2>1
<1>22. k[lk] = g
  <2>1. PICK i \in 1..n : f[i] = g
    BY <1>3
  <2>2. i = n
    <3>1. n \in 1..n /\ f[n] \in F /\ f[n] \in Nat /\ g \in Nat
      BY <1>9, <1>10, <1>18
    <3>2. f[n] <= g
      BY <1>4, <3>1
    <3>3. ~(i < n)
      BY <1>3, <2>1, <3>1, <3>2
    <3> QED
      BY <3>3
  <2>3. lk \in 1..lk /\ lk + o \in 1..m + n /\ ~(lk + o <= m) /\ (lk + o) - m = n
    BY <1>17, <1>18
  <2> QED
    BY <1>8, <1>17, <2>1, <2>2, <2>3
<1>23. Gapless(T, Elems(k), None)
  <2>1. PICK S \in SUBSET LogIds : S = Elems(c) \cup F
    BY DEF ConsoleOK, Elems
  <2>2. PICK P : P = Elems(k)
    OBVIOUS
  <2>3. \A x \in P : \E i \in 1..lk : x = k[i]
    BY <1>16, <2>2 DEF Elems
  <2>4. P \in SUBSET S
    <3>1. ASSUME NEW i \in 1..lk PROVE k[i] \in S
      <4>1. PICK j \in 1..m + n : j = i + o
        BY <1>19
      <4>2. k[i] = a[j]
        BY <1>17, <4>1
      <4>3. j <= m \/ j > m
        OBVIOUS
      <4>4. a[j] \in Elems(c) \/ a[j] \in F
        BY <1>12, <4>3
      <4> QED
        BY <2>1, <4>2, <4>4
    <3> QED
      BY <2>3, <3>1
  <2>5. ASSUME NEW x \in P, NEW y \in S, x <= y PROVE y \in P
    <3>1. PICK i \in 1..lk : x = k[i]
      BY <2>3
    <3>2. PICK j \in 1..m + n : a[j] = y
      BY <1>15, <2>1
    <3>3. i + o \in 1..m + n /\ a[i + o] = x
      BY <1>17, <1>19, <3>1
    <3>4. x \in Nat /\ y \in Nat
      BY <2>1, <2>4, IdsAreFinite
    <3>5. ~(j < i + o)
      BY <1>13, <2>5, <3>2, <3>3, <3>4
    <3>6. j - o \in 1..lk /\ (j - o) + o = j
      BY <1>17, <3>5
    <3>7. k[j - o] = y
      BY <1>17, <3>2, <3>6
    <3> QED
      BY <1>16, <2>2, <3>6, <3>7 DEF Elems
  <2>6. Gapless(T, S, None) /\ T \in SUBSET LogIds
    BY <1>14, <2>1
  <2> QED
    BY <2>2, <2>4, <2>5, <2>6, GaplessSuffix
<1>24. k # <<>>
  BY <1>16, <1>18, EmptySeq
<1>25. g # None /\ g \in L
  BY <1>10, StreamAssumption
<1> QED
  BY <1>1, <1>4, <1>7, <1>16, <1>20, <1>21, <1>22, <1>23, <1>24, <1>25 DEF ConsoleOK

\* The log grows.
LEMMA ConsoleStays ==
    ASSUME NEW L \in SUBSET LogIds, NEW T \in SUBSET L, NEW c, NEW last,
           ConsoleOK(L, T, c, last),
           NEW M \in SUBSET LogIds, NEW U \in SUBSET M, L \subseteq M,
           \A l \in U \ T : \A x \in L : x < l
    PROVE  ConsoleOK(M, U, c, last)
<1>1. PICK e \in SUBSET L : e = Elems(c)
  BY DEF ConsoleOK, Elems
<1>2. Gapless(T, e, None)
  BY <1>1 DEF ConsoleOK
<1>3. \A l \in U \ T : \A x \in e : x < l
  OBVIOUS
<1>4. T \in SUBSET LogIds /\ U \in SUBSET LogIds /\ e \in SUBSET LogIds
  OBVIOUS
<1>5. Gapless(U, e, None)
  BY <1>2, <1>3, <1>4, GaplessStays
<1> QED
  BY <1>1, <1>5 DEF ConsoleOK

-----------------------------------------------------------------------------
(* The wire *)

Chunks ==
    {<<"retry">>, <<"ping">>, <<"done">>, <<"end">>}
      \cup {<<"snapshot", job>> : job \in Rows} \cup {<<"log", l>> : l \in LogIds}

Says(w, c) == \E i \in 1..Len(w) : w[i] = c

Ids(w) == {l \in LogIds : Says(w, <<"log", l>>)}

Ascends(w) ==
    \A i, j \in 1..Len(w) : \A a, b \in LogIds :
        i < j /\ w[i] = <<"log", a>> /\ w[j] = <<"log", b>> => a < b

\* no snapshot; x is the last snapshot
Silent(w) == \A r \in Rows : ~Says(w, <<"snapshot", r>>)

Closes(w, x) ==
    \E i \in 1..Len(w) :
        /\ w[i] = <<"snapshot", x>>
        /\ \A j \in 1..Len(w) : j > i => \A r \in Rows : w[j] # <<"snapshot", r>>

\* the row the page has, or is about to receive
Latest(w, q, v, x) ==
    Closes(w, x) \/ (Silent(w) /\ (q = x \/ (q = None /\ v = x)))

\* A concatenation by its indices,
LEMMA ConcatIs ==
    ASSUME NEW C, NEW u \in Seq(C), NEW v \in Seq(C)
    PROVE  /\ u \o v \in Seq(C) /\ Len(u) \in Nat /\ Len(v) \in Nat
           /\ Len(u \o v) = Len(u) + Len(v)
           /\ \A i \in 1..Len(u) : i \in 1..Len(u \o v) /\ (u \o v)[i] = u[i]
           /\ \A i \in 1..Len(v) : Len(u) + i \in 1..Len(u \o v) /\ (u \o v)[Len(u) + i] = v[i]
           /\ \A i \in 1..Len(u \o v) : i \in 1..Len(u) \/ \E j \in 1..Len(v) : i = Len(u) + j
<1>1. PICK m \in Nat, n \in Nat : m = Len(u) /\ n = Len(v)
  OBVIOUS
<1>2. PICK w \in Seq(C) : w = u \o v
  BY ConcatProperties
<1>3. /\ Len(u \o v) = Len(u) + Len(v)
      /\ \A i \in 1..Len(u) + Len(v) : (u \o v)[i] = IF i <= Len(u) THEN u[i] ELSE v[i - Len(u)]
  BY ConcatProperties
<1>4. Len(w) = m + n /\ \A i \in 1..m + n : w[i] = IF i <= m THEN u[i] ELSE v[i - m]
  BY <1>1, <1>2, <1>3
<1>5. ASSUME NEW i \in 1..m PROVE i \in 1..m + n /\ w[i] = u[i]
  <2>1. i \in 1..m + n /\ i <= m
    OBVIOUS
  <2> QED
    BY <1>4, <2>1
<1>6. ASSUME NEW i \in 1..n PROVE m + i \in 1..m + n /\ w[m + i] = v[i]
  <2>1. m + i \in 1..m + n /\ ~(m + i <= m) /\ (m + i) - m = i
    OBVIOUS
  <2> QED
    BY <1>4, <2>1
<1>7. ASSUME NEW i \in 1..m + n PROVE i \in 1..m \/ \E j \in 1..n : i = m + j
  <2>1. CASE ~(i <= m)
    <3>1. i - m \in 1..n /\ i = m + (i - m)
      BY <2>1
    <3> QED
      BY <3>1
  <2> QED
    BY <2>1
<1> QED
  BY <1>1, <1>2, <1>4, <1>5, <1>6, <1>7

\* by its chunks,
LEMMA SaysConcat ==
    ASSUME NEW C, NEW u \in Seq(C), NEW v \in Seq(C)
    PROVE  \A c : Says(u \o v, c) <=> Says(u, c) \/ Says(v, c)
<1> SUFFICES ASSUME NEW c PROVE Says(u \o v, c) <=> Says(u, c) \/ Says(v, c)
  OBVIOUS
<1>1. PICK w : w = u \o v
  OBVIOUS
<1>2. /\ \A i \in 1..Len(u) : i \in 1..Len(w) /\ w[i] = u[i]
      /\ \A i \in 1..Len(v) : Len(u) + i \in 1..Len(w) /\ w[Len(u) + i] = v[i]
      /\ \A i \in 1..Len(w) : i \in 1..Len(u) \/ \E j \in 1..Len(v) : i = Len(u) + j
  BY <1>1, ConcatIs
<1>3. Says(u, c) => Says(w, c)
  BY <1>2 DEF Says
<1>4. Says(v, c) => Says(w, c)
  BY <1>2 DEF Says
<1>5. Says(w, c) => Says(u, c) \/ Says(v, c)
  <2> SUFFICES ASSUME NEW i \in 1..Len(w), w[i] = c PROVE Says(u, c) \/ Says(v, c)
    BY DEF Says
  <2>1. CASE i \in 1..Len(u)
    BY <1>2, <2>1 DEF Says
  <2>2. ASSUME NEW j \in 1..Len(v), i = Len(u) + j PROVE Says(v, c)
    <3>1. v[j] = c
      BY <1>2, <2>2
    <3> QED
      BY <3>1 DEF Says
  <2> QED
    BY <1>2, <2>1, <2>2
<1> QED
  BY <1>1, <1>3, <1>4, <1>5

\* by its lines,
LEMMA IdsConcat ==
    ASSUME NEW C, NEW u \in Seq(C), NEW v \in Seq(C)
    PROVE  Ids(u \o v) = Ids(u) \cup Ids(v)
<1>1. \A c : Says(u \o v, c) <=> Says(u, c) \/ Says(v, c)
  BY SaysConcat
<1> QED
  BY <1>1 DEF Ids

\* by their order,
LEMMA AscendsConcat ==
    ASSUME NEW C, NEW u \in Seq(C), NEW v \in Seq(C)
    PROVE  Ascends(u \o v) <=> /\ Ascends(u) /\ Ascends(v)
                               /\ \A a \in Ids(u) : \A b \in Ids(v) : a < b
<1>1. PICK w : w = u \o v
  OBVIOUS
<1>2. PICK m \in Nat, n \in Nat : m = Len(u) /\ n = Len(v)
  OBVIOUS
<1>3. /\ \A i \in 1..m : i \in 1..Len(w) /\ w[i] = u[i]
      /\ \A i \in 1..n : m + i \in 1..Len(w) /\ w[m + i] = v[i]
      /\ \A i \in 1..Len(w) : i \in 1..m \/ \E j \in 1..n : i = m + j
  BY <1>1, <1>2, ConcatIs
<1>4. ASSUME Ascends(w) PROVE Ascends(u)
  BY <1>2, <1>3, <1>4 DEF Ascends
<1>5. ASSUME Ascends(w) PROVE Ascends(v)
  <2> SUFFICES ASSUME NEW i \in 1..n, NEW j \in 1..n, NEW a \in LogIds, NEW b \in LogIds,
                      i < j, v[i] = <<"log", a>>, v[j] = <<"log", b>>
               PROVE  a < b
    BY <1>2 DEF Ascends
  <2>1. w[m + i] = <<"log", a>> /\ w[m + j] = <<"log", b>> /\ m + i \in 1..Len(w) /\ m + j \in 1..Len(w)
    BY <1>3
  <2>2. m + i < m + j
    OBVIOUS
  <2> QED
    BY <1>5, <2>1, <2>2 DEF Ascends
<1>6. ASSUME Ascends(w), NEW a \in Ids(u), NEW b \in Ids(v) PROVE a < b
  <2>1. PICK i \in 1..m : u[i] = <<"log", a>>
    BY <1>2 DEF Ids, Says
  <2>2. PICK j \in 1..n : v[j] = <<"log", b>>
    BY <1>2 DEF Ids, Says
  <2>3. w[i] = <<"log", a>> /\ w[m + j] = <<"log", b>> /\ i \in 1..Len(w) /\ m + j \in 1..Len(w)
    BY <1>3, <2>1, <2>2
  <2>4. i < m + j
    OBVIOUS
  <2>5. a \in LogIds /\ b \in LogIds
    BY DEF Ids
  <2> QED
    BY <1>6, <2>3, <2>4, <2>5 DEF Ascends
<1>7. ASSUME Ascends(u), Ascends(v), \A a \in Ids(u) : \A b \in Ids(v) : a < b
      PROVE  Ascends(w)
  <2> SUFFICES ASSUME NEW i \in 1..Len(w), NEW j \in 1..Len(w), NEW a \in LogIds, NEW b \in LogIds,
                      i < j, w[i] = <<"log", a>>, w[j] = <<"log", b>>
               PROVE  a < b
    BY DEF Ascends
  <2>1. CASE i \in 1..m /\ j \in 1..m
    <3>1. u[i] = <<"log", a>> /\ u[j] = <<"log", b>>
      BY <1>3, <2>1
    <3> QED
      BY <1>2, <1>7, <2>1, <3>1 DEF Ascends
  <2>2. ASSUME i \in 1..m, NEW k \in 1..n, j = m + k PROVE a < b
    <3>1. u[i] = <<"log", a>> /\ v[k] = <<"log", b>>
      BY <1>3, <2>2
    <3>2. a \in Ids(u) /\ b \in Ids(v)
      BY <1>2, <2>2, <3>1 DEF Ids, Says
    <3> QED
      BY <1>7, <3>2
  <2>3. ASSUME NEW h \in 1..n, i = m + h, NEW k \in 1..n, j = m + k PROVE a < b
    <3>1. v[h] = <<"log", a>> /\ v[k] = <<"log", b>>
      BY <1>3, <2>3
    <3>2. h < k
      BY <2>3
    <3> QED
      BY <1>2, <1>7, <3>1, <3>2 DEF Ascends
  <2>4. ~(j \in 1..m /\ \E h \in 1..n : i = m + h)
    OBVIOUS
  <2> QED
    BY <1>3, <2>1, <2>2, <2>3, <2>4
<1> QED
  BY <1>1, <1>4, <1>5, <1>6, <1>7

\* and by its last snapshot.
LEMMA ClosesConcat ==
    ASSUME NEW C, NEW u \in Seq(C), NEW v \in Seq(C), NEW x
    PROVE  Closes(u \o v, x) <=> Closes(v, x) \/ (Closes(u, x) /\ Silent(v))
<1>1. PICK w : w = u \o v
  OBVIOUS
<1>2. PICK m \in Nat, n \in Nat : m = Len(u) /\ n = Len(v)
  OBVIOUS
<1>3. /\ \A i \in 1..m : i \in 1..Len(w) /\ w[i] = u[i]
      /\ \A i \in 1..n : m + i \in 1..Len(w) /\ w[m + i] = v[i]
      /\ \A i \in 1..Len(w) : i \in 1..m \/ \E j \in 1..n : i = m + j
  BY <1>1, <1>2, ConcatIs
<1>5. ASSUME Closes(v, x) PROVE Closes(w, x)
  <2>1. PICK i \in 1..n : v[i] = <<"snapshot", x>>
                          /\ \A j \in 1..n : j > i => \A r \in Rows : v[j] # <<"snapshot", r>>
    BY <1>2, <1>5 DEF Closes
  <2>2. m + i \in 1..Len(w) /\ w[m + i] = <<"snapshot", x>>
    BY <1>3, <2>1
  <2>3. ASSUME NEW j \in 1..Len(w), j > m + i, NEW r \in Rows PROVE w[j] # <<"snapshot", r>>
    <3>1. ~(j \in 1..m)
      BY <2>3
    <3>2. PICK k \in 1..n : j = m + k
      BY <1>3, <3>1
    <3>3. k > i /\ w[j] = v[k]
      BY <1>3, <2>3, <3>2
    <3> QED
      BY <2>1, <3>3
  <2> QED
    BY <2>2, <2>3 DEF Closes
<1>6. ASSUME Closes(u, x), Silent(v) PROVE Closes(w, x)
  <2>1. PICK i \in 1..m : u[i] = <<"snapshot", x>>
                          /\ \A j \in 1..m : j > i => \A r \in Rows : u[j] # <<"snapshot", r>>
    BY <1>2, <1>6 DEF Closes
  <2>2. i \in 1..Len(w) /\ w[i] = <<"snapshot", x>>
    BY <1>3, <2>1
  <2>3. ASSUME NEW j \in 1..Len(w), j > i, NEW r \in Rows PROVE w[j] # <<"snapshot", r>>
    <3>1. CASE j \in 1..m
      BY <1>3, <2>1, <2>3, <3>1
    <3>2. ASSUME NEW k \in 1..n, j = m + k PROVE w[j] # <<"snapshot", r>>
      <4>1. w[j] = v[k]
        BY <1>3, <3>2
      <4>2. v[k] # <<"snapshot", r>>
        BY <1>2, <1>6 DEF Silent, Says
      <4> QED
        BY <4>1, <4>2
    <3> QED
      BY <1>3, <3>1, <3>2
  <2> QED
    BY <2>2, <2>3 DEF Closes
<1>7. ASSUME Closes(w, x) PROVE Closes(v, x) \/ (Closes(u, x) /\ Silent(v))
  <2>1. PICK i \in 1..Len(w) : w[i] = <<"snapshot", x>>
                          /\ \A j \in 1..Len(w) : j > i => \A r \in Rows : w[j] # <<"snapshot", r>>
    BY <1>7 DEF Closes
  <2>2. CASE i \in 1..m
    <3>1. u[i] = <<"snapshot", x>>
      BY <1>3, <2>1, <2>2
    <3>2. \A j \in 1..m : j > i => \A r \in Rows : u[j] # <<"snapshot", r>>
      BY <1>3, <2>1
    <3>3. ASSUME NEW k \in 1..n, NEW r \in Rows PROVE v[k] # <<"snapshot", r>>
      <4>1. m + k \in 1..Len(w) /\ w[m + k] = v[k]
        BY <1>3
      <4>2. m + k > i
        BY <2>2
      <4> QED
        BY <2>1, <4>1, <4>2
    <3> QED
      BY <1>2, <2>2, <3>1, <3>2, <3>3 DEF Closes, Silent, Says
  <2>3. ASSUME NEW h \in 1..n, i = m + h PROVE Closes(v, x)
    <3>1. v[h] = <<"snapshot", x>>
      BY <1>3, <2>1, <2>3
    <3>2. ASSUME NEW k \in 1..n, k > h, NEW r \in Rows PROVE v[k] # <<"snapshot", r>>
      <4>1. m + k \in 1..Len(w) /\ w[m + k] = v[k]
        BY <1>3
      <4>2. m + k > i
        BY <2>3, <3>2
      <4> QED
        BY <2>1, <4>1, <4>2
    <3> QED
      BY <1>2, <3>1, <3>2 DEF Closes
  <2> QED
    BY <1>3, <2>2, <2>3
<1> QED
  BY <1>1, <1>5, <1>6, <1>7

\* A single chunk.
LEMMA SingleIs ==
    ASSUME NEW c
    PROVE  /\ \A d : Says(<<c>>, d) <=> d = c
           /\ Ids(<<c>>) = {l \in LogIds : c = <<"log", l>>}
           /\ Ascends(<<c>>)
           /\ Silent(<<c>>) <=> \A r \in Rows : c # <<"snapshot", r>>
           /\ \A x : Closes(<<c>>, x) <=> c = <<"snapshot", x>>
<1>1. PICK w : w = <<c>>
  OBVIOUS
<1>2. Len(w) = 1 /\ w[1] = c
  BY <1>1
<1>3. \A i \in 1..Len(w) : i = 1 /\ w[i] = c
  BY <1>2
<1>4. 1 \in 1..Len(w)
  BY <1>2
<1>5. \A d : Says(w, d) <=> d = c
  BY <1>3, <1>4 DEF Says
<1>6. Ascends(w)
  BY <1>3 DEF Ascends
<1>7. \A x : Closes(w, x) <=> c = <<"snapshot", x>>
  <2> SUFFICES ASSUME NEW x PROVE Closes(w, x) <=> c = <<"snapshot", x>>
    OBVIOUS
  <2>1. Closes(w, x) => c = <<"snapshot", x>>
    BY <1>3 DEF Closes
  <2>2. \A j \in 1..Len(w) : ~(j > 1)
    BY <1>3
  <2>3. c = <<"snapshot", x>> => Closes(w, x)
    BY <1>2, <1>4, <2>2 DEF Closes
  <2> QED
    BY <2>1, <2>3
<1> QED
  BY <1>1, <1>5, <1>6, <1>7 DEF Ids, Silent

\* What the browser takes, and what it leaves.
LEMMA HeadAndTail ==
    ASSUME NEW C, NEW w \in Seq(C), w # <<>>
    PROVE  /\ Head(w) \in C /\ Tail(w) \in Seq(C) /\ <<Head(w)>> \in Seq(C)
           /\ w = <<Head(w)>> \o Tail(w)
<1>1. PICK h \in C, t \in Seq(C) : h = Head(w) /\ t = Tail(w)
  BY HeadTailProperties
<1>2. PICK n \in Nat : n = Len(t)
  OBVIOUS
<1>3. Len(w) = n + 1 /\ \A i \in 1..n : t[i] = w[i + 1]
  <2>1. PICK k \in Nat : k = Len(w)
    OBVIOUS
  <2>2. n = k - 1 /\ \A i \in 1..n : t[i] = w[i + 1]
    BY <1>1, <1>2, <2>1, HeadTailProperties
  <2> QED
    BY <2>1, <2>2
<1>4. w[1] = h
  BY <1>1
<1>5. PICK o \in Seq(C) : o = <<h>>
  <2>1. <<h>> \in Seq(C)
    OBVIOUS
  <2> QED
    BY <2>1, Zenon
<1>6. Len(o) = 1 /\ o[1] = h
  BY <1>5
<1>7. PICK u \in Seq(C) : u = o \o t
  BY ConcatProperties
<1>8. Len(u) = 1 + n /\ \A i \in 1..1 + n : u[i] = IF i <= 1 THEN o[i] ELSE t[i - 1]
  <2>1. /\ Len(o \o t) = Len(o) + Len(t)
        /\ \A i \in 1..Len(o) + Len(t) : (o \o t)[i] = IF i <= Len(o) THEN o[i] ELSE t[i - Len(o)]
    BY ConcatProperties
  <2> QED
    BY <1>2, <1>6, <1>7, <2>1
<1>9. ASSUME NEW i \in 1..n + 1 PROVE u[i] = w[i]
  <2>1. CASE i = 1
    BY <1>4, <1>6, <1>8, <2>1
  <2>2. CASE i # 1
    <3>1. i - 1 \in 1..n /\ (i - 1) + 1 = i /\ ~(i <= 1)
      BY <2>2
    <3> QED
      BY <1>3, <1>8, <3>1
  <2> QED
    BY <2>1, <2>2
<1>10. u = w
  <2>1. Len(u) = Len(w) /\ \A i \in 1..Len(u) : u[i] = w[i]
    BY <1>3, <1>8, <1>9
  <2> QED
    BY <2>1, SeqEqual
<1> QED
  BY <1>1, <1>5, <1>7, <1>10

\* Nothing at all.
LEMMA EmptyIs ==
    /\ \A d : ~Says(<<>>, d)
    /\ Ids(<<>>) = {} /\ Ascends(<<>>) /\ Silent(<<>>) /\ \A x : ~Closes(<<>>, x)
<1>1. PICK w : w = <<>>
  OBVIOUS
<1>2. \A i \in 1..Len(w) : FALSE
  BY <1>1
<1>3. \A d : ~Says(w, d)
  BY <1>2 DEF Says
<1> QED
  BY <1>1, <1>2, <1>3 DEF Ids, Ascends, Silent, Closes

\* The lines of a page.
LogChunks(S) == [i \in DOMAIN Ascending(S) |-> <<"log", Ascending(S)[i]>>]

\* They are the lines of the page, in order, and no snapshot.
LEMMA LogChunksIs ==
    ASSUME NEW S \in SUBSET LogIds
    PROVE  /\ LogChunks(S) \in Seq(Chunks)
           /\ Len(LogChunks(S)) = Cardinality(S)
           /\ Ids(LogChunks(S)) = S /\ Ascends(LogChunks(S)) /\ Silent(LogChunks(S))
           /\ \A c : Says(LogChunks(S), c) => \E l \in S : c = <<"log", l>>
<1>1. PICK a : a = Ascending(S)
  OBVIOUS
<1>2. PICK n \in Nat : n = Cardinality(S)
  BY IdsAreFinite
<1>3. /\ a \in Seq(S) /\ Len(a) = n
      /\ \A i, j \in 1..n : i < j => a[i] < a[j]
      /\ \A x \in S : \E i \in 1..n : a[i] = x
  BY <1>1, <1>2, AscendingIs
<1>4. \A i \in 1..n : a[i] \in S
  BY <1>3, ElementOfSeq
<1>5. PICK w : w = LogChunks(S)
  OBVIOUS
<1>6. w = [i \in 1..n |-> <<"log", a[i]>>]
  BY <1>1, <1>3, <1>5 DEF LogChunks
<1>7. \A i \in 1..n : w[i] = <<"log", a[i]>> /\ w[i] \in Chunks
  BY <1>4, <1>6 DEF Chunks
<1>8. w \in Seq(Chunks) /\ Len(w) = n
  BY <1>6, <1>7
<1>9. \A c : Says(w, c) => \E l \in S : c = <<"log", l>>
  BY <1>4, <1>7, <1>8 DEF Says
<1>10. Ids(w) = S
  <2>1. ASSUME NEW x \in S PROVE x \in Ids(w)
    <3>1. PICK i \in 1..n : a[i] = x
      BY <1>3
    <3>2. w[i] = <<"log", x>>
      BY <1>7, <3>1
    <3> QED
      BY <1>8, <3>2 DEF Ids, Says
  <2>2. ASSUME NEW x \in Ids(w) PROVE x \in S
    <3>1. PICK l \in S : <<"log", x>> = <<"log", l>>
      BY <1>9 DEF Ids
    <3> QED
      BY <3>1
  <2> QED
    BY <2>1, <2>2
<1>11. Ascends(w)
  <2> SUFFICES ASSUME NEW i \in 1..n, NEW j \in 1..n, NEW x \in LogIds, NEW y \in LogIds,
                      i < j, w[i] = <<"log", x>>, w[j] = <<"log", y>>
               PROVE  x < y
    BY <1>8 DEF Ascends
  <2>1. <<"log", x>> = <<"log", a[i]>> /\ <<"log", y>> = <<"log", a[j]>>
    BY <1>7
  <2>2. x = a[i] /\ y = a[j]
    BY <2>1
  <2> QED
    BY <1>3, <2>2
<1>12. Silent(w)
  <2> SUFFICES ASSUME NEW r \in Rows, Says(w, <<"snapshot", r>>) PROVE FALSE
    BY DEF Silent
  <2>1. PICK l \in S : <<"snapshot", r>> = <<"log", l>>
    BY <1>9
  <2> QED
    BY <2>1
<1> QED
  BY <1>2, <1>5, <1>8, <1>9, <1>10, <1>11, <1>12

-----------------------------------------------------------------------------
(* A step of the stream that writes *)

Streams ==
    [phase : {"none", "opening", "open"}, paused : BOOLEAN, pending : BOOLEAN, timer : BOOLEAN,
     fetch : {"no", "job", "logs", "apply"}, job : {None} \cup Rows, page : SUBSET LogIds,
     cursor : Froms, key : {None} \cup Rows]

\* what the stream has written of a read, and what it became
Wrote(s, w, job, page, r, written, snap, key) ==
    /\ \A x \in written : \A y \in page : y <= x => y \in written
    /\ \/ snap = <<>> /\ key = s.key
       \/ snap = << <<"snapshot", job>> >> /\ key = job
    /\ \/ /\ r.wire = ((w \o snap) \o LogChunks(written)) \o << <<"done">>, <<"end">> >>
          /\ r.stream = NoStream
          /\ Terminal(job) /\ written = page /\ Cardinality(page) < BatchSize /\ key = job
       \/ /\ r.wire = (w \o snap) \o LogChunks(written)
          /\ r.stream \in Streams
          /\ r.stream.phase = "open" /\ r.stream.fetch = "no" /\ r.stream.key = key
          /\ r.stream.cursor = NextCursor(s, written, page)
          /\ ~r.stream.paused /\ ~r.stream.timer =>
                written = page /\ Cardinality(page) < BatchSize /\ ~s.pending /\ key = job

\* A call of requestRefresh sets one of two flags.
LEMMA RefreshIs ==
    ASSUME NEW s \in Streams
    PROVE  /\ RequestRefresh(s) \in Streams
           /\ \A f \in {"phase", "paused", "fetch", "job", "page", "cursor", "key"} :
                 RequestRefresh(s)[f] = s[f]
           /\ IF s.paused \/ s.fetch # "no"
                THEN RequestRefresh(s).pending /\ RequestRefresh(s).timer = s.timer
                ELSE RequestRefresh(s).timer /\ RequestRefresh(s).pending = s.pending
<1>1. CASE s.paused \/ s.fetch # "no"
  <2>1. RequestRefresh(s) = [s EXCEPT !.pending = TRUE]
    BY <1>1 DEF RequestRefresh
  <2> QED
    BY <1>1, <2>1 DEF Streams
<1>2. CASE ~(s.paused \/ s.fetch # "no")
  <2>1. RequestRefresh(s) = [s EXCEPT !.timer = TRUE]
    BY <1>2 DEF RequestRefresh
  <2> QED
    BY <1>2, <2>1 DEF Streams
<1> QED
  BY <1>1, <1>2

\* The cursor is the last line written, or what it was.
LEMMA CursorIs ==
    ASSUME NEW s \in Streams, NEW page \in SUBSET LogIds, NEW written \in SUBSET page
    PROVE  /\ NextCursor(s, written, page) \in LogIds
           /\ written # {} => /\ NextCursor(s, written, page) \in written
                              /\ \A x \in written : x <= NextCursor(s, written, page)
           /\ written = {} => NextCursor(s, written, page) = IF s.cursor = None THEN 0 ELSE s.cursor
<1>1. CASE written # {}
  <2>1. Greatest(written) \in written /\ \A x \in written : x <= Greatest(written)
    BY <1>1, GreatestIs
  <2> QED
    BY <1>1, <2>1 DEF NextCursor
<1>2. CASE written = {}
  <2>1. 0 \in LogIds
    BY StreamAssumption DEF LogIds
  <2>2. s.cursor \in Froms
    BY DEF Streams
  <2> QED
    BY <1>2, <2>1, <2>2 DEF NextCursor, Froms
<1> QED
  BY <1>1, <1>2

\* apply() writes a snapshot or none, the first lines of the page, and perhaps the end.
LEMMA ApplyIs ==
    ASSUME NEW s \in Streams, NEW w \in Seq(Chunks), NEW job \in Rows, NEW page \in SUBSET LogIds
    PROVE  \E written \in SUBSET page, snap \in Seq(Chunks), key \in {None} \cup Rows :
              Wrote(s, w, job, page, Apply(s, w, job, page), written, snap, key)
<1> DEFINE snapshot == job # s.key /\ ~s.paused
           w1 == IF snapshot THEN Append(w, <<"snapshot", job>>) ELSE w
           room == IF s.paused \/ Full(w1) THEN 0 ELSE HighWater - Len(w1)
           written == FirstOf(page, room)
           w2 == w1 \o LogChunks(written)
           paused == s.paused \/ Full(w2)
           key == IF snapshot THEN job ELSE s.key
           next == [s EXCEPT !.phase = "open", !.fetch = "no", !.job = None, !.page = {},
                             !.key = key, !.paused = paused,
                             !.cursor = NextCursor(s, written, page)]
           snap == IF snapshot THEN << <<"snapshot", job>> >> ELSE <<>>
           r == Apply(s, w, job, page)
<1>1. r = IF paused
            THEN [stream |-> [next EXCEPT !.pending = TRUE], wire |-> w2]
            ELSE IF Terminal(job) /\ ~MoreLogs(written, page) /\ job = key
              THEN [stream |-> NoStream, wire |-> w2 \o << <<"done">>, <<"end">> >>]
              ELSE [stream |-> IF MoreLogs(written, page) \/ s.pending THEN RequestRefresh(next) ELSE next,
                    wire |-> w2]
  BY DEF Apply, LogChunks
<1>2. key \in {None} \cup Rows
  BY DEF Streams
<1>3. ~paused => key = job
  OBVIOUS
<1>4. <<"snapshot", job>> \in Chunks
  BY DEF Chunks
<1>5. snap \in Seq(Chunks) /\ w1 = w \o snap /\ w1 \in Seq(Chunks)
  <2>1. CASE snapshot
    BY <1>4, <2>1, AppendIsConcat, AppendProperties
  <2>2. CASE ~snapshot
    BY <2>2, ConcatEmptySeq
  <2> QED
    BY <2>1, <2>2
<1>6. room \in Int
  <2>1. Len(w1) \in Nat /\ HighWater \in Nat
    BY <1>5, StreamAssumption
  <2> HIDE DEF w1
  <2> QED
    BY <2>1
<1>7. \/ snap = <<>> /\ key = s.key
      \/ snap = << <<"snapshot", job>> >> /\ key = job
  OBVIOUS
<1>8. s.cursor \in Froms /\ s.paused \in BOOLEAN /\ paused \in BOOLEAN
  BY DEF Streams, Full
<1> HIDE DEF room, key, snap, snapshot, w1
<1>9. written \in SUBSET page
  BY DEF FirstOf
<1>10. \A x \in written : \A y \in page : y <= x => y \in written
  BY <1>6, FirstHasNoGap
<1>11. NextCursor(s, written, page) \in LogIds
  BY <1>9, CursorIs
<1> HIDE DEF written
<1>12. NextCursor(s, written, page) \in Froms
  BY <1>11 DEF Froms
<1>13. /\ next \in Streams /\ next.phase = "open" /\ next.fetch = "no" /\ next.key = key
       /\ next.paused = paused /\ next.cursor = NextCursor(s, written, page)
       /\ next.pending = s.pending /\ next.timer = s.timer
  <2>1. {} \in SUBSET LogIds
    OBVIOUS
  <2> HIDE DEF paused
  <2> QED
    BY <1>2, <1>8, <1>12, <2>1 DEF Streams
<1>14. MoreLogs(written, page) <=> written # page \/ ~(Cardinality(page) < BatchSize)
  <2>1. Cardinality(page) \in Nat /\ BatchSize \in Nat
    BY IdsAreFinite, StreamAssumption
  <2> QED
    BY <2>1 DEF MoreLogs
<1>15. w2 = (w \o snap) \o LogChunks(written)
  BY <1>5
<1> HIDE DEF next, w2, paused, r
<1>16. CASE paused
  <2>1. r.stream = [next EXCEPT !.pending = TRUE] /\ r.wire = w2
    BY <1>1, <1>16
  <2>2. /\ r.stream \in Streams
        /\ r.stream.phase = "open" /\ r.stream.fetch = "no" /\ r.stream.key = key
        /\ r.stream.cursor = NextCursor(s, written, page)
        /\ r.stream.paused
    BY <1>13, <1>16, <2>1 DEF Streams
  <2> QED
    BY <1>2, <1>5, <1>7, <1>9, <1>10, <1>15, <2>1, <2>2 DEF Wrote, r
<1>17. CASE ~paused /\ Terminal(job) /\ ~MoreLogs(written, page) /\ job = key
  <2>1. r.stream = NoStream /\ r.wire = w2 \o << <<"done">>, <<"end">> >>
    BY <1>1, <1>17
  <2> QED
    BY <1>2, <1>5, <1>7, <1>9, <1>10, <1>14, <1>15, <1>17, <2>1 DEF Wrote, r
<1>18. CASE ~paused /\ ~(Terminal(job) /\ ~MoreLogs(written, page) /\ job = key)
  <2>1. /\ r.stream = IF MoreLogs(written, page) \/ s.pending THEN RequestRefresh(next) ELSE next
        /\ r.wire = w2
    BY <1>1, <1>18
  <2>2. /\ RequestRefresh(next) \in Streams
        /\ \A f \in {"phase", "paused", "fetch", "job", "page", "cursor", "key"} :
              RequestRefresh(next)[f] = next[f]
        /\ RequestRefresh(next).timer
    BY <1>13, <1>18, RefreshIs
  <2>3. /\ r.stream \in Streams
        /\ r.stream.phase = "open" /\ r.stream.fetch = "no" /\ r.stream.key = key
        /\ r.stream.cursor = NextCursor(s, written, page)
    BY <1>13, <2>1, <2>2
  <2>4. ~r.stream.timer => ~MoreLogs(written, page) /\ ~s.pending
    BY <2>1, <2>2
  <2> QED
    BY <1>2, <1>3, <1>5, <1>7, <1>9, <1>10, <1>14, <1>15, <1>18, <2>1, <2>3, <2>4 DEF Wrote, r
<1> QED
  BY <1>16, <1>17, <1>18

-----------------------------------------------------------------------------
(* The inductive invariant *)

Sessions ==
    [pc : {"mint", "open", "drain", "tick", "fetch", "over", "denied"}, ended : BOOLEAN,
     heard : BOOLEAN, failed : 0..MaxFailed, sseUnavailable : BOOLEAN, last : Froms]
Requests ==
    [step : {"none", "job", "logs", "answer"}, job : {None} \cup Rows, page : SUBSET LogIds]
Queues == [job : {None} \cup Rows, lines : Seq(Nat), dropped : Nat]
Views == [job : Rows, lines : Seq(Nat), hidden : Nat]
Actions ==
    [step : {"none", "sent", "answered"}, kind : {None, "cancel", "retry"},
     ended : BOOLEAN, answer : {None} \cup Rows]

ServerTypes ==
    /\ stream \in Streams /\ wire \in Seq(Chunks) /\ wakes \in {"none", "due", "missed"}
    /\ stream.fetch \in {"logs", "apply"} => stream.job \in Rows

SessionTypes ==
    /\ session \in Sessions /\ request \in Requests
    /\ request.step \in {"logs", "answer"} => request.job \in Rows
    /\ session.pc \in {"mint", "open"} => session.failed < MaxFailed

PageTypes == queued \in Queues /\ view \in Views

UserTypes ==
    /\ action \in Actions
    /\ action.step = "answered" => action.answer \in Rows
    /\ faults \in 0..MaxFaults /\ clicks \in 0..MaxClicks
    /\ clicks = 0 => action.step = "none"

\* Ids are drawn in order; a line in time is committed before the next one is
\* begun, and before the job ends.
SourceInv ==
    /\ row \in Rows /\ row.version \in 0..MaxVersion /\ retries \in 0..row.version
    /\ nextId \in 1..MaxLog + 1
    /\ log \subseteq 1..nextId - 1 /\ late \subseteq log
    /\ inserting \in {None} \cup 1..nextId - 1
    /\ stray \in {None} \cup 1..nextId - 1
    /\ inserting # None => /\ ~Terminal(row) /\ \A l \in log : l < inserting
                           /\ stray # None => stray < inserting
    /\ stray \notin log

\* Where a stream and a request can be.
Where ==
    /\ session.pc # "open" => stream.phase = "none" /\ wire = <<>>
    /\ stream.phase = "none" => stream = NoStream /\ wakes = "none"
    /\ stream.phase = "opening" =>
          /\ wakes # "due" /\ ~stream.timer /\ ~stream.pending /\ ~stream.paused
          /\ wire = <<>> /\ stream.key = None /\ stream.fetch # "no"
    /\ stream.phase = "open" => stream.cursor # None
    /\ request.step # "none" => session.pc \in {"fetch", "drain"}

\* Unless a wake-up is due, what the stream knows is what there is.
Notices ==
    stream.phase # "none" /\ wakes = "none" =>
        /\ stream.phase = "open" /\ stream.fetch = "no" /\ ~stream.timer /\ ~stream.paused =>
              stream.key = row /\ \A l \in log : l <= stream.cursor
        /\ stream.fetch \in {"logs", "apply"} /\ ~stream.pending => stream.job = row
        /\ stream.fetch = "apply" /\ ~stream.pending => stream.page = Backlog(stream.cursor)

\* The cursor is the last line on the wire, or the last one received.
CursorOK(ids, last, cursor) ==
    IF ids = {} THEN cursor = last \/ (last = None /\ cursor = 0)
                ELSE cursor \in ids /\ \A x \in ids : x <= cursor

\* The wire, and a page the stream has read, continue what was received.
WireOK(L, T, w, last, s) ==
    /\ After(L, Ids(w), last) /\ Ascends(w) /\ Gapless(T, Ids(w), last)
    /\ s.phase # "none" => CursorOK(Ids(w), last, s.cursor)
    /\ s.fetch = "apply" => After(L, s.page, s.cursor) /\ Gapless(T, s.page, s.cursor)

WireInv == WireOK(log, InTime, wire, session.last, stream)

RequestInv ==
    request.step = "answer" =>
        After(log, request.page, session.last) /\ Gapless(InTime, request.page, session.last)

Rank0(last) == IF last = None THEN 0 ELSE last

ConsoleInv ==
    /\ ConsoleOK(log, InTime, Console, session.last)
    /\ view.hidden + queued.dropped + Len(view.lines) + Len(queued.lines) <= Rank0(session.last)

\* A read that saw the end of the job sees its row, and the log to its end.
ReadInv ==
    retries = 0 /\ stream.fetch \in {"logs", "apply"} /\ Terminal(stream.job) =>
        /\ stream.job = row
        /\ stream.fetch = "apply" /\ Cardinality(stream.page) < BatchSize =>
              \A l \in InTime : stream.cursor = None \/ l > stream.cursor => l \in stream.page

\* The row that was sent last is the one the page has, or is about to receive.
KeyInv ==
    stream.phase # "none" /\ stream.key # None /\ clicks = 0 =>
        Latest(wire, queued.job, view.job, stream.key)

DoneInv ==
    Says(wire, <<"done">>) =>
        /\ stream.phase = "none"
        /\ retries = 0 =>
              /\ Terminal(row)
              /\ Complete(InTime, Ids(wire), session.last)
              /\ clicks = 0 => Latest(wire, queued.job, view.job, row)

Types == ServerTypes /\ SessionTypes /\ PageTypes /\ UserTypes

IInv ==
    /\ Types /\ SourceInv /\ Where /\ Notices
    /\ WireInv /\ RequestInv /\ ConsoleInv
    /\ ReadInv /\ KeyInv /\ DoneInv

-----------------------------------------------------------------------------
(* Steps of the worker and of the API *)

\* What such a step may do to the row and the log.
SourceMoves ==
    /\ SourceInv'
    /\ log \subseteq log'
    /\ \A l \in InTime' \ InTime : \A x \in log : x < l
    /\ UNCHANGED <<stream, wire>>
    /\ \/ row' = row /\ log' = log /\ InTime' = InTime /\ wakes' = wakes
       \/ wakes' = CASE stream.phase = "open" -> "due"
                     [] stream.phase = "opening" -> "missed"
                     [] OTHER -> wakes
    /\ retries' = 0 => retries = 0
    /\ retries' = 0 /\ Terminal(row) => row' = row /\ InTime' = InTime

\* A running job has not ended.
LEMMA NotTerminal == \A v : ~Terminal([status |-> "running", version |-> v])
  BY DEF Terminal

\* Progress, a checkpoint, a request to cancel.
LEMMA ProgressMoves ==
    ASSUME SourceInv, ~Terminal(row), CanChange, Change("running"),
           UNCHANGED <<retries, log, late, inserting, stray, nextId>>
    PROVE  SourceMoves
<1>1. row' = [status |-> "running", version |-> row.version + 1] /\ Notify
  BY DEF Change
<1>2. row.version \in 0..MaxVersion /\ row.version < MaxVersion /\ MaxVersion \in Nat /\ retries \in 0..row.version
  BY StreamAssumption DEF SourceInv, CanChange
<1>3. row' \in Rows /\ row'.version = row.version + 1
  BY <1>1, <1>2 DEF Rows, Statuses
<1>4. row'.version \in 0..MaxVersion /\ retries' \in 0..row'.version
  BY <1>2, <1>3
<1>5. ~Terminal(row')
  BY <1>1 DEF Terminal
<1>6. SourceInv'
  BY <1>3, <1>4, <1>5 DEF SourceInv, Terminal
<1>7. InTime' = InTime
  BY DEF InTime
<1> QED
  BY <1>1, <1>6, <1>7 DEF SourceMoves, Notify

\* A line is begun.
LEMMA BeginMoves ==
    ASSUME SourceInv, BeginLog
    PROVE  SourceMoves
<1>1. nextId \in 1..MaxLog + 1 /\ nextId <= MaxLog /\ MaxLog \in Nat /\ nextId' = nextId + 1
  BY StreamAssumption DEF SourceInv, BeginLog
<1>2. nextId' \in 1..MaxLog + 1 /\ nextId \in 1..nextId' - 1
  BY <1>1
<1>3. \A x \in 1..nextId - 1 : x \in 1..nextId' - 1 /\ x < nextId
  BY <1>1
<1>4. SourceInv'
  BY <1>1, <1>2, <1>3, StreamAssumption DEF SourceInv, BeginLog, Terminal
<1>7. InTime' = InTime
  BY DEF InTime, BeginLog
<1> QED
  BY <1>4, <1>7 DEF SourceMoves, BeginLog, server

\* The ids drawn so far, after one more.
LEMMA RangeGrows ==
    ASSUME NEW n \in Nat, NEW m \in Nat
    PROVE  /\ n <= m => \A x \in 1..n - 1 : x \in 1..m - 1
           /\ \A l \in Nat \ {0} : l < m => l \in 1..m - 1
  OBVIOUS

\* A line that is committed at once.
LEMMA LineMoves ==
    ASSUME SourceInv, Notify, row' = row \/ (CanChange /\ \E s \in Statuses : Change(s)),
           NEW l \in 1..MaxLog, log' = log \cup {l}, late' = late, inserting' = None,
           \A x \in log : x < l, l \notin late,
           nextId \in 1..nextId', nextId' \in 1..MaxLog + 1, l < nextId',
           stray' \in {None} \cup 1..nextId' - 1, stray' # l, stray' \notin log,
           retries' = retries, ~Terminal(row)
    PROVE  SourceMoves
<1>1. /\ row' \in Rows /\ row'.version \in 0..MaxVersion /\ retries' \in 0..row'.version
  <2>1. row.version \in 0..MaxVersion /\ MaxVersion \in Nat /\ retries \in 0..row.version /\ row \in Rows
    BY StreamAssumption DEF SourceInv
  <2>2. CASE row' = row
    BY <2>1, <2>2
  <2>3. CASE CanChange /\ \E s \in Statuses : Change(s)
    <3>1. PICK s \in Statuses : row' = [status |-> s, version |-> row.version + 1]
      BY <2>3 DEF Change
    <3>2. row.version < MaxVersion
      BY <2>3 DEF CanChange
    <3>3. row' \in Rows /\ row'.version = row.version + 1
      BY <2>1, <3>1 DEF Rows
    <3> QED
      BY <2>1, <3>2, <3>3
  <2> QED
    BY <2>2, <2>3
<1>2. PICK n \in Nat, m \in Nat : n = nextId /\ m = nextId' /\ n <= m /\ l < m
  <2>1. MaxLog \in Nat /\ nextId' \in Nat
    BY StreamAssumption
  <2>2. nextId \in Nat /\ nextId <= nextId'
    BY <2>1
  <2> QED
    BY <2>1, <2>2
<1>3. \A x \in 1..nextId - 1 : x \in 1..nextId' - 1
  <2>1. \A x \in 1..n - 1 : x \in 1..m - 1
    BY <1>2, RangeGrows
  <2> QED
    BY <1>2, <2>1
<1>4. l \in 1..nextId' - 1
  <2>0. l \in Nat \ {0}
    BY StreamAssumption
  <2>1. l \in 1..m - 1
    BY <1>2, <2>0, RangeGrows
  <2> QED
    BY <1>2, <2>1
<1>5. log' \subseteq 1..nextId' - 1 /\ late' \subseteq log'
  BY <1>3, <1>4 DEF SourceInv
<1>6. SourceInv'
  BY <1>1, <1>2, <1>5 DEF SourceInv
<1>7. \A x \in InTime' \ InTime : x = l
  BY DEF InTime
<1> QED
  BY <1>6, <1>7 DEF SourceMoves, Notify

\* The holder commits its line.
LEMMA CommitMoves ==
    ASSUME SourceInv, CommitLog
    PROVE  SourceMoves
<1>1. inserting \in 1..nextId - 1 /\ nextId \in 1..MaxLog + 1 /\ MaxLog \in Nat
  BY StreamAssumption DEF SourceInv, CommitLog
<1>2. inserting \in 1..MaxLog /\ nextId \in 1..nextId /\ inserting < nextId
  BY <1>1
<1>3. /\ log' = log \cup {inserting} /\ inserting' = None /\ Notify
      /\ row' = row /\ retries' = retries /\ late' = late /\ stray' = stray /\ nextId' = nextId
  BY DEF CommitLog
<1>4. ~Terminal(row) /\ (\A x \in log : x < inserting) /\ (stray # None => stray < inserting)
  BY DEF SourceInv, CommitLog
<1>5. \A x \in log : x \in Nat
  BY <1>1 DEF SourceInv
<1>6. inserting \notin late
  <2>1. inserting \notin log
    BY <1>1, <1>4, <1>5
  <2> QED
    BY <2>1 DEF SourceInv
<1>7. stray # inserting /\ stray \notin log /\ stray \in {None} \cup 1..nextId - 1
  BY <1>1, <1>4, StreamAssumption DEF SourceInv
<1> QED
  BY <1>1, <1>2, <1>3, <1>4, <1>6, <1>7, LineMoves

\* The reaper takes the job.
LEMMA ReapMoves ==
    ASSUME SourceInv, Reap
    PROVE  SourceMoves
<1>1. nextId \in 1..MaxLog + 1 /\ MaxLog \in Nat /\ nextId <= MaxLog /\ nextId' = nextId + 1
  BY StreamAssumption DEF SourceInv, Reap
<1>2. /\ nextId \in 1..MaxLog /\ nextId \in 1..nextId' /\ nextId' \in 1..MaxLog + 1 /\ nextId < nextId'
  BY <1>1
<1>3. /\ log' = log \cup {nextId} /\ inserting' = None /\ late' = late /\ retries' = retries
      /\ stray' = inserting /\ CanChange /\ Change("running") /\ Notify
  BY DEF Reap, Change
<1>4. inserting \in 1..nextId - 1 /\ ~Terminal(row) /\ (\A x \in log : x < inserting)
  BY DEF SourceInv, Reap
<1>5. \A x \in log : x \in 1..nextId - 1
  BY DEF SourceInv
<1>6. \A x \in log : x < nextId
  BY <1>1, <1>5
<1>7. nextId \notin late
  <2>1. nextId \notin log
    BY <1>1, <1>6
  <2> QED
    BY <2>1 DEF SourceInv
<1>8. inserting \notin log /\ inserting # nextId /\ inserting \in 1..nextId' - 1
  BY <1>1, <1>4, <1>5
<1>9. CanChange /\ \E s \in Statuses : Change(s)
  BY <1>3 DEF Statuses
<1> QED
  BY <1>2, <1>3, <1>4, <1>6, <1>7, <1>8, <1>9, LineMoves

\* The job ends.
LEMMA FinishMoves ==
    ASSUME SourceInv, NEW status \in Statuses, Finish(status)
    PROVE  SourceMoves
<1>1. nextId \in 1..MaxLog + 1 /\ MaxLog \in Nat /\ nextId <= MaxLog /\ nextId' = nextId + 1
  BY StreamAssumption DEF SourceInv, Finish
<1>2. /\ nextId \in 1..MaxLog /\ nextId \in 1..nextId' /\ nextId' \in 1..MaxLog + 1 /\ nextId < nextId'
  BY <1>1
<1>3. /\ log' = log \cup {nextId} /\ inserting' = None /\ late' = late /\ retries' = retries
      /\ stray' = stray /\ CanChange /\ Change(status) /\ Notify /\ ~Terminal(row)
  BY DEF Finish, Change
<1>5. \A x \in log : x \in 1..nextId - 1
  BY DEF SourceInv
<1>6. \A x \in log : x < nextId
  BY <1>1, <1>5
<1>7. nextId \notin late
  <2>1. nextId \notin log
    BY <1>1, <1>6
  <2> QED
    BY <2>1 DEF SourceInv
<1>8. stray \notin log /\ stray # nextId /\ stray \in {None} \cup 1..nextId' - 1
  <2>1. stray \in {None} \cup 1..nextId - 1 /\ stray \notin log
    BY DEF SourceInv
  <2> QED
    BY <1>1, <2>1, StreamAssumption
<1>9. CanChange /\ \E s \in Statuses : Change(s)
  BY <1>3
<1> QED
  BY <1>2, <1>3, <1>6, <1>7, <1>8, <1>9, LineMoves

\* A run that lost the job commits its line.
LEMMA StrayMoves ==
    ASSUME SourceInv, CommitStray
    PROVE  SourceMoves
<1>1. /\ stray # None /\ log' = log \cup {stray} /\ late' = late \cup {stray} /\ stray' = None /\ Notify
      /\ UNCHANGED <<row, retries, inserting, nextId>>
  BY DEF CommitStray
<1>2. stray \notin log /\ stray \in 1..nextId - 1
  BY <1>1 DEF SourceInv
<1>3. InTime' = InTime
  BY <1>1, <1>2 DEF InTime, SourceInv
<1>4. None \notin log'
  BY <1>1, <1>2, StreamAssumption DEF SourceInv
<1>5. SourceInv'
  BY <1>1, <1>2, <1>4 DEF SourceInv, Terminal
<1> QED
  BY <1>1, <1>3, <1>5 DEF SourceMoves, Notify

\* A retry.
LEMMA RetryMoves ==
    ASSUME SourceInv, row.status = "failed", CanChange, Change("running"), retries' = retries + 1,
           UNCHANGED <<log, late, inserting, stray, nextId>>
    PROVE  SourceMoves
<1>1. row' = [status |-> "running", version |-> row.version + 1] /\ Notify
  BY DEF Change
<1>2. row.version \in 0..MaxVersion /\ row.version < MaxVersion /\ MaxVersion \in Nat /\ retries \in 0..row.version
  BY StreamAssumption DEF SourceInv, CanChange
<1>3. row' \in Rows /\ row'.version = row.version + 1
  BY <1>1, <1>2 DEF Rows, Statuses
<1>4. row'.version \in 0..MaxVersion /\ retries' \in 0..row'.version /\ retries' # 0
  BY <1>2, <1>3
<1>5. ~Terminal(row')
  BY <1>1 DEF Terminal
<1>6. SourceInv'
  BY <1>3, <1>4, <1>5 DEF SourceInv, Terminal
<1>7. InTime' = InTime
  BY DEF InTime
<1> QED
  BY <1>1, <1>4, <1>6, <1>7 DEF SourceMoves, Notify

\* A cancel of a queued job.
LEMMA EndMoves ==
    ASSUME SourceInv, ~Terminal(row), CanChange, inserting = None, Change("failed"),
           UNCHANGED <<retries, log, late, inserting, stray, nextId>>
    PROVE  SourceMoves
<1>1. row' = [status |-> "failed", version |-> row.version + 1] /\ Notify
  BY DEF Change
<1>2. row.version \in 0..MaxVersion /\ row.version < MaxVersion /\ MaxVersion \in Nat /\ retries \in 0..row.version
  BY StreamAssumption DEF SourceInv, CanChange
<1>3. row' \in Rows /\ row'.version = row.version + 1
  BY <1>1, <1>2 DEF Rows, Statuses
<1>4. row'.version \in 0..MaxVersion /\ retries' \in 0..row'.version
  BY <1>2, <1>3
<1>6. SourceInv'
  BY <1>3, <1>4 DEF SourceInv
<1>7. InTime' = InTime
  BY DEF InTime
<1> QED
  BY <1>1, <1>6, <1>7 DEF SourceMoves, Notify

\* Every step of the worker and of other users is such a step,
LEMMA SourceNextMoves ==
    ASSUME SourceInv, faults \in 0..MaxFaults, SourceNext
    PROVE  SourceMoves /\ faults' \in 0..MaxFaults
<1>0. MaxFaults \in Nat
  BY StreamAssumption
<1>1. CASE Progress
  BY <1>1, ProgressMoves DEF Progress
<1>2. CASE BeginLog
  BY <1>2, BeginMoves DEF BeginLog
<1>3. CASE CommitLog
  BY <1>3, CommitMoves DEF CommitLog
<1>4. CASE Reap
  BY <1>0, <1>4, ReapMoves DEF Reap, Fault
<1>5. CASE CommitStray
  BY <1>5, StrayMoves DEF CommitStray
<1>6. CASE RetryRow
  BY <1>6, RetryMoves DEF RetryRow
<1>7. ASSUME NEW status \in Statuses \ {"running"}, Finish(status) PROVE SourceMoves /\ faults' = faults
  BY <1>7, FinishMoves DEF Finish
<1> QED
  BY <1>1, <1>2, <1>3, <1>4, <1>5, <1>6, <1>7 DEF SourceNext

\* and so is the API's answer to a button.
LEMMA ServedMoves ==
    ASSUME SourceInv, UserTypes, Served
    PROVE  SourceMoves /\ row' \in Rows /\ UserTypes' /\ clicks # 0
<1>0. CanChange /\ UNCHANGED <<log, late, inserting, stray, nextId>>
  BY DEF Served
<1>1. ASSUME action.kind = "cancel" PROVE SourceMoves
  <2>1. UNCHANGED retries /\ ~Terminal(row) /\ (Change("running") \/ (inserting = None /\ Change("failed")))
    BY <1>1 DEF Served
  <2>2. CASE Change("running")
    BY <1>0, <2>1, <2>2, ProgressMoves
  <2>3. CASE inserting = None /\ Change("failed")
    BY <1>0, <2>1, <2>3, EndMoves
  <2> QED
    BY <2>1, <2>2, <2>3
<1>2. ASSUME action.kind # "cancel" PROVE SourceMoves
  <2>1. row.status = "failed" /\ Change("running") /\ retries' = retries + 1
    BY <1>2 DEF Served
  <2> QED
    BY <1>0, <2>1, RetryMoves
<1>3. SourceMoves
  BY <1>1, <1>2
<1>4. row' \in Rows
  BY <1>3 DEF SourceMoves, SourceInv
<1>5. action' = [action EXCEPT !.step = "answered", !.answer = row'] /\ UNCHANGED <<faults, clicks>>
  BY DEF Served
<1>6. clicks # 0
  BY DEF Served, UserTypes
<1>7. action' \in Actions /\ action'.answer = row'
  <2>0. action \in Actions
    BY DEF UserTypes
  <2>1. PICK a \in Actions, r \in Rows : a = action /\ r = row'
    BY <1>4, <2>0, Zenon
  <2>2. action' = [a EXCEPT !.step = "answered", !.answer = r]
    BY <1>5, <2>1
  <2> QED
    BY <2>1, <2>2 DEF Actions
<1> QED
  BY <1>3, <1>4, <1>5, <1>6, <1>7 DEF UserTypes

\* The log is a set of ids from 1 on,
LEMMA LogIsOfIds ==
    ASSUME SourceInv
    PROVE  /\ log \in SUBSET (LogIds \ {0}) /\ log \in SUBSET LogIds
           /\ InTime \in SUBSET log /\ InTime \in SUBSET (LogIds \ {0})
<1>1. nextId \in 1..MaxLog + 1 /\ MaxLog \in Nat /\ log \subseteq 1..nextId - 1
  BY StreamAssumption DEF SourceInv
<1>2. \A x \in 1..nextId - 1 : x \in LogIds \ {0}
  BY <1>1 DEF LogIds
<1> QED
  BY <1>1, <1>2 DEF InTime

\* after a step too.
LEMMA LogIsOfIdsNext ==
    ASSUME SourceInv'
    PROVE  log' \in SUBSET LogIds /\ InTime' \in SUBSET log'
<1>1. nextId' \in 1..MaxLog + 1 /\ log' \subseteq 1..nextId' - 1
  BY DEF SourceInv
<1>2. \A n \in 1..MaxLog + 1 : \A x \in 1..n - 1 : x \in LogIds
  BY StreamAssumption DEF LogIds
<1> QED
  BY <1>1, <1>2 DEF InTime

\* New lines do not tear what was gapless.
LEMMA AfterStays ==
    ASSUME NEW L \in SUBSET LogIds, NEW T \in SUBSET L, NEW M \in SUBSET LogIds, NEW U \in SUBSET M,
           L \subseteq M, \A l \in U \ T : \A x \in L : x < l,
           NEW S, NEW from, After(L, S, from), Gapless(T, S, from)
    PROVE  After(M, S, from) /\ Gapless(U, S, from)
<1>1. S \in SUBSET LogIds /\ T \in SUBSET LogIds /\ U \in SUBSET LogIds /\ S \in SUBSET L
  BY DEF After
<1>2. \A l \in U \ T : \A x \in S : x < l
  BY <1>1
<1>3. Gapless(U, S, from)
  BY <1>1, <1>2, GaplessStays
<1> QED
  BY <1>3 DEF After

\* A step of the source keeps what was read and received gapless,
LEMMA SourceKeepsPages ==
    ASSUME SourceInv, WireInv, RequestInv, ConsoleInv, SourceMoves, UNCHANGED browser
    PROVE  WireInv' /\ RequestInv' /\ ConsoleInv'
<1>1. \E L, T, M, U \in SUBSET LogIds :
         L = log /\ T = InTime /\ M = log' /\ U = InTime' /\ T \in SUBSET L /\ U \in SUBSET M
  <2>1. log \in SUBSET LogIds /\ InTime \in SUBSET log
    BY LogIsOfIds
  <2>2. log' \in SUBSET LogIds /\ InTime' \in SUBSET log'
    BY LogIsOfIdsNext DEF SourceMoves
  <2> QED
    BY <2>1, <2>2
<1>0. PICK L \in SUBSET LogIds, T \in SUBSET LogIds, M \in SUBSET LogIds, U \in SUBSET LogIds :
         L = log /\ T = InTime /\ M = log' /\ U = InTime' /\ T \in SUBSET L /\ U \in SUBSET M
  BY <1>1
<1>2. L \subseteq M /\ \A l \in U \ T : \A x \in L : x < l
  BY <1>0 DEF SourceMoves
<1>3. /\ wire' = wire /\ stream' = stream /\ session' = session /\ request' = request
      /\ queued' = queued /\ view' = view
  BY DEF SourceMoves, browser
<1>4. WireInv'
  <2>1. WireOK(L, T, wire, session.last, stream)
    BY <1>0 DEF WireInv
  <2>2. After(M, Ids(wire), session.last) /\ Gapless(U, Ids(wire), session.last)
    BY <1>0, <1>2, <2>1, AfterStays DEF WireOK
  <2>3. stream.fetch = "apply" => After(M, stream.page, stream.cursor) /\ Gapless(U, stream.page, stream.cursor)
    BY <1>0, <1>2, <2>1, AfterStays DEF WireOK
  <2>4. WireOK(M, U, wire, session.last, stream)
    BY <2>1, <2>2, <2>3 DEF WireOK
  <2> QED
    BY <1>0, <1>3, <2>4 DEF WireInv
<1>5. RequestInv'
  <2>1. request.step = "answer" => After(L, request.page, session.last) /\ Gapless(T, request.page, session.last)
    BY <1>0 DEF RequestInv
  <2>2. request.step = "answer" => After(M, request.page, session.last) /\ Gapless(U, request.page, session.last)
    BY <1>0, <1>2, <2>1, AfterStays
  <2> QED
    BY <1>0, <1>3, <2>2 DEF RequestInv
<1>6. ConsoleInv'
  <2>1. ConsoleOK(L, T, Console, session.last)
    BY <1>0 DEF ConsoleInv
  <2>2. ConsoleOK(M, U, Console, session.last)
    BY <1>0, <1>2, <2>1, ConsoleStays
  <2>3. Console' = Console
    BY <1>3 DEF Console, AppendLines
  <2> QED
    BY <1>0, <1>3, <2>2, <2>3 DEF ConsoleInv
<1> QED
  BY <1>4, <1>5, <1>6

\* and what the stream knows, or it is woken.
LEMMA SourceKeepsServer ==
    ASSUME ServerTypes, SessionTypes, PageTypes, SourceInv, Where, Notices, ReadInv, KeyInv, DoneInv,
           SourceMoves, UNCHANGED <<browser, clicks>>
    PROVE  /\ ServerTypes' /\ SessionTypes' /\ PageTypes' /\ Where' /\ Notices'
           /\ ReadInv' /\ KeyInv' /\ DoneInv'
<1>1. /\ wire' = wire /\ stream' = stream /\ session' = session /\ request' = request
      /\ queued' = queued /\ view' = view /\ clicks' = clicks
  BY DEF SourceMoves, browser
<1>2. \/ row' = row /\ log' = log /\ InTime' = InTime /\ wakes' = wakes
      \/ stream.phase = "open" /\ wakes' = "due"
      \/ stream.phase = "opening" /\ wakes' = "missed"
      \/ stream.phase = "none" /\ wakes' = wakes
  <2>1. stream.phase \in {"none", "opening", "open"}
    BY DEF ServerTypes, Streams
  <2> QED
    BY <2>1 DEF SourceMoves
<1>3. ServerTypes'
  BY <1>1, <1>2 DEF ServerTypes
<1>4. SessionTypes' /\ PageTypes'
  BY <1>1 DEF SessionTypes, PageTypes
<1>5. Where'
  BY <1>1, <1>2 DEF Where
<1>6. Notices'
  <2>1. CASE row' = row /\ log' = log /\ wakes' = wakes
    BY <1>1, <2>1 DEF Notices, Backlog, LogsAfter
  <2>2. CASE stream.phase = "none" \/ wakes' # "none"
    BY <1>1, <2>2 DEF Notices
  <2> QED
    BY <1>2, <2>1, <2>2
<1>7. retries' = 0 => retries = 0
  BY DEF SourceMoves
<1>8. retries' = 0 /\ Terminal(row) => row' = row /\ InTime' = InTime
  BY DEF SourceMoves
<1>9. ReadInv'
  <2> SUFFICES ASSUME retries' = 0, stream.fetch \in {"logs", "apply"}, Terminal(stream.job)
               PROVE  /\ stream.job = row'
                      /\ stream.fetch = "apply" /\ Cardinality(stream.page) < BatchSize =>
                           \A l \in InTime' : stream.cursor = None \/ l > stream.cursor => l \in stream.page
    BY <1>1 DEF ReadInv
  <2>1. stream.job = row
    BY <1>7 DEF ReadInv
  <2>2. row' = row /\ InTime' = InTime
    BY <1>8, <2>1
  <2> QED
    BY <1>7, <2>1, <2>2 DEF ReadInv
<1>10. KeyInv'
  BY <1>1 DEF KeyInv
<1>11. DoneInv'
  <2> SUFFICES ASSUME Says(wire, <<"done">>)
               PROVE  /\ stream.phase = "none"
                      /\ retries' = 0 =>
                            /\ Terminal(row')
                            /\ Complete(InTime', Ids(wire), session.last)
                            /\ clicks = 0 => Latest(wire, queued.job, view.job, row')
    BY <1>1 DEF DoneInv
  <2> QED
    BY <1>7, <1>8 DEF DoneInv
<1> QED
  BY <1>3, <1>4, <1>5, <1>6, <1>9, <1>10, <1>11

-----------------------------------------------------------------------------
(* Steps of the stream that do not write *)

Quiet ==
    /\ UNCHANGED <<source, wire, browser, user>>
    /\ stream' \in Streams /\ wakes' \in {"none", "due", "missed"} /\ faults' \in 0..MaxFaults
    /\ stream'.phase = stream.phase /\ stream'.cursor = stream.cursor /\ stream'.key = stream.key
    /\ stream'.fetch \in {"logs", "apply"} =>
          stream'.fetch = stream.fetch /\ stream'.job = stream.job /\ stream'.page = stream.page

\* A fault is counted.
LEMMA FaultIs ==
    ASSUME UserTypes, Fault
    PROVE  faults' \in 0..MaxFaults
<1>1. MaxFaults \in Nat /\ faults \in 0..MaxFaults
  BY StreamAssumption DEF UserTypes
<1> QED
  BY <1>1 DEF Fault

\* A stream that is open, or reads for the first time.
LEMMA BusyIs ==
    ASSUME ServerTypes, Where
    PROVE  /\ wakes = "due" => stream.phase = "open"
           /\ stream.timer \/ stream.paused => stream.phase = "open"
           /\ stream.fetch # "no" => stream.phase # "none"
<1>1. stream.phase \in {"none", "opening", "open"}
  BY DEF ServerTypes, Streams
<1>2. stream.phase = "none" => ~stream.timer /\ ~stream.paused /\ stream.fetch = "no" /\ wakes = "none"
  BY DEF Where, NoStream
<1> QED
  BY <1>1, <1>2 DEF Where

\* Such a step keeps everything but what it says of the wake-ups.
LEMMA QuietKeeps ==
    ASSUME Types, SourceInv, Where, WireInv, RequestInv, ConsoleInv, ReadInv, KeyInv, DoneInv, Quiet
    PROVE  Types' /\ SourceInv' /\ WireInv' /\ RequestInv' /\ ConsoleInv' /\ ReadInv' /\ KeyInv' /\ DoneInv'
<1>1. /\ row' = row /\ retries' = retries /\ log' = log /\ late' = late /\ inserting' = inserting
      /\ stray' = stray /\ nextId' = nextId
      /\ wire' = wire /\ session' = session /\ request' = request /\ queued' = queued /\ view' = view
      /\ action' = action /\ clicks' = clicks
  BY DEF Quiet, source, browser, user
<1>2. /\ stream' \in Streams /\ wakes' \in {"none", "due", "missed"} /\ faults' \in 0..MaxFaults
      /\ stream'.phase = stream.phase /\ stream'.cursor = stream.cursor /\ stream'.key = stream.key
      /\ stream'.fetch \in {"logs", "apply"} =>
            stream'.fetch = stream.fetch /\ stream'.job = stream.job /\ stream'.page = stream.page
  BY DEF Quiet
<1>3. ServerTypes'
  BY <1>1, <1>2 DEF Types, ServerTypes
<1>4. Types'
  BY <1>1, <1>2, <1>3 DEF Types, SessionTypes, PageTypes, UserTypes
<1>5. SourceInv'
  BY <1>1 DEF SourceInv
<1>6. InTime' = InTime
  BY <1>1 DEF InTime
<1>7. WireInv'
  BY <1>1, <1>2, <1>6 DEF WireInv, WireOK
<1>8. RequestInv'
  BY <1>1, <1>6 DEF RequestInv
<1>9. ConsoleInv'
  <2>1. Console' = Console
    BY <1>1 DEF Console
  <2> QED
    BY <1>1, <1>6, <2>1 DEF ConsoleInv
<1>10. ReadInv'
  BY <1>1, <1>2, <1>6 DEF ReadInv
<1>11. KeyInv'
  BY <1>1, <1>2 DEF KeyInv
<1>12. DoneInv'
  BY <1>1, <1>2, <1>6 DEF DoneInv
<1> QED
  BY <1>4, <1>5, <1>7, <1>8, <1>9, <1>10, <1>11, <1>12

\* A requested refresh is such a step, and it will be heard.
LEMMA RequestRefreshIsQuiet ==
    ASSUME Types, NEW s \in Streams, stream' = RequestRefresh(s),
           s.phase = stream.phase, s.cursor = stream.cursor, s.key = stream.key,
           s.fetch = stream.fetch, s.job = stream.job, s.page = stream.page,
           wakes' \in {"none", "due", "missed"}, faults' \in 0..MaxFaults,
           UNCHANGED <<source, wire, browser, user>>, s.phase = "open"
    PROVE  /\ Quiet
           /\ stream'.phase = "open"
           /\ ~stream'.pending => stream'.fetch = "no"
           /\ ~stream'.paused /\ ~stream'.timer => stream'.fetch # "no"
<1>1. /\ RequestRefresh(s) \in Streams
      /\ \A f \in {"phase", "paused", "fetch", "job", "page", "cursor", "key"} :
            RequestRefresh(s)[f] = s[f]
      /\ IF s.paused \/ s.fetch # "no"
           THEN RequestRefresh(s).pending /\ RequestRefresh(s).timer = s.timer
           ELSE RequestRefresh(s).timer /\ RequestRefresh(s).pending = s.pending
  BY RefreshIs
<1>2. Quiet
  BY <1>1 DEF Quiet
<1> QED
  BY <1>1, <1>2

\* A stream with a refresh ahead of it misses nothing.
LEMMA RefreshedKeeps ==
    ASSUME Where, Quiet, stream'.phase = "open",
           ~stream'.pending => stream'.fetch = "no",
           ~stream'.paused /\ ~stream'.timer => stream'.fetch # "no"
    PROVE  Where' /\ Notices'
<1>1. /\ wire' = wire /\ session' = session /\ request' = request
      /\ stream'.phase = stream.phase /\ stream'.cursor = stream.cursor
  BY DEF Quiet, browser
<1>2. Where'
  BY <1>1 DEF Where
<1>3. Notices'
  BY DEF Notices
<1> QED
  BY <1>2, <1>3

\* The subscription calls back.
LEMMA NotifiedKeeps ==
    ASSUME Types, Where, Notified, UNCHANGED <<browser, user>>
    PROVE  Quiet /\ Where' /\ Notices'
<1>1. PICK s \in Streams : s = stream
  BY DEF Types, ServerTypes
<1>2. stream.phase = "open"
  BY BusyIs DEF Notified, Types
<1>3. faults' \in 0..MaxFaults
  BY DEF Notified, Types, UserTypes
<1>4. /\ Quiet /\ stream'.phase = "open"
      /\ ~stream'.pending => stream'.fetch = "no"
      /\ ~stream'.paused /\ ~stream'.timer => stream'.fetch # "no"
  BY <1>1, <1>2, <1>3, RequestRefreshIsQuiet DEF Notified
<1> QED
  BY <1>4, RefreshedKeeps

\* The notification is lost.
LEMMA LostKeeps ==
    ASSUME Types, Where, Notices, NotificationLost, UNCHANGED <<browser, user>>
    PROVE  Quiet /\ Where' /\ Notices'
<1>1. stream.phase = "open"
  BY BusyIs DEF NotificationLost, Types
<1>2. faults' \in 0..MaxFaults
  BY FaultIs DEF NotificationLost, Types
<1>3. Quiet
  BY <1>2 DEF Quiet, NotificationLost, Types, ServerTypes
<1>4. Where'
  BY <1>1 DEF Where, NotificationLost, browser
<1>5. Notices'
  BY DEF Notices, NotificationLost
<1> QED
  BY <1>3, <1>4, <1>5

\* The poll.
LEMMA PollKeeps ==
    ASSUME Types, Where, Poll, UNCHANGED <<browser, user>>
    PROVE  Quiet /\ Where' /\ Notices'
<1>1. PICK s \in Streams : s = stream
  BY DEF Types, ServerTypes
<1>2. stream.phase = "open"
  BY DEF Poll
<1>3. faults' \in 0..MaxFaults /\ wakes' \in {"none", "due", "missed"}
  BY DEF Poll, Types, UserTypes, ServerTypes
<1>4. /\ Quiet /\ stream'.phase = "open"
      /\ ~stream'.pending => stream'.fetch = "no"
      /\ ~stream'.paused /\ ~stream'.timer => stream'.fetch # "no"
  BY <1>1, <1>2, <1>3, RequestRefreshIsQuiet DEF Poll
<1> QED
  BY <1>4, RefreshedKeeps

\* The drain event.
LEMMA ResumeKeeps ==
    ASSUME Types, Where, Resume, UNCHANGED <<browser, user>>
    PROVE  Quiet /\ Where' /\ Notices'
<1>1. PICK r \in Streams : r = stream
  BY DEF Types, ServerTypes
<1>2. stream.phase = "open"
  BY BusyIs DEF Resume, Types
<1>3. PICK s : s = [r EXCEPT !.paused = FALSE]
  OBVIOUS
<1>4. /\ s \in Streams /\ s.phase = r.phase /\ s.cursor = r.cursor /\ s.key = r.key
      /\ s.fetch = r.fetch /\ s.job = r.job /\ s.page = r.page
  BY <1>3 DEF Streams
<1>5. faults' \in 0..MaxFaults /\ wakes' \in {"none", "due", "missed"} /\ stream' = RequestRefresh(s)
  BY <1>1, <1>3 DEF Resume, Types, UserTypes, ServerTypes
<1>6. UNCHANGED <<source, wire, browser, user>>
  BY DEF Resume
<1>7. /\ Quiet /\ stream'.phase = "open"
      /\ ~stream'.pending => stream'.fetch = "no"
      /\ ~stream'.paused /\ ~stream'.timer => stream'.fetch # "no"
  BY <1>1, <1>2, <1>4, <1>5, <1>6, RequestRefreshIsQuiet
<1> QED
  BY <1>7, RefreshedKeeps

\* The debounce timer.
LEMMA RefreshKeeps ==
    ASSUME Types, Where, Refresh, UNCHANGED <<browser, user>>
    PROVE  Quiet /\ Where' /\ Notices'
<1>1. PICK s \in Streams : s = stream
  BY DEF Types, ServerTypes
<1>2. stream.phase = "open"
  BY BusyIs DEF Refresh, Types
<1>3. faults' \in 0..MaxFaults /\ wakes' \in {"none", "due", "missed"}
  BY DEF Refresh, Types, UserTypes, ServerTypes
<1>4. stream' = IF s.paused THEN [s EXCEPT !.timer = FALSE, !.pending = TRUE]
                            ELSE [s EXCEPT !.timer = FALSE, !.pending = FALSE, !.fetch = "job"]
  BY <1>1 DEF Refresh
<1>5. /\ stream' \in Streams
      /\ stream'.phase = s.phase /\ stream'.cursor = s.cursor /\ stream'.key = s.key
      /\ stream'.job = s.job /\ stream'.page = s.page
      /\ IF s.paused THEN stream'.fetch = s.fetch /\ stream'.paused /\ stream'.pending
                     ELSE stream'.fetch = "job"
  BY <1>4 DEF Streams
<1>6. Quiet
  BY <1>1, <1>3, <1>5 DEF Quiet, Refresh
<1>7. Where'
  BY <1>1, <1>2, <1>5 DEF Where, Refresh, browser
<1>8. Notices'
  BY <1>5 DEF Notices
<1> QED
  BY <1>6, <1>7, <1>8

\* A query fails.
LEMMA ReadFailsKeeps ==
    ASSUME Types, Where, ReadFails, UNCHANGED <<browser, user>>
    PROVE  Quiet /\ Where' /\ Notices'
<1>1. PICK s \in Streams : s = stream
  BY DEF Types, ServerTypes
<1>2. stream.phase = "open"
  BY DEF ReadFails
<1>3. faults' \in 0..MaxFaults
  BY FaultIs DEF ReadFails, Types
<1>4. wakes' \in {"none", "due", "missed"} /\ wakes' # "none"
  BY DEF ReadFails, Types, ServerTypes
<1>5. stream' = [s EXCEPT !.fetch = "no", !.job = None]
  BY <1>1 DEF ReadFails
<1>6. /\ stream' \in Streams /\ stream'.fetch = "no"
      /\ stream'.phase = s.phase /\ stream'.cursor = s.cursor /\ stream'.key = s.key
  BY <1>5 DEF Streams
<1>7. Quiet
  BY <1>1, <1>3, <1>4, <1>6 DEF Quiet, ReadFails
<1>8. Where'
  BY <1>1, <1>2, <1>6 DEF Where, ReadFails, browser
<1>9. Notices'
  BY <1>4 DEF Notices
<1> QED
  BY <1>7, <1>8, <1>9

-----------------------------------------------------------------------------
(* The reads of a stream *)

\* The second query continues the stream's cursor.
LEMMA BacklogIs ==
    ASSUME SourceInv, NEW from \in Froms
    PROVE  /\ Backlog(from) \in SUBSET log
           /\ After(log, Backlog(from), from) /\ Gapless(InTime, Backlog(from), from)
           /\ Cardinality(Backlog(from)) < BatchSize =>
                \A l \in log : from = None \/ l > from => l \in Backlog(from)
<1>1. log \in SUBSET LogIds /\ InTime \in SUBSET log
  BY LogIsOfIds
<1>2. BatchSize \in Int
  BY StreamAssumption
<1>3. CASE from = None
  <2>1. Backlog(from) = LastOf(log, BatchSize)
    BY <1>3 DEF Backlog
  <2> QED
    BY <1>1, <1>2, <1>3, <2>1, LastPageIs
<1>4. CASE from # None
  <2>1. Backlog(from) = Page(log, from, BatchSize)
    BY <1>4 DEF Backlog, LogsAfter, Page
  <2> QED
    BY <1>1, <1>2, <2>1, PageIs
<1> QED
  BY <1>3, <1>4

\* A step of a read changes only what the read has returned.
Reads ==
    /\ UNCHANGED <<source, wire, wakes, faults, browser, user>>
    /\ stream' \in Streams /\ stream.phase # "none" /\ stream'.fetch # "no"
    /\ stream'.phase = stream.phase /\ stream'.cursor = stream.cursor /\ stream'.key = stream.key
    /\ stream'.timer = stream.timer /\ stream'.pending = stream.pending /\ stream'.paused = stream.paused
    /\ stream'.job \in Rows

\* A query that answers keeps what it does not return.
LEMMA ReadsKeep ==
    ASSUME Types, SourceInv, Where, WireInv, RequestInv, ConsoleInv, KeyInv, DoneInv, Reads
    PROVE  Types' /\ SourceInv' /\ Where' /\ RequestInv' /\ ConsoleInv' /\ KeyInv' /\ DoneInv'
<1>1. /\ row' = row /\ retries' = retries /\ log' = log /\ late' = late /\ inserting' = inserting
      /\ stray' = stray /\ nextId' = nextId
      /\ wire' = wire /\ session' = session /\ request' = request /\ queued' = queued /\ view' = view
      /\ action' = action /\ clicks' = clicks /\ wakes' = wakes /\ faults' = faults
  BY DEF Reads, source, browser, user
<1>2. ServerTypes'
  BY <1>1 DEF Reads, Types, ServerTypes
<1>3. Types'
  BY <1>1, <1>2 DEF Types, SessionTypes, PageTypes, UserTypes
<1>4. SourceInv'
  BY <1>1 DEF SourceInv
<1>5. Where'
  BY <1>1 DEF Where, Reads
<1>6. InTime' = InTime
  BY <1>1 DEF InTime
<1>7. RequestInv'
  BY <1>1, <1>6 DEF RequestInv
<1>8. ConsoleInv'
  <2>1. Console' = Console
    BY <1>1 DEF Console
  <2> QED
    BY <1>1, <1>6, <2>1 DEF ConsoleInv
<1>9. KeyInv'
  BY <1>1 DEF KeyInv, Reads
<1>10. DoneInv'
  BY <1>1, <1>6 DEF DoneInv, Reads
<1> QED
  BY <1>3, <1>4, <1>5, <1>7, <1>8, <1>9, <1>10

\* The first query returns the row as it is.
LEMMA ReadJobKeeps ==
    ASSUME IInv, ReadJob, UNCHANGED <<browser, user>>
    PROVE  IInv'
<1>1. PICK s \in Streams : s = stream
  BY DEF IInv, Types, ServerTypes
<1>2. stream' = [s EXCEPT !.fetch = "logs", !.job = row]
  BY <1>1 DEF ReadJob
<1>3. row \in Rows /\ stream.phase # "none"
  BY BusyIs DEF ReadJob, IInv, SourceInv, Types
<1>4. /\ stream' \in Streams /\ stream'.fetch = "logs" /\ stream'.job = row
      /\ stream'.phase = s.phase /\ stream'.cursor = s.cursor /\ stream'.key = s.key
      /\ stream'.timer = s.timer /\ stream'.pending = s.pending /\ stream'.paused = s.paused
  BY <1>2, <1>3 DEF Streams
<1>5. Reads
  BY <1>1, <1>3, <1>4 DEF Reads, ReadJob
<1>6. row' = row /\ wire' = wire /\ session' = session /\ log' = log /\ late' = late /\ retries' = retries
  BY DEF ReadJob, source, browser
<1>7. Notices'
  BY <1>4, <1>6 DEF Notices
<1>8. WireInv'
  BY <1>1, <1>4, <1>6 DEF WireInv, WireOK, IInv, InTime
<1>9. ReadInv'
  BY <1>4, <1>6 DEF ReadInv
<1> QED
  BY <1>5, <1>7, <1>8, <1>9, ReadsKeep DEF IInv

\* The second query, after a row that ended, sees the log to its end.
LEMMA ReadLogsKeeps ==
    ASSUME IInv, ReadLogs, UNCHANGED <<browser, user>>
    PROVE  IInv'
<1>1. PICK s \in Streams : s = stream
  BY DEF IInv, Types, ServerTypes
<1>2. PICK p : p = Backlog(stream.cursor)
  OBVIOUS
<1>3. stream' = [s EXCEPT !.fetch = "apply", !.page = p]
  BY <1>1, <1>2 DEF ReadLogs
<1>4. stream.phase # "none" /\ stream.job \in Rows
  BY BusyIs DEF ReadLogs, IInv, Types, ServerTypes
<1>5. log \in SUBSET LogIds /\ InTime \in SUBSET log
  BY LogIsOfIds DEF IInv
<1>6. /\ p \in SUBSET log /\ After(log, p, s.cursor) /\ Gapless(InTime, p, s.cursor)
      /\ Cardinality(p) < BatchSize => \A l \in log : s.cursor = None \/ l > s.cursor => l \in p
  BY <1>1, <1>2, BacklogIs DEF IInv, Streams
<1>7. /\ stream' \in Streams /\ stream'.fetch = "apply" /\ stream'.job = s.job /\ stream'.page = p
      /\ stream'.phase = s.phase /\ stream'.cursor = s.cursor /\ stream'.key = s.key
      /\ stream'.timer = s.timer /\ stream'.pending = s.pending /\ stream'.paused = s.paused
  <2>1. p \in SUBSET LogIds
    BY <1>5, <1>6
  <2> QED
    BY <1>3, <2>1 DEF Streams
<1>8. Reads
  BY <1>1, <1>4, <1>7 DEF Reads, ReadLogs
<1>9. /\ row' = row /\ wire' = wire /\ session' = session /\ log' = log /\ late' = late
      /\ retries' = retries /\ wakes' = wakes
  BY DEF ReadLogs, source, browser
<1>10. InTime' = InTime
  BY <1>9 DEF InTime
<1>11. Notices'
  <2>1. Backlog(stream.cursor)' = Backlog(stream.cursor)
    BY <1>1, <1>7, <1>9 DEF Backlog, LogsAfter
  <2>2. stream.fetch = "logs"
    BY DEF ReadLogs
  <2>3. wakes = "none" /\ ~stream.pending => stream.job = row
    BY <1>4, <2>2 DEF IInv, Notices
  <2> QED
    BY <1>1, <1>2, <1>7, <1>9, <2>1, <2>3 DEF Notices
<1>12. WireInv'
  BY <1>1, <1>6, <1>7, <1>9, <1>10 DEF WireInv, WireOK, IInv
<1>13. ReadInv'
  <2>1. stream.fetch = "logs"
    BY DEF ReadLogs
  <2>2. retries = 0 /\ Terminal(s.job) => s.job = row
    BY <1>1, <2>1 DEF IInv, ReadInv
  <2> QED
    BY <1>5, <1>6, <1>7, <1>9, <1>10, <2>2 DEF ReadInv
<1> QED
  BY <1>8, <1>11, <1>12, <1>13, ReadsKeep DEF IInv

-----------------------------------------------------------------------------
(* A keep-alive, and the end of a stream *)

\* A chunk that is neither a line nor a snapshot, behind others.
LEMMA MarkIs ==
    ASSUME NEW w \in Seq(Chunks), NEW c \in {<<"ping">>, <<"end">>}
    PROVE  /\ Append(w, c) \in Seq(Chunks)
           /\ Ids(Append(w, c)) = Ids(w) /\ (Ascends(w) => Ascends(Append(w, c)))
           /\ Says(Append(w, c), <<"done">>) => Says(w, <<"done">>)
           /\ \A q, v, x : Latest(w, q, v, x) => Latest(Append(w, c), q, v, x)
<1>1. PICK m : m = <<c>>
  OBVIOUS
<1>2. c \in Chunks
  BY DEF Chunks
<1>3. m \in Seq(Chunks) /\ Append(w, c) = w \o m
  BY <1>1, <1>2, AppendIsConcat
<1>4. c # <<"done">> /\ (\A l : c # <<"log", l>>) /\ (\A r : c # <<"snapshot", r>>)
  <2>1. Len(c) = 1 /\ c[1] \in {"ping", "end"}
    OBVIOUS
  <2>2. <<"done">>[1] = "done" /\ (\A l : Len(<<"log", l>>) = 2) /\ (\A r : Len(<<"snapshot", r>>) = 2)
    OBVIOUS
  <2> QED
    BY <2>1, <2>2
<1>5. ~Says(m, <<"done">>) /\ Ids(m) = {} /\ Ascends(m) /\ Silent(m)
  <2>1. /\ \A d : Says(m, d) <=> d = c
        /\ Ids(m) = {l \in LogIds : c = <<"log", l>>}
        /\ Ascends(m)
        /\ Silent(m) <=> \A r \in Rows : c # <<"snapshot", r>>
    BY <1>1, SingleIs
  <2> QED
    BY <1>4, <2>1
<1>6. Ids(w \o m) = Ids(w)
  <2>1. Ids(w \o m) = Ids(w) \cup Ids(m)
    BY <1>3, IdsConcat
  <2> QED
    BY <1>5, <2>1
<1>7. Ascends(w) => Ascends(w \o m)
  BY <1>3, <1>5, AscendsConcat
<1>8. Says(w \o m, <<"done">>) => Says(w, <<"done">>)
  BY <1>3, <1>5, SaysConcat
<1>9. \A x : Closes(w, x) => Closes(w \o m, x)
  BY <1>3, <1>5, ClosesConcat
<1>10. Silent(w) => Silent(w \o m)
  <2>1. \A r \in Rows : Says(w \o m, <<"snapshot", r>>) => Says(w, <<"snapshot", r>>) \/ Says(m, <<"snapshot", r>>)
    BY <1>3, SaysConcat
  <2> QED
    BY <1>5, <2>1 DEF Silent
<1>11. w \o m \in Seq(Chunks)
  BY <1>3, ConcatProperties
<1> QED
  BY <1>3, <1>6, <1>7, <1>8, <1>9, <1>10, <1>11 DEF Latest

\* A stream that is closed.
LEMMA NoStreamIs ==
    /\ NoStream \in Streams /\ NoStream.phase = "none" /\ NoStream.fetch = "no"
    /\ NoStream.cursor = None /\ NoStream.key = None /\ ~NoStream.timer /\ ~NoStream.paused
    /\ ~NoStream.pending
  BY DEF NoStream, Streams, Froms

\* The stream marks its wire and may end.
Marks(c) ==
    /\ UNCHANGED <<source, browser, user>>
    /\ faults' \in 0..MaxFaults /\ stream.phase = "open" /\ wire' = Append(wire, c)
    /\ \/ /\ stream' \in Streams /\ stream'.phase = stream.phase /\ stream'.cursor = stream.cursor
          /\ stream'.key = stream.key /\ stream'.fetch = stream.fetch /\ stream'.job = stream.job
          /\ stream'.page = stream.page /\ stream'.timer = stream.timer
          /\ stream'.pending = stream.pending /\ stream'.paused \in BOOLEAN /\ ~stream.paused
          /\ wakes' = wakes
       \/ stream' = NoStream /\ wakes' = "none"

\* A chunk of that kind keeps the invariant.
LEMMA MarksKeeps ==
    ASSUME IInv, NEW c \in {<<"ping">>, <<"end">>}, Marks(c)
    PROVE  IInv'
<1>1. /\ row' = row /\ retries' = retries /\ log' = log /\ late' = late /\ inserting' = inserting
      /\ stray' = stray /\ nextId' = nextId
      /\ session' = session /\ request' = request /\ queued' = queued /\ view' = view
      /\ action' = action /\ clicks' = clicks
  BY DEF Marks, source, browser, user
<1>2. faults' \in 0..MaxFaults /\ stream.phase = "open" /\ wire' = Append(wire, c) /\ wire \in Seq(Chunks)
  BY DEF Marks, IInv, Types, ServerTypes
<1>3. /\ wire' \in Seq(Chunks)
      /\ Ids(wire') = Ids(wire) /\ (Ascends(wire) => Ascends(wire'))
      /\ Says(wire', <<"done">>) => Says(wire, <<"done">>)
      /\ \A q, v, x : Latest(wire, q, v, x) => Latest(wire', q, v, x)
  BY <1>2, MarkIs
<1>4. InTime' = InTime
  BY <1>1 DEF InTime
<1>5. \/ /\ stream' \in Streams /\ stream'.phase = stream.phase /\ stream'.cursor = stream.cursor
         /\ stream'.key = stream.key /\ stream'.fetch = stream.fetch /\ stream'.job = stream.job
         /\ stream'.page = stream.page /\ stream'.timer = stream.timer
         /\ stream'.pending = stream.pending /\ ~stream.paused
         /\ wakes' = wakes
      \/ stream' = NoStream /\ wakes' = "none"
  BY DEF Marks
<1>6. Types'
  <2>1. ServerTypes'
    BY <1>3, <1>5, NoStreamIs DEF IInv, Types, ServerTypes
  <2> QED
    BY <1>1, <1>2, <2>1 DEF IInv, Types, SessionTypes, PageTypes, UserTypes
<1>7. SourceInv'
  BY <1>1 DEF IInv, SourceInv
<1>8. Where'
  <2>1. session.pc = "open"
    BY <1>2 DEF IInv, Where
  <2> QED
    BY <1>1, <1>2, <1>5, <2>1, NoStreamIs DEF IInv, Where
<1>9. Notices'
  BY <1>1, <1>2, <1>5, NoStreamIs DEF IInv, Notices, Backlog, LogsAfter
<1>10. WireInv'
  <2>1. /\ stream'.phase # "none" => stream.phase # "none" /\ stream'.cursor = stream.cursor
        /\ stream'.fetch = "apply" => /\ stream.fetch = "apply" /\ stream'.page = stream.page
                                      /\ stream'.cursor = stream.cursor
    BY <1>2, <1>5, NoStreamIs
  <2> QED
    BY <1>1, <1>3, <1>4, <2>1 DEF IInv, WireInv, WireOK
<1>11. RequestInv'
  BY <1>1, <1>4 DEF IInv, RequestInv
<1>12. ConsoleInv'
  <2>1. Console' = Console
    BY <1>1 DEF Console
  <2> QED
    BY <1>1, <1>4, <2>1 DEF IInv, ConsoleInv
<1>13. ReadInv'
  BY <1>1, <1>4, <1>5, NoStreamIs DEF IInv, ReadInv
<1>14. KeyInv'
  BY <1>1, <1>3, <1>5, NoStreamIs DEF IInv, KeyInv
<1>15. DoneInv'
  BY <1>2, <1>3 DEF IInv, DoneInv
<1> QED
  BY <1>6, <1>7, <1>8, <1>9, <1>10, <1>11, <1>12, <1>13, <1>14, <1>15 DEF IInv

\* A keep-alive.
LEMMA PingKeeps ==
    ASSUME IInv, Ping, UNCHANGED <<browser, user>>
    PROVE  IInv'
<1>1. PICK s \in Streams : s = stream
  BY DEF IInv, Types, ServerTypes
<1>2. PICK b \in BOOLEAN : b = Full(wire')
  <2>1. Full(wire') \in BOOLEAN
    BY DEF Full
  <2> QED
    BY <2>1, Zenon
<1>3. stream' = [s EXCEPT !.paused = b]
  BY <1>1, <1>2 DEF Ping
<1>4. /\ stream' \in Streams /\ stream'.phase = s.phase /\ stream'.cursor = s.cursor
      /\ stream'.key = s.key /\ stream'.fetch = s.fetch /\ stream'.job = s.job
      /\ stream'.page = s.page /\ stream'.timer = s.timer
      /\ stream'.pending = s.pending /\ stream'.paused \in BOOLEAN
  BY <1>3 DEF Streams
<1>5. faults' \in 0..MaxFaults
  BY FaultIs DEF Ping, IInv, Types
<1>6. Marks(<<"ping">>)
  BY <1>1, <1>4, <1>5 DEF Marks, Ping
<1> QED
  BY <1>6, MarksKeeps

\* The timers and preClose end the stream.
LEMMA FinishStreamKeeps ==
    ASSUME IInv, FinishStream, UNCHANGED <<browser, user>>
    PROVE  IInv'
<1>1. faults' \in 0..MaxFaults
  BY FaultIs DEF FinishStream, IInv, Types
<1>2. Marks(<<"end">>)
  BY <1>1 DEF Marks, FinishStream
<1> QED
  BY <1>2, MarksKeeps

-----------------------------------------------------------------------------
(* Steps of the stream that write *)

Farewell == << <<"done">>, <<"end">> >>

\* The two chunks that end a stream.
LEMMA FarewellIs ==
    /\ Farewell \in Seq(Chunks) /\ Ids(Farewell) = {} /\ Ascends(Farewell) /\ Silent(Farewell)
    /\ Says(Farewell, <<"done">>)
<1>1. PICK f : f = Farewell
  OBVIOUS
<1>2. /\ Len(f) = 2 /\ f[1] = <<"done">> /\ f[2] = <<"end">>
      /\ f \in Seq({<<"done">>, <<"end">>})
  BY <1>1 DEF Farewell
<1>3. \A i \in 1..Len(f) : f[i] = <<"done">> \/ f[i] = <<"end">>
  <2>1. \A i \in 1..2 : i = 1 \/ i = 2
    OBVIOUS
  <2> QED
    BY <1>2, <2>1
<1>4. ASSUME NEW c, Says(f, c) PROVE /\ \A l : c # <<"log", l>>
                                     /\ \A r : c # <<"snapshot", r>>
  <2>1. c = <<"done">> \/ c = <<"end">>
    BY <1>3, <1>4 DEF Says
  <2>2. Len(c) = 1
    BY <2>1
  <2>3. (\A l : Len(<<"log", l>>) = 2) /\ (\A r : Len(<<"snapshot", r>>) = 2)
    OBVIOUS
  <2> QED
    BY <2>2, <2>3
<1>5. Says(f, <<"done">>)
  <2>1. 1 \in 1..Len(f)
    BY <1>2
  <2> QED
    BY <1>2, <2>1 DEF Says
<1>6. f \in Seq(Chunks)
  <2>1. {<<"done">>, <<"end">>} \subseteq Chunks
    BY DEF Chunks
  <2> QED
    BY <1>2, <2>1, SeqMonotonic
<1>7. Ids(f) = {}
  BY <1>4 DEF Ids
<1>8. Silent(f)
  BY <1>4 DEF Silent
<1>9. Ascends(f)
  <2>1. \A i \in 1..Len(f) : \A a : f[i] # <<"log", a>>
    BY <1>4 DEF Says
  <2> QED
    BY <2>1 DEF Ascends
<1> QED
  BY <1>1, <1>5, <1>6, <1>7, <1>8, <1>9

\* Chunks that are no snapshot, after others.
LEMMA AddedIs ==
    ASSUME NEW u \in Seq(Chunks), NEW v \in Seq(Chunks), Silent(v)
    PROVE  /\ u \o v \in Seq(Chunks) /\ Ids(u \o v) = Ids(u) \cup Ids(v)
           /\ Ascends(u) /\ Ascends(v) /\ (\A a \in Ids(u) : \A b \in Ids(v) : a < b) => Ascends(u \o v)
           /\ \A c : Says(u \o v, c) <=> Says(u, c) \/ Says(v, c)
           /\ \A x : Closes(u, x) => Closes(u \o v, x)
           /\ \A q, p, x : Latest(u, q, p, x) => Latest(u \o v, q, p, x)
<1>1. \A c : Says(u \o v, c) <=> Says(u, c) \/ Says(v, c)
  BY SaysConcat
<1>2. Ids(u \o v) = Ids(u) \cup Ids(v)
  BY IdsConcat
<1>3. Ascends(u \o v) <=> /\ Ascends(u) /\ Ascends(v)
                          /\ \A a \in Ids(u) : \A b \in Ids(v) : a < b
  BY AscendsConcat
<1>4. \A x : Closes(u, x) => Closes(u \o v, x)
  BY ClosesConcat
<1>5. Silent(u) => Silent(u \o v)
  BY <1>1 DEF Silent
<1>6. u \o v \in Seq(Chunks)
  BY ConcatProperties
<1> QED
  BY <1>1, <1>2, <1>3, <1>4, <1>5, <1>6 DEF Latest

\* What a snapshot, or none, adds.
LEMMA SnapshotIs ==
    ASSUME NEW w \in Seq(Chunks), NEW job \in Rows,
           NEW snap, snap = << <<"snapshot", job>> >>
    PROVE  /\ w \o snap \in Seq(Chunks) /\ Ids(w \o snap) = Ids(w)
           /\ Ascends(w) => Ascends(w \o snap)
           /\ Says(w \o snap, <<"done">>) <=> Says(w, <<"done">>)
           /\ Closes(w \o snap, job)
<1>1. PICK c \in Chunks : c = <<"snapshot", job>>
  BY DEF Chunks
<1>2. /\ \A l : <<"snapshot", job>> # <<"log", l>>
      /\ <<"snapshot", job>> # <<"done">>
  <2>1. \A l : <<"log", l>>[1] = "log"
    OBVIOUS
  <2>2. <<"snapshot", job>>[1] = "snapshot" /\ <<"done">>[1] = "done"
    OBVIOUS
  <2> QED
    BY <2>1, <2>2
<1>3. PICK m \in Seq(Chunks) : m = <<c>>
  <2>1. <<c>> \in Seq(Chunks)
    OBVIOUS
  <2> QED
    BY <2>1, Zenon
<1>4. /\ \A d : Says(m, d) <=> d = c
      /\ Ids(m) = {l \in LogIds : c = <<"log", l>>}
      /\ Ascends(m)
      /\ \A x : Closes(m, x) <=> c = <<"snapshot", x>>
  BY <1>3, SingleIs
<1>5. Ids(m) = {} /\ ~Says(m, <<"done">>) /\ Closes(m, job)
  BY <1>1, <1>2, <1>4
<1>6. Ids(w \o m) = Ids(w) \cup Ids(m)
  BY IdsConcat
<1>7. Ascends(w \o m) <=> /\ Ascends(w) /\ Ascends(m)
                             /\ \A a \in Ids(w) : \A b \in Ids(m) : a < b
  BY AscendsConcat
<1>8. \A d : Says(w \o m, d) <=> Says(w, d) \/ Says(m, d)
  BY SaysConcat
<1>9. Closes(w \o m, job)
  BY <1>5, ClosesConcat
<1>10. w \o m \in Seq(Chunks)
  BY ConcatProperties
<1> QED
  BY <1>1, <1>3, <1>4, <1>5, <1>6, <1>7, <1>8, <1>9, <1>10

\* What is on the wire then.
Continues(w, job, written, snap, r) ==
    /\ r.wire \in Seq(Chunks) /\ Ids(r.wire) = Ids(w) \cup written
    /\ Ascends(w) /\ (\A a \in Ids(w) : \A b \in written : a < b) => Ascends(r.wire)
    /\ r.stream # NoStream => (Says(r.wire, <<"done">>) <=> Says(w, <<"done">>))
    /\ snap # <<>> => \A q, p : Latest(r.wire, q, p, job)
    /\ snap = <<>> => \A q, p, x : Latest(w, q, p, x) => Latest(r.wire, q, p, x)

\* What apply() adds to a wire.
LEMMA WrittenIs ==
    ASSUME NEW s, NEW w \in Seq(Chunks), NEW job \in Rows, NEW page \in SUBSET LogIds,
           NEW written \in SUBSET page, NEW snap, NEW key, NEW r,
           Wrote(s, w, job, page, r, written, snap, key)
    PROVE  Continues(w, job, written, snap, r)
<1>1. PICK u : u = w \o snap
  OBVIOUS
<1>2. /\ u \in Seq(Chunks) /\ Ids(u) = Ids(w) /\ (Ascends(w) => Ascends(u))
      /\ Says(u, <<"done">>) <=> Says(w, <<"done">>)
      /\ snap # <<>> => Closes(u, job)
      /\ snap = <<>> => u = w
  <2>1. CASE snap = <<>>
    <3>1. u = w
      BY <1>1, <2>1, ConcatEmptySeq
    <3> QED
      BY <2>1, <3>1
  <2>2. CASE snap = << <<"snapshot", job>> >>
    <3>1. snap # <<>>
      BY <2>2
    <3> QED
      BY <1>1, <2>2, <3>1, SnapshotIs
  <2> QED
    BY <2>1, <2>2 DEF Wrote
<1>3. PICK c \in Seq(Chunks) : c = LogChunks(written)
  BY LogChunksIs
<1>4. /\ Ids(c) = written /\ Ascends(c) /\ Silent(c)
      /\ \A d : Says(c, d) => \E l \in written : d = <<"log", l>>
  BY <1>3, LogChunksIs
<1>5. ~Says(c, <<"done">>)
  <2> SUFFICES ASSUME NEW l \in written, <<"done">> = <<"log", l>> PROVE FALSE
    BY <1>4
  <2>1. Len(<<"done">>) = 1 /\ Len(<<"log", l>>) = 2
    OBVIOUS
  <2> QED
    BY <2>1
<1>6. PICK v : v = u \o c
  OBVIOUS
<1>7. /\ v \in Seq(Chunks) /\ Ids(v) = Ids(u) \cup Ids(c)
      /\ Ascends(u) /\ Ascends(c) /\ (\A a \in Ids(u) : \A b \in Ids(c) : a < b) => Ascends(v)
      /\ \A d : Says(v, d) <=> Says(u, d) \/ Says(c, d)
      /\ \A x : Closes(u, x) => Closes(v, x)
      /\ \A q, p, x : Latest(u, q, p, x) => Latest(v, q, p, x)
  BY <1>2, <1>4, <1>6, AddedIs
<1>8. /\ Ids(v) = Ids(w) \cup written
      /\ Ascends(w) /\ (\A a \in Ids(w) : \A b \in written : a < b) => Ascends(v)
      /\ Says(v, <<"done">>) <=> Says(w, <<"done">>)
      /\ snap # <<>> => Closes(v, job)
      /\ snap = <<>> => \A q, p, x : Latest(w, q, p, x) => Latest(v, q, p, x)
  BY <1>2, <1>4, <1>5, <1>7
<1>9. CASE r.wire = v
  BY <1>7, <1>8, <1>9 DEF Latest, Continues
<1>10. CASE r.wire = v \o Farewell /\ r.stream = NoStream
  <2>1. /\ r.wire \in Seq(Chunks) /\ Ids(r.wire) = Ids(v) \cup Ids(Farewell)
        /\ Ascends(v) /\ Ascends(Farewell) /\ (\A a \in Ids(v) : \A b \in Ids(Farewell) : a < b)
             => Ascends(r.wire)
        /\ \A x : Closes(v, x) => Closes(r.wire, x)
        /\ \A q, p, x : Latest(v, q, p, x) => Latest(r.wire, q, p, x)
    BY <1>7, <1>10, FarewellIs, AddedIs
  <2>2. Ids(r.wire) = Ids(v) /\ (Ascends(v) => Ascends(r.wire))
    BY <2>1, FarewellIs
  <2> QED
    BY <1>8, <1>10, <2>1, <2>2 DEF Latest, Continues
<1> QED
  BY <1>1, <1>3, <1>6, <1>9, <1>10 DEF Wrote, Farewell

\* The lines on the wire and the first lines of the page that was read: ids is
\* what is on the wire, from the last line received.
LEMMA PageFollows ==
    ASSUME NEW L \in SUBSET (LogIds \ {0}), NEW T \in SUBSET L, NEW ids, NEW last \in Froms, NEW cursor \in Froms,
           After(L, ids, last), Gapless(T, ids, last), CursorOK(ids, last, cursor),
           NEW page, After(L, page, cursor), Gapless(T, page, cursor),
           NEW written \in SUBSET page, \A x \in written : \A y \in page : y <= x => y \in written
    PROVE  /\ \A a \in ids : \A b \in written : a < b
           /\ After(L, ids \cup written, last)
           /\ Gapless(T, ids \cup written, last)
           /\ written = page /\ (\A l \in T : cursor = None \/ l > cursor => l \in page) =>
                Complete(T, ids \cup written, last)
<1>1. ids \in SUBSET LogIds /\ page \in SUBSET LogIds /\ written \in SUBSET LogIds
  BY DEF After
<1>2. \A x \in ids \cup page : x \in Nat \ {0} /\ x \in L
  BY StreamAssumption DEF After, LogIds
<1>3. T \in SUBSET LogIds /\ T \in SUBSET (LogIds \ {0})
  OBVIOUS
<1>4. Gapless(T, written, cursor)
  BY <1>1, <1>3, GaplessPrefix
<1>5. (\A l \in T : cursor = None \/ l > cursor => l \in page) => Complete(T, page, cursor)
  <2> SUFFICES ASSUME \A l \in T : cursor = None \/ l > cursor => l \in page,
                      NEW l \in T, Above(l, cursor, page)
               PROVE  l \in page
    BY DEF Complete
  <2>1. cursor # None => l > cursor
    BY DEF Above
  <2> QED
    BY <2>1
<1>6. CASE ids = {}
  <2>1. cursor = last \/ (last = None /\ cursor = 0)
    BY <1>6 DEF CursorOK
  <2>2. After(L, written, last)
    BY <2>1 DEF After
  <2>3. Gapless(T, written, last)
    BY <1>3, <1>4, <2>1, GaplessFromStart
  <2>4. Complete(T, page, cursor) => Complete(T, page, last)
    BY <1>3, <2>1, GaplessFromStart
  <2>5. ids \cup written = written
    BY <1>6
  <2> QED
    BY <1>5, <1>6, <2>2, <2>3, <2>4, <2>5
<1>7. CASE ids # {}
  <2>1. cursor \in ids /\ \A x \in ids : x <= cursor
    BY <1>7 DEF CursorOK
  <2>2. cursor # None /\ cursor \in Nat
    BY <1>2, <2>1, StreamAssumption
  <2>3. \A b \in written : b > cursor
    BY <2>2 DEF After
  <2>4. ASSUME NEW a \in ids, NEW b \in written PROVE a < b
    <3>1. a <= cursor /\ b > cursor /\ a \in Nat /\ b \in Nat
      BY <1>2, <2>1, <2>3
    <3> QED
      BY <2>2, <3>1
  <2>5. After(L, ids \cup written, last)
    <3> SUFFICES ASSUME last # None, NEW b \in written PROVE b > last
      BY DEF After
    <3>1. cursor > last /\ b > cursor /\ b \in Nat
      BY <1>2, <2>1, <2>3 DEF After
    <3>2. last \in Nat
      BY DEF Froms, LogIds
    <3> QED
      BY <2>2, <3>1, <3>2
  <2>6. Gapless(T, ids \cup written, last)
    BY <1>1, <1>3, <1>4, <2>1, <2>3, GaplessUnion
  <2>7. written = page /\ Complete(T, page, cursor) => Complete(T, ids \cup written, last)
    BY <1>1, <1>3, <2>1, <2>3, CompleteUnion
  <2> QED
    BY <1>5, <2>4, <2>5, <2>6, <2>7
<1> QED
  BY <1>6, <1>7

\* The cursor stays the last line on the wire, or the last one received.
LEMMA CursorFollows ==
    ASSUME NEW s \in Streams, NEW ids \in SUBSET LogIds, NEW last \in Froms, CursorOK(ids, last, s.cursor),
           NEW page \in SUBSET LogIds, NEW written \in SUBSET page,
           \A a \in ids : \A b \in written : a < b
    PROVE  CursorOK(ids \cup written, last, NextCursor(s, written, page))
<1>1. PICK n \in LogIds : n = NextCursor(s, written, page)
  BY CursorIs
<1>2. written # {} => n \in written /\ \A x \in written : x <= n
  BY <1>1, CursorIs
<1>3. written = {} => n = IF s.cursor = None THEN 0 ELSE s.cursor
  BY <1>1, CursorIs
<1>4. \A x \in LogIds : x \in Nat /\ x # None
  BY StreamAssumption DEF LogIds
<1>5. CASE written # {}
  <2>1. n \in ids \cup written
    BY <1>2, <1>5
  <2>2. ASSUME NEW x \in ids \cup written PROVE x <= n
    <3>1. CASE x \in written
      BY <1>2, <1>5, <3>1
    <3>2. CASE x \in ids
      <4>1. x < n /\ x \in Nat /\ n \in Nat
        BY <1>2, <1>4, <1>5, <3>2
      <4> QED
        BY <4>1
    <3> QED
      BY <3>1, <3>2
  <2> QED
    BY <1>1, <2>1, <2>2 DEF CursorOK
<1>6. CASE written = {}
  <2>1. ids \cup written = ids
    BY <1>6
  <2>2. CASE ids = {}
    <3>1. s.cursor = last \/ (last = None /\ s.cursor = 0)
      BY <2>2 DEF CursorOK
    <3>2. CASE s.cursor = None
      BY <1>1, <1>3, <1>4, <1>6, <2>1, <2>2, <3>1, <3>2 DEF CursorOK
    <3>3. CASE s.cursor # None
      BY <1>1, <1>3, <1>6, <2>1, <2>2, <3>1, <3>3 DEF CursorOK
    <3> QED
      BY <3>2, <3>3
  <2>3. CASE ids # {}
    <3>1. s.cursor \in ids /\ \A x \in ids : x <= s.cursor
      BY <2>3 DEF CursorOK
    <3>2. n = s.cursor
      BY <1>3, <1>4, <1>6, <3>1
    <3> QED
      BY <1>1, <2>1, <2>3, <3>1, <3>2 DEF CursorOK
  <2> QED
    BY <2>2, <2>3
<1> QED
  BY <1>5, <1>6

\* A short page that was written is the rest of the log.
LEMMA AllIsSent ==
    ASSUME NEW s \in Streams, NEW L \in SUBSET LogIds, NEW page \in SUBSET L, After(L, page, s.cursor),
           \A l \in L : s.cursor = None \/ l > s.cursor => l \in page
    PROVE  \A l \in L : l <= NextCursor(s, page, page)
<1>1. PICK n \in LogIds : n = NextCursor(s, page, page)
  BY CursorIs
<1>2. page # {} => n \in page /\ \A x \in page : x <= n
  BY <1>1, CursorIs
<1>3. page = {} => n = IF s.cursor = None THEN 0 ELSE s.cursor
  BY <1>1, CursorIs
<1>4. \A x \in LogIds : x \in Nat
  BY DEF LogIds
<1>5. s.cursor \in Froms
  BY DEF Streams
<1>6. s.cursor # None => s.cursor \in Nat
  BY <1>4, <1>5 DEF Froms
<1>7. ASSUME NEW l \in L PROVE l <= n
  <2>1. CASE l \in page
    BY <1>2, <2>1
  <2>2. CASE l \notin page
    <3>1. s.cursor # None /\ ~(l > s.cursor) /\ l \in Nat /\ n \in Nat
      BY <1>4, <2>2
    <3>2. l <= s.cursor
      BY <1>6, <3>1
    <3>3. CASE page = {}
      BY <1>3, <3>1, <3>2, <3>3
    <3>4. CASE page # {}
      <4>1. n > s.cursor
        BY <1>2, <3>1, <3>4 DEF After
      <4> QED
        BY <1>6, <3>1, <3>2, <4>1
    <3> QED
      BY <3>3, <3>4
  <2> QED
    BY <2>1, <2>2
<1> QED
  BY <1>1, <1>7

\* s is the stream up to its pause, w what is on the wire and a retry hint.
LEMMA BecomesKeeps ==
    ASSUME IInv, stream.phase # "none", stream.fetch = "apply",
           NEW s \in Streams, s.cursor = stream.cursor, s.key = stream.key, s.pending = stream.pending,
           NEW w \in Seq(Chunks), Ids(w) = Ids(wire), Ascends(w),
           Says(w, <<"done">>) => Says(wire, <<"done">>),
           \A q, v, x : Latest(wire, q, v, x) => Latest(w, q, v, x),
           Becomes(Apply(s, w, stream.job, stream.page)),
           UNCHANGED <<source, faults, browser, user>>
    PROVE  IInv'
<1>1. /\ row' = row /\ retries' = retries /\ log' = log /\ late' = late /\ inserting' = inserting
      /\ stray' = stray /\ nextId' = nextId
      /\ session' = session /\ request' = request /\ queued' = queued /\ view' = view
      /\ action' = action /\ clicks' = clicks /\ faults' = faults
  BY DEF source, browser, user
<1>2. PICK job \in Rows, page \in SUBSET LogIds : job = stream.job /\ page = stream.page
  <2>1. stream.job \in Rows /\ stream.page \in SUBSET LogIds
    BY DEF IInv, Types, ServerTypes, Streams
  <2> QED
    BY <2>1, Zenon
<1>3. PICK r : r = Apply(s, w, job, page)
  OBVIOUS
<1>4. PICK written \in SUBSET page, snap \in Seq(Chunks), key \in {None} \cup Rows :
         Wrote(s, w, job, page, r, written, snap, key)
  <2>1. \E written \in SUBSET page, snap \in Seq(Chunks), key \in {None} \cup Rows :
           Wrote(s, w, job, page, Apply(s, w, job, page), written, snap, key)
    BY ApplyIs
  <2> QED
    BY <1>3, <2>1, Zenon
<1>5. stream' = r.stream /\ wire' = r.wire
      /\ wakes' = IF r.stream.phase = "none" THEN "none" ELSE wakes
  BY <1>2, <1>3 DEF Becomes
<1>6. /\ r.wire \in Seq(Chunks) /\ Ids(r.wire) = Ids(w) \cup written
      /\ Ascends(w) /\ (\A a \in Ids(w) : \A b \in written : a < b) => Ascends(r.wire)
      /\ r.stream # NoStream => (Says(r.wire, <<"done">>) <=> Says(w, <<"done">>))
      /\ snap # <<>> => \A q, p : Latest(r.wire, q, p, job)
      /\ snap = <<>> => \A q, p, x : Latest(w, q, p, x) => Latest(r.wire, q, p, x)
  <2>1. Continues(w, job, written, snap, r)
    BY <1>4, WrittenIs
  <2> QED
    BY <2>1 DEF Continues
<1>7. /\ \A x \in written : \A y \in page : y <= x => y \in written
      /\ (snap = <<>> /\ key = s.key) \/ (snap # <<>> /\ key = job)
  BY <1>4 DEF Wrote
<1>8. \/ /\ r.stream = NoStream
         /\ Terminal(job) /\ written = page /\ Cardinality(page) < BatchSize /\ key = job
      \/ /\ r.stream # NoStream /\ r.stream \in Streams
         /\ r.stream.phase = "open" /\ r.stream.fetch = "no" /\ r.stream.key = key
         /\ r.stream.cursor = NextCursor(s, written, page)
         /\ ~r.stream.paused /\ ~r.stream.timer =>
               written = page /\ Cardinality(page) < BatchSize /\ ~s.pending /\ key = job
  BY <1>4, NoStreamIs DEF Wrote
<1>9. PICK L \in SUBSET (LogIds \ {0}) : L = log
  BY LogIsOfIds DEF IInv
<1>10. PICK T \in SUBSET L : T = InTime
  BY <1>9, LogIsOfIds DEF IInv
<1>11. PICK last \in Froms, cursor \in Froms, ids \in SUBSET LogIds :
          last = session.last /\ cursor = s.cursor /\ ids = Ids(w)
  <2>1. session.last \in Froms /\ s.cursor \in Froms
    BY DEF IInv, Types, SessionTypes, Sessions, Streams
  <2>2. Ids(w) \in SUBSET LogIds
    BY DEF Ids
  <2> QED
    BY <2>1, <2>2, Zenon
<1>12. /\ After(L, ids, last) /\ Gapless(T, ids, last) /\ CursorOK(ids, last, cursor)
       /\ After(L, page, cursor) /\ Gapless(T, page, cursor)
  BY <1>2, <1>9, <1>10, <1>11 DEF IInv, WireInv, WireOK
<1>13. /\ \A a \in ids : \A b \in written : a < b
       /\ After(L, ids \cup written, last)
       /\ Gapless(T, ids \cup written, last)
       /\ written = page /\ (\A l \in T : cursor = None \/ l > cursor => l \in page) =>
            Complete(T, ids \cup written, last)
  BY <1>7, <1>12, PageFollows
<1>14. InTime' = InTime
  BY <1>1 DEF InTime
<1>15. key # None /\ clicks = 0 => Latest(r.wire, queued.job, view.job, key)
  <2> SUFFICES ASSUME key # None, clicks = 0 PROVE Latest(r.wire, queued.job, view.job, key)
    OBVIOUS
  <2>1. CASE snap # <<>> /\ key = job
    BY <1>6, <2>1
  <2>2. CASE snap = <<>> /\ key = s.key
    <3>1. Latest(wire, queued.job, view.job, key)
      BY <2>2 DEF IInv, KeyInv
    <3>2. Latest(w, queued.job, view.job, key)
      BY <3>1
    <3> QED
      BY <1>6, <2>2, <3>2
  <2> QED
    BY <1>7, <2>1, <2>2
<1>16. Types'
  <2>1. ServerTypes'
    <3>1. stream' \in Streams /\ stream'.fetch = "no"
      BY <1>5, <1>8, NoStreamIs
    <3>2. wakes' \in {"none", "due", "missed"}
      BY <1>5 DEF IInv, Types, ServerTypes
    <3> QED
      BY <1>5, <1>6, <3>1, <3>2 DEF ServerTypes
  <2> QED
    BY <1>1, <2>1 DEF IInv, Types, SessionTypes, PageTypes, UserTypes
<1>17. SourceInv'
  BY <1>1 DEF IInv, SourceInv
<1>18. Where'
  <2>1. session.pc = "open"
    BY DEF IInv, Where
  <2>2. \/ stream' = NoStream /\ wakes' = "none"
        \/ (stream'.phase = "open" /\ stream'.cursor # None)
    <3>1. NextCursor(s, written, page) # None
      <4>1. NextCursor(s, written, page) \in LogIds
        BY CursorIs
      <4> QED
        BY <4>1, StreamAssumption DEF LogIds
    <3> QED
      BY <1>5, <1>8, <3>1, NoStreamIs
  <2> QED
    BY <1>1, <2>1, <2>2, NoStreamIs DEF IInv, Where
<1>19. Notices'
  <2>1. stream'.fetch = "no"
    BY <1>5, <1>8, NoStreamIs
  <2> SUFFICES ASSUME stream'.phase = "open", wakes' = "none", ~stream'.timer, ~stream'.paused
               PROVE  stream'.key = row /\ \A l \in log : l <= stream'.cursor
    BY <1>1, <2>1 DEF Notices
  <2>2. /\ stream'.key = key /\ stream'.cursor = NextCursor(s, written, page)
        /\ written = page /\ Cardinality(page) < BatchSize /\ ~s.pending /\ key = job
        /\ wakes = "none"
    BY <1>5, <1>8, NoStreamIs
  <2>3. stream.job = row /\ stream.page = Backlog(stream.cursor)
    BY <2>2 DEF IInv, Notices
  <2>4. page = Backlog(cursor)
    BY <1>2, <1>11, <2>3
  <2>5. \A l \in log : cursor = None \/ l > cursor => l \in page
    BY <2>2, <2>4, BacklogIs DEF IInv
  <2>6. page \in SUBSET L /\ L \in SUBSET LogIds
    BY <1>12 DEF After
  <2>7. \A l \in L : l <= NextCursor(s, page, page)
    BY <1>9, <1>11, <1>12, <2>5, <2>6, AllIsSent
  <2> QED
    BY <1>2, <1>9, <2>2, <2>3, <2>7
<1>20. WireInv'
  <2>1. Ids(r.wire) = ids \cup written /\ Ascends(r.wire)
    BY <1>6, <1>11, <1>13
  <2>2. r.stream.fetch # "apply"
    BY <1>8, NoStreamIs
  <2>3. r.stream.phase # "none" => CursorOK(ids \cup written, last, r.stream.cursor)
    <3> SUFFICES ASSUME r.stream.phase # "none"
                 PROVE  CursorOK(ids \cup written, last, r.stream.cursor)
      OBVIOUS
    <3>1. r.stream.cursor = NextCursor(s, written, page)
      BY <1>8, NoStreamIs
    <3>2. ids \in SUBSET LogIds
      BY <1>12 DEF After
    <3> QED
      BY <1>11, <1>12, <1>13, <3>1, <3>2, CursorFollows
  <2>4. WireOK(L, T, r.wire, last, r.stream)
    BY <1>13, <2>1, <2>2, <2>3 DEF WireOK
  <2> QED
    BY <1>1, <1>5, <1>9, <1>10, <1>11, <1>14, <2>4 DEF WireInv
<1>21. RequestInv'
  BY <1>1, <1>14 DEF IInv, RequestInv
<1>22. ConsoleInv'
  <2>1. Console' = Console
    BY <1>1 DEF Console
  <2> QED
    BY <1>1, <1>14, <2>1 DEF IInv, ConsoleInv
<1>23. ReadInv'
  <2>1. stream'.fetch = "no"
    BY <1>5, <1>8, NoStreamIs
  <2> QED
    BY <2>1 DEF ReadInv
<1>24. KeyInv'
  <2>1. stream'.phase # "none" => stream'.key = key
    BY <1>5, <1>8, NoStreamIs
  <2> QED
    BY <1>1, <1>5, <1>15, <2>1 DEF KeyInv
<1>25. DoneInv'
  <2>1. CASE r.stream # NoStream
    <3>1. ~Says(wire, <<"done">>)
      BY DEF IInv, DoneInv
    <3> QED
      BY <1>5, <1>6, <2>1, <3>1 DEF DoneInv
  <2>2. CASE r.stream = NoStream
    <3>1. Terminal(job) /\ written = page /\ Cardinality(page) < BatchSize /\ key = job
      BY <1>8, <2>2
    <3>2. retries = 0 => job = row /\ \A l \in T : cursor = None \/ l > cursor => l \in page
      BY <1>2, <1>10, <1>11, <3>1 DEF IInv, ReadInv
    <3>3. retries = 0 => Complete(T, Ids(r.wire), last)
      BY <1>6, <1>11, <1>13, <3>1, <3>2
    <3>4. key # None
      BY <3>1, StreamAssumption
    <3>5. retries = 0 /\ clicks = 0 => Latest(r.wire, queued.job, view.job, row)
      BY <1>15, <3>1, <3>2, <3>4
    <3>6. stream'.phase = "none" /\ wire' = r.wire
      BY <1>5, <2>2, NoStreamIs
    <3>7. retries = 0 => Terminal(row)
      BY <3>1, <3>2
    <3> QED
      BY <1>1, <1>10, <1>11, <1>14, <3>3, <3>5, <3>6, <3>7 DEF DoneInv
  <2> QED
    BY <2>1, <2>2
<1> QED
  BY <1>16, <1>17, <1>18, <1>19, <1>20, <1>21, <1>22, <1>23, <1>24, <1>25 DEF IInv

\* A refresh writes what it read,
LEMMA ApplyReadKeeps ==
    ASSUME IInv, ApplyRead, UNCHANGED <<browser, user>>
    PROVE  IInv'
<1>1. PICK s \in Streams, w \in Seq(Chunks) : s = stream /\ w = wire
  <2>1. stream \in Streams /\ wire \in Seq(Chunks)
    BY DEF IInv, Types, ServerTypes
  <2> QED
    BY <2>1, Zenon
<1>2. Ascends(w)
  BY <1>1 DEF IInv, WireInv, WireOK
<1>3. /\ stream.phase # "none" /\ stream.fetch = "apply" /\ UNCHANGED <<source, faults>>
      /\ Becomes(Apply(s, w, stream.job, stream.page))
  BY <1>1 DEF ApplyRead
<1> QED
  BY <1>1, <1>2, <1>3, BecomesKeeps

\* and so does the first read, after the retry hint.
LEMMA StartKeeps ==
    ASSUME IInv, Start, UNCHANGED <<browser, user>>
    PROVE  IInv'
<1>1. PICK r \in Streams : r = stream
  BY DEF IInv, Types, ServerTypes
<1>2. PICK w \in Seq(Chunks) : w = << <<"retry">> >>
  <2>1. <<"retry">> \in Chunks
    BY DEF Chunks
  <2>2. << <<"retry">> >> \in Seq(Chunks)
    BY <2>1
  <2> QED
    BY <2>2, Zenon
<1>3. PICK b \in BOOLEAN : b = Full(w)
  <2>1. Full(w) \in BOOLEAN
    BY DEF Full
  <2> QED
    BY <2>1, Zenon
<1>4. PICK s : s = [r EXCEPT !.paused = b]
  OBVIOUS
<1>5. s \in Streams /\ s.cursor = r.cursor /\ s.key = r.key /\ s.pending = r.pending
  BY <1>4 DEF Streams
<1>6. wire = <<>> /\ stream.phase = "opening" /\ stream.fetch = "apply"
  BY DEF IInv, Where, Start
<1>7. Becomes(Apply(s, w, stream.job, stream.page)) /\ UNCHANGED <<source, faults>>
  BY <1>1, <1>2, <1>3, <1>4 DEF Start
<1>8. PICK c : c = <<"retry">>
  OBVIOUS
<1>9. c # <<"done">> /\ (\A l : c # <<"log", l>>) /\ (\A v : c # <<"snapshot", v>>)
  <2>1. c[1] = "retry" /\ <<"done">>[1] = "done"
    BY <1>8
  <2>2. (\A l : <<"log", l>>[1] = "log") /\ (\A v : <<"snapshot", v>>[1] = "snapshot")
    OBVIOUS
  <2> QED
    BY <2>1, <2>2
<1>10. /\ \A d : Says(w, d) <=> d = c
       /\ Ids(w) = {l \in LogIds : c = <<"log", l>>}
       /\ Ascends(w)
       /\ Silent(w) <=> \A v \in Rows : c # <<"snapshot", v>>
  BY <1>2, <1>8, SingleIs
<1>11. Ids(w) = {} /\ ~Says(w, <<"done">>) /\ Silent(w)
  BY <1>9, <1>10
<1>12. Ids(wire) = {} /\ \A x : ~Closes(wire, x)
  BY <1>6, EmptyIs
<1>13. \A q, v, x : Latest(wire, q, v, x) => Latest(w, q, v, x)
  BY <1>11, <1>12 DEF Latest
<1> QED
  BY <1>1, <1>5, <1>6, <1>7, <1>10, <1>11, <1>12, <1>13, BecomesKeeps

-----------------------------------------------------------------------------
(* What a step of the browser leaves alone *)

\* What is known of a stream, when there is none,
LEMMA IdleServer ==
    ASSUME stream' = NoStream, wire' = <<>>, wakes' = "none"
    PROVE  ServerTypes' /\ Notices' /\ WireInv' /\ ReadInv' /\ KeyInv' /\ DoneInv'
<1>1. /\ stream' \in Streams /\ stream'.phase = "none" /\ stream'.fetch = "no"
  BY NoStreamIs
<1>2. wire' \in Seq(Chunks) /\ Ids(wire') = {} /\ Ascends(wire') /\ ~Says(wire', <<"done">>)
  BY EmptyIs, EmptySeq
<1>3. ServerTypes'
  BY <1>1, <1>2 DEF ServerTypes
<1>4. Notices' /\ ReadInv' /\ KeyInv'
  BY <1>1 DEF Notices, ReadInv, KeyInv
<1>5. WireInv'
  BY <1>1, <1>2 DEF WireInv, WireOK, After, Gapless
<1>6. DoneInv'
  BY <1>2 DEF DoneInv
<1> QED
  BY <1>3, <1>4, <1>5, <1>6

\* and when it is the same.
LEMMA SameServer ==
    ASSUME IInv, UNCHANGED <<source, server>>, session'.last = session.last,
           clicks' = 0 => /\ clicks = 0
                          /\ \A x : Latest(wire, queued.job, view.job, x)
                                      => Latest(wire, queued'.job, view'.job, x)
    PROVE  ServerTypes' /\ Notices' /\ WireInv' /\ ReadInv' /\ KeyInv' /\ DoneInv'
<1>1. /\ row' = row /\ retries' = retries /\ log' = log /\ late' = late
      /\ stream' = stream /\ wire' = wire /\ wakes' = wakes
  BY DEF source, server
<1>2. InTime' = InTime
  BY <1>1 DEF InTime
<1>3. ServerTypes'
  BY <1>1 DEF IInv, Types, ServerTypes
<1>4. Notices'
  BY <1>1 DEF IInv, Notices, Backlog, LogsAfter
<1>5. ReadInv'
  BY <1>1, <1>2 DEF IInv, ReadInv
<1>6. KeyInv'
  BY <1>1 DEF IInv, KeyInv
<1>7. WireInv'
  BY <1>1, <1>2 DEF IInv, WireInv
<1>8. DoneInv'
  BY <1>1, <1>2 DEF IInv, DoneInv
<1> QED
  BY <1>3, <1>4, <1>5, <1>6, <1>7, <1>8

\* The same row and log.
LEMMA SameSource ==
    ASSUME SourceInv, UNCHANGED source
    PROVE  SourceInv' /\ log' = log /\ InTime' = InTime
<1>1. /\ row' = row /\ retries' = retries /\ log' = log /\ late' = late /\ inserting' = inserting
      /\ stray' = stray /\ nextId' = nextId
  BY DEF source
<1> QED
  BY <1>1 DEF SourceInv, InTime

\* The same lines on the page.
LEMMA SamePage ==
    ASSUME IInv, UNCHANGED <<source, queued, view>>, session'.last = session.last
    PROVE  PageTypes' /\ ConsoleInv'
<1>1. log' = log /\ InTime' = InTime
  BY SameSource DEF IInv
<1>2. Console' = Console
  BY DEF Console
<1>3. PageTypes'
  BY DEF IInv, Types, PageTypes
<1> QED
  BY <1>1, <1>2, <1>3 DEF IInv, ConsoleInv

\* The same request,
LEMMA SameRequest ==
    ASSUME IInv, UNCHANGED <<source, request>>, session'.last = session.last
    PROVE  RequestInv'
<1>1. log' = log /\ InTime' = InTime
  BY SameSource DEF IInv
<1> QED
  BY <1>1 DEF IInv, RequestInv

\* and none that has an answer.
LEMMA IdleRequest ==
    ASSUME request'.step # "answer"
    PROVE  RequestInv'
  BY DEF RequestInv

\* A request that starts has neither a job nor a page.
LEMMA RequestsAre ==
    /\ NoRequest \in Requests /\ NoRequest.step = "none"
    /\ NewRequest \in Requests /\ NewRequest.step = "job"
<1>1. NoRequest \in Requests /\ NoRequest.step = "none"
  BY DEF NoRequest, Requests
<1>2. PICK r \in Requests : r = NoRequest
  BY <1>1
<1>3. NewRequest = [r EXCEPT !.step = "job"]
  BY <1>2 DEF NewRequest
<1> QED
  BY <1>1, <1>3 DEF Requests

-----------------------------------------------------------------------------
(* What reaches the page *)

\* Lines are shown,
LEMMA AppendLinesIs ==
    ASSUME NEW v \in Views, NEW l \in Seq(Nat), NEW d \in Nat
    PROVE  /\ AppendLines(v, l, d) \in Views
           /\ AppendLines(v, l, d).job = v.job
           /\ AppendLines(v, l, d).lines = Kept(v.lines \o l)
           /\ AppendLines(v, l, d).hidden = v.hidden + d + Over(v.lines \o l)
<1>1. PICK vl \in Seq(Nat), vh \in Nat : vl = v.lines /\ vh = v.hidden
  <2>1. v.lines \in Seq(Nat) /\ v.hidden \in Nat
    BY DEF Views
  <2> QED
    BY <2>1, Zenon
<1>2. PICK a \in Seq(Nat) : a = vl \o l
  BY ConcatProperties
<1>3. PICK k \in Seq(Nat), o \in Nat : k = Kept(a) /\ o = Over(a)
  <2>1. Kept(a) \in Seq(Nat) /\ Over(a) \in Nat
    BY KeptIs
  <2> QED
    BY <2>1, Zenon
<1>4. PICK h \in Nat : h = vh + d + o
  OBVIOUS
<1>5. AppendLines(v, l, d) = [v EXCEPT !.lines = k, !.hidden = h]
  BY <1>1, <1>2, <1>3, <1>4 DEF AppendLines
<1> QED
  BY <1>1, <1>2, <1>3, <1>4, <1>5 DEF Views

\* or queued for the next frame.
LEMMA QueueLinesIs ==
    ASSUME NEW q \in Queues, NEW S \in SUBSET LogIds
    PROVE  /\ QueueLines(q, S) \in Queues
           /\ QueueLines(q, S).job = q.job
           /\ QueueLines(q, S).lines = Kept(q.lines \o Ascending(S))
           /\ QueueLines(q, S).dropped = q.dropped + Over(q.lines \o Ascending(S))
<1>1. PICK ql \in Seq(Nat), qd \in Nat : ql = q.lines /\ qd = q.dropped
  <2>1. q.lines \in Seq(Nat) /\ q.dropped \in Nat
    BY DEF Queues
  <2> QED
    BY <2>1, Zenon
<1>2. PICK l \in Seq(Nat) : l = Ascending(S)
  BY AscendingIs
<1>3. PICK a \in Seq(Nat) : a = ql \o l
  BY ConcatProperties
<1>4. PICK k \in Seq(Nat), o \in Nat : k = Kept(a) /\ o = Over(a)
  <2>1. Kept(a) \in Seq(Nat) /\ Over(a) \in Nat
    BY KeptIs
  <2> QED
    BY <2>1, Zenon
<1>5. PICK d \in Nat : d = qd + o
  OBVIOUS
<1>6. QueueLines(q, S) = [q EXCEPT !.lines = k, !.dropped = d]
  BY <1>1, <1>2, <1>3, <1>4, <1>5 DEF QueueLines
<1> QED
  BY <1>1, <1>2, <1>3, <1>4, <1>5, <1>6 DEF Queues

\* The console is what is shown and queued, trimmed.
LEMMA ConsoleIs ==
    /\ PageTypes => Console = Kept(view.lines \o queued.lines)
    /\ PageTypes' => Console' = Kept(view'.lines \o queued'.lines)
<1>1. ASSUME PageTypes PROVE Console = Kept(view.lines \o queued.lines)
  <2>1. view \in Views /\ queued.lines \in Seq(Nat) /\ queued.dropped \in Nat
    BY <1>1 DEF PageTypes, Queues
  <2> QED
    BY <2>1, AppendLinesIs DEF Console
<1>2. ASSUME PageTypes' PROVE Console' = Kept(view'.lines \o queued'.lines)
  <2>1. view' \in Views /\ queued'.lines \in Seq(Nat) /\ queued'.dropped \in Nat
    BY <1>2 DEF PageTypes, Queues
  <2>2. PICK v \in Views, l \in Seq(Nat), d \in Nat : v = view' /\ l = queued'.lines /\ d = queued'.dropped
    BY <2>1, Zenon
  <2>3. AppendLines(v, l, d).lines = Kept(v.lines \o l)
    BY AppendLinesIs
  <2>4. Console' = AppendLines(v, l, d).lines
    BY <2>2 DEF Console
  <2> QED
    BY <2>2, <2>3, <2>4
<1> QED
  BY <1>1, <1>2

-----------------------------------------------------------------------------
(* The first chunk of the wire *)

\* A line is taken from the front of what continues last.
LEMMA FirstTaken ==
    ASSUME NEW L \in SUBSET LogIds, NEW T \in SUBSET L, NEW x \in LogIds, NEW I \in SUBSET LogIds,
           \A b \in I : x < b, NEW last \in Froms,
           After(L, {x} \cup I, last), Gapless(T, {x} \cup I, last)
    PROVE  /\ x \in L /\ After(L, {x}, last) /\ Gapless(T, {x}, last)
           /\ After(L, I, x) /\ Gapless(T, I, x)
           /\ Complete(T, {x} \cup I, last) => Complete(T, I, x)
           /\ \A c : CursorOK({x} \cup I, last, c) => CursorOK(I, x, c)
<1>1. \A y \in LogIds : y \in Nat /\ y # None
  BY StreamAssumption DEF LogIds
<1>2. x \in L /\ After(L, {x}, last) /\ After(L, I, x)
  BY DEF After
<1>3. last # None => last \in Nat /\ x > last
  BY <1>1 DEF After, Froms
<1>4. ASSUME NEW l \in T, l > x PROVE Above(l, last, {x} \cup I)
  <2>1. l \in Nat /\ x \in Nat
    BY <1>1
  <2>2. CASE last = None
    BY <1>4, <2>1, <2>2 DEF Above
  <2>3. CASE last # None
    <3>1. l > last
      BY <1>3, <1>4, <2>1, <2>3
    <3> QED
      BY <2>3, <3>1 DEF Above
  <2> QED
    BY <2>2, <2>3
<1>5. Gapless(T, I, x)
  <2> SUFFICES ASSUME NEW l \in T, Above(l, x, I), NEW y \in I, l <= y
               PROVE  l \in I
    BY DEF Gapless
  <2>1. l > x /\ l \in Nat /\ x \in Nat
    BY <1>1 DEF Above
  <2>2. l \in {x} \cup I
    BY <1>4, <2>1 DEF Gapless
  <2> QED
    BY <2>1, <2>2
<1>6. Gapless(T, {x}, last)
  <2> SUFFICES ASSUME NEW l \in T, Above(l, last, {x}), l <= x
               PROVE  l = x
    BY DEF Gapless
  <2>1. l \in Nat /\ x \in Nat
    BY <1>1
  <2>2. CASE last = None
    BY <2>1, <2>2 DEF Above
  <2>3. CASE last # None
    <3>1. Above(l, last, {x} \cup I)
      BY <2>3 DEF Above
    <3>2. l \in {x} \cup I
      BY <3>1 DEF Gapless
    <3> QED
      BY <2>1, <3>2
  <2> QED
    BY <2>2, <2>3
<1>7. Complete(T, {x} \cup I, last) => Complete(T, I, x)
  <2> SUFFICES ASSUME Complete(T, {x} \cup I, last), NEW l \in T, Above(l, x, I)
               PROVE  l \in I
    BY DEF Complete
  <2>1. l > x /\ l \in Nat /\ x \in Nat
    BY <1>1 DEF Above
  <2>2. l \in {x} \cup I
    BY <1>4, <2>1 DEF Complete
  <2> QED
    BY <2>1, <2>2
<1>8. ASSUME NEW c, CursorOK({x} \cup I, last, c) PROVE CursorOK(I, x, c)
  <2>1. c \in {x} \cup I /\ \A y \in {x} \cup I : y <= c
    BY <1>8 DEF CursorOK
  <2>2. CASE I = {}
    BY <2>1, <2>2 DEF CursorOK
  <2>3. CASE I # {}
    <3>1. PICK b \in I : TRUE
      BY <2>3
    <3>2. b <= c /\ x < b /\ b \in Nat /\ x \in Nat
      BY <1>1, <2>1, <3>1
    <3>3. c # x
      BY <3>2
    <3> QED
      BY <2>1, <2>3, <3>3 DEF CursorOK
  <2> QED
    BY <2>2, <2>3
<1> QED
  BY <1>2, <1>5, <1>6, <1>7, <1>8

\* A chunk in front of others,
InFront(h, t, w) ==
    /\ \A c : Says(w, c) <=> c = h \/ Says(t, c)
    /\ \A l \in LogIds : h = <<"log", l>> => Ids(w) = {l} \cup Ids(t)
    /\ (\A l \in LogIds : h # <<"log", l>>) => Ids(w) = Ids(t)
    /\ Ascends(w) => Ascends(t)
    /\ \A l \in LogIds : h = <<"log", l>> /\ Ascends(w) => \A b \in Ids(t) : l < b
    /\ \A x : Closes(w, x) <=> Closes(t, x) \/ (h = <<"snapshot", x>> /\ Silent(t))
    /\ Silent(w) <=> Silent(t) /\ \A r \in Rows : h # <<"snapshot", r>>

\* a sequence that starts with one,
LEMMA FrontIs ==
    ASSUME NEW h, NEW t \in Seq(Chunks), NEW u \in Seq(Chunks), u = <<h>>, NEW w, w = u \o t
    PROVE  InFront(h, t, w)
<1>1. \A d : Says(u, d) <=> d = h
  <2>1. \A d : Says(<<h>>, d) <=> d = h
    BY SingleIs
  <2> QED
    BY <2>1, Zenon
<1>2. Ids(u) = {l \in LogIds : h = <<"log", l>>}
  <2>1. Ids(<<h>>) = {l \in LogIds : h = <<"log", l>>}
    BY SingleIs
  <2> QED
    BY <2>1, Zenon
<1>3. \A x : Closes(u, x) <=> h = <<"snapshot", x>>
  <2>1. \A x : Closes(<<h>>, x) <=> h = <<"snapshot", x>>
    BY SingleIs
  <2> QED
    BY <2>1, Zenon
<1>4. \A c : Says(w, c) <=> c = h \/ Says(t, c)
  <2>1. \A c : Says(u \o t, c) <=> Says(u, c) \/ Says(t, c)
    BY SaysConcat, Zenon
  <2> QED
    BY <1>1, <2>1, Zenon
<1>5. Ids(w) = Ids(u) \cup Ids(t)
  <2>1. Ids(u \o t) = Ids(u) \cup Ids(t)
    BY IdsConcat, Zenon
  <2> QED
    BY <2>1, Zenon
<1>6. ASSUME NEW l \in LogIds, h = <<"log", l>> PROVE Ids(u) = {l}
  <2>1. \A k \in LogIds : h = <<"log", k>> <=> k = l
    BY <1>6
  <2> HIDE <1>6
  <2> QED
    BY <1>2, <2>1
<1>7. (\A l \in LogIds : h # <<"log", l>>) => Ids(u) = {}
  BY <1>2
<1>8. Ascends(w) => Ascends(t) /\ \A a \in Ids(u) : \A b \in Ids(t) : a < b
  <2>1. Ascends(u \o t) => Ascends(t) /\ \A a \in Ids(u) : \A b \in Ids(t) : a < b
    BY AscendsConcat, Zenon
  <2> QED
    BY <2>1, Zenon
<1>9. \A x : Closes(w, x) <=> Closes(t, x) \/ (h = <<"snapshot", x>> /\ Silent(t))
  <2>1. \A x : Closes(u \o t, x) <=> Closes(t, x) \/ (Closes(u, x) /\ Silent(t))
    BY ClosesConcat, Zenon
  <2> QED
    BY <1>3, <2>1, Zenon
<1>10. Silent(w) <=> Silent(t) /\ \A r \in Rows : h # <<"snapshot", r>>
  BY <1>4, Zenon DEF Silent
<1>11. \A l \in LogIds : h = <<"log", l>> => Ids(w) = {l} \cup Ids(t)
  BY <1>5, <1>6, Zenon
<1>12. (\A l \in LogIds : h # <<"log", l>>) => Ids(w) = Ids(t)
  <2> SUFFICES ASSUME \A l \in LogIds : h # <<"log", l>> PROVE Ids(w) = Ids(t)
    OBVIOUS
  <2>1. Ids(u) = {}
    BY <1>7, Zenon
  <2> QED
    BY <1>5, <2>1
<1>13. \A l \in LogIds : h = <<"log", l>> /\ Ascends(w) => \A b \in Ids(t) : l < b
  <2> SUFFICES ASSUME NEW l \in LogIds, h = <<"log", l>>, Ascends(w), NEW b \in Ids(t) PROVE l < b
    OBVIOUS
  <2>1. Ids(u) = {l}
    BY <1>6, Zenon
  <2>2. l \in Ids(u)
    BY <2>1, Zenon
  <2> QED
    BY <1>8, <2>2, Zenon
<1> QED
  BY <1>4, <1>8, <1>9, <1>10, <1>11, <1>12, <1>13, Zenon DEF InFront

\* the head of the wire, and what remains.
LEMMA TakenIs ==
    ASSUME NEW w \in Seq(Chunks), w # <<>>
    PROVE  Tail(w) \in Seq(Chunks) /\ Head(w) \in Chunks /\ InFront(Head(w), Tail(w), w)
<1>1. /\ Head(w) \in Chunks /\ Tail(w) \in Seq(Chunks) /\ <<Head(w)>> \in Seq(Chunks)
      /\ w = <<Head(w)>> \o Tail(w)
  BY HeadAndTail, Zenon
<1>2. PICK h \in Chunks, t \in Seq(Chunks), u \in Seq(Chunks) :
         h = Head(w) /\ t = Tail(w) /\ u = <<h>> /\ w = u \o t
  BY <1>1, Zenon
<1>3. InFront(h, t, w)
  BY <1>2, FrontIs, Zenon
<1> QED
  BY <1>2, <1>3, Zenon

-----------------------------------------------------------------------------
(* Lines that reach the page *)

\* What continues the lines received is new.
LEMMA FreshIs ==
    ASSUME NEW L \in SUBSET LogIds, NEW S \in SUBSET L, session.last \in Froms, After(L, S, session.last)
    PROVE  /\ Fresh(S) = S
           /\ Last(S) = IF S = {} THEN session.last ELSE Greatest(S)
           /\ Last(S) \in Froms
<1>1. Fresh(S) = S
  BY DEF Fresh, After
<1>2. Last(S) = IF S = {} THEN session.last ELSE Greatest(S)
  BY <1>1 DEF Last
<1>3. S # {} => Greatest(S) \in LogIds
  BY GreatestIs
<1> QED
  BY <1>1, <1>2, <1>3 DEF Froms

\* Lines above r and up to g are at most g - r.
LEMMA CountIs ==
    ASSUME NEW S \in SUBSET LogIds, NEW r \in Nat, NEW g \in Nat, r <= g, \A x \in S : r < x /\ x <= g
    PROVE  r + Cardinality(S) <= g
<1>1. \A x \in S : x \in Nat
  BY IdsAreFinite
<1>2. S \in SUBSET (r + 1..g)
  BY <1>1
<1>3. IsFiniteSet(r + 1..g) /\ Cardinality(r + 1..g) = g - r
  <2>1. r + 1 \in Int /\ g \in Int
    OBVIOUS
  <2>2. IsFiniteSet(r + 1..g) /\ Cardinality(r + 1..g) = IF r + 1 > g THEN 0 ELSE g - (r + 1) + 1
    BY <2>1, FS_Interval
  <2> QED
    BY <2>2
<1>4. Cardinality(S) <= g - r
  <2>1. Cardinality(S) <= Cardinality(r + 1..g)
    BY <1>2, <1>3, FS_Subset
  <2> QED
    BY <1>3, <2>1
<1>5. Cardinality(S) \in Nat
  BY IdsAreFinite
<1> QED
  BY <1>4, <1>5

\* A queue that is trimmed before it is shown trims nothing that would be.
LEMMA KeptQueue ==
    ASSUME NEW a \in Seq(Nat), NEW b \in Seq(Nat), NEW c \in Seq(Nat)
    PROVE  /\ Kept(a \o Kept(b \o c)) = Kept(Kept(a \o b) \o c)
           /\ Kept(Kept(a)) = Kept(a)
<1>1. PICK ab \in Seq(Nat), bc \in Seq(Nat) : ab = a \o b /\ bc = b \o c
  <2>1. a \o b \in Seq(Nat) /\ b \o c \in Seq(Nat)
    BY ConcatProperties
  <2> QED
    BY <2>1, Zenon
<1>2. a \o bc = ab \o c
  BY <1>1, ConcatAssociative
<1>3. Kept(a \o Kept(bc)) = Kept(a \o bc)
  BY KeptTail
<1>4. Kept(Kept(ab) \o c) = Kept(ab \o c)
  BY KeptFront
<1>5. Kept(Kept(a)) = Kept(a)
  <2>1. PICK e \in Seq(Nat), k \in Seq(Nat) : e = <<>> /\ k = Kept(a)
    <3>1. <<>> \in Seq(Nat) /\ Kept(a) \in Seq(Nat)
      BY KeptIs, EmptySeq
    <3> QED
      BY <3>1, Zenon
  <2>2. a \o e = a /\ k \o e = k
    BY <2>1, ConcatEmptySeq
  <2>3. Kept(k \o e) = Kept(a \o e)
    BY <2>1, KeptFront
  <2> QED
    BY <2>1, <2>2, <2>3
<1> QED
  BY <1>1, <1>2, <1>3, <1>4, <1>5, Zenon

\* Lines that continue the last one received keep the console in order and gapless.
LEMMA LinesDelivered ==
    ASSUME IInv, UNCHANGED <<source, view>>,
           NEW S \in SUBSET LogIds, After(log, S, session.last), Gapless(InTime, S, session.last),
           NEW q \in Queues, q.lines = queued.lines, q.dropped = queued.dropped,
           queued' = QueueLines(q, S),
           session'.last = IF S = {} THEN session.last ELSE Greatest(S)
    PROVE  PageTypes' /\ ConsoleInv'
<1>1. log' = log /\ InTime' = InTime /\ view' = view
  BY SameSource DEF IInv
<1>2. PICK a \in Seq(Nat), b \in Seq(Nat), c \in Seq(Nat) :
         a = view.lines /\ b = queued.lines /\ c = Ascending(S)
  <2>1. view.lines \in Seq(Nat) /\ queued.lines \in Seq(Nat) /\ Ascending(S) \in Seq(Nat)
    BY AscendingIs DEF IInv, Types, PageTypes, Queues, Views
  <2> QED
    BY <2>1, Zenon
<1>3. PICK bc \in Seq(Nat) : bc = b \o c
  BY ConcatProperties
<1>4. /\ queued' \in Queues
      /\ queued'.lines = Kept(bc) /\ queued'.dropped = queued.dropped + Over(bc)
  BY <1>2, <1>3, QueueLinesIs
<1>5. PageTypes'
  BY <1>1, <1>4 DEF IInv, Types, PageTypes
<1>6. Console' = Kept(Console \o c) /\ Kept(Console) = Console
  <2>1. Console = Kept(a \o b)
    BY <1>2, ConsoleIs DEF IInv, Types
  <2>2. Console' = Kept(a \o Kept(bc))
    BY <1>1, <1>2, <1>4, <1>5, ConsoleIs
  <2>3. Kept(a \o Kept(b \o c)) = Kept(Kept(a \o b) \o c)
    BY KeptQueue
  <2>4. PICK ab \in Seq(Nat) : ab = a \o b
    BY ConcatProperties
  <2>5. Kept(Kept(ab)) = Kept(ab)
    BY KeptQueue
  <2> QED
    BY <1>3, <2>1, <2>2, <2>3, <2>4, <2>5, Zenon
<1>7. PICK L \in SUBSET (LogIds \ {0}), T \in SUBSET LogIds : L = log /\ T = InTime /\ T \in SUBSET L
  <2>1. log \in SUBSET (LogIds \ {0}) /\ InTime \in SUBSET log /\ InTime \in SUBSET LogIds
    BY LogIsOfIds DEF IInv
  <2> QED
    BY <2>1, Zenon
<1>8. ConsoleOK(L, T, Console, session.last) /\ After(L, S, session.last) /\ Gapless(T, S, session.last)
  BY <1>7 DEF IInv, ConsoleInv
<1>9. ConsoleOK(log', InTime', Console', session'.last)
  <2>1. CASE S = {}
    <3>1. Len(c) = 0
      <4>1. Cardinality(S) = 0
        BY <2>1, FS_EmptySet
      <4> QED
        BY <1>2, <4>1, AscendingIs
    <3>2. c = <<>>
      BY <3>1
    <3>3. Console \in Seq(Nat)
      BY <1>8 DEF ConsoleOK
    <3>4. Console \o c = Console
      BY <3>2, <3>3, ConcatEmptySeq
    <3>5. Console' = Console
      BY <1>6, <3>4
    <3> QED
      BY <1>1, <1>7, <1>8, <2>1, <3>5
  <2>2. CASE S # {}
    <3>1. S \in SUBSET L /\ L \in SUBSET LogIds
      BY <1>8 DEF After
    <3>2. ConsoleOK(L, T, Kept(Console \o Ascending(S)), Greatest(S))
      BY <1>7, <1>8, <2>2, <3>1, ConsoleGrows
    <3> QED
      BY <1>1, <1>2, <1>6, <1>7, <2>2, <3>2
  <2> QED
    BY <2>1, <2>2
<1>10. view'.hidden + queued'.dropped + Len(view'.lines) + Len(queued'.lines) <= Rank0(session'.last)
  <2>1. PICK h \in Nat, d \in Nat, la \in Nat, lb \in Nat, o \in Nat, k \in Nat :
           /\ h = view.hidden /\ d = queued.dropped /\ la = Len(a) /\ lb = Len(b)
           /\ o = Over(bc) /\ k = Len(Kept(bc))
    <3>1. view.hidden \in Nat /\ queued.dropped \in Nat
      BY DEF IInv, Types, PageTypes, Queues, Views
    <3>2. Len(a) \in Nat /\ Len(b) \in Nat
      BY LenProperties
    <3>3. Over(bc) \in Nat /\ Len(Kept(bc)) \in Nat
      BY KeptIs, LenProperties
    <3> QED
      BY <3>1, <3>2, <3>3, Zenon
  <2>2. PICK n \in Nat : n = Cardinality(S)
    BY IdsAreFinite
  <2>3. k + o = lb + n
    <3>1. Len(c) = n
      BY <1>2, <2>2, AscendingIs
    <3>2. Len(bc) = Len(b) + Len(c)
      BY <1>3, ConcatProperties
    <3>3. k + o = Len(bc)
      BY <2>1, KeptIs
    <3> QED
      BY <2>1, <3>1, <3>2, <3>3
  <2>4. PICK r \in Nat, s \in Nat : r = Rank0(session.last) /\ s = Rank0(session'.last)
    <3>1. session.last \in Froms /\ (S # {} => Greatest(S) \in LogIds)
      BY GreatestIs DEF IInv, Types, SessionTypes, Sessions
    <3>2. \A x \in Froms : Rank0(x) \in Nat
      BY DEF Froms, Rank0, LogIds
    <3>3. session'.last \in Froms
      BY <3>1 DEF Froms
    <3>4. Rank0(session.last) \in Nat /\ Rank0(session'.last) \in Nat
      BY <3>1, <3>2, <3>3
    <3> QED
      BY <3>4, Zenon
  <2>5. h + d + la + lb <= r
    BY <1>2, <2>1, <2>4 DEF IInv, ConsoleInv
  <2>6. r + n <= s
    <3>1. CASE S = {}
      <4>1. n = 0
        BY <2>2, <3>1, FS_EmptySet
      <4> QED
        BY <2>4, <3>1, <4>1
    <3>2. CASE S # {}
      <4>1. PICK g \in S : g = Greatest(S) /\ \A x \in S : x <= g
        BY <3>2, GreatestIs
      <4>2. g \in Nat /\ g # None
        BY <4>1, StreamAssumption DEF LogIds
      <4>3. s = g
        BY <2>4, <3>2, <4>1, <4>2 DEF Rank0
      <4>4. \A x \in S : r < x
        <5>1. CASE session.last = None
          <6>1. r = 0
            BY <2>4, <5>1 DEF Rank0
          <6>2. \A x \in S : x \in Nat \ {0}
            BY <1>7, <1>8 DEF After, LogIds
          <6> QED
            BY <6>1, <6>2
        <5>2. CASE session.last # None
          <6>1. r = session.last
            BY <2>4, <5>2 DEF Rank0
          <6>2. \A x \in S : x > session.last /\ x \in Nat
            BY <1>8, <5>2, IdsAreFinite DEF After
          <6> QED
            BY <6>1, <6>2
        <5> QED
          BY <5>1, <5>2
      <4>5. r <= g
        BY <4>1, <4>2, <4>4
      <4> QED
        BY <2>2, <4>1, <4>2, <4>3, <4>4, <4>5, CountIs
    <3> QED
      BY <3>1, <3>2
  <2>7. /\ view'.hidden = h /\ Len(view'.lines) = la
        /\ queued'.dropped = d + o /\ Len(queued'.lines) = k
    BY <1>1, <1>2, <1>4, <2>1
  <2>8. h + (d + o) + la + k <= s
    BY <2>3, <2>5, <2>6
  <2> QED
    BY <2>4, <2>7, <2>8
<1> QED
  BY <1>5, <1>9, <1>10 DEF ConsoleInv

-----------------------------------------------------------------------------
(* Steps of the browser: with the stream as it was, without one, and one   *)
(* that takes the first chunk                                              *)

\* A step of the page that leaves the session and the stream alone.
LEMMA SameStreamKeeps ==
    ASSUME IInv, UNCHANGED <<source, server, session, request>>,
           PageTypes', UserTypes', ConsoleInv',
           clicks' = 0 => /\ clicks = 0
                          /\ \A x : Latest(wire, queued.job, view.job, x)
                                      => Latest(wire, queued'.job, view'.job, x)
    PROVE  IInv'
<1>1. ServerTypes' /\ Notices' /\ WireInv' /\ ReadInv' /\ KeyInv' /\ DoneInv'
  BY SameServer
<1>2. SourceInv'
  BY SameSource DEF IInv
<1>3. SessionTypes' /\ RequestInv'
  BY SameRequest DEF IInv, Types, SessionTypes
<1>4. Where'
  BY DEF IInv, Where, server
<1> QED
  BY <1>1, <1>2, <1>3, <1>4 DEF IInv, Types

\* A step after which there is no stream.
LEMMA NoStreamKeeps ==
    ASSUME IInv, Hangup, UNCHANGED source,
           SessionTypes', PageTypes', UserTypes', ConsoleInv', RequestInv',
           request'.step # "none" => session'.pc \in {"fetch", "drain"}
    PROVE  IInv'
<1>1. stream' = NoStream /\ wire' = <<>> /\ wakes' = "none"
  BY DEF Hangup
<1>2. ServerTypes' /\ Notices' /\ WireInv' /\ ReadInv' /\ KeyInv' /\ DoneInv'
  BY <1>1, IdleServer
<1>3. SourceInv'
  BY SameSource DEF IInv
<1>4. Where'
  BY <1>1 DEF Where, NoStream
<1> QED
  BY <1>2, <1>3, <1>4 DEF IInv, Types

\* Only a session with an EventSource has a stream.
LEMMA NoStreamStays ==
    ASSUME IInv, session.pc # "open", UNCHANGED server
    PROVE  Hangup
<1>1. stream = NoStream /\ wire = <<>> /\ wakes = "none"
  BY DEF IInv, Where
<1> QED
  BY <1>1 DEF Hangup, server

\* The first chunk is taken from the wire.
LEMMA TakenKeeps ==
    ASSUME IInv, wire # <<>>, wire' = Tail(wire), session.pc = "open",
           UNCHANGED <<source, stream, wakes, request, view, faults, user>>,
           session' \in Sessions, session'.pc = "open", session'.failed < MaxFailed,
           PageTypes', ConsoleInv',
           WireOK(log, InTime, Tail(wire), session'.last, stream),
           Complete(InTime, Ids(wire), session.last) => Complete(InTime, Ids(Tail(wire)), session'.last),
           \A x : Latest(wire, queued.job, view.job, x) => Latest(Tail(wire), queued'.job, view.job, x)
    PROVE  IInv'
<1>1. /\ row' = row /\ retries' = retries /\ log' = log /\ late' = late
      /\ stream' = stream /\ wakes' = wakes /\ request' = request /\ view' = view
      /\ faults' = faults /\ clicks' = clicks /\ action' = action
  BY DEF source, user
<1>2. SourceInv' /\ InTime' = InTime
  BY SameSource DEF IInv
<1>3. PICK w \in Seq(Chunks) : w = wire
  BY DEF IInv, Types, ServerTypes
<1>4. wire' \in Seq(Chunks) /\ InFront(Head(w), wire', w)
  BY <1>3, TakenIs
<1>5. ServerTypes'
  BY <1>1, <1>4 DEF IInv, Types, ServerTypes
<1>6. request'.step = "none"
  BY <1>1 DEF IInv, Types, SessionTypes, Requests, Where
<1>7. SessionTypes'
  BY <1>1, <1>6 DEF IInv, Types, SessionTypes
<1>8. UserTypes'
  BY <1>1 DEF IInv, Types, UserTypes
<1>9. Where'
  <2>1. stream.phase # "opening"
    BY DEF IInv, Where
  <2> QED
    BY <1>1, <1>6, <2>1 DEF IInv, Where
<1>10. Notices'
  BY <1>1 DEF IInv, Notices, Backlog, LogsAfter
<1>11. ReadInv'
  BY <1>1, <1>2 DEF IInv, ReadInv
<1>12. WireInv'
  BY <1>1, <1>2 DEF WireInv
<1>13. RequestInv'
  BY <1>6 DEF RequestInv
<1>14. KeyInv'
  <2> SUFFICES ASSUME stream.phase # "none", stream.key # None, clicks = 0
               PROVE  Latest(wire', queued'.job, view.job, stream.key)
    BY <1>1 DEF KeyInv
  <2>1. Latest(wire, queued.job, view.job, stream.key)
    BY DEF IInv, KeyInv
  <2> QED
    BY <2>1
<1>15. DoneInv'
  <2> SUFFICES ASSUME Says(wire', <<"done">>)
               PROVE  /\ stream.phase = "none"
                      /\ retries = 0 =>
                            /\ Terminal(row)
                            /\ Complete(InTime, Ids(wire'), session'.last)
                            /\ clicks = 0 => Latest(wire', queued'.job, view.job, row)
    BY <1>1, <1>2 DEF DoneInv
  <2>1. Says(wire, <<"done">>)
    BY <1>3, <1>4 DEF InFront
  <2>2. /\ stream.phase = "none"
        /\ retries = 0 =>
              /\ Terminal(row)
              /\ Complete(InTime, Ids(wire), session.last)
              /\ clicks = 0 => Latest(wire, queued.job, view.job, row)
    BY <2>1 DEF IInv, DoneInv
  <2> QED
    BY <2>2
<1> QED
  BY <1>2, <1>5, <1>7, <1>8, <1>9, <1>10, <1>11, <1>12, <1>13, <1>14, <1>15 DEF IInv, Types

-----------------------------------------------------------------------------
(* Receive *)

\* A session that heard an event.
LEMMA HeardIs ==
    ASSUME NEW s \in Sessions, s.failed < MaxFailed
    PROVE  /\ Heard(s) \in Sessions /\ Heard(s).failed < MaxFailed
           /\ \A f \in {"pc", "ended", "sseUnavailable", "last"} : Heard(s)[f] = s[f]
<1>1. MaxFailed \in Nat /\ s.failed \in 0..MaxFailed
  BY ViewAssumption DEF Sessions
<1>2. PICK n \in 0..MaxFailed : n = IF s.heard THEN s.failed ELSE 0
  BY <1>1
<1>3. n < MaxFailed
  BY <1>1, <1>2
<1>4. Heard(s) = [s EXCEPT !.heard = TRUE, !.failed = n]
  BY <1>2 DEF Heard
<1> QED
  BY <1>3, <1>4 DEF Sessions

\* A log event.
LEMMA LineReceived ==
    ASSUME IInv, wire # <<>>, wire' = Tail(wire), session.pc = "open",
           UNCHANGED <<source, stream, wakes, request, view, faults, user>>,
           NEW l \in LogIds, Head(wire) = <<"log", l>>,
           session' = [Heard(session) EXCEPT !.last = Last({l})],
           queued' = QueueLines(queued, Fresh({l}))
    PROVE  IInv'
<1>1. PICK w \in Seq(Chunks), t \in Seq(Chunks) : w = wire /\ t = Tail(wire)
  <2>1. wire \in Seq(Chunks)
    BY DEF IInv, Types, ServerTypes
  <2>2. Tail(wire) \in Seq(Chunks)
    BY <2>1, TakenIs
  <2> QED
    BY <2>1, <2>2, Zenon
<1>2. InFront(Head(wire), t, w)
  BY <1>1, TakenIs
<1>3. /\ Ids(w) = {l} \cup Ids(t)
      /\ Ascends(w) => Ascends(t) /\ \A b \in Ids(t) : l < b
      /\ Silent(w) <=> Silent(t)
      /\ \A x : Closes(w, x) <=> Closes(t, x)
  <2>1. \A r : <<"log", l>> # <<"snapshot", r>>
    OBVIOUS
  <2> QED
    BY <1>2, <2>1 DEF InFront
<1>4. PICK L \in SUBSET LogIds, T \in SUBSET LogIds, I \in SUBSET LogIds, last \in Froms, s \in Sessions :
         /\ L = log /\ T = InTime /\ I = Ids(t) /\ last = session.last /\ s = session
         /\ T \in SUBSET L
  <2>1. log \in SUBSET LogIds /\ InTime \in SUBSET log /\ InTime \in SUBSET LogIds
    BY LogIsOfIds DEF IInv
  <2>2. Ids(t) \in SUBSET LogIds
    BY DEF Ids
  <2>3. session.last \in Froms /\ session \in Sessions
    BY DEF IInv, Types, SessionTypes, Sessions
  <2> QED
    BY <2>1, <2>2, <2>3, Zenon
<1>5. WireOK(L, T, w, last, stream)
  BY <1>1, <1>4 DEF IInv, WireInv
<1>6. After(L, {l} \cup I, last) /\ Gapless(T, {l} \cup I, last) /\ Ascends(t) /\ \A b \in I : l < b
  BY <1>3, <1>4, <1>5 DEF WireOK
<1>7. /\ l \in L /\ After(L, {l}, last) /\ Gapless(T, {l}, last)
      /\ After(L, I, l) /\ Gapless(T, I, l)
      /\ Complete(T, {l} \cup I, last) => Complete(T, I, l)
      /\ \A c : CursorOK({l} \cup I, last, c) => CursorOK(I, l, c)
  BY <1>4, <1>6, FirstTaken
<1>8. PICK S \in SUBSET L : S = {l} /\ S # {}
  BY <1>7
<1>9. Greatest(S) = l
  <2>1. Greatest(S) \in S
    BY <1>8, GreatestIs
  <2> QED
    BY <1>8, <2>1
<1>10. Fresh(S) = S /\ Last(S) = l
  <2>1. After(L, S, session.last) /\ session.last \in Froms
    BY <1>4, <1>7, <1>8
  <2> QED
    BY <1>8, <1>9, <2>1, FreshIs
<1>11. /\ Heard(s) \in Sessions /\ Heard(s).failed < MaxFailed
       /\ \A f \in {"pc", "ended", "sseUnavailable", "last"} : Heard(s)[f] = s[f]
  <2>1. s.failed < MaxFailed
    BY <1>4 DEF IInv, Types, SessionTypes
  <2> QED
    BY <2>1, HeardIs
<1>12. session' \in Sessions /\ session'.pc = "open" /\ session'.failed < MaxFailed /\ session'.last = l
  <2>1. PICK h \in Sessions : h = Heard(s)
    BY <1>11
  <2>2. session' = [h EXCEPT !.last = l]
    BY <1>4, <1>8, <1>10, <2>1
  <2>3. l \in Froms /\ h.pc = "open" /\ h.failed < MaxFailed
    BY <1>4, <1>11, <2>1 DEF Froms
  <2> QED
    BY <2>2, <2>3 DEF Sessions
<1>13. PageTypes' /\ ConsoleInv'
  <2>1. queued \in Queues /\ queued' = QueueLines(queued, S)
    BY <1>8, <1>10 DEF IInv, Types, PageTypes
  <2>2. After(log, S, session.last) /\ Gapless(InTime, S, session.last)
    BY <1>4, <1>7, <1>8
  <2>3. session'.last = IF S = {} THEN session.last ELSE Greatest(S)
    BY <1>8, <1>9, <1>12
  <2>4. UNCHANGED <<source, view>> /\ S \in SUBSET LogIds
    OBVIOUS
  <2> QED
    BY <2>1, <2>2, <2>3, <2>4, LinesDelivered
<1>14. WireOK(log, InTime, Tail(wire), session'.last, stream)
  <2>1. stream.phase # "none" => CursorOK(I, l, stream.cursor)
    BY <1>3, <1>4, <1>5, <1>7 DEF WireOK
  <2>2. WireOK(L, T, t, l, stream)
    BY <1>4, <1>5, <1>6, <1>7, <2>1 DEF WireOK
  <2> QED
    BY <1>1, <1>4, <1>12, <2>2
<1>15. Complete(InTime, Ids(wire), session.last) => Complete(InTime, Ids(Tail(wire)), session'.last)
  BY <1>1, <1>3, <1>4, <1>7, <1>12
<1>16. ASSUME NEW x, Latest(wire, queued.job, view.job, x)
       PROVE  Latest(Tail(wire), queued'.job, view.job, x)
  <2>1. queued'.job = queued.job
    <3>1. queued \in Queues /\ S \in SUBSET LogIds /\ queued' = QueueLines(queued, S)
      BY <1>8, <1>10 DEF IInv, Types, PageTypes
    <3> QED
      BY <3>1, QueueLinesIs
  <2> QED
    BY <1>1, <1>3, <1>16, <2>1 DEF Latest
<1> QED
  BY <1>12, <1>13, <1>14, <1>15, <1>16, TakenKeeps

\* A chunk that is not a line: the page is still to receive the same lines.
LEMMA OtherTaken ==
    ASSUME IInv, wire # <<>>, \A l \in LogIds : Head(wire) # <<"log", l>>
    PROVE  /\ WireOK(log, InTime, Tail(wire), session.last, stream)
           /\ Ids(Tail(wire)) = Ids(wire)
<1>1. PICK w \in Seq(Chunks), t \in Seq(Chunks) : w = wire /\ t = Tail(wire)
  <2>1. wire \in Seq(Chunks)
    BY DEF IInv, Types, ServerTypes
  <2>2. Tail(wire) \in Seq(Chunks)
    BY <2>1, TakenIs
  <2> QED
    BY <2>1, <2>2, Zenon
<1>2. InFront(Head(wire), t, w)
  BY <1>1, TakenIs
<1>3. Ids(w) = Ids(t) /\ (Ascends(w) => Ascends(t))
  BY <1>2 DEF InFront
<1>4. WireOK(log, InTime, w, session.last, stream)
  BY <1>1 DEF IInv, WireInv
<1>5. WireOK(log, InTime, t, session.last, stream)
  BY <1>3, <1>4 DEF WireOK
<1> QED
  BY <1>1, <1>3, <1>5

\* The kinds of chunks.
LEMMA ChunkIs ==
    ASSUME NEW c \in Chunks
    PROVE  /\ c[1] = "snapshot" => c[2] \in Rows /\ c = <<"snapshot", c[2]>>
           /\ c[1] = "log" => c[2] \in LogIds /\ c = <<"log", c[2]>>
           /\ c[1] # "snapshot" => \A r : c # <<"snapshot", r>>
           /\ c[1] # "log" => \A l : c # <<"log", l>>
<1>1. CASE \E r \in Rows : c = <<"snapshot", r>>
  BY <1>1
<1>2. CASE \E l \in LogIds : c = <<"log", l>>
  BY <1>2
<1>3. CASE c \in {<<"retry">>, <<"ping">>, <<"done">>, <<"end">>}
  <2>1. c[1] \in {"retry", "ping", "done", "end"}
    BY <1>3
  <2>2. c[1] # "snapshot" /\ c[1] # "log"
    BY <2>1
  <2>3. (\A r : <<"snapshot", r>>[1] = "snapshot") /\ (\A l : <<"log", l>>[1] = "log")
    OBVIOUS
  <2> HIDE <1>3
  <2> QED
    BY <2>2, <2>3
<1> QED
  BY <1>1, <1>2, <1>3 DEF Chunks

\* A session whose connection fails polls, or tries again.
LEMMA OnErrorIs ==
    ASSUME NEW s \in Sessions, s.failed < MaxFailed
    PROVE  /\ ConnectionFailed(s) \in Sessions /\ ConnectionFailed(s).last = s.last
           /\ ConnectionFailed(s).pc \in {"mint", "tick"}
           /\ ConnectionFailed(s).pc = "mint" => ConnectionFailed(s).failed < MaxFailed
           /\ OnError(s) \in Sessions /\ OnError(s).last = s.last
           /\ OnError(s).pc \in {"mint", "tick"}
           /\ OnError(s).pc = "mint" => OnError(s).failed < MaxFailed
<1>1. PICK n \in Nat, m \in Nat : n = s.failed /\ m = MaxFailed
  <2>1. MaxFailed \in Nat /\ s.failed \in 0..MaxFailed
    BY ViewAssumption DEF Sessions
  <2> QED
    BY <2>1
<1>2. PICK k \in 0..MaxFailed : k = n + 1
  BY <1>1
<1>3. /\ ConnectionFailed(s) \in Sessions /\ ConnectionFailed(s).last = s.last
      /\ ConnectionFailed(s).pc \in {"mint", "tick"}
      /\ ConnectionFailed(s).pc = "mint" => ConnectionFailed(s).failed < MaxFailed
  <2>1. CASE k >= MaxFailed
    <3>1. ConnectionFailed(s) = [s EXCEPT !.failed = k, !.pc = "tick"]
      BY <1>1, <1>2, <2>1 DEF ConnectionFailed
    <3> QED
      BY <3>1 DEF Sessions
  <2>2. CASE k < MaxFailed
    <3>1. ConnectionFailed(s) = [s EXCEPT !.failed = k, !.pc = "mint"]
      BY <1>1, <1>2, <2>2 DEF ConnectionFailed
    <3> QED
      BY <2>2, <3>1 DEF Sessions
  <2> QED
    BY <1>1, <1>2, <2>1, <2>2
<1>4. CASE s.heard
  <2>1. OnError(s) = [s EXCEPT !.pc = "mint"]
    BY <1>4 DEF OnError
  <2>2. /\ OnError(s) \in Sessions /\ OnError(s).last = s.last
        /\ OnError(s).pc = "mint" /\ OnError(s).failed < MaxFailed
    BY <2>1 DEF Sessions
  <2> QED
    BY <1>3, <2>2
<1>5. CASE ~s.heard
  BY <1>3, <1>5 DEF OnError
<1> QED
  BY <1>4, <1>5

\* A snapshot waits for the next frame; the page's lines are as they were.
LEMMA JobQueued ==
    ASSUME IInv, UNCHANGED <<source, view>>, session'.last = session.last,
           NEW j \in Rows, queued' = [queued EXCEPT !.job = j]
    PROVE  PageTypes' /\ ConsoleInv'
<1>1. log' = log /\ InTime' = InTime /\ view' = view
  BY SameSource DEF IInv
<1>2. PICK q \in Queues : q = queued
  BY DEF IInv, Types, PageTypes
<1>3. /\ queued' \in Queues /\ queued'.lines = queued.lines /\ queued'.dropped = queued.dropped
  BY <1>2 DEF Queues
<1>4. PageTypes'
  BY <1>1, <1>3 DEF IInv, Types, PageTypes
<1>5. Console' = Console
  BY <1>1, <1>3, <1>4, ConsoleIs DEF IInv, Types
<1> QED
  BY <1>1, <1>3, <1>4, <1>5 DEF IInv, ConsoleInv

\* A snapshot event.
LEMMA SnapshotReceived ==
    ASSUME IInv, wire # <<>>, wire' = Tail(wire), session.pc = "open",
           UNCHANGED <<source, stream, wakes, request, view, faults, user>>,
           NEW r \in Rows, Head(wire) = <<"snapshot", r>>,
           session' = Heard(session), queued' = [queued EXCEPT !.job = r]
    PROVE  IInv'
<1>1. PICK w \in Seq(Chunks), t \in Seq(Chunks) : w = wire /\ t = Tail(wire)
  <2>1. wire \in Seq(Chunks)
    BY DEF IInv, Types, ServerTypes
  <2>2. Tail(wire) \in Seq(Chunks)
    BY <2>1, TakenIs
  <2> QED
    BY <2>1, <2>2, Zenon
<1>2. InFront(Head(wire), t, w)
  BY <1>1, TakenIs
<1>3. session' \in Sessions /\ session'.pc = "open" /\ session'.failed < MaxFailed /\ session'.last = session.last
  <2>1. session \in Sessions /\ session.failed < MaxFailed
    BY DEF IInv, Types, SessionTypes
  <2> QED
    BY <2>1, HeardIs
<1>4. PageTypes' /\ ConsoleInv'
  BY <1>3, JobQueued
<1>5. \A l \in LogIds : Head(wire) # <<"log", l>>
  OBVIOUS
<1>6. /\ WireOK(log, InTime, Tail(wire), session.last, stream)
      /\ Ids(Tail(wire)) = Ids(wire)
  BY <1>5, OtherTaken
<1>7. queued'.job = r
  <2>1. PICK q \in Queues : q = queued
    BY DEF IInv, Types, PageTypes
  <2> QED
    BY <2>1 DEF Queues
<1>8. ASSUME NEW x, Latest(wire, queued.job, view.job, x)
      PROVE  Latest(Tail(wire), queued'.job, view.job, x)
  <2>1. Closes(w, x)
    <3>1. ~Silent(w)
      BY <1>2 DEF InFront
    <3> QED
      BY <1>1, <1>8, <3>1 DEF Latest
  <2>2. CASE Closes(t, x)
    BY <1>1, <2>2 DEF Latest
  <2>3. CASE Head(wire) = <<"snapshot", x>> /\ Silent(t)
    <3>1. x = r
      BY <2>3
    <3> QED
      BY <1>1, <1>7, <2>3, <3>1 DEF Latest
  <2> QED
    BY <1>2, <2>1, <2>2, <2>3 DEF InFront
<1> QED
  BY <1>3, <1>4, <1>6, <1>8, TakenKeeps

\* A comment or the retry hint.
LEMMA NothingReceived ==
    ASSUME IInv, wire # <<>>, wire' = Tail(wire), session.pc = "open",
           UNCHANGED <<source, stream, wakes, session, request, queued, view, faults, user>>,
           \A l : Head(wire) # <<"log", l>>, \A r : Head(wire) # <<"snapshot", r>>
    PROVE  IInv'
<1>1. PICK w \in Seq(Chunks), t \in Seq(Chunks) : w = wire /\ t = Tail(wire)
  <2>1. wire \in Seq(Chunks)
    BY DEF IInv, Types, ServerTypes
  <2>2. Tail(wire) \in Seq(Chunks)
    BY <2>1, TakenIs
  <2> QED
    BY <2>1, <2>2, Zenon
<1>2. InFront(Head(wire), t, w)
  BY <1>1, TakenIs
<1>3. session' \in Sessions /\ session'.pc = "open" /\ session'.failed < MaxFailed /\ session'.last = session.last
  BY DEF IInv, Types, SessionTypes
<1>4. PageTypes' /\ ConsoleInv'
  BY <1>3, SamePage
<1>5. /\ WireOK(log, InTime, Tail(wire), session.last, stream)
      /\ Ids(Tail(wire)) = Ids(wire)
  BY OtherTaken
<1>6. (Silent(w) <=> Silent(t)) /\ \A x : Closes(w, x) <=> Closes(t, x)
  BY <1>2 DEF InFront
<1>7. \A x : Latest(wire, queued.job, view.job, x) => Latest(Tail(wire), queued'.job, view.job, x)
  BY <1>1, <1>6 DEF Latest
<1> QED
  BY <1>3, <1>4, <1>5, <1>7, TakenKeeps

\* The page hears that the stream ends.
LEMMA EndReceived ==
    ASSUME IInv, session.pc = "open", Hangup, UNCHANGED <<source, queued, view, faults, user>>,
           \/ /\ session' = [session EXCEPT !.pc = "drain", !.ended = TRUE]
              /\ request' = NewRequest
           \/ session' = OnError(session) /\ UNCHANGED request
    PROVE  IInv'
<1>1. PICK s \in Sessions : s = session /\ s.failed < MaxFailed
  BY DEF IInv, Types, SessionTypes
<1>2. request.step = "none"
  BY DEF IInv, Types, SessionTypes, Requests, Where
<1>3. /\ session' \in Sessions /\ session'.last = session.last
      /\ session'.pc \in {"mint", "open"} => session'.failed < MaxFailed
      /\ request' \in Requests /\ request'.step \in {"none", "job"}
      /\ request'.step # "none" => session'.pc \in {"fetch", "drain"}
  <2>1. CASE session' = [s EXCEPT !.pc = "drain", !.ended = TRUE] /\ request' = NewRequest
    BY <2>1, <1>1, RequestsAre DEF Sessions
  <2>2. CASE session' = OnError(s) /\ UNCHANGED request
    BY <1>1, <1>2, <2>2, OnErrorIs DEF IInv, Types, SessionTypes
  <2> QED
    BY <1>1, <2>1, <2>2
<1>4. SessionTypes'
  BY <1>3 DEF SessionTypes
<1>5. PageTypes' /\ ConsoleInv'
  BY <1>3, SamePage
<1>6. UserTypes'
  BY DEF IInv, Types, UserTypes, user
<1>7. RequestInv'
  BY <1>3 DEF RequestInv
<1> QED
  BY <1>3, <1>4, <1>5, <1>6, <1>7, NoStreamKeeps

\* Every chunk.
LEMMA ReceiveKeeps ==
    ASSUME IInv, Receive
    PROVE  IInv'
<1>1. PICK c \in Chunks : c = Head(wire)
  <2>1. wire \in Seq(Chunks) /\ wire # <<>>
    BY DEF IInv, Types, ServerTypes, Receive
  <2> QED
    BY <2>1, TakenIs
<1>2. session.pc = "open" /\ wire # <<>> /\ UNCHANGED <<source, faults, view, user>>
  BY DEF Receive
<1>3. CASE c[1] = "snapshot"
  <2>1. /\ session' = Heard(session) /\ queued' = [queued EXCEPT !.job = c[2]]
        /\ wire' = Tail(wire) /\ UNCHANGED <<stream, wakes, request>>
    BY <1>1, <1>3 DEF Receive
  <2>2. PICK r \in Rows : r = c[2] /\ c = <<"snapshot", r>>
    BY <1>3, ChunkIs
  <2> QED
    BY <1>1, <1>2, <2>1, <2>2, SnapshotReceived
<1>4. CASE c[1] = "log"
  <2>1. /\ session' = [Heard(session) EXCEPT !.last = Last({c[2]})]
        /\ queued' = QueueLines(queued, Fresh({c[2]}))
        /\ wire' = Tail(wire) /\ UNCHANGED <<stream, wakes, request>>
    BY <1>1, <1>4 DEF Receive
  <2>2. PICK l \in LogIds : l = c[2] /\ c = <<"log", l>>
    BY <1>4, ChunkIs
  <2> QED
    BY <1>1, <1>2, <2>1, <2>2, LineReceived
<1>5. CASE c[1] = "done"
  <2>1. /\ session' = [session EXCEPT !.pc = "drain", !.ended = TRUE]
        /\ request' = NewRequest /\ Hangup /\ UNCHANGED queued
    BY <1>1, <1>5 DEF Receive
  <2> QED
    BY <1>2, <2>1, EndReceived
<1>6. CASE c[1] = "end"
  <2>1. session' = OnError(session) /\ Hangup /\ UNCHANGED <<request, queued>>
    BY <1>1, <1>6 DEF Receive
  <2> QED
    BY <1>2, <2>1, EndReceived
<1>7. CASE c[1] \notin {"snapshot", "log", "done", "end"}
  <2>1. wire' = Tail(wire) /\ UNCHANGED <<session, stream, wakes, request, queued>>
    BY <1>1, <1>7 DEF Receive
  <2>2. (\A l : c # <<"log", l>>) /\ (\A r : c # <<"snapshot", r>>)
    BY <1>7, ChunkIs
  <2> QED
    BY <1>1, <1>2, <2>1, <2>2, NothingReceived
<1> QED
  BY <1>3, <1>4, <1>5, <1>6, <1>7

-----------------------------------------------------------------------------
(* Frame and Connect *)

\* An animation frame shows what was queued.
LEMMA FrameKeeps ==
    ASSUME IInv, Frame
    PROVE  IInv'
<1>1. /\ UNCHANGED <<source, server, faults, session, request, user>>
      /\ queued' = NothingQueued
      /\ view' = LET v == AppendLines(view, queued.lines, queued.dropped)
                 IN  IF queued.job = None THEN v ELSE [v EXCEPT !.job = queued.job]
  BY DEF Frame
<1>2. log' = log /\ InTime' = InTime /\ session' = session /\ clicks' = clicks
  BY <1>1, SameSource DEF IInv, user
<1>3. PICK v \in Views, q \in Queues, a \in Seq(Nat), b \in Seq(Nat), d \in Nat, h \in Nat :
         /\ v = view /\ q = queued /\ a = view.lines /\ b = queued.lines /\ d = queued.dropped
         /\ h = view.hidden
  <2>1. /\ view \in Views /\ queued \in Queues /\ view.lines \in Seq(Nat) /\ queued.lines \in Seq(Nat)
        /\ queued.dropped \in Nat /\ view.hidden \in Nat
    BY DEF IInv, Types, PageTypes, Queues, Views
  <2> QED
    BY <2>1, Zenon
<1>4. PICK n \in Views : n = AppendLines(v, b, d)
  BY AppendLinesIs
<1>5. /\ n.job = v.job /\ n.lines = Kept(a \o b) /\ n.hidden = h + d + Over(a \o b)
  <2>1. /\ AppendLines(v, b, d).job = v.job
        /\ AppendLines(v, b, d).lines = Kept(v.lines \o b)
        /\ AppendLines(v, b, d).hidden = v.hidden + d + Over(v.lines \o b)
    BY AppendLinesIs
  <2>2. v.lines = a /\ v.hidden = h
    BY <1>3
  <2> QED
    BY <1>4, <2>1, <2>2, Zenon
<1>6. /\ view' \in Views /\ view'.lines = n.lines /\ view'.hidden = n.hidden
      /\ view'.job = IF q.job = None THEN v.job ELSE q.job
  <2>1. view' = IF q.job = None THEN n ELSE [n EXCEPT !.job = q.job]
    BY <1>1, <1>3, <1>4
  <2>2. q.job \in {None} \cup Rows
    BY DEF Queues
  <2> QED
    BY <1>5, <2>1, <2>2 DEF Views
<1>7. /\ queued' \in Queues /\ queued'.lines = <<>> /\ queued'.job = None /\ queued'.dropped = 0
  <2>1. <<>> \in Seq(Nat)
    BY EmptySeq
  <2> QED
    BY <1>1, <2>1 DEF NothingQueued, Queues
<1>8. PageTypes'
  BY <1>6, <1>7 DEF PageTypes
<1>9. Console' = Console /\ Console = Kept(a \o b)
  <2>1. Console = Kept(a \o b)
    BY <1>3, ConsoleIs DEF IInv, Types
  <2>2. Console' = Kept(view'.lines \o <<>>)
    BY <1>7, <1>8, ConsoleIs
  <2>3. view'.lines = Kept(a \o b)
    BY <1>5, <1>6
  <2>4. PICK ab \in Seq(Nat) : ab = a \o b
    BY ConcatProperties
  <2>5. Kept(ab) \in Seq(Nat) /\ Kept(Kept(ab)) = Kept(ab)
    BY KeptIs, KeptQueue
  <2>6. Kept(ab) \o <<>> = Kept(ab)
    BY <2>5, ConcatEmptySeq
  <2> QED
    BY <2>1, <2>2, <2>3, <2>4, <2>5, <2>6
<1>10. view'.hidden + queued'.dropped + Len(view'.lines) + Len(queued'.lines) <= Rank0(session'.last)
  <2>1. PICK ab \in Seq(Nat) : ab = a \o b
    BY ConcatProperties
  <2>2. PICK la \in Nat, lb \in Nat, o \in Nat, k \in Nat :
           la = Len(a) /\ lb = Len(b) /\ o = Over(ab) /\ k = Len(Kept(ab))
    <3>1. Len(a) \in Nat /\ Len(b) \in Nat
      BY LenProperties
    <3>2. Over(ab) \in Nat /\ Len(Kept(ab)) \in Nat
      BY KeptIs, LenProperties
    <3> QED
      BY <3>1, <3>2, Zenon
  <2>3. k + o = la + lb
    <3>1. Len(ab) = la + lb
      BY <2>1, <2>2, ConcatProperties
    <3> QED
      BY <2>2, <3>1, KeptIs
  <2>4. PICK r \in Nat : r = Rank0(session.last)
    <3>1. session.last \in Froms
      BY DEF IInv, Types, SessionTypes, Sessions
    <3> QED
      BY <3>1 DEF Froms, Rank0, LogIds
  <2>5. h + d + la + lb <= r
    BY <1>3, <2>2, <2>4 DEF IInv, ConsoleInv
  <2>6. view'.hidden = h + d + o /\ Len(view'.lines) = k
    BY <1>5, <1>6, <2>1, <2>2
  <2>7. Len(queued'.lines) = 0
    BY <1>7
  <2>8. (h + d + o) + 0 + k + 0 <= r
    BY <2>3, <2>5
  <2> QED
    BY <1>2, <1>7, <2>4, <2>6, <2>7, <2>8
<1>11. ConsoleInv'
  BY <1>2, <1>9, <1>10 DEF IInv, ConsoleInv
<1>12. UserTypes'
  BY <1>1 DEF IInv, Types, UserTypes, user
<1>13. ASSUME NEW x, Latest(wire, queued.job, view.job, x)
       PROVE  Latest(wire, queued'.job, view'.job, x)
  BY <1>3, <1>6, <1>7, <1>13 DEF Latest
<1> QED
  BY <1>1, <1>2, <1>8, <1>11, <1>12, <1>13, SameStreamKeeps

\* A stream is opened at the last line received.
LEMMA ConnectKeeps ==
    ASSUME IInv, Connect
    PROVE  IInv'
<1>1. /\ session.pc = "mint" /\ Open(session.last)
      /\ UNCHANGED <<source, faults, request, queued, view, user>>
  BY DEF Connect
<1>2. PICK s \in Sessions : s = session /\ s.failed < MaxFailed
  BY <1>1 DEF IInv, Types, SessionTypes
<1>3. session' = [s EXCEPT !.pc = "open", !.ended = FALSE, !.heard = FALSE]
  BY <1>2 DEF Connect
<1>4. /\ session' \in Sessions /\ session'.pc = "open" /\ session'.failed < MaxFailed
      /\ session'.last = session.last
  BY <1>2, <1>3 DEF Sessions
<1>5. request'.step = "none" /\ request' \in Requests
  BY <1>1 DEF IInv, Types, SessionTypes, Requests, Where
<1>6. SessionTypes'
  BY <1>4, <1>5 DEF SessionTypes
<1>7. PICK n \in Streams : n = NoStream
  BY NoStreamIs
<1>8. /\ stream' = [n EXCEPT !.phase = "opening", !.fetch = "job", !.cursor = session.last]
      /\ wire' = <<>> /\ wakes' = "none"
  BY <1>1, <1>7 DEF Open
<1>9. /\ stream' \in Streams /\ stream'.phase = "opening" /\ stream'.fetch = "job"
      /\ stream'.cursor = session.last /\ stream'.key = None
      /\ ~stream'.timer /\ ~stream'.pending /\ ~stream'.paused
  <2>1. session.last \in Froms
    BY DEF IInv, Types, SessionTypes, Sessions
  <2>2. n.key = None /\ ~n.timer /\ ~n.pending /\ ~n.paused
    BY <1>7 DEF NoStream
  <2> QED
    BY <1>8, <2>1, <2>2 DEF Streams
<1>10. wire' \in Seq(Chunks) /\ Ids(wire') = {} /\ Ascends(wire') /\ ~Says(wire', <<"done">>)
  BY <1>8, EmptyIs, EmptySeq
<1>11. ServerTypes'
  BY <1>8, <1>9, <1>10 DEF ServerTypes
<1>12. PageTypes' /\ ConsoleInv'
  BY <1>1, <1>4, SamePage
<1>13. UserTypes'
  BY <1>1 DEF IInv, Types, UserTypes, user
<1>14. SourceInv'
  BY <1>1, SameSource DEF IInv
<1>15. Where'
  BY <1>4, <1>5, <1>8, <1>9 DEF Where
<1>16. Notices' /\ ReadInv' /\ KeyInv'
  BY <1>9 DEF Notices, ReadInv, KeyInv
<1>17. WireInv'
  BY <1>4, <1>9, <1>10 DEF WireInv, WireOK, CursorOK, After, Gapless
<1>18. DoneInv'
  BY <1>10 DEF DoneInv
<1>19. RequestInv'
  BY <1>5 DEF RequestInv
<1> QED
  BY <1>6, <1>11, <1>12, <1>13, <1>14, <1>15, <1>16, <1>17, <1>18, <1>19 DEF IInv, Types

-----------------------------------------------------------------------------
(* The token request, and a connection that breaks *)

\* A token that is refused or does not come, a connection that breaks.
LEMMA MintKeeps ==
    ASSUME IInv, Refused \/ Unreachable \/ Broken
    PROVE  IInv'
<1>1. /\ session.pc \in {"mint", "open"} /\ Fault
      /\ UNCHANGED <<source, request, queued, view, user>>
  BY DEF Refused, Unreachable, Broken
<1>2. Hangup
  <2>1. CASE Refused \/ Unreachable
    BY <2>1, NoStreamStays DEF Refused, Unreachable
  <2>2. CASE Broken
    BY <2>2 DEF Broken
  <2> QED
    BY <2>1, <2>2
<1>3. PICK s \in Sessions : s = session /\ s.failed < MaxFailed
  BY <1>1 DEF IInv, Types, SessionTypes
<1>4. /\ session' \in Sessions /\ session'.last = session.last
      /\ session'.pc \in {"mint", "open"} => session'.failed < MaxFailed
  <2>1. CASE Refused
    <3>1. \/ session' = [s EXCEPT !.pc = "tick", !.ended = FALSE, !.sseUnavailable = TRUE]
          \/ session' = [s EXCEPT !.pc = "denied", !.ended = TRUE]
      BY <1>3, <2>1 DEF Refused
    <3> QED
      BY <1>3, <3>1 DEF Sessions
  <2>2. CASE Unreachable
    BY <1>3, <2>2, OnErrorIs DEF Unreachable
  <2>3. CASE Broken
    BY <1>3, <2>3, OnErrorIs DEF Broken
  <2> QED
    BY <2>1, <2>2, <2>3
<1>5. request'.step = "none" /\ request' \in Requests
  BY <1>1 DEF IInv, Types, SessionTypes, Requests, Where
<1>6. SessionTypes' /\ RequestInv'
  BY <1>4, <1>5 DEF SessionTypes, RequestInv
<1>7. PageTypes' /\ ConsoleInv'
  BY <1>1, <1>4, SamePage
<1>8. UserTypes'
  <2>1. faults' \in 0..MaxFaults
    BY <1>1, FaultIs DEF IInv, Types
  <2> QED
    BY <1>1, <2>1 DEF IInv, Types, UserTypes, user
<1> QED
  BY <1>1, <1>2, <1>5, <1>6, <1>7, <1>8, NoStreamKeeps

-----------------------------------------------------------------------------
(* A poll or a drain *)

\* The polling timer.
LEMMA TickKeeps ==
    ASSUME IInv, Tick
    PROVE  IInv'
<1>1. session.pc = "tick" /\ UNCHANGED <<source, server, faults, queued, view, user>>
  BY DEF Tick
<1>2. PICK s \in Sessions : s = session
  BY DEF IInv, Types, SessionTypes
<1>3. session' = [s EXCEPT !.pc = "fetch"] /\ request' = NewRequest
  BY <1>2 DEF Tick
<1>4. session' \in Sessions /\ session'.pc = "fetch" /\ session'.last = session.last
  BY <1>2, <1>3 DEF Sessions
<1>5. request' \in Requests /\ request'.step = "job"
  BY <1>3, RequestsAre
<1>6. SessionTypes' /\ RequestInv'
  BY <1>4, <1>5 DEF SessionTypes, RequestInv
<1>7. PageTypes' /\ ConsoleInv'
  BY <1>1, <1>4, SamePage
<1>8. UserTypes'
  BY <1>1 DEF IInv, Types, UserTypes, user
<1>9. Hangup
  BY <1>1, NoStreamStays
<1> QED
  BY <1>1, <1>4, <1>6, <1>7, <1>8, <1>9, NoStreamKeeps

\* The second query of a request continues the last line received.
LEMMA RequestLogsFollow ==
    ASSUME IInv, NEW page, page = LogsAfter(Rank0(session.last), PageSize)
    PROVE  page \in SUBSET LogIds /\ After(log, page, session.last) /\ Gapless(InTime, page, session.last)
<1>1. PICK L \in SUBSET LogIds, T \in SUBSET (LogIds \ {0}), last \in Froms, r \in Froms :
         L = log /\ T = InTime /\ T \in SUBSET L /\ last = session.last /\ r = Rank0(last)
  <2>1. log \in SUBSET LogIds /\ InTime \in SUBSET log /\ InTime \in SUBSET (LogIds \ {0})
    BY LogIsOfIds DEF IInv
  <2>2. session.last \in Froms /\ 0 \in Froms
    BY StreamAssumption DEF IInv, Types, SessionTypes, Sessions, Froms, LogIds
  <2>3. Rank0(session.last) \in Froms
    BY <2>2 DEF Rank0
  <2> QED
    BY <2>1, <2>2, <2>3, Zenon
<1>2. r # None
  BY <1>1, StreamAssumption DEF Rank0
<1>3. page = Page(L, r, PageSize)
  BY <1>1, <1>2 DEF LogsAfter, Page
<1>4. page \in SUBSET L /\ After(L, page, r) /\ Gapless(T, page, r)
  <2>1. PageSize \in Int
    BY ViewAssumption
  <2>2. T \in SUBSET L
    BY <1>1
  <2>3. /\ Page(L, r, PageSize) \in SUBSET L
        /\ After(L, Page(L, r, PageSize), r)
        /\ Gapless(T, Page(L, r, PageSize), r)
    BY <2>1, <2>2, PageIs
  <2> QED
    BY <1>3, <2>3, Zenon
<1>5. After(L, page, last) /\ Gapless(T, page, last)
  <2>1. CASE last = None
    <3>1. r = 0
      BY <1>1, <2>1 DEF Rank0
    <3>2. Gapless(T, page, None)
      BY <1>4, <3>1, GaplessFromStart
    <3> QED
      BY <1>4, <2>1, <3>2 DEF After
  <2>2. CASE last # None
    BY <1>1, <1>4, <2>2 DEF Rank0
  <2> QED
    BY <2>1, <2>2
<1> QED
  BY <1>1, <1>4, <1>5

\* The two queries of a request.
LEMMA RequestKeeps ==
    ASSUME IInv, RequestJob \/ RequestLogs
    PROVE  IInv'
<1>1. request.step \in {"job", "logs"} /\ UNCHANGED <<source, server, faults, session, queued, view, user>>
  BY DEF RequestJob, RequestLogs
<1>2. session.pc \in {"fetch", "drain"} /\ session' = session
  BY <1>1 DEF IInv, Where
<1>3. PICK r \in Requests : r = request
  BY DEF IInv, Types, SessionTypes
<1>4. log' = log /\ InTime' = InTime
  BY <1>1, SameSource DEF IInv
<1>5. request' \in Requests /\ (request'.step \in {"logs", "answer"} => request'.job \in Rows) /\ RequestInv'
  <2>1. CASE RequestJob
    <3>1. request' = [r EXCEPT !.step = "logs", !.job = row] /\ row \in Rows
      BY <1>3, <2>1 DEF RequestJob, IInv, SourceInv
    <3>2. request' \in Requests /\ request'.step = "logs" /\ request'.job = row
      BY <3>1 DEF Requests
    <3> QED
      BY <3>1, <3>2 DEF RequestInv
  <2>2. CASE RequestLogs
    <3>1. PICK page : page = LogsAfter(Rank0(session.last), PageSize)
      OBVIOUS
    <3>2. page \in SUBSET LogIds /\ After(log, page, session.last) /\ Gapless(InTime, page, session.last)
      BY <3>1, RequestLogsFollow
    <3>3. request' = [r EXCEPT !.step = "answer", !.page = page] /\ r.step = "logs"
      BY <1>3, <2>2, <3>1 DEF RequestLogs, Rank0
    <3>4. request' \in Requests /\ request'.job = r.job /\ request'.page = page
      BY <3>2, <3>3 DEF Requests
    <3>5. r.job \in Rows
      BY <1>3, <3>3 DEF IInv, Types, SessionTypes
    <3> QED
      BY <1>2, <1>4, <3>2, <3>4, <3>5 DEF RequestInv
  <2> QED
    BY <2>1, <2>2
<1>6. SessionTypes'
  BY <1>2, <1>5 DEF IInv, Types, SessionTypes
<1>7. PageTypes' /\ ConsoleInv'
  BY <1>1, <1>2, SamePage
<1>8. UserTypes'
  BY <1>1 DEF IInv, Types, UserTypes, user
<1>9. Hangup
  BY <1>1, <1>2, NoStreamStays
<1> QED
  BY <1>1, <1>2, <1>5, <1>6, <1>7, <1>8, <1>9, NoStreamKeeps

\* An answer reaches the page,
LEMMA AnsweredKeeps ==
    ASSUME IInv, session.pc \in {"fetch", "drain"}, request.step = "answer",
           Deliver(request.job, request.page),
           UNCHANGED <<source, server, faults, view, user>>,
           NEW pc \in {"tick", "over", "drain"}, NEW ended \in BOOLEAN,
           session' = [session EXCEPT !.last = Last(request.page), !.pc = pc, !.ended = ended],
           request' = NoRequest \/ (request' = NewRequest /\ pc = "drain")
    PROVE  IInv'
<1>1. PICK L \in SUBSET LogIds, T \in SUBSET LogIds, S \in SUBSET LogIds, j \in Rows :
         /\ L = log /\ T = InTime /\ T \in SUBSET L
         /\ S = request.page /\ S \in SUBSET L /\ j = request.job
         /\ After(log, S, session.last) /\ Gapless(InTime, S, session.last)
  <2>1. log \in SUBSET LogIds /\ InTime \in SUBSET log /\ InTime \in SUBSET LogIds
    BY LogIsOfIds DEF IInv
  <2>2. request.page \in SUBSET LogIds /\ request.job \in Rows
    BY DEF IInv, Types, SessionTypes, Requests
  <2>3. After(log, request.page, session.last) /\ Gapless(InTime, request.page, session.last)
    BY DEF IInv, RequestInv
  <2>4. request.page \in SUBSET log
    BY <2>3 DEF After
  <2> QED
    BY <2>1, <2>2, <2>3, <2>4, Zenon
<1>2. PICK s \in Sessions, q \in Queues : s = session /\ q = queued
  <2>1. session \in Sessions /\ queued \in Queues
    BY DEF IInv, Types, SessionTypes, PageTypes
  <2> QED
    BY <2>1, Zenon
<1>3. Fresh(S) = S /\ (Last(S) = IF S = {} THEN session.last ELSE Greatest(S)) /\ Last(S) \in Froms
  <2>1. session.last \in Froms
    BY DEF IInv, Types, SessionTypes, Sessions
  <2>2. S \in SUBSET L /\ After(L, S, session.last)
    BY <1>1
  <2> QED
    BY <2>1, <2>2, FreshIs
<1>4. PICK last \in Froms : last = Last(S)
  BY <1>3
<1>5. session' = [s EXCEPT !.last = last, !.pc = pc, !.ended = ended]
  BY <1>1, <1>2, <1>4
<1>6. session' \in Sessions /\ session'.last = last /\ session'.pc = pc
  BY <1>5 DEF Sessions
<1>7. PICK p \in Queues : p = [q EXCEPT !.job = j]
  BY DEF Queues
<1>8. p.lines = queued.lines /\ p.dropped = queued.dropped
  BY <1>2, <1>7 DEF Queues
<1>9. queued' = QueueLines(p, S)
  BY <1>1, <1>2, <1>3, <1>7 DEF Deliver
<1>10. PageTypes' /\ ConsoleInv'
  <2>1. session'.last = IF S = {} THEN session.last ELSE Greatest(S)
    BY <1>3, <1>4, <1>6
  <2>2. After(log, S, session.last) /\ Gapless(InTime, S, session.last) /\ UNCHANGED <<source, view>>
    BY <1>1
  <2> QED
    BY <1>8, <1>9, <2>1, <2>2, LinesDelivered
<1>11. /\ request' \in Requests /\ request'.step \in {"none", "job"}
       /\ request'.step # "none" => session'.pc \in {"fetch", "drain"}
  BY <1>6, RequestsAre
<1>12. SessionTypes' /\ RequestInv'
  BY <1>6, <1>11 DEF SessionTypes, RequestInv
<1>13. UserTypes'
  BY DEF IInv, Types, UserTypes, user
<1>14. Hangup
  BY NoStreamStays
<1> QED
  BY <1>10, <1>11, <1>12, <1>13, <1>14, NoStreamKeeps

\* of a poll or of a drain.
LEMMA AnswerKeeps ==
    ASSUME IInv, PollAnswered \/ DrainAnswered
    PROVE  IInv'
<1>1. session.ended \in BOOLEAN /\ Terminal(request.job) \in BOOLEAN
  BY DEF IInv, Types, SessionTypes, Sessions, Terminal
<1>2. CASE PollAnswered
  <2>1. PICK pc \in {"tick", "over", "drain"} : pc = IF FullPage \/ Active(request.job) THEN "tick" ELSE "over"
    OBVIOUS
  <2>2. PICK ended \in BOOLEAN : ended = IF FullPage THEN session.ended ELSE Terminal(request.job)
    <3>1. (IF FullPage THEN session.ended ELSE Terminal(request.job)) \in BOOLEAN
      BY <1>1
    <3> QED
      BY <3>1, Zenon
  <2>3. session' = [session EXCEPT !.last = Last(request.page), !.pc = pc, !.ended = ended]
    <3>1. session' = [session EXCEPT !.last = Last(request.page),
                        !.pc = IF FullPage \/ Active(request.job) THEN "tick" ELSE "over",
                        !.ended = IF FullPage THEN session.ended ELSE Terminal(request.job)]
      BY <1>2 DEF PollAnswered
    <3> QED
      BY <2>1, <2>2, <3>1, Zenon
  <2>4. /\ session.pc = "fetch" /\ request.step = "answer" /\ Deliver(request.job, request.page)
        /\ request' = NoRequest /\ UNCHANGED <<source, server, faults, view, user>>
    BY <1>2 DEF PollAnswered
  <2> QED
    BY <2>3, <2>4, AnsweredKeeps
<1>3. CASE DrainAnswered
  <2>1. PICK pc \in {"tick", "over", "drain"} : pc = IF FullPage THEN "drain" ELSE "over"
    OBVIOUS
  <2>2. PICK ended \in BOOLEAN, s \in Sessions : ended = session.ended /\ s = session
    <3>1. session \in Sessions
      BY DEF IInv, Types, SessionTypes
    <3> QED
      BY <1>1, <3>1, Zenon
  <2>3. session' = [s EXCEPT !.last = Last(request.page), !.pc = pc]
    BY <1>3, <2>1, <2>2 DEF DrainAnswered
  <2>4. session' = [session EXCEPT !.last = Last(request.page), !.pc = pc, !.ended = ended]
    BY <2>2, <2>3 DEF Sessions
  <2>5. /\ session.pc = "drain" /\ request.step = "answer" /\ Deliver(request.job, request.page)
        /\ request' = NoRequest \/ (request' = NewRequest /\ pc = "drain")
        /\ UNCHANGED <<source, server, faults, view, user>>
    BY <1>3, <2>1 DEF DrainAnswered
  <2> QED
    BY <2>4, <2>5, AnsweredKeeps
<1> QED
  BY <1>2, <1>3

\* A poll or a drain fails.
LEMMA FailureKeeps ==
    ASSUME IInv, PollFailed \/ DrainFailed
    PROVE  IInv'
<1>1. /\ session.pc \in {"fetch", "drain"} /\ Fault /\ request' = NoRequest
      /\ UNCHANGED <<source, server, queued, view, user>>
  BY DEF PollFailed, DrainFailed
<1>2. PICK s \in Sessions : s = session
  BY DEF IInv, Types, SessionTypes
<1>3. session' \in Sessions /\ session'.last = session.last /\ session'.pc \in {"tick", "denied", "over"}
  <2>1. CASE PollFailed
    <3>1. PICK pc \in {"tick", "denied"} : session' = [s EXCEPT !.pc = pc, !.ended = pc = "denied"]
      BY <1>2, <2>1 DEF PollFailed
    <3>2. PICK e \in BOOLEAN : e = (pc = "denied")
      OBVIOUS
    <3>3. session' = [s EXCEPT !.pc = pc, !.ended = e]
      BY <3>1, <3>2
    <3> QED
      BY <1>2, <3>3 DEF Sessions
  <2>2. CASE DrainFailed
    <3>1. session' = [s EXCEPT !.pc = "over"]
      BY <1>2, <2>2 DEF DrainFailed
    <3> QED
      BY <1>2, <3>1 DEF Sessions
  <2> QED
    BY <2>1, <2>2
<1>4. request' \in Requests /\ request'.step = "none"
  BY <1>1, RequestsAre
<1>5. SessionTypes' /\ RequestInv'
  BY <1>3, <1>4 DEF SessionTypes, RequestInv
<1>6. PageTypes' /\ ConsoleInv'
  BY <1>1, <1>3, SamePage
<1>7. UserTypes'
  <2>1. faults' \in 0..MaxFaults
    BY <1>1, FaultIs DEF IInv, Types
  <2> QED
    BY <1>1, <2>1 DEF IInv, Types, UserTypes, user
<1>8. Hangup
  BY <1>1, NoStreamStays
<1> QED
  BY <1>1, <1>4, <1>5, <1>6, <1>7, <1>8, NoStreamKeeps

-----------------------------------------------------------------------------
(* The buttons *)

\* No action in flight.
LEMMA NoActionIs == NoAction \in Actions /\ NoAction.step = "none"
  BY DEF NoAction, Actions

\* A button is clicked.
LEMMA ClickKeeps ==
    ASSUME IInv, Click
    PROVE  IInv'
<1>1. /\ Fault /\ clicks < MaxClicks /\ clicks' = clicks + 1 /\ UNCHANGED <<source, server, browser>>
  BY DEF Click
<1>2. clicks \in 0..MaxClicks /\ MaxClicks \in Nat
  BY ViewAssumption DEF IInv, Types, UserTypes
<1>3. clicks' \in 0..MaxClicks /\ clicks' # 0
  BY <1>1, <1>2
<1>4. action' \in Actions /\ action'.step = "sent"
  <2>1. PICK kind \in {"cancel", "retry"} :
           action' = [step |-> "sent", kind |-> kind, ended |-> session.ended, answer |-> None]
    BY DEF Click
  <2>2. session.ended \in BOOLEAN
    BY DEF IInv, Types, SessionTypes, Sessions
  <2> QED
    BY <2>1, <2>2 DEF Actions
<1>5. UserTypes'
  <2>1. faults' \in 0..MaxFaults
    BY <1>1, FaultIs DEF IInv, Types
  <2> QED
    BY <1>3, <1>4, <2>1 DEF UserTypes
<1>6. PageTypes' /\ ConsoleInv'
  BY <1>1, SamePage DEF browser
<1> QED
  BY <1>1, <1>3, <1>5, <1>6, SameStreamKeeps DEF browser

\* The API rejects the action.
LEMMA RejectedKeeps ==
    ASSUME IInv, Rejected
    PROVE  IInv'
<1>1. /\ action' = NoAction /\ UNCHANGED <<source, server, faults, browser, clicks>>
  BY DEF Rejected
<1>2. UserTypes'
  BY <1>1, NoActionIs DEF IInv, Types, UserTypes
<1>3. PageTypes' /\ ConsoleInv'
  BY <1>1, SamePage DEF browser
<1>4. queued' = queued /\ view' = view /\ clicks' = clicks
  BY <1>1 DEF browser
<1> QED
  BY <1>1, <1>2, <1>3, <1>4, SameStreamKeeps DEF browser

\* Its answer is shown, and may open a new session.
LEMMA AnswerShownKeeps ==
    ASSUME IInv, Answered
    PROVE  IInv'
<1>1. /\ action.step = "answered" /\ action' = NoAction /\ UNCHANGED <<source, faults, queued, clicks>>
      /\ view' = [view EXCEPT !.job = action.answer]
  BY DEF Answered
<1>2. clicks' # 0
  BY <1>1 DEF IInv, Types, UserTypes
<1>3. UserTypes'
  BY <1>1, NoActionIs DEF IInv, Types, UserTypes
<1>4. PICK j \in Rows, v \in Views : j = action.answer /\ v = view
  <2>1. action.answer \in Rows /\ view \in Views
    BY <1>1 DEF IInv, Types, UserTypes, PageTypes
  <2> QED
    BY <2>1, Zenon
<1>5. view' = [v EXCEPT !.job = j]
  BY <1>1, <1>4
<1>6. view' \in Views /\ view'.lines = view.lines /\ view'.hidden = view.hidden
  BY <1>4, <1>5 DEF Views
<1>7. PageTypes'
  BY <1>1, <1>6 DEF IInv, Types, PageTypes
<1>8. Console' = Console
  BY <1>1, <1>6, <1>7, ConsoleIs DEF IInv, Types
<1>9. log' = log /\ InTime' = InTime
  BY <1>1, SameSource DEF IInv
<1>10. ASSUME session'.last = session.last PROVE ConsoleInv'
  BY <1>1, <1>6, <1>8, <1>9, <1>10 DEF IInv, ConsoleInv
<1>11. CASE action.ended /\ Active(action.answer)
  <2>1. PICK s \in Sessions, pc \in {"tick", "mint"} : s = session /\ pc = IF s.sseUnavailable THEN "tick" ELSE "mint"
    BY DEF IInv, Types, SessionTypes
  <2>2. PICK e \in BOOLEAN : e = (s.ended /\ s.sseUnavailable)
    OBVIOUS
  <2>10. session' = [s EXCEPT !.pc = pc, !.ended = e, !.heard = FALSE, !.failed = 0]
    BY <1>11, <2>1, <2>2 DEF Answered
  <2>3. MaxFailed \in Nat \ {0}
    BY ViewAssumption
  <2>4. 0 \in 0..MaxFailed /\ 0 < MaxFailed
    BY <2>3
  <2>5. session' \in Sessions /\ session'.last = session.last /\ session'.failed < MaxFailed
    BY <2>1, <2>10, <2>4 DEF Sessions
  <2>6. Hangup /\ request' = NoRequest
    BY <1>11 DEF Answered
  <2>7. request' \in Requests /\ request'.step = "none"
    BY <2>6, RequestsAre
  <2>8. SessionTypes' /\ RequestInv'
    BY <2>5, <2>7 DEF SessionTypes, RequestInv
  <2>9. ConsoleInv'
    BY <1>10, <2>5
  <2> QED
    BY <1>1, <1>3, <1>7, <2>6, <2>7, <2>8, <2>9, NoStreamKeeps
<1>12. CASE ~(action.ended /\ Active(action.answer))
  <2>1. UNCHANGED <<session, server, request>>
    BY <1>12 DEF Answered
  <2>2. ConsoleInv'
    BY <1>10, <2>1
  <2> QED
    BY <1>1, <1>2, <1>3, <1>7, <2>1, <2>2, SameStreamKeeps
<1> QED
  BY <1>11, <1>12

\* The API serves the action.
LEMMA ServedKeeps ==
    ASSUME IInv, Served
    PROVE  IInv'
<1>1. SourceMoves /\ UserTypes' /\ clicks # 0
  BY ServedMoves DEF IInv, Types
<1>2. UNCHANGED <<browser, clicks>>
  BY DEF Served
<1>3. WireInv' /\ RequestInv' /\ ConsoleInv'
  BY <1>1, <1>2, SourceKeepsPages DEF IInv
<1>4. /\ ServerTypes' /\ SessionTypes' /\ PageTypes' /\ Where' /\ Notices'
      /\ ReadInv' /\ KeyInv' /\ DoneInv'
  BY <1>1, <1>2, SourceKeepsServer DEF IInv, Types
<1>5. SourceInv'
  BY <1>1 DEF SourceMoves
<1> QED
  BY <1>1, <1>3, <1>4, <1>5 DEF IInv, Types

-----------------------------------------------------------------------------
(* A step of the program *)

\* A step of the worker or of another user.
LEMMA SourceKeeps ==
    ASSUME IInv, SourceNext, UNCHANGED <<browser, user>>
    PROVE  IInv'
<1>1. SourceMoves /\ faults' \in 0..MaxFaults
  <2>1. faults \in 0..MaxFaults
    BY DEF IInv, Types, UserTypes
  <2> QED
    BY <2>1, SourceNextMoves DEF IInv
<1>2. UNCHANGED <<browser, clicks>> /\ UNCHANGED browser
  BY DEF user
<1>3. WireInv' /\ RequestInv' /\ ConsoleInv'
  BY <1>1, <1>2, SourceKeepsPages DEF IInv
<1>4. /\ ServerTypes' /\ SessionTypes' /\ PageTypes' /\ Where' /\ Notices'
      /\ ReadInv' /\ KeyInv' /\ DoneInv'
  BY <1>1, <1>2, SourceKeepsServer DEF IInv, Types
<1>5. SourceInv'
  BY <1>1 DEF SourceMoves
<1>6. UserTypes'
  BY <1>1 DEF IInv, Types, UserTypes, user
<1> QED
  BY <1>3, <1>4, <1>5, <1>6 DEF IInv, Types

\* A step of the stream.
LEMMA StreamKeeps ==
    ASSUME IInv, StreamNext, UNCHANGED <<browser, user>>
    PROVE  IInv'
<1>1. ASSUME Quiet /\ Where' /\ Notices' PROVE IInv'
  BY <1>1, QuietKeeps DEF IInv
<1>2. CASE Notified
  BY <1>1, <1>2, NotifiedKeeps DEF IInv
<1>3. CASE NotificationLost
  BY <1>1, <1>3, LostKeeps DEF IInv
<1>4. CASE Poll
  BY <1>1, <1>4, PollKeeps DEF IInv
<1>5. CASE Refresh
  BY <1>1, <1>5, RefreshKeeps DEF IInv
<1>6. CASE ReadJob
  BY <1>6, ReadJobKeeps
<1>7. CASE ReadLogs
  BY <1>7, ReadLogsKeeps
<1>8. CASE ReadFails
  BY <1>1, <1>8, ReadFailsKeeps DEF IInv
<1>9. CASE ApplyRead
  BY <1>9, ApplyReadKeeps
<1>10. CASE Start
  BY <1>10, StartKeeps
<1>11. CASE Ping
  BY <1>11, PingKeeps
<1>12. CASE Resume
  BY <1>1, <1>12, ResumeKeeps DEF IInv
<1>13. CASE FinishStream
  BY <1>13, FinishStreamKeeps
<1> QED
  BY <1>2, <1>3, <1>4, <1>5, <1>6, <1>7, <1>8, <1>9, <1>10, <1>11, <1>12, <1>13 DEF StreamNext

\* Every step,
LEMMA NextKeeps ==
    ASSUME IInv, Next
    PROVE  IInv'
<1>1. CASE SourceNext /\ UNCHANGED <<browser, user>>
  BY <1>1, SourceKeeps
<1>2. CASE StreamNext /\ UNCHANGED <<browser, user>>
  BY <1>2, StreamKeeps
<1>3. CASE SessionNext
  <2>1. CASE Frame
    BY <2>1, FrameKeeps
  <2>2. CASE Connect
    BY <2>2, ConnectKeeps
  <2>3. CASE Refused \/ Unreachable \/ Broken
    BY <2>3, MintKeeps
  <2>4. CASE Receive
    BY <2>4, ReceiveKeeps
  <2>5. CASE Tick
    BY <2>5, TickKeeps
  <2>6. CASE RequestJob \/ RequestLogs
    BY <2>6, RequestKeeps
  <2>7. CASE PollAnswered \/ DrainAnswered
    BY <2>7, AnswerKeeps
  <2>8. CASE PollFailed \/ DrainFailed
    BY <2>8, FailureKeeps
  <2>9. CASE Click
    BY <2>9, ClickKeeps
  <2>10. CASE Served
    BY <2>10, ServedKeeps
  <2>11. CASE Rejected
    BY <2>11, RejectedKeeps
  <2>12. CASE Answered
    BY <2>12, AnswerShownKeeps
  <2> QED
    BY <1>3, <2>1, <2>2, <2>3, <2>4, <2>5, <2>6, <2>7, <2>8, <2>9, <2>10, <2>11, <2>12 DEF SessionNext
<1> QED
  BY <1>1, <1>2, <1>3 DEF Next

\* and none.
LEMMA StutterKeeps ==
    ASSUME IInv, UNCHANGED vars
    PROVE  IInv'
<1>1. UNCHANGED <<source, server, session, request>> /\ queued' = queued /\ view' = view
      /\ clicks' = clicks /\ faults' = faults /\ action' = action
  BY DEF vars, browser, user
<1>2. PageTypes' /\ ConsoleInv'
  BY <1>1, SamePage
<1>3. UserTypes'
  BY <1>1 DEF IInv, Types, UserTypes
<1> QED
  BY <1>1, <1>2, <1>3, SameStreamKeeps

-----------------------------------------------------------------------------
(* The page opens *)

\* The first page shows the first lines of the log.
LEMMA OpensAtStart ==
    ASSUME Init, NEW L \in SUBSET (LogIds \ {0}), L = log,
           NEW page, page = FirstOf(log, PageSize)
    PROVE  /\ page \in SUBSET L /\ InTime = L
           /\ session.last = IF page = {} THEN None ELSE Greatest(page)
           /\ session.last \in Froms
           /\ PageTypes /\ ConsoleInv
<1>1. page = Page(L, None, PageSize)
  BY DEF Page
<1>2. PICK T \in SUBSET L : T = InTime /\ T = L
  BY DEF Init, InTime
<1>3. page \in SUBSET L /\ After(L, page, None) /\ Gapless(T, page, None)
  <2>1. PageSize \in Int /\ None \in Froms /\ L \in SUBSET LogIds
    BY ViewAssumption DEF Froms
  <2>2. /\ Page(L, None, PageSize) \in SUBSET L
        /\ After(L, Page(L, None, PageSize), None)
        /\ Gapless(T, Page(L, None, PageSize), None)
    BY <2>1, PageIs
  <2> QED
    BY <1>1, <2>2, Zenon
<1>4. /\ session.last = IF page = {} THEN None ELSE Greatest(page)
      /\ queued = NothingQueued
      /\ view = AppendLines([job |-> row, lines |-> <<>>, hidden |-> 0], Ascending(page), 0)
      /\ row \in Rows
  BY DEF Init, Rows, Statuses
<1>5. PICK c \in Seq(Nat), e \in Seq(Nat), z \in Nat : c = Ascending(page) /\ e = <<>> /\ z = 0
  <2>1. Ascending(page) \in Seq(Nat) /\ <<>> \in Seq(Nat) /\ 0 \in Nat
    BY <1>3, AscendingIs, EmptySeq
  <2> QED
    BY <2>1, Zenon
<1>6. PICK v \in Views : v = [job |-> row, lines |-> e, hidden |-> z]
  BY <1>4 DEF Views
<1>7. view \in Views /\ view.lines = Kept(c) /\ view.hidden = Over(c)
  <2>1. view = AppendLines(v, c, z)
    BY <1>4, <1>5, <1>6
  <2>2. /\ AppendLines(v, c, z) \in Views
        /\ AppendLines(v, c, z).lines = Kept(v.lines \o c)
        /\ AppendLines(v, c, z).hidden = v.hidden + z + Over(v.lines \o c)
    BY AppendLinesIs
  <2>3. v.lines = e /\ v.hidden = z
    BY <1>6
  <2>4. e \o c = c
    BY <1>5, ConcatEmptySeq
  <2>5. view.lines = Kept(c) /\ view.hidden = z + z + Over(c)
    BY <2>1, <2>2, <2>3, <2>4, Zenon
  <2>6. Over(c) \in Nat
    BY KeptIs
  <2> QED
    BY <1>5, <2>1, <2>2, <2>5, <2>6
<1>8. queued \in Queues /\ queued.lines = e /\ queued.dropped = 0
  BY <1>4, <1>5 DEF NothingQueued, Queues
<1>9. PageTypes
  BY <1>7, <1>8 DEF PageTypes
<1>10. Console = Kept(c)
  <2>1. Console = Kept(Kept(c) \o e)
    BY <1>7, <1>8, <1>9, ConsoleIs
  <2>2. Kept(c) \in Seq(Nat) /\ Kept(Kept(c)) = Kept(c)
    BY KeptIs, KeptQueue
  <2>3. Kept(c) \o e = Kept(c)
    BY <1>5, <2>2, ConcatEmptySeq
  <2> QED
    BY <2>1, <2>2, <2>3
<1>11. ConsoleOK(L, T, e, None)
  BY <1>5 DEF ConsoleOK, Elems, Gapless, Above
<1>12. Len(c) = Cardinality(page) /\ Cardinality(page) \in Nat
  BY <1>3, <1>5, AscendingIs, IdsAreFinite
<1>13. CASE page = {}
  <2>1. Len(c) = 0
    BY <1>12, <1>13, FS_EmptySet
  <2>2. c = e
    BY <1>5, <2>1
  <2>3. Kept(c) = e /\ Over(c) = 0
    <3>1. PICK k \in Seq(Nat), m \in Nat, o \in Nat : k = Kept(c) /\ m = Len(k) /\ o = Over(c)
      <4>1. Kept(c) \in Seq(Nat) /\ Over(c) \in Nat /\ Len(Kept(c)) \in Nat
        BY KeptIs, LenProperties
      <4> QED
        BY <4>1, Zenon
    <3>2. m + o = 0
      BY <2>1, <3>1, KeptIs
    <3>3. m = 0 /\ o = 0
      BY <3>2
    <3>4. k = <<>>
      BY <3>1, <3>3, EmptySeq
    <3> QED
      BY <1>5, <3>1, <3>3, <3>4, Zenon
  <2>4. ConsoleOK(log, InTime, Console, session.last)
    BY <1>2, <1>4, <1>10, <1>11, <1>13, <2>3
  <2>5. view.hidden = 0 /\ Len(view.lines) = 0 /\ Len(queued.lines) = 0
    BY <1>5, <1>7, <1>8, <2>3
  <2>6. Rank0(session.last) = 0 /\ session.last \in Froms
    BY <1>4, <1>13 DEF Rank0, Froms
  <2>7. ConsoleInv
    BY <1>8, <2>4, <2>5, <2>6 DEF ConsoleInv
  <2> QED
    BY <1>2, <1>3, <1>4, <1>9, <2>6, <2>7
<1>14. CASE page # {}
  <2>1. PICK g \in page : g = Greatest(page) /\ \A x \in page : x <= g
    BY <1>3, <1>14, GreatestIs
  <2>2. session.last = g /\ g \in Nat /\ g # None /\ g \in Froms
    BY <1>3, <1>4, <1>14, <2>1, StreamAssumption DEF Froms, LogIds
  <2>3. ConsoleOK(L, T, Kept(e \o Ascending(page)), Greatest(page))
    BY <1>3, <1>11, <1>14, ConsoleGrows
  <2>4. e \o Ascending(page) = c
    BY <1>5, ConcatEmptySeq
  <2>5. ConsoleOK(log, InTime, Console, session.last)
    BY <1>2, <1>10, <2>1, <2>2, <2>3, <2>4
  <2>6. PICK n \in Nat : n = Cardinality(page)
    BY <1>12
  <2>7. n <= g
    <3>1. \A x \in page : 0 < x /\ x <= g
      BY <1>3, <2>1 DEF LogIds
    <3>2. 0 <= g
      BY <2>2
    <3>3. page \in SUBSET LogIds
      BY <1>3
    <3>4. 0 + Cardinality(page) <= g
      BY <2>2, <3>1, <3>2, <3>3, CountIs
    <3> QED
      BY <2>6, <3>4
  <2>8. PICK k \in Nat, o \in Nat : k = Len(Kept(c)) /\ o = Over(c)
    <3>1. Over(c) \in Nat /\ Len(Kept(c)) \in Nat
      BY KeptIs, LenProperties
    <3> QED
      BY <3>1, Zenon
  <2>9. k + o = n
    BY <1>12, <2>6, <2>8, KeptIs
  <2>10. /\ view.hidden = o /\ Len(view.lines) = k /\ queued.dropped = 0 /\ Len(queued.lines) = 0
         /\ Rank0(session.last) = g
    BY <1>5, <1>7, <1>8, <2>2, <2>8 DEF Rank0
  <2>11. o + 0 + k + 0 <= g
    BY <2>2, <2>7, <2>9
  <2>12. ConsoleInv
    BY <2>5, <2>10, <2>11 DEF ConsoleInv
  <2> QED
    BY <1>2, <1>3, <1>4, <1>9, <2>2, <2>12
<1> QED
  BY <1>13, <1>14

\* The invariant holds when the page opens.
LEMMA InitHolds ==
    ASSUME Init
    PROVE  IInv
<1>1. PICK status \in {"running", "failed"}, n \in 0..MaxInitial :
         row = [status |-> status, version |-> 0] /\ log = 1..n /\ nextId = n + 1
  BY DEF Init
<1>2. /\ retries = 0 /\ late = {} /\ inserting = None /\ stray = None
      /\ stream = NoStream /\ wire = <<>> /\ wakes = "none" /\ faults = 0
      /\ request = NoRequest /\ action = NoAction /\ clicks = 0
  BY DEF Init
<1>3. n \in Nat /\ n <= MaxLog /\ MaxLog \in Nat /\ MaxVersion \in Nat /\ MaxFaults \in Nat
      /\ MaxClicks \in Nat /\ MaxFailed \in Nat \ {0}
  BY StreamAssumption, ViewAssumption
<1>4. SourceInv
  <2>1. row \in Rows /\ row.version = 0
    BY <1>1 DEF Rows, Statuses
  <2>2. nextId \in 1..MaxLog + 1 /\ nextId - 1 = n
    BY <1>1, <1>3
  <2>3. None \notin log
    BY <1>1, StreamAssumption
  <2> QED
    BY <1>1, <1>2, <1>3, <2>1, <2>2, <2>3 DEF SourceInv
<1>5. PICK L \in SUBSET (LogIds \ {0}) : L = log
  BY <1>4, LogIsOfIds
<1>6. PICK page : page = FirstOf(log, PageSize)
  OBVIOUS
<1>7. /\ session.last = IF page = {} THEN None ELSE Greatest(page)
      /\ session.last \in Froms /\ PageTypes /\ ConsoleInv
  BY <1>5, <1>6, OpensAtStart
<1>8. PICK last \in Froms : last = session.last
  BY <1>7
<1>9. PICK pc \in {"mint", "tick", "over"}, ended \in BOOLEAN, failed \in 0..MaxFailed :
         /\ failed = 0 /\ failed < MaxFailed
         /\ session = [pc |-> pc, ended |-> ended, heard |-> FALSE, failed |-> failed,
                       sseUnavailable |-> FALSE, last |-> last]
  <2>1. session = [pc |-> IF Active(row) THEN "mint"
                          ELSE IF Cardinality(page) >= PageSize THEN "tick" ELSE "over",
                   ended |-> Terminal(row), heard |-> FALSE, failed |-> 0, sseUnavailable |-> FALSE,
                   last |-> IF page = {} THEN None ELSE Greatest(page)]
    BY <1>6 DEF Init
  <2>2. PICK pc \in {"mint", "tick", "over"} :
           pc = IF Active(row) THEN "mint" ELSE IF Cardinality(page) >= PageSize THEN "tick" ELSE "over"
    OBVIOUS
  <2>3. PICK ended \in BOOLEAN : ended = Terminal(row)
    BY DEF Terminal
  <2>4. 0 \in 0..MaxFailed /\ 0 < MaxFailed
    BY <1>3
  <2>5. session = [pc |-> pc, ended |-> ended, heard |-> FALSE, failed |-> 0,
                   sseUnavailable |-> FALSE, last |-> last]
    BY <1>7, <1>8, <2>1, <2>2, <2>3, Zenon
  <2> QED
    BY <2>4, <2>5
<1>10. SessionTypes /\ session.pc # "open"
  <2>1. session \in Sessions /\ session.pc # "open" /\ session.failed < MaxFailed
    BY <1>9 DEF Sessions
  <2> QED
    BY <1>2, <2>1, RequestsAre DEF SessionTypes
<1>11. stream \in Streams /\ stream.phase = "none" /\ stream.fetch = "no"
  BY <1>2, NoStreamIs
<1>12. wire \in Seq(Chunks) /\ Ids(wire) = {} /\ Ascends(wire) /\ ~Says(wire, <<"done">>)
  BY <1>2, EmptyIs, EmptySeq
<1>13. ServerTypes
  BY <1>2, <1>11, <1>12 DEF ServerTypes
<1>14. UserTypes
  BY <1>2, <1>3, NoActionIs DEF UserTypes
<1>15. Where
  BY <1>2, <1>10, <1>11, RequestsAre DEF Where
<1>16. Notices /\ ReadInv /\ KeyInv
  BY <1>11 DEF Notices, ReadInv, KeyInv
<1>17. WireInv
  BY <1>11, <1>12 DEF WireInv, WireOK, After, Gapless
<1>18. DoneInv
  BY <1>12 DEF DoneInv
<1>19. RequestInv
  BY <1>2, RequestsAre DEF RequestInv
<1> QED
  BY <1>4, <1>7, <1>10, <1>13, <1>14, <1>15, <1>16, <1>17, <1>18, <1>19 DEF IInv, Types

-----------------------------------------------------------------------------
(* Theorems *)

\* The inductive invariant holds of every state.
THEOREM LiveViewInductive == Spec => []IInv
<1>1. Init => IInv
  BY InitHolds
<1>2. IInv /\ [Next]_vars => IInv'
  BY NextKeeps, StutterKeeps
<1> QED
  BY <1>1, <1>2, PTL DEF Spec

\* The values the state takes.
THEOREM LiveViewTypes == Spec => []TypeOK
<1>1. ASSUME IInv PROVE TypeOK
  <2>1. MaxLog \in Nat /\ MaxVersion \in Nat
    BY StreamAssumption
  <2>2. row \in [status : Statuses, version : 0..MaxVersion] /\ retries \in 0..MaxVersion
    <3>1. row \in Rows /\ row.version \in 0..MaxVersion /\ retries \in 0..row.version
      BY <1>1 DEF IInv, SourceInv
    <3> QED
      BY <2>1, <3>1 DEF Rows
  <2>3. /\ log \subseteq 1..MaxLog /\ late \subseteq log
        /\ inserting \in {None} \cup 1..MaxLog /\ stray \in {None} \cup 1..MaxLog
        /\ nextId \in 1..MaxLog + 1
    <3>1. nextId \in 1..MaxLog + 1
      BY <1>1 DEF IInv, SourceInv
    <3>2. \A x \in 1..nextId - 1 : x \in 1..MaxLog
      BY <2>1, <3>1
    <3> QED
      BY <1>1, <3>1, <3>2 DEF IInv, SourceInv
  <2>4. faults \in 0..MaxFaults /\ clicks \in 0..MaxClicks
    BY <1>1 DEF IInv, Types, UserTypes
  <2>5. /\ stream.phase \in {"none", "opening", "open"} /\ stream.fetch \in {"no", "job", "logs", "apply"}
        /\ stream.cursor \in {None} \cup 0..MaxLog
    BY <1>1 DEF IInv, Types, ServerTypes, Streams, Froms, LogIds
  <2>6. stream.phase = "open" => stream.cursor # None
    BY <1>1 DEF IInv, Where
  <2>7. /\ session.pc \in {"mint", "open", "drain", "tick", "fetch", "over", "denied"}
        /\ session.failed \in 0..MaxFailed
    BY <1>1 DEF IInv, Types, SessionTypes, Sessions
  <2>8. session.last \in {None} \cup 1..MaxLog
    BY <1>1, <2>3 DEF IInv, ConsoleInv, ConsoleOK
  <2>9. view.hidden \in 0..MaxLog
    <3>1. PICK h \in Nat, d \in Nat, a \in Nat, b \in Nat, r \in 0..MaxLog :
             /\ h = view.hidden /\ d = queued.dropped /\ a = Len(view.lines) /\ b = Len(queued.lines)
             /\ r = Rank0(session.last)
      <4>1. view.hidden \in Nat /\ queued.dropped \in Nat /\ view.lines \in Seq(Nat) /\ queued.lines \in Seq(Nat)
        BY <1>1 DEF IInv, Types, PageTypes, Queues, Views
      <4>2. Len(view.lines) \in Nat /\ Len(queued.lines) \in Nat
        BY <4>1, LenProperties
      <4>3. Rank0(session.last) \in 0..MaxLog
        BY <2>1, <2>8 DEF Rank0
      <4> QED
        BY <4>1, <4>2, <4>3, Zenon
    <3>2. h + d + a + b <= r
      BY <1>1, <3>1 DEF IInv, ConsoleInv
    <3>3. h <= r /\ r <= MaxLog
      BY <2>1, <3>2
    <3>4. h \in 0..MaxLog
      BY <2>1, <3>3
    <3> QED
      BY <3>1, <3>4, Zenon
  <2> QED
    BY <2>2, <2>3, <2>4, <2>5, <2>6, <2>7, <2>8, <2>9 DEF TypeOK
<1> QED
  BY <1>1, LiveViewInductive, PTL

\* The console shows the lines of its page, in their order.
LEMMA ShownIs ==
    ASSUME IInv
    PROVE  /\ DOMAIN Console = 1..Len(Console) /\ Shown = Elems(Console)
           /\ session.last = None => Due = {}
           /\ \A l \in Due : l <= session.last => l \in Shown
<1>1. PICK L \in SUBSET LogIds, T \in SUBSET LogIds : L = log /\ T = InTime /\ T \in SUBSET L
  <2>1. log \in SUBSET LogIds /\ InTime \in SUBSET log /\ InTime \in SUBSET LogIds
    BY LogIsOfIds DEF IInv
  <2> QED
    BY <2>1, Zenon
<1>2. PICK c : c = Console
  OBVIOUS
<1>3. ConsoleOK(L, T, c, session.last)
  BY <1>1, <1>2 DEF IInv, ConsoleInv
<1>4. DOMAIN c = 1..Len(c)
  BY <1>3 DEF ConsoleOK
<1>5. Shown = Elems(c)
  BY <1>2, <1>4 DEF Shown, Elems
<1>6. session.last = None => Due = {}
  <2> SUFFICES ASSUME session.last = None PROVE Elems(c) = {}
    BY <1>5 DEF Due
  <2>1. c = <<>>
    BY <1>3 DEF ConsoleOK
  <2>2. \A i \in 1..Len(c) : FALSE
    BY <2>1
  <2> QED
    BY <2>2 DEF Elems
<1>7. ASSUME NEW l \in Due, l <= session.last PROVE l \in Shown
  <2>1. session.last # None
    BY <1>6
  <2>2. session.last \in Elems(c)
    BY <1>1, <1>3, <2>1, ConsoleIsUpToLast
  <2>3. l \in T /\ \E f \in Elems(c) : f <= l
    BY <1>1, <1>5 DEF Due, InTime
  <2>4. Gapless(T, Elems(c), None)
    BY <1>3 DEF ConsoleOK
  <2> QED
    BY <1>5, <1>7, <2>2, <2>3, <2>4 DEF Gapless, Above
<1> QED
  BY <1>2, <1>4, <1>5, <1>6, <1>7

\* The page shows the job's lines in order, none twice, and up to the last one it
\* received it misses none that was committed in time, whatever pauses,
\* reconnects, polls or restarts there were.
THEOREM LiveViewGapless == Spec => []LogIsGapless
<1>1. ASSUME IInv PROVE LogIsGapless
  <2>1. \A i, j \in DOMAIN Console : i < j => Console[i] < Console[j]
    <3>1. \A i, j \in 1..Len(Console) : i < j => Console[i] < Console[j]
      BY <1>1 DEF IInv, ConsoleInv, ConsoleOK
    <3> QED
      BY <1>1, <3>1, ShownIs
  <2>2. \A l \in Due : l <= session.last => l \in Shown
    BY <1>1, ShownIs
  <2> QED
    BY <2>1, <2>2 DEF LogIsGapless
<1> QED
  BY <1>1, LiveViewInductive, PTL

\* A stream that says "done" has sent everything: the page has, or is about to
\* receive, the final row and every line committed in time.
THEOREM LiveViewDoneIsLast == Spec => []DoneIsLast
<1>1. ASSUME IInv PROVE DoneIsLast
  <2> SUFFICES ASSUME NEW d \in DOMAIN wire, wire[d] = <<"done">>, retries = 0, clicks = 0
               PROVE  /\ \A l \in Due : l \in Shown \/ OnWire(l)
                      /\ \/ \E i \in DOMAIN wire : wire[i] = <<"snapshot", row>>
                         \/ queued.job = row
                         \/ queued.job = None /\ view.job = row
    BY DEF DoneIsLast
  <2>1. DOMAIN wire = 1..Len(wire)
    BY <1>1 DEF IInv, Types, ServerTypes
  <2>2. Says(wire, <<"done">>)
    BY <2>1 DEF Says
  <2>3. Complete(InTime, Ids(wire), session.last) /\ Latest(wire, queued.job, view.job, row)
    BY <1>1, <2>2 DEF IInv, DoneInv
  <2>4. ASSUME NEW l \in Due PROVE l \in Shown \/ OnWire(l)
    <3>1. session.last # None
      BY <1>1, <2>4, ShownIs
    <3>2. CASE l <= session.last
      BY <1>1, <2>4, <3>2, ShownIs
    <3>3. CASE ~(l <= session.last)
      <4>1. log \in SUBSET LogIds /\ l \in InTime /\ session.last \in Froms
        BY <1>1, <2>4, LogIsOfIds DEF IInv, Due, InTime, Types, SessionTypes, Sessions
      <4>2. l \in Nat /\ session.last \in Nat
        BY <3>1, <4>1 DEF InTime, LogIds, Froms
      <4>3. l > session.last
        BY <3>3, <4>2
      <4>4. l \in Ids(wire)
        BY <2>3, <3>1, <4>1, <4>3 DEF Complete, Above
      <4> QED
        BY <2>1, <4>4 DEF Ids, Says, OnWire
    <3> QED
      BY <3>2, <3>3
  <2>5. CASE Closes(wire, row)
    <3>1. \E i \in DOMAIN wire : wire[i] = <<"snapshot", row>>
      BY <2>1, <2>5 DEF Closes
    <3> QED
      BY <2>4, <3>1
  <2>6. CASE queued.job = row \/ (queued.job = None /\ view.job = row)
    BY <2>4, <2>6
  <2> QED
    BY <2>3, <2>5, <2>6 DEF Latest
<1> QED
  BY <1>1, LiveViewInductive, PTL

\* No wake-up is lost: a stream at rest that every notification has reached has sent
\* the row and the log as they are.
THEOREM LiveViewNothingUnnoticed == Spec => []NothingUnnoticed
<1>1. IInv => NothingUnnoticed
  BY DEF IInv, Notices, NothingUnnoticed
<1> QED
  BY <1>1, LiveViewInductive, PTL

=============================================================================
