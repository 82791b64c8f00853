----------------------------- MODULE ListsProofs -----------------------------
(***************************************************************************)
(* What KeepAt keeps: the entries at the places it is given, each once, in *)
(* their order, and none farther from the end than it was.  An entry's     *)
(* rank among the kept ones (Place) grows by one at each kept place and    *)
(* nowhere else, so that every rank is somebody's.                         *)
(***************************************************************************)
EXTENDS Lists, TLAPS, SequenceTheorems, FiniteSetTheorems, WellFoundedInduction

Less == {p \in Nat \X Nat : p[1] < p[2]}

\* A set of places, unless it is empty, has a first one.
LEMMA FirstIs ==
    ASSUME NEW T, T \subseteq Nat, T # {}
    PROVE  \E x \in T : \A y \in T : x <= y
<1>1. IsWellFoundedOn(Less, Nat)
  <2>1. OpToRel(<, Nat) = Less
    BY DEF OpToRel, Less
  <2> QED
    BY <2>1, NatLessThanWellFounded
<1>2. PICK x \in T : \A y \in T : ~(<<y, x>> \in Less)
  BY <1>1, WFMin
<1>3. \A y \in T : y < x => <<y, x>> \in Less
  BY DEF Less
<1>4. \A y \in T : ~(y < x)
  BY <1>2, <1>3, Zenon
<1> QED
  BY <1>4

\* The entry kept from place i of a list: how many are kept up to it
UpTo(I, i) == {j \in I : j <= i}
Place(I, i) == Cardinality(UpTo(I, i))

\* Places count one by one.
LEMMA PlaceIs ==
    ASSUME NEW n \in Nat, NEW I \in SUBSET (1..n)
    PROVE  /\ IsFiniteSet(I) /\ Cardinality(I) \in Nat /\ Cardinality(I) <= n
           /\ Place(I, 0) = 0 /\ Place(I, n) = Cardinality(I)
           /\ \A i \in 0..n : Place(I, i) \in 0..Cardinality(I)
           /\ \A i \in 1..n : Place(I, i) = Place(I, i - 1) + (IF i \in I THEN 1 ELSE 0)
           /\ \A i, j \in I : i < j => Place(I, i) < Place(I, j)
           /\ \A i \in I : Cardinality(I) - Place(I, i) <= n - i
<1>0. \A j \in I : j \in Nat /\ 1 <= j /\ j <= n
  OBVIOUS
<1>1. IsFiniteSet(1..n) /\ Cardinality(1..n) = n
  BY FS_Interval
<1>2. IsFiniteSet(I) /\ Cardinality(I) \in Nat /\ Cardinality(I) <= n
  BY <1>1, FS_Subset, FS_CardinalityType
<1>3. \A i : /\ UpTo(I, i) \subseteq I /\ IsFiniteSet(UpTo(I, i)) /\ Place(I, i) \in Nat
             /\ Place(I, i) <= Cardinality(I)
  <2> TAKE i
  <2>1. UpTo(I, i) \subseteq I
    BY DEF UpTo
  <2> QED
    BY <1>2, <2>1, FS_Subset, FS_CardinalityType DEF Place
<1>4. Place(I, 0) = 0
  <2>1. \A j \in I : ~(j <= 0)
    BY <1>0
  <2>2. UpTo(I, 0) = {}
    BY <2>1 DEF UpTo
  <2> QED
    BY <2>2, FS_EmptySet DEF Place
<1>5. Place(I, n) = Cardinality(I)
  <2>1. UpTo(I, n) = I
    BY <1>0 DEF UpTo
  <2> QED
    BY <2>1 DEF Place
<1>6. ASSUME NEW i \in 1..n PROVE Place(I, i) = Place(I, i - 1) + (IF i \in I THEN 1 ELSE 0)
  <2>1. CASE i \in I
    <3>1. UpTo(I, i) = UpTo(I, i - 1) \cup {i} /\ i \notin UpTo(I, i - 1)
      <4>1. i \in Nat /\ \A j \in I : j <= i <=> j <= i - 1 \/ j = i
        BY <1>0
      <4>2. ~(i <= i - 1)
        BY <4>1
      <4> QED
        BY <2>1, <4>1, <4>2 DEF UpTo
    <3> QED
      BY <1>3, <2>1, <3>1, FS_AddElement DEF Place
  <2>2. CASE i \notin I
    <3>1. UpTo(I, i) = UpTo(I, i - 1)
      <4>1. \A j \in I : j <= i <=> j <= i - 1
        <5> TAKE j \in I
        <5>1. j \in Nat /\ i \in Nat /\ j # i
          BY <1>0, <2>2
        <5> QED
          BY <5>1
      <4> QED
        BY <4>1 DEF UpTo
    <3> QED
      BY <1>3, <2>2, <3>1 DEF Place
  <2> QED
    BY <2>1, <2>2
<1>7. ASSUME NEW i \in I, NEW j \in I, i < j PROVE Place(I, i) < Place(I, j)
  <2>1. UpTo(I, i) \subseteq UpTo(I, j - 1) /\ j \in 1..n
    <3>1. i \in Nat /\ j \in 1..n
      BY <1>0
    <3>2. \A l \in I : l <= i => l <= j - 1
      <4> TAKE l \in I
      <4>1. l \in Nat
        BY <1>0
      <4> QED
        BY <1>7, <3>1, <4>1
    <3> QED
      BY <3>1, <3>2 DEF UpTo
  <2>2. Place(I, i) <= Place(I, j - 1)
    BY <1>3, <2>1, FS_Subset DEF Place
  <2>3. Place(I, j) = Place(I, j - 1) + 1
    BY <1>6, <2>1
  <2> QED
    BY <1>3, <2>2, <2>3
<1>8. ASSUME NEW i \in I PROVE Cardinality(I) - Place(I, i) <= n - i
  <2> DEFINE After == {j \in I : j > i}
  <2>1. i \in Int /\ i + 1 \in Int /\ n \in Int /\ i \in 1..n
    OBVIOUS
  <2>2. IsFiniteSet(i + 1..n) /\ Cardinality(i + 1..n) = n - i
    BY <2>1, FS_Interval
  <2>3. After \subseteq i + 1..n
    <3> SUFFICES ASSUME NEW j \in I, j > i PROVE j \in i + 1..n
      OBVIOUS
    <3>1. j \in Nat /\ j <= n
      BY <1>0
    <3> QED
      BY <2>1, <3>1
  <2>4. I = UpTo(I, i) \cup After /\ UpTo(I, i) \cap After = {}
    <3>1. \A j \in I : j <= i <=> ~(j > i)
      <4> TAKE j \in I
      <4>1. j \in Nat
        BY <1>0
      <4> QED
        BY <2>1, <4>1
    <3> QED
      BY <3>1 DEF UpTo
  <2> HIDE DEF After
  <2>5. IsFiniteSet(After) /\ Cardinality(After) <= n - i /\ Cardinality(After) \in Nat
    <3>1. IsFiniteSet(After) /\ Cardinality(After) <= Cardinality(i + 1..n)
      BY <2>2, <2>3, FS_Subset
    <3> QED
      BY <2>2, <3>1, FS_CardinalityType
  <2>6. Cardinality(I) = Place(I, i) + Cardinality(After)
    <3>1. Cardinality(UpTo(I, i) \cup After)
            = Cardinality(UpTo(I, i)) + Cardinality(After) - Cardinality(UpTo(I, i) \cap After)
      BY <1>3, <2>5, FS_Union
    <3>2. Cardinality(UpTo(I, i) \cap After) = 0
      BY <2>4, FS_EmptySet
    <3>3. Cardinality(I) = Cardinality(UpTo(I, i) \cup After)
      BY <2>4
    <3>4. Cardinality(UpTo(I, i)) = Place(I, i) /\ Place(I, i) \in Nat
      BY <1>3 DEF Place
    <3> QED
      BY <2>5, <3>1, <3>2, <3>3, <3>4
  <2> QED
    BY <1>3, <2>1, <2>5, <2>6
<1> QED
  BY <1>2, <1>3, <1>4, <1>5, <1>6, <1>7, <1>8

\* The filtered list has the entries of I, each once, in their order; none of
\* them is farther from the end than it was.
LEMMA KeptIs ==
    ASSUME NEW T, NEW s \in Seq(T), NEW I \in SUBSET (1..Len(s)),
           NEW F, F = KeepAt(s, I)
    PROVE  /\ F \in Seq(T) /\ Len(F) = Cardinality(I) /\ Len(F) <= Len(s)
           /\ \A i \in I : /\ Place(I, i) \in 1..Len(F) /\ F[Place(I, i)] = s[i]
                           /\ Len(F) - Place(I, i) <= Len(s) - i
           /\ \A k \in 1..Len(F) : \E i \in I : Place(I, i) = k /\ F[k] = s[i]
           /\ \A i, j \in I : Place(I, i) = Place(I, j) => i = j
<1> DEFINE N == Cardinality(I)
<1>0. Len(s) \in Nat /\ \A i \in 1..Len(s) : s[i] \in T
  BY LenProperties, ElementOfSeq
<1>1. /\ IsFiniteSet(I) /\ N \in Nat /\ N <= Len(s)
      /\ Place(I, 0) = 0 /\ Place(I, Len(s)) = N
      /\ \A i \in 0..Len(s) : Place(I, i) \in 0..N
      /\ \A i \in 1..Len(s) : Place(I, i) = Place(I, i - 1) + (IF i \in I THEN 1 ELSE 0)
      /\ \A i, j \in I : i < j => Place(I, i) < Place(I, j)
      /\ \A i \in I : N - Place(I, i) <= Len(s) - i
  BY <1>0, PlaceIs
<1>2. \A i, j \in I : Place(I, i) = Place(I, j) => i = j
  <2> SUFFICES ASSUME NEW i \in I, NEW j \in I, Place(I, i) = Place(I, j), i < j PROVE FALSE
    OBVIOUS
  <2>1. Place(I, i) < Place(I, j) /\ Place(I, i) \in Nat
    BY <1>1
  <2> QED
    BY <2>1
<1>3. ASSUME NEW k \in 1..N PROVE \E i \in I : Place(I, i) = k
  <2> DEFINE Reached == {i \in 0..Len(s) : Place(I, i) >= k}
  <2>1. Reached \subseteq Nat /\ Len(s) \in Reached
    BY <1>0, <1>1
  <2>2. PICK i \in Reached : \A j \in Reached : i <= j
    <3> HIDE DEF Reached
    <3> QED
      BY <2>1, FirstIs
  <2>3. i # 0 /\ i \in 1..Len(s)
    BY <1>0, <1>1, <2>2
  <2>4. i - 1 \notin Reached /\ i - 1 \in 0..Len(s)
    BY <1>0, <2>2, <2>3
  <2>5. Place(I, i - 1) < k /\ Place(I, i) >= k
    BY <1>1, <2>2, <2>4, SMTT(30)
  <2> QED
    BY <1>1, <2>3, <2>4, <2>5, SMTT(30)
<1>4. F = [k \in 1..N |-> s[CHOOSE i \in I : Place(I, i) = k]]
  BY DEF KeepAt, Place, UpTo
<1>5. ASSUME NEW i \in I PROVE Place(I, i) \in 1..N
  <2>1. i \in 1..Len(s) /\ i - 1 \in 0..Len(s)
    BY <1>0
  <2>2. /\ Place(I, i) = Place(I, i - 1) + 1 /\ Place(I, i - 1) \in 0..N
        /\ Place(I, i) \in 0..N
    BY <1>1, <2>1
  <2> QED
    BY <1>1, <2>2
<1>6. ASSUME NEW i \in I PROVE F[Place(I, i)] = s[i]
  <2>1. (CHOOSE j \in I : Place(I, j) = Place(I, i)) = i
    BY <1>2
  <2> QED
    BY <1>4, <1>5, <2>1
<1>7. \A k \in 1..N : \E i \in I : Place(I, i) = k /\ F[k] = s[i]
  BY <1>3, <1>6
<1>8. F \in [1..N -> T]
  BY <1>0, <1>4, <1>7
<1>9. F \in Seq(T) /\ Len(F) = N
  BY <1>1, <1>8, SeqDef, LenProperties, SMTT(30)
<1> QED
  BY <1>0, <1>1, <1>2, <1>5, <1>6, <1>7, <1>9

\* Every entry of the filtered list comes from a place of I.
LEMMA KeptFrom ==
    ASSUME NEW T, NEW s \in Seq(T), NEW I \in SUBSET (1..Len(s)),
           NEW F, F = KeepAt(s, I)
    PROVE  \A k \in 1..Len(F) : \E i \in I : Place(I, i) = k /\ F[k] = s[i]
BY KeptIs

\* Every place of I has its entry, of its own, in the filtered list.
LEMMA KeptAt ==
    ASSUME NEW T, NEW s \in Seq(T), NEW I \in SUBSET (1..Len(s)),
           NEW F, F = KeepAt(s, I)
    PROVE  \A i \in I : Place(I, i) \in 1..Len(F) /\ F[Place(I, i)] = s[i]
BY KeptIs

\* No two places of I share an entry.
LEMMA KeptApart ==
    ASSUME NEW T, NEW s \in Seq(T), NEW I \in SUBSET (1..Len(s))
    PROVE  \A i, j \in I : Place(I, i) = Place(I, j) => i = j
BY KeptIs

=============================================================================
