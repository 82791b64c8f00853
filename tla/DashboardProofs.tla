-------------------------- MODULE DashboardProofs ---------------------------
(***************************************************************************)
(* Proofs about Dashboard, for any monitor threads, browsers and caps: the *)
(* tables stay below their caps, a browser misses no alert between its     *)
(* snapshot and the live feed, and loses one that it showed only to a late *)
(* REST snapshot, what was broadcast survives a restart, and               *)
(* after an update that ran alone the copies of the campaign agree.        *)
(*                                                                         *)
(* NoGap is inductive once it is known that what threads and the feed      *)
(* carry are alerts that exist (Carried).  The other two are not: they     *)
(* speak of what has been emitted, or of a system at rest.  Kept follows   *)
(* an alert from its save on, and Latest a campaign version through        *)
(* memory, database and feed; IInv is all of them.  A trimmed table is     *)
(* where counting is needed: an alert that n newer ones have displaced     *)
(* stays displaced (NewestDisplace), and the cap holds (NewestFits).       *)
(*                                                                         *)
(* The stored campaign, which a run shows going back, does not when the    *)
(* copy is made and stored under one lock (InOrder).                       *)
(***************************************************************************)
EXTENDS Dashboard, TLAPS, SequenceTheorems, FiniteSetTheorems, WellFoundedInduction

-----------------------------------------------------------------------------
(* The newest of a set of alerts                                           *)

Less == {p \in Nat \X Nat : p[1] < p[2]}

\* The numbers are well founded.
LEMMA LessWF == IsWellFoundedOn(Less, Nat)
<1>1. OpToRel(<, Nat) = Less
  BY DEF OpToRel, Less
<1> QED
  BY <1>1, NatLessThanWellFounded

\* A set of alerts, unless it is empty, has an oldest one.
LEMMA OldestIs ==
    ASSUME NEW T, T \subseteq Nat, T # {}
    PROVE  \E x \in T : \A y \in T : x <= y
<1>1. PICK x \in T : \A y \in T : ~(<<y, x>> \in Less)
  BY LessWF, WFMin
<1>2. \A y \in T : y < x => <<y, x>> \in Less
  BY DEF Less
<1>3. \A y \in T : ~(y < x)
  BY <1>1, <1>2, Zenon
<1> QED
  BY <1>3

\* LIMIT n lets n alerts pass at most, ...
LEMMA NewestFits ==
    ASSUME NEW S, S \subseteq Nat, IsFiniteSet(S), NEW n \in Nat
    PROVE  /\ Newest(S, n) \subseteq S
           /\ IsFiniteSet(Newest(S, n))
           /\ Cardinality(Newest(S, n)) \in Nat
           /\ Cardinality(Newest(S, n)) <= n
<1> DEFINE M == Newest(S, n)
<1>1. M \subseteq S
  BY DEF Newest
<1>2. IsFiniteSet(M) /\ Cardinality(M) \in Nat
  BY <1>1, FS_Subset, FS_CardinalityType
<1>3. CASE M = {}
  BY <1>1, <1>2, <1>3, FS_EmptySet
<1>4. CASE M # {}
  <2>1. PICK m \in M : \A y \in M : m <= y
    BY <1>1, <1>4, OldestIs
  <2> DEFINE later == {b \in S : b > m}
  <2>2. IsFiniteSet(later) /\ Cardinality(later) \in Nat /\ Cardinality(later) < n
    <3>1. later \subseteq S
      OBVIOUS
    <3>2. IsFiniteSet(later) /\ Cardinality(later) \in Nat
      BY <3>1, FS_Subset, FS_CardinalityType
    <3> QED
      BY <2>1, <3>2 DEF Newest
  <2>3. M \ {m} \subseteq later
    <3> SUFFICES ASSUME NEW y \in M \ {m} PROVE y \in later
      OBVIOUS
    <3>1. m \in Nat /\ y \in Nat /\ m <= y /\ m # y /\ y \in S
      BY <1>1, <2>1
    <3> QED
      BY <3>1
  <2>4. Cardinality(M \ {m}) <= Cardinality(later)
    BY <2>2, <2>3, FS_Subset
  <2>5. Cardinality(M \ {m}) = Cardinality(M) - 1
    BY <1>2, <2>1, FS_RemoveElement
  <2> QED
    BY <1>1, <1>2, <2>2, <2>4, <2>5
<1> QED
  BY <1>3, <1>4

\* ... and n of them when there are as many.
LEMMA NewestFill ==
    ASSUME NEW S, S \subseteq Nat, IsFiniteSet(S), NEW n \in Nat, Cardinality(S) >= n
    PROVE  Cardinality(Newest(S, n)) >= n
<1> DEFINE Few(T) == /\ T \subseteq S /\ Cardinality(T) >= n
                     /\ ~(Cardinality(Newest(T, n)) >= n)
           Sizes == {k \in Nat : \E T \in SUBSET S : Few(T) /\ Cardinality(T) = k}
<1>0. \A T \in SUBSET S : /\ T \subseteq Nat /\ IsFiniteSet(T) /\ Cardinality(T) \in Nat
                          /\ Newest(T, n) \subseteq T /\ IsFiniteSet(Newest(T, n))
                          /\ Cardinality(Newest(T, n)) \in Nat
  <2> TAKE T \in SUBSET S
  <2>1. T \subseteq Nat /\ IsFiniteSet(T)
    BY FS_Subset
  <2> QED
    BY <2>1, FS_CardinalityType, NewestFits
<1>1. SUFFICES ASSUME Sizes # {} PROVE FALSE
  BY <1>0
<1>2. PICK k \in Sizes : \A j \in Sizes : k <= j
  <2>1. Sizes \subseteq Nat
    OBVIOUS
  <2> HIDE DEF Sizes
  <2> QED
    BY <1>1, <2>1, OldestIs
<1>3. PICK T \in SUBSET S : Few(T) /\ Cardinality(T) = k
  BY <1>2
<1>4. T # {}
  BY <1>0, <1>3, FS_EmptySet
<1>5. PICK m \in T : \A y \in T : m <= y
  BY <1>0, <1>4, OldestIs
<1>6. /\ T \ {m} \in SUBSET S /\ IsFiniteSet(T \ {m})
      /\ Cardinality(T \ {m}) \in Nat /\ Cardinality(T \ {m}) = k - 1
  BY <1>0, <1>3, <1>5, FS_RemoveElement
<1>7. CASE Cardinality(T) = n
  <2>1. \A a \in T : Cardinality({b \in T : b > a}) < n
    <3> TAKE a \in T
    <3>1. {b \in T : b > a} \subseteq T \ {a}
      BY <1>0
    <3>2. /\ IsFiniteSet(T \ {a}) /\ Cardinality(T \ {a}) = Cardinality(T) - 1
      BY <1>0, FS_RemoveElement
    <3>3. /\ Cardinality({b \in T : b > a}) <= Cardinality(T \ {a})
          /\ Cardinality({b \in T : b > a}) \in Nat
      BY <3>1, <3>2, FS_Subset, FS_CardinalityType
    <3> QED
      BY <1>0, <1>7, <3>2, <3>3
  <2>2. Newest(T, n) = T
    BY <2>1 DEF Newest
  <2> QED
    BY <1>0, <1>3, <1>7, <2>2
<1>8. CASE Cardinality(T) # n
  <2>1. Cardinality(T \ {m}) >= n
    BY <1>0, <1>3, <1>6, <1>8
  <2>2. ~Few(T \ {m})
    <3> SUFFICES ASSUME Few(T \ {m}) PROVE FALSE
      OBVIOUS
    <3>1. k - 1 \in Sizes
      BY <1>6
    <3> QED
      BY <1>2, <3>1
  <2>3. Cardinality(Newest(T \ {m}, n)) >= n
    BY <1>6, <2>1, <2>2
  <2>4. \A a \in T \ {m} : {b \in T : b > a} = {b \in T \ {m} : b > a}
    BY <1>0, <1>5
  <2>5. Newest(T \ {m}, n) \subseteq Newest(T, n)
    BY <2>4 DEF Newest
  <2>6. Cardinality(Newest(T \ {m}, n)) <= Cardinality(Newest(T, n))
    BY <1>0, <2>5, FS_Subset
  <2>7. Cardinality(Newest(T \ {m}, n)) \in Nat
    BY <1>0, <1>6
  <2> QED
    BY <1>0, <1>3, <2>3, <2>6, <2>7
<1> QED
  BY <1>7, <1>8

\* What newer alerts have displaced stays displaced when the table is trimmed.
LEMMA NewestDisplace ==
    ASSUME NEW S, S \subseteq Nat, IsFiniteSet(S), NEW n \in Nat, NEW a \in Nat,
           Cardinality({b \in S : b > a}) >= n
    PROVE  Cardinality({b \in Newest(S, n) : b > a}) >= n
<1> DEFINE T == {b \in S : b > a}
           N == {b \in Newest(S, n) : b > a}
<1>1. T \subseteq Nat /\ IsFiniteSet(T)
  <2>1. T \subseteq S
    OBVIOUS
  <2> QED
    BY <2>1, FS_Subset
<1>2. Cardinality(Newest(T, n)) >= n
  BY <1>1, NewestFill
<1>3. \A x \in T : {b \in S : b > x} = {b \in T : b > x}
  <2> SUFFICES ASSUME NEW x \in T, NEW b \in S, b > x PROVE b > a
    OBVIOUS
  <2>1. x \in Nat /\ b \in Nat /\ x > a
    OBVIOUS
  <2> QED
    BY <2>1
<1>4. Newest(T, n) \subseteq N
  BY <1>3 DEF Newest
<1>5. IsFiniteSet(N) /\ Cardinality(N) \in Nat
  <2>1. N \subseteq S
    BY DEF Newest
  <2> QED
    BY <2>1, FS_Subset, FS_CardinalityType
<1>6. Cardinality(Newest(T, n)) <= Cardinality(N) /\ Cardinality(Newest(T, n)) \in Nat
  BY <1>1, <1>4, <1>5, FS_Subset, NewestFits
<1> QED
  BY <1>2, <1>5, <1>6

\* A table of alerts, unless it is empty, has a latest one.
LEMMA LatestIs ==
    ASSUME NEW T, T \subseteq Nat, IsFiniteSet(T), T # {}
    PROVE  \E x \in T : \A y \in T : y <= x
<1> DEFINE After(x) == {y \in T : y > x}
           Sizes == {k \in Nat : \E x \in T : Cardinality(After(x)) = k}
<1>1. \A x \in T : After(x) \subseteq T /\ IsFiniteSet(After(x)) /\ Cardinality(After(x)) \in Nat
  <2> TAKE x \in T
  <2>1. After(x) \subseteq T
    OBVIOUS
  <2> HIDE DEF After
  <2> QED
    BY <2>1, FS_Subset, FS_CardinalityType
<1>2. PICK k \in Sizes : \A j \in Sizes : k <= j
  <2>1. Sizes \subseteq Nat
    OBVIOUS
  <2>2. PICK x \in T : TRUE
    OBVIOUS
  <2>3. Cardinality(After(x)) \in Sizes
    BY <1>1
  <2> HIDE DEF Sizes
  <2> QED
    BY <2>1, <2>3, OldestIs
<1>3. PICK x \in T : Cardinality(After(x)) = k
  OBVIOUS
<1>4. SUFFICES ASSUME NEW y \in T, y > x PROVE FALSE
  <2>1. \A y \in T : y \in Nat /\ x \in Nat
    OBVIOUS
  <2> QED
    BY <2>1
<1>5. After(y) \subseteq After(x) \ {y}
  <2> SUFFICES ASSUME NEW z \in T, z > y PROVE z > x /\ z # y
    OBVIOUS
  <2>1. x \in Nat /\ y \in Nat /\ z \in Nat
    OBVIOUS
  <2> QED
    BY <1>4, <2>1
<1>6. y \in After(x)
  BY <1>4
<1>7. Cardinality(After(y)) \in Sizes
  BY <1>1
<1> HIDE DEF After, Sizes
<1>8. IsFiniteSet(After(x) \ {y}) /\ Cardinality(After(x) \ {y}) = k - 1
  BY <1>1, <1>3, <1>6, FS_RemoveElement
<1>9. Cardinality(After(y)) <= k - 1
  BY <1>5, <1>8, FS_Subset
<1>10. k <= Cardinality(After(y)) /\ k \in Nat /\ Cardinality(After(y)) \in Nat
  BY <1>1, <1>2, <1>3, <1>7
<1> QED
  BY <1>9, <1>10

\* Every place in the order of time, up to their number, has its alert.
LEMMA RankIs ==
    ASSUME NEW S, S \subseteq Nat, IsFiniteSet(S), NEW k \in Nat, k < Cardinality(S)
    PROVE  \E a \in S : Cardinality({b \in S : b < a}) = k
<1> DEFINE Before(a) == {b \in S : b < a}
           A == {a \in S : Cardinality(Before(a)) >= k}
<1>1. \A a : /\ Before(a) \subseteq S /\ IsFiniteSet(Before(a))
             /\ Cardinality(Before(a)) \in Nat
  <2> TAKE a
  <2>1. Before(a) \subseteq S
    OBVIOUS
  <2> HIDE DEF Before
  <2> QED
    BY <2>1, FS_Subset, FS_CardinalityType
<1>2. \A a, c \in S : a < c => Before(a) \subseteq Before(c) /\ a \in Before(c) /\ a \notin Before(a)
  <2> SUFFICES ASSUME NEW a \in S, NEW c \in S, a < c
               PROVE  Before(a) \subseteq Before(c) /\ a \in Before(c) /\ a \notin Before(a)
    OBVIOUS
  <2>1. \A b \in S : b < a => b < c
    <3> SUFFICES ASSUME NEW b \in S, b < a PROVE b < c
      OBVIOUS
    <3>1. a \in Nat /\ b \in Nat /\ c \in Nat
      OBVIOUS
    <3> QED
      BY <3>1
  <2>2. a \in Nat /\ ~(a < a)
    OBVIOUS
  <2> QED
    BY <2>1, <2>2
\* The latest alert comes after all others.
<1>3. A # {}
  <2>1. Cardinality(S) \in Nat /\ S # {}
    BY FS_CardinalityType, FS_EmptySet
  <2>2. PICK m \in S : \A y \in S : y <= m
    BY <2>1, LatestIs
  <2>3. Before(m) = S \ {m}
    <3>1. \A y \in S : y < m <=> y # m
      <4> TAKE y \in S
      <4>1. y \in Nat /\ m \in Nat /\ y <= m
        BY <2>2
      <4> QED
        BY <4>1
    <3> QED
      BY <3>1
  <2>4. Cardinality(S \ {m}) = Cardinality(S) - 1
    BY <2>2, FS_RemoveElement
  <2> QED
    BY <2>1, <2>2, <2>3, <2>4
<1>4. PICK a \in A : \A y \in A : a <= y
  BY <1>3, OldestIs
<1>5. a \in S /\ Cardinality(Before(a)) >= k
  BY <1>4
<1>6. Cardinality(Before(a)) <= k
  <2>1. CASE Before(a) = {}
    BY <2>1, FS_EmptySet
  <2>2. CASE Before(a) # {}
    <3>1. PICK m \in Before(a) : \A y \in Before(a) : y <= m
      <4>1. Before(a) \subseteq Nat
        OBVIOUS
      <4> HIDE DEF Before
      <4> QED
        BY <1>1, <2>2, <4>1, LatestIs
    <3>2. m \in S /\ m < a
      OBVIOUS
    <3>3. Cardinality(Before(m)) < k
      <4>1. m \in Nat /\ a \in Nat
        BY <1>5, <3>2
      <4>2. m \notin A
        BY <1>4, <3>2, <4>1
      <4> QED
        BY <1>1, <3>2, <4>2
    <3>4. Before(a) \ {m} \subseteq Before(m)
      <4> SUFFICES ASSUME NEW y \in Before(a), y # m PROVE y < m
        OBVIOUS
      <4>1. y \in Nat /\ m \in Nat /\ y <= m
        BY <3>1, <3>2
      <4> QED
        BY <4>1
    <3> HIDE DEF Before, A
    <3>5. Cardinality(Before(a) \ {m}) <= Cardinality(Before(m))
      BY <1>1, <3>4, FS_Subset
    <3>6. Cardinality(Before(a) \ {m}) = Cardinality(Before(a)) - 1
      BY <1>1, <3>1, FS_RemoveElement
    <3> QED
      BY <1>1, <3>3, <3>5, <3>6
  <2> QED
    BY <2>1, <2>2
<1> QED
  BY <1>1, <1>5, <1>6

\* What a restart reads of the table is a list of its alerts.
LEMMA ByTimeIs ==
    ASSUME NEW S, S \subseteq Nat, IsFiniteSet(S)
    PROVE  ByTime(S) \in Seq(S) /\ Len(ByTime(S)) = Cardinality(S)
<1>1. Cardinality(S) \in Nat
  BY FS_CardinalityType
<1>2. \A i \in 1..Cardinality(S) : \E a \in S : Cardinality({b \in S : b < a}) = i - 1
  <2> TAKE i \in 1..Cardinality(S)
  <2>1. i - 1 \in Nat /\ i - 1 < Cardinality(S)
    BY <1>1
  <2> QED
    BY <2>1, RankIs
<1>3. ByTime(S) \in [1..Cardinality(S) -> S]
  BY <1>2 DEF ByTime
<1> QED
  BY <1>1, <1>3, SeqDef, LenProperties

-----------------------------------------------------------------------------
(* The invariant                                                           *)

\* What threads and the feed carry are alerts that were created.
Carried ==
    /\ \A p \in Producer : pc[p] \in {"store", "save", "emit"} => item[p] \in 1..created
    /\ \A i \in DOMAIN events : events[i].kind = "alert" => events[i].data \in 1..created
    /\ sending.kind = "alert" => sending.event \in 1..created
    /\ emitted \subseteq 1..created
    /\ excused \in [Client -> SUBSET (1..created)]
    /\ hidden \in [Client -> SUBSET (1..created)]

\* An alert survives a crash, or its save raised, or newer ones displaced it.
Safe(a) ==
    \/ a \in unsaved \cup database
    \/ Cardinality({b \in database : b > a}) >= DatabaseCap

\* So it is from the save on, before the browsers are told.
Kept ==
    /\ \A a \in emitted : Safe(a)
    /\ \A p \in Producer : pc[p] = "emit" => Safe(item[p])

Reading == \E p \in Producer : pc[p] = "toDict"
Alone(p) == \A q \in Producer \ {p} : ~InCampaign(q)
LastCampaign(i) ==
    /\ events[i].kind = "campaign"
    /\ \A j \in DOMAIN events : j > i => events[j].kind # "campaign"

\* A late REST snapshot did not replace what the browser shows.
Followed(c) == Connected(c) /\ c \notin dated

\* Version v is the last that the browsers have got or will get.
Told(v) ==
    /\ \A i \in DOMAIN events : LastCampaign(i) => events[i].data = v
    /\ (\A i \in DOMAIN events : events[i].kind # "campaign") =>
          /\ sending.kind = "campaign" => sending.event = v
          /\ \A c \in Client : Followed(c) =>
                viewVersion[c] = v \/ (sending.kind = "campaign" /\ c \in sending.todo)

\* A version that was read alone passes memory, database and feed in turn;
\* it is the newest there is, or a thread is about to read a newer one.
Passing ==
    \A p \in Producer : InCampaign(p) =>
        /\ Alone(p)
        /\ item[p] = liveCount \/ Reading
        /\ pc[p] \in {"saveCampaign", "emitCampaign"} => stored = item[p]
        /\ pc[p] = "emitCampaign" => dbVersion = item[p]
Passed ==
    (\A p \in Producer : ~InCampaign(p)) =>
        /\ dbVersion = stored
        /\ stored = liveCount \/ Reading
        /\ Told(stored)
Latest == ~disturbed => Passing /\ Passed

IInv == TypeOK /\ Carried /\ NoGap /\ Kept /\ Latest

-----------------------------------------------------------------------------
(* Types                                                                   *)

Events == [kind : {"alert", "campaign"}, data : Nat]
Sendings == [event : Nat, kind : {"none", "alert", "campaign", "heartbeat"},
             todo : SUBSET Client, dead : SUBSET Client]
Answers == [state : {"none", "asked", "read"}, alerts : SUBSET (1..created), version : Nat]
Labels == {"idle", "store", "save", "emit", "toDict", "upsert", "saveCampaign",
           "emitCampaign"}

\* The capped list is a list of the same alerts.
LEMMA LastNIs ==
    ASSUME NEW T, NEW s \in Seq(T), NEW n \in Nat \ {0}
    PROVE  LastN(s, n) \in Seq(T) /\ Len(LastN(s, n)) <= n
<1>1. Len(s) \in Nat /\ \A i \in 1..Len(s) : s[i] \in T
  BY LenProperties, ElementOfSeq
<1>2. CASE Len(s) <= n
  BY <1>1, <1>2 DEF LastN
<1>3. CASE ~(Len(s) <= n)
  <2>1. Len(s) - n + 1 \in Int /\ Len(s) \in Int /\ \A i \in Len(s) - n + 1..Len(s) : s[i] \in T
    BY <1>1, <1>3
  <2>2. /\ SubSeq(s, Len(s) - n + 1, Len(s)) \in Seq(T)
        /\ Len(SubSeq(s, Len(s) - n + 1, Len(s))) = n
    BY <1>1, <1>3, <2>1, SubSeqProperties
  <2> QED
    BY <1>3, <2>2 DEF LastN
<1> QED
  BY <1>2, <1>3

\* A snapshot is of alerts that were created.
LEMMA RecentAre ==
    ASSUME TypeOK
    PROVE  RecentAlerts \subseteq 1..created
<1> DEFINE s == LastN(alerts, SnapshotCap)
<1>1. s \in Seq(1..created)
  BY LastNIs, DashboardAssumption DEF DashboardAssumption, TypeOK
<1>2. DOMAIN s = 1..Len(s) /\ \A i \in 1..Len(s) : s[i] \in 1..created
  <2> HIDE DEF s
  <2> QED
    BY <1>1, LenProperties, ElementOfSeq
<1> QED
  BY <1>2 DEF RecentAlerts, ToSet

\* In the initial state all is empty.
LEMMA InitIInv == Init => IInv
<1> SUFFICES ASSUME Init PROVE IInv
  OBVIOUS
<1> USE DashboardAssumption DEF DashboardAssumption
<1>1. TypeOK
  <2>1. alerts \in Seq(1..created) /\ Len(alerts) <= MemoryCap
    BY EmptySeq DEF Init
  <2>2. events \in Seq(Events)
    BY EmptySeq DEF Init
  <2>3. database \subseteq 1..created /\ Cardinality(database) <= DatabaseCap
    BY FS_EmptySet DEF Init
  <2>4. sending \in Sendings
    BY DEF Sendings, Init, Idle
  <2>5. view \in [Client -> SUBSET (1..created)]
    BY DEF Init
  <2>6. /\ created \in 0..MaxAlerts /\ crashes \in 0..MaxCrashes
        /\ stored \in Nat /\ liveCount \in Nat /\ dbVersion \in Nat
        /\ pc \in [Producer -> {"idle", "store", "save", "emit", "toDict", "upsert",
                                "saveCampaign", "emitCampaign"}]
        /\ item \in [Producer -> Nat]
        /\ clients \subseteq Client /\ greeting \subseteq clients
        /\ browser \in [Client -> {"closed", "open", "gone"}]
        /\ viewVersion \in [Client -> Nat]
    BY DEF Init
  <2>7. disturbed \in BOOLEAN
    BY DEF Init
  <2>8. rest \in [Client -> Answers]
    BY DEF Init, NoRequest, Answers
  <2> QED
    BY <2>1, <2>2, <2>3, <2>4, <2>5, <2>6, <2>7, <2>8 DEF TypeOK, Answers, Events, Sendings
<1>2. DOMAIN events = {}
  BY DEF Init
<1>3. Carried
  BY <1>2 DEF Init, Carried, Idle
<1>4. NoGap
  BY DEF Init, NoGap
<1>5. Kept
  BY DEF Init, Kept
<1>6. Latest
  BY <1>2 DEF Init, Latest, Passing, Passed, Told, InCampaign, Idle, Followed, Connected
<1> QED
  BY <1>1, <1>3, <1>4, <1>5, <1>6 DEF IInv

\* Every step keeps the types, and what is carried is an alert that exists.
LEMMA StepTyped ==
    ASSUME TypeOK, Carried, [Next]_vars
    PROVE  TypeOK' /\ Carried'
<1> USE DashboardAssumption DEF DashboardAssumption
<1> USE DEF Event, Goto, Idle, producerVars, feedVars, browserVars, pageVars, diskVars,
            memoryVars, history
<1>0. /\ events \in Seq(Events) /\ sending \in Sendings
      /\ DOMAIN events = 1..Len(events) /\ Len(events) \in Nat
      /\ created \in Nat /\ 1..created \subseteq Nat /\ IsFiniteSet(1..created)
      /\ database \subseteq Nat /\ IsFiniteSet(database)
      /\ view \in [Client -> SUBSET (1..created)] /\ viewVersion \in [Client -> Nat]
  <2>1. events \in Seq(Events) /\ sending \in Sendings
    BY DEF TypeOK, Events, Sendings
  <2>2. created \in Nat /\ 1..created \subseteq Nat /\ database \subseteq 1..created
    BY DEF TypeOK
  <2>3. IsFiniteSet(1..created)
    BY <2>2, FS_Interval
  <2>4. view \in [Client -> SUBSET (1..created)] /\ viewVersion \in [Client -> Nat]
    BY DEF TypeOK
  <2> QED
    BY <2>1, <2>2, <2>3, <2>4, LenProperties, FS_Subset
<1>1. ASSUME NEW p \in Producer, CreateAlert(p) PROVE TypeOK' /\ Carried'
  <2>1. created' = created + 1 /\ created' <= MaxAlerts /\ 1..created \subseteq 1..created'
    BY <1>0, <1>1 DEF TypeOK, CreateAlert
  <2>2. view' \in [Client -> SUBSET (1..created')]
    BY <1>0, <1>1, <2>1 DEF CreateAlert
  <2>3. /\ excused' \in [Client -> SUBSET (1..created')]
        /\ hidden' \in [Client -> SUBSET (1..created')]
    <3>1. /\ excused \in [Client -> SUBSET (1..created)] /\ excused' = excused
          /\ hidden \in [Client -> SUBSET (1..created)] /\ hidden' = hidden
      BY <1>1 DEF Carried, CreateAlert
    <3> QED
      BY <2>1, <3>1
  <2>4. alerts' \in Seq(1..created')
    BY <1>1, <2>1, SeqMonotonic DEF TypeOK, CreateAlert
  <2>5. rest' \in [Client -> [state : {"none", "asked", "read"},
                              alerts : SUBSET (1..created'), version : Nat]]
    <3>1. rest \in [Client -> Answers] /\ rest' = rest
      BY <1>1 DEF TypeOK, Answers, CreateAlert
    <3> QED
      BY <2>1, <3>1 DEF Answers
  <2>6. TypeOK'
    BY <1>0, <1>1, <2>1, <2>2, <2>4, <2>5 DEF TypeOK, CreateAlert
  <2>7. Carried'
    <3>1. \A q \in Producer : pc'[q] \in {"store", "save", "emit"} => item'[q] \in 1..created'
      BY <1>0, <1>1, <2>1 DEF TypeOK, Carried, CreateAlert
    <3> QED
      BY <1>1, <2>1, <2>3, <3>1 DEF Carried, CreateAlert
  <2> QED
    BY <2>6, <2>7
<1>2. ASSUME NEW p \in Producer, StoreAlert(p) PROVE TypeOK' /\ Carried'
  BY <1>2, LastNIs, AppendProperties DEF TypeOK, Carried, StoreAlert
<1>3. ASSUME NEW p \in Producer, SaveAlert(p) PROVE TypeOK' /\ Carried'
  <2>1. CASE database' = database
    BY <1>3, <2>1 DEF TypeOK, Carried, SaveAlert
  <2>2. CASE database' = Newest(database \cup {item[p]}, DatabaseCap)
    <3> DEFINE S == database \cup {item[p]}
    <3>1. S \subseteq 1..created
      <4>1. item[p] \in 1..created
        BY <1>3 DEF SaveAlert, Carried
      <4> QED
        BY <4>1 DEF TypeOK
    <3>2. S \subseteq Nat /\ IsFiniteSet(S)
      <4> HIDE DEF S
      <4> QED
        BY <1>0, <3>1, FS_Subset
    <3>3. database' \subseteq 1..created /\ Cardinality(database') <= DatabaseCap
      <4> HIDE DEF S
      <4> QED
        BY <2>2, <3>1, <3>2, NewestFits DEF S
    <3> QED
      BY <1>3, <3>3 DEF TypeOK, Carried, SaveAlert
  <2> QED
    BY <1>3, <2>1, <2>2 DEF SaveAlert
<1>4. ASSUME NEW p \in Producer, EmitAlert(p) PROVE TypeOK' /\ Carried'
  <2>1. item[p] \in 1..created /\ item[p] \in Nat
    BY <1>4 DEF TypeOK, Carried, EmitAlert
  <2>2. Event("alert", item[p]) \in Events
    BY <2>1 DEF Events
  <2>3. /\ events' \in Seq(Events)
        /\ DOMAIN events' = 1..Len(events) + 1
        /\ \A i \in 1..Len(events) : events'[i] = events[i]
        /\ events'[Len(events) + 1] = Event("alert", item[p])
    BY <1>0, <1>4, <2>2, AppendProperties, LenProperties DEF EmitAlert
  <2>4. \A i \in DOMAIN events' : events'[i].kind = "alert" => events'[i].data \in 1..created
    <3>1. \A i \in 1..Len(events) : events[i].kind = "alert" => events[i].data \in 1..created
      BY <1>0 DEF Carried
    <3> QED
      BY <1>0, <2>1, <2>3, <3>1
  <2>5. \A q \in Producer : pc'[q] \in {"store", "save", "emit"} => item'[q] \in 1..created'
    BY <1>4 DEF EmitAlert, TypeOK, Carried
  <2> QED
    <3>1. liveCount' = liveCount + 1 /\ emitted' = emitted \cup {item[p]} /\ created' = created
      BY <1>4 DEF EmitAlert
    <3>2. liveCount \in Nat /\ emitted \subseteq 1..created
      BY DEF TypeOK, Carried
    <3>3. liveCount' \in Nat
      BY <3>1, <3>2
    <3>4. emitted' \subseteq 1..created'
      <4>1. emitted' \subseteq 1..created
        BY <2>1, <3>1, <3>2, Zenon
      <4> QED
        BY <3>1, <4>1
    <3> QED
      BY <1>4, <2>3, <2>4, <2>5, <3>3, <3>4 DEF TypeOK, Carried, EmitAlert, Events
<1>5. ASSUME NEW p \in Producer, ReadCampaign(p) PROVE TypeOK' /\ Carried'
  BY <1>5 DEF TypeOK, Carried, ReadCampaign, InCampaign
<1>6. ASSUME NEW p \in Producer, StoreCampaign(p) PROVE TypeOK' /\ Carried'
  BY <1>6 DEF TypeOK, Carried, StoreCampaign
<1>7. ASSUME NEW p \in Producer, SaveCampaign(p) PROVE TypeOK' /\ Carried'
  <2>1. pc' = [pc EXCEPT ![p] = "emitCampaign"] /\ pc \in [Producer -> Labels]
    BY <1>7 DEF SaveCampaign, TypeOK, Labels
  <2>2. dbVersion' \in Nat /\ disturbed' \in BOOLEAN
    BY <1>7 DEF SaveCampaign, TypeOK
  <2>3. pc' \in [Producer -> Labels]
    BY <2>1 DEF Labels
  <2>4. \A q \in Producer : pc'[q] \in {"store", "save", "emit"} => pc[q] = pc'[q]
    BY <2>1
  <2>5. /\ UNCHANGED <<created, crashes, alerts, stored, liveCount, database, item, events>>
        /\ UNCHANGED <<clients, greeting, sending, browser, view, viewVersion, rest, hidden>>
        /\ UNCHANGED <<emitted, excused>>
    BY <1>7 DEF SaveCampaign
  <2>6. TypeOK'
    BY <2>2, <2>3, <2>5 DEF TypeOK, Labels
  <2>7. Carried'
    BY <2>4, <2>5 DEF Carried
  <2> QED
    BY <2>6, <2>7
<1>8. ASSUME NEW p \in Producer, EmitCampaign(p) PROVE TypeOK' /\ Carried'
  BY <1>8, AppendProperties, SMTT(30) DEF TypeOK, Carried, EmitCampaign
<1>9. ASSUME BroadcastStart PROVE TypeOK' /\ Carried'
  <2>1. CASE events = <<>>
    <3>1. sending' \in Sendings /\ sending'.kind = "heartbeat"
      <4>1. sending' = [event |-> 0, kind |-> "heartbeat", todo |-> clients, dead |-> {}]
        BY <1>9, <2>1 DEF BroadcastStart
      <4>2. clients \subseteq Client
        BY DEF TypeOK
      <4> QED
        BY <4>1, <4>2 DEF Sendings
    <3> QED
      BY <1>9, <2>1, <3>1 DEF TypeOK, Carried, BroadcastStart, Sendings
  <2>2. CASE events # <<>>
    <3>1. /\ Head(events) \in Events /\ Tail(events) \in Seq(Events)
          /\ Len(events) \in Nat \ {0} /\ Head(events) = events[1]
      BY <1>0, <2>2, HeadTailProperties, EmptySeq
    <3>2. /\ DOMAIN Tail(events) = 1..Len(events) - 1
          /\ \A i \in 1..Len(events) - 1 : Tail(events)[i] = events[i + 1]
      BY <1>0, <2>2, <3>1, HeadTailProperties, LenProperties
    <3>3. events' = Tail(events)
      BY <1>9, <2>2 DEF BroadcastStart
    <3>4. \A i \in DOMAIN events' : events'[i].kind = "alert" => events'[i].data \in 1..created
      BY <1>0, <3>1, <3>2, <3>3 DEF Carried
    <3>5. /\ sending' \in Sendings
          /\ sending'.kind = "alert" => sending'.event \in 1..created
      <4>1. sending' = [event |-> Head(events).data, kind |-> Head(events).kind,
                        todo |-> clients, dead |-> {}]
        BY <1>9, <2>2 DEF BroadcastStart
      <4>2. clients \subseteq Client /\ (events[1].kind = "alert" => events[1].data \in 1..created)
        <5>1. clients \subseteq Client /\ 1 \in DOMAIN events
          BY <1>0, <3>1 DEF TypeOK
        <5> QED
          BY <5>1 DEF Carried
      <4> QED
        BY <3>1, <4>1, <4>2 DEF Sendings, Events
    <3> QED
      BY <1>9, <2>2, <3>1, <3>3, <3>4, <3>5 DEF TypeOK, Carried, BroadcastStart, Events, Sendings
  <2> QED
    BY <2>1, <2>2
<1>10. ASSUME BroadcastEnd PROVE TypeOK' /\ Carried'
  BY <1>10 DEF TypeOK, Carried, BroadcastEnd
<1>11. ASSUME NEW c \in Client, BroadcastSend(c) PROVE TypeOK' /\ Carried'
  <2>1. /\ sending' \in Sendings
        /\ sending'.kind = sending.kind /\ sending'.event = sending.event
    <3>1. \A T \in SUBSET Client, D \in SUBSET Client :
             LET s == [sending EXCEPT !.todo = T, !.dead = D]
             IN  s \in Sendings /\ s.kind = sending.kind /\ s.event = sending.event
      BY <1>0 DEF Sendings
    <3>2. \A T \in SUBSET Client :
             LET s == [sending EXCEPT !.todo = T]
             IN  s \in Sendings /\ s.kind = sending.kind /\ s.event = sending.event
      BY <1>0 DEF Sendings
    <3>3. sending.todo \ {c} \in SUBSET Client /\ sending.dead \cup {c} \in SUBSET Client
      BY <1>0 DEF Sendings
    <3>4. \/ sending' = [sending EXCEPT !.todo = sending.todo \ {c}]
          \/ sending' = [sending EXCEPT !.todo = sending.todo \ {c}, !.dead = sending.dead \cup {c}]
      BY <1>11 DEF BroadcastSend
    <3>5. CASE sending' = [sending EXCEPT !.todo = sending.todo \ {c}]
      BY <3>2, <3>3, <3>5
    <3>6. CASE sending' = [sending EXCEPT !.todo = sending.todo \ {c}, !.dead = sending.dead \cup {c}]
      BY <3>1, <3>3, <3>6
    <3> QED
      BY <3>4, <3>5, <3>6
  <2>2. view' \in [Client -> SUBSET (1..created)] /\ viewVersion' \in [Client -> Nat]
    <3>1. sending.event \in Nat /\ (sending.kind = "alert" => sending.event \in 1..created)
      BY <1>0 DEF Carried, Sendings
    <3>2. view' = view \/ (sending.kind = "alert" /\ view' = [view EXCEPT ![c] = @ \cup {sending.event}])
      BY <1>11 DEF BroadcastSend
    <3>3. viewVersion' = viewVersion \/ viewVersion' = [viewVersion EXCEPT ![c] = sending.event]
      BY <1>11 DEF BroadcastSend
    <3>4. view' \in [Client -> SUBSET (1..created)]
      BY <1>0, <3>1, <3>2
    <3> QED
      BY <1>0, <3>1, <3>3, <3>4
  <2> QED
    BY <1>11, <2>1, <2>2 DEF TypeOK, Carried, BroadcastSend, Sendings
<1>12. ASSUME NEW c \in Client, Snapshot(c) PROVE TypeOK' /\ Carried'
  <2>1. RecentAlerts \subseteq 1..created
    BY RecentAre
  <2> QED
    BY <1>12, <2>1 DEF TypeOK, Carried, Snapshot
<1>13. ASSUME NEW c \in Client, Connect(c) PROVE TypeOK' /\ Carried'
  BY <1>13 DEF TypeOK, Carried, Connect
<1>14. ASSUME NEW c \in Client, Leave(c) \/ Disconnect(c) PROVE TypeOK' /\ Carried'
  <2>1. CASE Disconnect(c)
    BY <2>1 DEF TypeOK, Carried, Disconnect
  <2>2. CASE Leave(c)
    <3>1. /\ UNCHANGED <<created, crashes, alerts, stored, liveCount, database, dbVersion, pc>>
          /\ UNCHANGED <<item, events, clients, greeting, sending, rest, emitted, disturbed>>
          /\ browser' = [browser EXCEPT ![c] = "gone"]
      BY <2>2 DEF Leave
    <3>2. /\ view' \in [Client -> SUBSET (1..created)] /\ viewVersion' \in [Client -> Nat]
      BY <1>0, <2>2 DEF Leave
    <3>3. /\ excused' \in [Client -> SUBSET (1..created)]
          /\ hidden' \in [Client -> SUBSET (1..created)]
      BY <2>2 DEF Leave, Carried
    <3>4. browser' \in [Client -> {"closed", "open", "gone"}]
      BY <3>1 DEF TypeOK
    <3>5. TypeOK'
      BY <3>1, <3>2, <3>4 DEF TypeOK
    <3>6. Carried'
      BY <3>1, <3>3 DEF Carried
    <3> QED
      BY <3>5, <3>6
  <2> QED
    BY <1>14, <2>1, <2>2
<1>15. ASSUME NEW c \in Client, Return(c) PROVE TypeOK' /\ Carried'
  BY <1>15 DEF TypeOK, Carried, Return
<1>16. ASSUME NEW c \in Client, AskRest(c) \/ ReadRest(c) \/ ShowRest(c) \/ LoseRest(c)
       PROVE  TypeOK' /\ Carried'
  <2>1. rest \in [Client -> Answers] /\ rest' \in [Client -> Answers]
    <3>1. rest \in [Client -> Answers] /\ NoRequest \in Answers
      BY DEF TypeOK, Answers, NoRequest
    <3>2. RecentAlerts \in SUBSET (1..created) /\ stored \in Nat
      BY RecentAre DEF TypeOK
    <3>3. CASE ReadRest(c)
      BY <3>1, <3>2, <3>3 DEF ReadRest, Answers
    <3>4. CASE AskRest(c)
      <4>1. [rest[c] EXCEPT !.state = "asked"] \in Answers
        BY <3>1 DEF Answers
      <4>2. rest' = [rest EXCEPT ![c] = [rest[c] EXCEPT !.state = "asked"]]
        BY <3>4 DEF AskRest
      <4> QED
        BY <3>1, <4>1, <4>2
    <3>5. CASE ShowRest(c) \/ LoseRest(c)
      BY <3>1, <3>5 DEF ShowRest, LoseRest
    <3> QED
      BY <1>16, <3>1, <3>3, <3>4, <3>5
  <2>2. /\ UNCHANGED <<created, crashes, alerts, stored, liveCount, database, dbVersion, pc, item>>
        /\ UNCHANGED <<events, clients, greeting, sending, browser, emitted, excused, disturbed>>
    BY <1>16 DEF AskRest, ReadRest, ShowRest, LoseRest
  <2>3. rest[c].alerts \in SUBSET (1..created) /\ rest[c].version \in Nat
    BY <2>1 DEF Answers
  <2>4. /\ view' \in [Client -> SUBSET (1..created)] /\ viewVersion' \in [Client -> Nat]
        /\ hidden' \in [Client -> SUBSET (1..created)]
    <3>1. hidden \in [Client -> SUBSET (1..created)]
      BY DEF Carried
    <3>2. CASE UNCHANGED <<view, viewVersion, hidden>>
      BY <1>0, <3>1, <3>2
    <3>3. CASE /\ view' = [view EXCEPT ![c] = rest[c].alerts]
               /\ \E v \in {0, rest[c].version} : viewVersion' = [viewVersion EXCEPT ![c] = v]
               /\ hidden' = [hidden EXCEPT ![c] = @ \cup (view[c] \ rest[c].alerts)]
      <4>1. hidden[c] \cup (view[c] \ rest[c].alerts) \in SUBSET (1..created)
        BY <1>0, <3>1
      <4>2. hidden' \in [Client -> SUBSET (1..created)]
        BY <3>1, <3>3, <4>1
      <4> QED
        BY <1>0, <2>3, <3>3, <4>2
    <3> QED
      BY <1>16, <3>2, <3>3 DEF AskRest, ReadRest, ShowRest, LoseRest
  <2> QED
    BY <2>1, <2>2, <2>4 DEF TypeOK, Carried, Answers
<1>17. ASSUME Restart PROVE TypeOK' /\ Carried'
  <2> DEFINE S == Newest(database, MemoryCap)
  <2>1. database \subseteq Nat /\ IsFiniteSet(database)
    BY <1>0
  <2>2. S \subseteq database /\ IsFiniteSet(S) /\ Cardinality(S) <= MemoryCap
    BY <2>1, NewestFits
  <2>3. ByTime(S) \in Seq(S) /\ Len(ByTime(S)) = Cardinality(S)
    <3>1. S \subseteq Nat
      BY <2>1, <2>2
    <3> HIDE DEF S
    <3> QED
      BY <2>2, <3>1, ByTimeIs
  <2>4. alerts' \in Seq(1..created) /\ Len(alerts') <= MemoryCap
    <3>1. alerts' = ByTime(S)
      BY <1>17 DEF Restart
    <3>2. S \subseteq 1..created
      BY <2>2 DEF TypeOK
    <3> HIDE DEF S
    <3> QED
      BY <2>2, <2>3, <3>1, <3>2, SeqMonotonic
  <2>5. events' \in Seq(Events) /\ DOMAIN events' = {}
    BY <1>17, EmptySeq DEF Restart
  <2> HIDE DEF S
  <2> QED
    <3>1. /\ UNCHANGED <<created, database, dbVersion, emitted>>
          /\ crashes' \in 0..MaxCrashes /\ stored' = dbVersion /\ liveCount' = 0
          /\ pc' = [q \in Producer |-> "idle"] /\ item' = [q \in Producer |-> 0]
          /\ clients' = {} /\ greeting' = {} /\ sending' = Idle /\ disturbed' = TRUE
          /\ view' = [c \in Client |-> {}] /\ viewVersion' = [c \in Client |-> 0]
          /\ excused' = [c \in Client |-> {}] /\ hidden' = [c \in Client |-> {}]
      BY <1>17 DEF Restart, TypeOK
    <3>2. rest' \in [Client -> Answers]
      <4>1. rest \in [Client -> Answers] /\ NoRequest \in Answers
        BY DEF TypeOK, Answers, NoRequest
      <4> QED
        BY <1>17, <4>1 DEF Restart
    <3>3. browser' \in [Client -> {"closed", "open", "gone"}]
      BY <1>17 DEF Restart, TypeOK
    <3>4. TypeOK'
      BY <2>4, <2>5, <3>1, <3>2, <3>3 DEF TypeOK, Events, Answers
    <3>5. Carried'
      BY <2>5, <3>1 DEF Carried
    <3> QED
      BY <3>4, <3>5
<1>18. CASE UNCHANGED vars
  BY <1>18 DEF TypeOK, Carried, vars
<1> QED
  BY <1>1, <1>2, <1>3, <1>4, <1>5, <1>6, <1>7, <1>8, <1>9, <1>10, <1>11, <1>12, <1>13, <1>14,
     <1>15, <1>16, <1>17, <1>18 DEF Next, ProducerStep, LoopStep, BrowserStep

-----------------------------------------------------------------------------
(* Durability                                                              *)

\* What is on disk only leaves it for as many newer alerts.
LEMMA SafeStays ==
    ASSUME NEW a \in Nat, Safe(a), NEW x \in Nat, database \subseteq Nat, IsFiniteSet(database),
           database' = Newest(database \cup {x}, DatabaseCap), unsaved' = unsaved
    PROVE  Safe(a)'
<1> USE DashboardAssumption DEF DashboardAssumption
<1> DEFINE S == database \cup {x}
           After(T) == {b \in T : b > a}
<1>1. S \subseteq Nat /\ IsFiniteSet(S)
  BY FS_AddElement
<1>2. IsFiniteSet(After(S)) /\ Cardinality(After(S)) \in Nat /\ Cardinality(After(database)) \in Nat
      /\ Cardinality(After(database)) <= Cardinality(After(S))
  <2>1. After(S) \subseteq S /\ After(database) \subseteq After(S)
    OBVIOUS
  <2> HIDE DEF After, S
  <2> QED
    BY <1>1, <2>1, FS_Subset, FS_CardinalityType
<1>3. CASE a \in unsaved
  BY <1>3 DEF Safe
<1>4. CASE Cardinality(After(S)) >= DatabaseCap
  <2> HIDE DEF S
  <2>1. Cardinality({b \in database' : b > a}) >= DatabaseCap
    BY <1>1, <1>4, NewestDisplace DEF S
  <2> QED
    BY <2>1 DEF Safe
<1>5. CASE a \in database /\ ~(Cardinality(After(S)) >= DatabaseCap)
  <2>1. a \in Newest(S, DatabaseCap)
    BY <1>2, <1>5 DEF Newest
  <2> QED
    BY <2>1 DEF Safe
<1> QED
  BY <1>2, <1>3, <1>4, <1>5 DEF Safe

\* An alert is safe once its save has returned or raised.
LEMMA StepKept ==
    ASSUME TypeOK, Carried, Kept, [Next]_vars
    PROVE  Kept'
<1> USE DashboardAssumption DEF DashboardAssumption
<1> USE DEF Goto, Idle, producerVars, feedVars, browserVars, pageVars, diskVars, memoryVars, history
<1>0. created \in Nat /\ database \subseteq Nat /\ IsFiniteSet(database) /\ emitted \subseteq Nat
      /\ pc \in [Producer -> Labels] /\ item \in [Producer -> Nat]
  <2>1. created \in Nat /\ database \subseteq 1..created /\ emitted \subseteq 1..created
    BY DEF TypeOK, Carried
  <2>2. IsFiniteSet(1..created)
    BY <2>1, FS_Interval
  <2>3. 1..created \subseteq Nat
    BY <2>1
  <2>4. database \subseteq Nat /\ emitted \subseteq Nat /\ IsFiniteSet(database)
    BY <2>1, <2>2, <2>3, FS_Subset
  <2>5. pc \in [Producer -> Labels]
    BY DEF TypeOK, Labels
  <2>6. item \in [Producer -> Nat]
    BY DEF TypeOK
  <2> QED
    BY <2>1, <2>4, <2>5, <2>6
<1>1. ASSUME NEW p \in Producer, SaveAlert(p) PROVE Kept'
  <2>1. /\ pc[p] = "save" /\ item' = item /\ emitted' = emitted
        /\ \A q \in Producer : pc'[q] = IF q = p THEN "emit" ELSE pc[q]
    BY <1>0, <1>1 DEF SaveAlert
  <2>2. CASE database' = database /\ unsaved' = unsaved \cup {item[p]}
    BY <2>1, <2>2 DEF Kept, Safe
  <2>3. CASE database' = Newest(database \cup {item[p]}, DatabaseCap) /\ unsaved' = unsaved
    <3>1. \A a \in Nat : Safe(a) => Safe(a)'
      BY <1>0, <2>3, SafeStays
    <3>2. Safe(item[p])'
      <4> DEFINE S == database \cup {item[p]}
      <4>1. item[p] \in Nat /\ S \subseteq Nat /\ IsFiniteSet(S)
        BY <1>0, FS_AddElement
      <4>2. Cardinality({b \in S : b > item[p]}) \in Nat
        <5>1. {b \in S : b > item[p]} \subseteq S
          OBVIOUS
        <5> HIDE DEF S
        <5> QED
          BY <4>1, <5>1, FS_Subset, FS_CardinalityType
      <4>3. CASE Cardinality({b \in S : b > item[p]}) >= DatabaseCap
        <5> HIDE DEF S
        <5>1. Cardinality({b \in database' : b > item[p]}) >= DatabaseCap
          BY <2>3, <4>1, <4>3, NewestDisplace DEF S
        <5> QED
          BY <2>1, <5>1 DEF Safe
      <4>4. CASE ~(Cardinality({b \in S : b > item[p]}) >= DatabaseCap)
        <5>1. item[p] \in Newest(S, DatabaseCap)
          BY <4>2, <4>4 DEF Newest
        <5> QED
          BY <2>1, <2>3, <5>1 DEF Safe
      <4> QED
        BY <4>3, <4>4
    <3>3. ASSUME NEW q \in Producer, pc'[q] = "emit" PROVE Safe(item[q])'
      <4>1. CASE q = p
        BY <3>2, <4>1
      <4>2. CASE q # p
        <5>1. Safe(item[q]) /\ item[q] \in Nat
          BY <1>0, <2>1, <3>3, <4>2 DEF Kept
        <5>2. Safe(item[q])'
          BY <2>1, <3>1, <5>1 DEF Safe
        <5> QED
          BY <5>2
      <4> QED
        BY <4>1, <4>2
    <3> QED
      BY <1>0, <2>1, <3>1, <3>3 DEF Kept
  <2> QED
    BY <1>1, <2>2, <2>3 DEF SaveAlert
<1>2. ASSUME database' = database, unsaved' = unsaved, emitted' = emitted,
             \A q \in Producer : pc'[q] = "emit" => pc[q] = "emit" /\ item'[q] = item[q]
      PROVE  Kept'
  BY <1>2 DEF Kept, Safe
<1>3. ASSUME NEW p \in Producer, EmitAlert(p) PROVE Kept'
  BY <1>0, <1>3 DEF EmitAlert, Kept, Safe
<1>4. ASSUME NEW p \in Producer,
             \/ CreateAlert(p) \/ StoreAlert(p) \/ ReadCampaign(p) \/ StoreCampaign(p)
             \/ SaveCampaign(p) \/ EmitCampaign(p)
      PROVE  Kept'
  BY <1>0, <1>2, <1>4 DEF CreateAlert, StoreAlert, ReadCampaign, StoreCampaign, SaveCampaign,
                          EmitCampaign
<1>5. ASSUME \/ BroadcastStart \/ BroadcastEnd
             \/ \E c \in Client : BroadcastSend(c) \/ Snapshot(c) \/ BrowserStep(c)
      PROVE  Kept'
  BY <1>2, <1>5 DEF BroadcastStart, BroadcastEnd, BroadcastSend, Snapshot, BrowserStep, Connect,
                    Leave, Disconnect, Return, AskRest, ReadRest, ShowRest, LoseRest
<1>6. ASSUME Restart PROVE Kept'
  BY <1>2, <1>6 DEF Restart
<1>7. CASE UNCHANGED vars
  BY <1>2, <1>7 DEF vars
<1> QED
  BY <1>1, <1>3, <1>4, <1>5, <1>6, <1>7 DEF Next, ProducerStep, LoopStep

-----------------------------------------------------------------------------
(* The live feed                                                           *)

\* What the steps of the feed have to know of its variables.
LEMMA FeedTyped ==
    ASSUME TypeOK, Carried
    PROVE  /\ events \in Seq(Events) /\ sending \in Sendings
           /\ DOMAIN events = 1..Len(events) /\ Len(events) \in Nat
           /\ created \in Nat
           /\ pc \in [Producer -> Labels] /\ item \in [Producer -> Nat]
           /\ browser \in [Client -> {"closed", "open", "gone"}]
           /\ view \in [Client -> SUBSET (1..created)]
           /\ viewVersion \in [Client -> Nat]
           /\ excused \in [Client -> SUBSET (1..created)]
           /\ hidden \in [Client -> SUBSET (1..created)]
<1>1. events \in Seq(Events) /\ sending \in Sendings
  BY DEF TypeOK, Events, Sendings
<1>2. created \in Nat
  BY DashboardAssumption DEF DashboardAssumption, TypeOK
<1>3. pc \in [Producer -> Labels]
  BY DEF TypeOK, Labels
<1>4. /\ item \in [Producer -> Nat]
      /\ browser \in [Client -> {"closed", "open", "gone"}]
      /\ viewVersion \in [Client -> Nat]
  BY DEF TypeOK
<1>5. view \in [Client -> SUBSET (1..created)]
  BY DEF TypeOK
<1>6. /\ excused \in [Client -> SUBSET (1..created)]
      /\ hidden \in [Client -> SUBSET (1..created)]
  BY DEF Carried
<1> QED
  BY <1>1, <1>2, <1>3, <1>4, <1>5, <1>6, LenProperties

\* The head of the queue, and what is behind it.
LEMMA QueueHead ==
    ASSUME events \in Seq(Events), events # <<>>
    PROVE  /\ Len(events) \in Nat \ {0} /\ Head(events) = events[1] /\ Head(events) \in Events
           /\ DOMAIN Tail(events) = 1..Len(events) - 1
           /\ \A i \in 1..Len(events) - 1 : Tail(events)[i] = events[i + 1]
<1>1. /\ Head(events) \in Events /\ Tail(events) \in Seq(Events)
      /\ Len(events) \in Nat \ {0} /\ Head(events) = events[1]
  BY HeadTailProperties, EmptySeq
<1> QED
  BY <1>1, HeadTailProperties, LenProperties

\* The queue with one event more.
LEMMA QueueAppend ==
    ASSUME events \in Seq(Events), NEW e \in Events
    PROVE  /\ DOMAIN Append(events, e) = 1..Len(events) + 1
           /\ \A i \in 1..Len(events) : Append(events, e)[i] = events[i]
           /\ Append(events, e)[Len(events) + 1] = e
BY AppendProperties, LenProperties

\* No step lets an alert fall between the snapshot and the live feed.
LEMMA StepNoGap ==
    ASSUME TypeOK, Carried, NoGap, [Next]_vars
    PROVE  NoGap'
<1> USE DEF Goto, producerVars, feedVars, browserVars, pageVars, diskVars, memoryVars, history
<1> SUFFICES ASSUME NEW c \in Client, Connected(c)', NEW a \in 1..created'
             PROVE  a \in view'[c] \cup excused'[c] \cup hidden'[c] \/ OnItsWay(a, c)'
  BY DEF NoGap
<1>0. /\ events \in Seq(Events) /\ sending \in Sendings
      /\ DOMAIN events = 1..Len(events) /\ Len(events) \in Nat
      /\ created \in Nat
      /\ pc \in [Producer -> Labels] /\ item \in [Producer -> Nat]
      /\ browser \in [Client -> {"closed", "open", "gone"}]
      /\ view \in [Client -> SUBSET (1..created)]
      /\ viewVersion \in [Client -> Nat]
      /\ excused \in [Client -> SUBSET (1..created)]
      /\ hidden \in [Client -> SUBSET (1..created)]
  BY FeedTyped
<1> DEFINE Shown == a \in view[c] \cup excused[c] \cup hidden[c]
           Carrier(p) == item[p] = a /\ pc[p] \in {"store", "save", "emit"}
           Queued == \E i \in DOMAIN events : events[i] = Event("alert", a)
           Under == sending.kind = "alert" /\ sending.event = a /\ c \in sending.todo
\* Before the step it was so, if the browser was connected and the alert known.
<1>1. ASSUME Connected(c), a \in 1..created
      PROVE  Shown \/ (\E p \in Producer : Carrier(p)) \/ Queued \/ Under
  BY <1>1 DEF NoGap, OnItsWay
\* A step that leaves the carriers, the feed and the view alone.
<1>2. ASSUME Connected(c), a \in 1..created, Shown => a \in view'[c] \cup excused'[c] \cup hidden'[c],
             \A p \in Producer : Carrier(p) => Carrier(p)',
             events' = events, sending' = sending
      PROVE  a \in view'[c] \cup excused'[c] \cup hidden'[c] \/ OnItsWay(a, c)'
  BY <1>1, <1>2 DEF OnItsWay
<1>3. ASSUME NEW p \in Producer, CreateAlert(p)
      PROVE  a \in view'[c] \cup excused'[c] \cup hidden'[c] \/ OnItsWay(a, c)'
  <2>1. Connected(c)
    BY <1>3 DEF CreateAlert, Connected
  <2>2. CASE a \in 1..created
    <3>1. \A q \in Producer : Carrier(q) => Carrier(q)'
      BY <1>0, <1>3 DEF CreateAlert
    <3> QED
      BY <1>2, <1>3, <2>1, <2>2, <3>1 DEF CreateAlert
  <2>3. CASE a \notin 1..created
    <3>1. a = created + 1
      BY <1>0, <1>3, <2>3 DEF CreateAlert
    <3>2. item'[p] = a /\ pc'[p] = "store"
      BY <1>0, <1>3, <3>1 DEF CreateAlert
    <3> QED
      BY <3>2 DEF OnItsWay
  <2> QED
    BY <2>2, <2>3
<1>4. ASSUME NEW p \in Producer,
             \/ StoreAlert(p) \/ SaveAlert(p) \/ ReadCampaign(p) \/ StoreCampaign(p)
             \/ SaveCampaign(p)
      PROVE  a \in view'[c] \cup excused'[c] \cup hidden'[c] \/ OnItsWay(a, c)'
  <2>1. /\ created' = created /\ events' = events /\ sending' = sending
        /\ view' = view /\ excused' = excused /\ hidden' = hidden /\ clients' = clients /\ greeting' = greeting
        /\ browser' = browser
    BY <1>4 DEF StoreAlert, SaveAlert, ReadCampaign, StoreCampaign, SaveCampaign
  <2>2. \A q \in Producer : Carrier(q) => Carrier(q)'
    BY <1>0, <1>4 DEF StoreAlert, SaveAlert, ReadCampaign, StoreCampaign, SaveCampaign
  <2> QED
    BY <1>2, <2>1, <2>2 DEF Connected
<1>5. ASSUME NEW p \in Producer, EmitAlert(p)
      PROVE  a \in view'[c] \cup excused'[c] \cup hidden'[c] \/ OnItsWay(a, c)'
  <2>1. /\ created' = created /\ sending' = sending /\ view' = view /\ excused' = excused /\ hidden' = hidden
        /\ clients' = clients /\ greeting' = greeting /\ browser' = browser
        /\ pc' = [pc EXCEPT ![p] = "toDict"] /\ item' = item
        /\ events' = Append(events, Event("alert", item[p]))
    BY <1>5 DEF EmitAlert
  <2>2. Event("alert", item[p]) \in Events
    BY <1>0 DEF Event, Events
  <2>3. /\ DOMAIN events' = 1..Len(events) + 1
        /\ \A i \in 1..Len(events) : events'[i] = events[i]
        /\ events'[Len(events) + 1] = Event("alert", item[p])
    BY <1>0, <2>1, <2>2, QueueAppend
  <2>4. Shown \/ (\E q \in Producer : Carrier(q)) \/ Queued \/ Under
    BY <1>1, <2>1 DEF Connected
  <2>5. CASE Shown \/ Under
    BY <2>1, <2>5 DEF OnItsWay
  <2>6. CASE Queued
    <3>1. PICK i \in DOMAIN events : events[i] = Event("alert", a)
      BY <2>6
    <3>2. i \in DOMAIN events' /\ events'[i] = Event("alert", a)
      BY <1>0, <2>3, <3>1
    <3> QED
      BY <3>2 DEF OnItsWay, Event
  <2>7. ASSUME NEW q \in Producer, Carrier(q) PROVE OnItsWay(a, c)'
    <3>1. CASE q = p
      <4>1. Len(events) + 1 \in DOMAIN events' /\ events'[Len(events) + 1] = Event("alert", a)
        BY <1>0, <2>3, <2>7, <3>1
      <4> QED
        BY <4>1 DEF OnItsWay, Event
    <3>2. CASE q # p
      BY <1>0, <2>1, <2>7, <3>2 DEF OnItsWay
    <3> QED
      BY <3>1, <3>2
  <2> QED
    BY <2>4, <2>5, <2>6, <2>7
<1>6. ASSUME NEW p \in Producer, EmitCampaign(p)
      PROVE  a \in view'[c] \cup excused'[c] \cup hidden'[c] \/ OnItsWay(a, c)'
  <2>1. /\ created' = created /\ sending' = sending /\ view' = view /\ excused' = excused /\ hidden' = hidden
        /\ clients' = clients /\ greeting' = greeting /\ browser' = browser
        /\ pc[p] = "emitCampaign"
        /\ pc' = [pc EXCEPT ![p] = "idle"] /\ item' = [item EXCEPT ![p] = 0]
        /\ events' = Append(events, Event("campaign", item[p]))
    BY <1>6 DEF EmitCampaign
  <2>2. Event("campaign", item[p]) \in Events
    BY <1>0 DEF Event, Events
  <2>3. /\ DOMAIN events' = 1..Len(events) + 1
        /\ \A i \in 1..Len(events) : events'[i] = events[i]
    BY <1>0, <2>1, <2>2, QueueAppend
  <2>4. Shown \/ (\E q \in Producer : Carrier(q)) \/ Queued \/ Under
    BY <1>1, <2>1 DEF Connected
  <2>5. CASE Shown \/ Under
    BY <2>1, <2>5 DEF OnItsWay
  <2>6. CASE Queued
    <3>1. PICK i \in DOMAIN events : events[i] = Event("alert", a)
      BY <2>6
    <3>2. i \in DOMAIN events' /\ events'[i] = Event("alert", a)
      BY <1>0, <2>3, <3>1
    <3> QED
      BY <3>2 DEF OnItsWay, Event
  <2>7. ASSUME NEW q \in Producer, Carrier(q) PROVE OnItsWay(a, c)'
    BY <1>0, <2>1, <2>7 DEF OnItsWay
  <2> QED
    BY <2>4, <2>5, <2>6, <2>7
<1>7. ASSUME BroadcastStart
      PROVE  a \in view'[c] \cup excused'[c] \cup hidden'[c] \/ OnItsWay(a, c)'
  <2>1. /\ created' = created /\ view' = view /\ excused' = excused /\ hidden' = hidden
        /\ clients' = clients /\ greeting' = greeting /\ browser' = browser
        /\ pc' = pc /\ item' = item /\ sending.kind = "none" /\ c \in clients
    BY <1>7 DEF BroadcastStart, Idle, Connected
  <2>2. Shown \/ (\E q \in Producer : Carrier(q)) \/ Queued
    BY <1>1, <2>1 DEF Connected
  <2>3. CASE Shown \/ \E q \in Producer : Carrier(q)
    BY <2>1, <2>3 DEF OnItsWay
  <2>4. CASE Queued
    <3>1. PICK i \in DOMAIN events : events[i] = Event("alert", a)
      BY <2>4
    <3>2. events # <<>>
      BY <1>0, <3>1, EmptySeq
    <3>3. /\ events' = Tail(events)
          /\ sending' = [event |-> Head(events).data, kind |-> Head(events).kind,
                         todo |-> clients, dead |-> {}]
      BY <1>7, <3>2 DEF BroadcastStart
    <3>4. /\ Head(events) = events[1] /\ DOMAIN Tail(events) = 1..Len(events) - 1
          /\ \A j \in 1..Len(events) - 1 : Tail(events)[j] = events[j + 1]
      BY <1>0, <3>2, QueueHead
    <3>5. CASE i = 1
      <4>1. sending'.kind = "alert" /\ sending'.event = a /\ c \in sending'.todo
        BY <2>1, <3>1, <3>3, <3>4, <3>5 DEF Event
      <4> QED
        BY <4>1 DEF OnItsWay
    <3>6. CASE i # 1
      <4>1. i - 1 \in DOMAIN events' /\ events'[i - 1] = Event("alert", a)
        BY <1>0, <3>1, <3>3, <3>4, <3>6
      <4> QED
        BY <4>1 DEF OnItsWay, Event
    <3> QED
      BY <3>5, <3>6
  <2> QED
    BY <2>2, <2>3, <2>4
<1>8. ASSUME NEW d \in Client, BroadcastSend(d)
      PROVE  a \in view'[c] \cup excused'[c] \cup hidden'[c] \/ OnItsWay(a, c)'
  <2>1. /\ created' = created /\ excused' = excused /\ hidden' = hidden /\ events' = events
        /\ clients' = clients /\ greeting' = greeting /\ browser' = browser
        /\ pc' = pc /\ item' = item
    BY <1>8 DEF BroadcastSend
  <2>2. Shown \/ (\E q \in Producer : Carrier(q)) \/ Queued \/ Under
    BY <1>1, <2>1 DEF Connected
  <2>3. /\ sending'.kind = sending.kind /\ sending'.event = sending.event
        /\ sending'.todo = sending.todo \ {d}
    BY <1>0, <1>8 DEF BroadcastSend, Sendings
  <2>4. view[c] \subseteq view'[c]
    BY <1>0, <1>8 DEF BroadcastSend
  <2>5. CASE Shown \/ Queued \/ \E q \in Producer : Carrier(q)
    BY <2>1, <2>4, <2>5 DEF OnItsWay
  <2>6. CASE Under /\ c # d
    BY <2>3, <2>6 DEF OnItsWay
  <2>7. CASE Under /\ c = d
    <3>1. browser[c] = "open"
      BY <2>1 DEF Connected
    <3>2. a \in view'[c]
      BY <1>0, <1>8, <2>7, <3>1 DEF BroadcastSend
    <3> QED
      BY <3>2
  <2> QED
    BY <2>2, <2>5, <2>6, <2>7
<1>9. ASSUME BroadcastEnd
      PROVE  a \in view'[c] \cup excused'[c] \cup hidden'[c] \/ OnItsWay(a, c)'
  <2>1. /\ created' = created /\ excused' = excused /\ hidden' = hidden /\ events' = events /\ view' = view
        /\ greeting' = greeting /\ browser' = browser /\ pc' = pc /\ item' = item
        /\ clients' \subseteq clients /\ sending.todo = {}
    BY <1>9 DEF BroadcastEnd
  <2>2. Shown \/ (\E q \in Producer : Carrier(q)) \/ Queued
    BY <1>1, <2>1 DEF Connected
  <2> QED
    BY <2>1, <2>2 DEF OnItsWay
<1>10. ASSUME NEW d \in Client, Snapshot(d)
      PROVE  a \in view'[c] \cup excused'[c] \cup hidden'[c] \/ OnItsWay(a, c)'
  <2>1. CASE d = c
    <3>1. /\ view'[c] = RecentAlerts /\ excused'[c] = (1..created) \ (RecentAlerts \cup NotStored)
          /\ pc' = pc /\ item' = item /\ created' = created
      BY <1>0, <1>10, <2>1 DEF Snapshot, RecentAlerts
    <3>2. CASE a \in NotStored
      BY <3>1, <3>2 DEF NotStored, OnItsWay
    <3> QED
      BY <3>1, <3>2
  <2>2. CASE d # c
    <3>1. /\ Connected(c) /\ created' = created /\ pc' = pc /\ item' = item
          /\ events' = events /\ sending' = sending
          /\ view'[c] = view[c] /\ excused'[c] = excused[c] /\ hidden'[c] = hidden[c]
      BY <1>0, <1>10, <2>2 DEF Snapshot, Connected
    <3> QED
      BY <1>2, <3>1
  <2> QED
    BY <2>1, <2>2
<1>11. ASSUME NEW d \in Client, Connect(d) \/ Leave(d) \/ Disconnect(d) \/ Return(d)
      PROVE  a \in view'[c] \cup excused'[c] \cup hidden'[c] \/ OnItsWay(a, c)'
  <2>1. /\ Connected(c) /\ created' = created /\ pc' = pc /\ item' = item
        /\ events' = events /\ sending' = sending
        /\ view'[c] = view[c] /\ excused'[c] = excused[c] /\ hidden'[c] = hidden[c]
    BY <1>0, <1>11 DEF Connect, Leave, Disconnect, Return, Connected
  <2> QED
    BY <1>2, <2>1
<1>12. ASSUME NEW d \in Client, AskRest(d) \/ ReadRest(d) \/ LoseRest(d)
      PROVE  a \in view'[c] \cup excused'[c] \cup hidden'[c] \/ OnItsWay(a, c)'
  <2>1. /\ Connected(c) /\ created' = created /\ pc' = pc /\ item' = item
        /\ events' = events /\ sending' = sending
        /\ view' = view /\ excused' = excused /\ hidden' = hidden
    BY <1>12 DEF AskRest, ReadRest, LoseRest, Connected
  <2> QED
    BY <1>2, <2>1
<1>13. ASSUME NEW d \in Client, ShowRest(d)
      PROVE  a \in view'[c] \cup excused'[c] \cup hidden'[c] \/ OnItsWay(a, c)'
  <2>1. /\ Connected(c) /\ created' = created /\ pc' = pc /\ item' = item
        /\ events' = events /\ sending' = sending /\ excused' = excused
    BY <1>13 DEF ShowRest, Connected
  <2>2. a \in view[c] \cup hidden[c] => a \in view'[c] \cup hidden'[c]
    <3>1. CASE d = c
      <4>1. /\ view' = [view EXCEPT ![c] = rest[c].alerts]
            /\ hidden' = [hidden EXCEPT ![c] = @ \cup (view[c] \ rest[c].alerts)]
        BY <1>13, <2>1, <3>1 DEF ShowRest, Connected
      <4>2. view'[c] = rest[c].alerts /\ hidden'[c] = hidden[c] \cup (view[c] \ rest[c].alerts)
        BY <1>0, <4>1
      <4> QED
        BY <4>2, Zenon
    <3>2. CASE d # c
      <4>1. view'[c] = view[c] /\ hidden'[c] = hidden[c]
        BY <1>0, <1>13, <3>2 DEF ShowRest
      <4> QED
        BY <4>1
    <3> QED
      BY <3>1, <3>2
  <2> QED
    BY <1>2, <2>1, <2>2
<1>14. ASSUME Restart PROVE FALSE
  BY <1>14 DEF Restart, Connected
<1>15. ASSUME UNCHANGED vars
      PROVE  a \in view'[c] \cup excused'[c] \cup hidden'[c] \/ OnItsWay(a, c)'
  <2>1. /\ Connected(c) /\ created' = created /\ pc' = pc /\ item' = item
        /\ events' = events /\ sending' = sending /\ view' = view /\ excused' = excused /\ hidden' = hidden
    BY <1>15 DEF vars, Connected
  <2> QED
    BY <1>2, <2>1
<1> QED
  BY <1>3, <1>4, <1>5, <1>6, <1>7, <1>8, <1>9, <1>10, <1>11, <1>12, <1>13, <1>14,
     <1>15
  DEF Next, ProducerStep, LoopStep, BrowserStep

-----------------------------------------------------------------------------
(* The campaign                                                            *)

\* No step of the loop or of a browser makes a version that all have got or
\* will get a version that somebody misses.
LEMMA StepTold ==
    ASSUME TypeOK, Carried, Told(stored), stored' = stored,
           \/ LoopStep
           \/ \E c \in Client : BrowserStep(c)
    PROVE  Told(stored)'
<1> USE DEF feedVars, browserVars, pageVars
<1> DEFINE NoCampaign == \A i \in DOMAIN events : events[i].kind # "campaign"
<1>0. /\ events \in Seq(Events) /\ sending \in Sendings
      /\ DOMAIN events = 1..Len(events) /\ Len(events) \in Nat
      /\ browser \in [Client -> {"closed", "open", "gone"}]
      /\ viewVersion \in [Client -> Nat]
  BY FeedTyped
\* A step that leaves the queue alone.
<1>1. ASSUME events' = events,
             NoCampaign => /\ sending'.kind = "campaign" => sending'.event = stored
                           /\ \A c \in Client : Followed(c)' =>
                                 \/ viewVersion'[c] = stored
                                 \/ sending'.kind = "campaign" /\ c \in sending'.todo
      PROVE  Told(stored)'
  BY <1>1 DEF Told, LastCampaign
<1>2. ASSUME BroadcastStart PROVE Told(stored)'
  <2>1. /\ clients' = clients /\ greeting' = greeting /\ browser' = browser
        /\ viewVersion' = viewVersion /\ dated' = dated /\ sending.kind = "none"
    BY <1>2 DEF BroadcastStart, Idle
  <2>2. CASE events = <<>>
    <3>1. events' = events /\ sending'.kind = "heartbeat"
      BY <1>2, <2>2 DEF BroadcastStart, Idle
    <3> QED
      BY <1>1, <2>1, <3>1 DEF Told, Followed, Connected
  <2>3. CASE events # <<>>
    <3>1. /\ events' = Tail(events)
          /\ sending' = [event |-> Head(events).data, kind |-> Head(events).kind,
                         todo |-> clients, dead |-> {}]
      BY <1>2, <2>3 DEF BroadcastStart
    <3>2. /\ Len(events) \in Nat \ {0} /\ Head(events) = events[1]
          /\ DOMAIN events' = 1..Len(events) - 1
          /\ \A j \in 1..Len(events) - 1 : events'[j] = events[j + 1]
      BY <1>0, <2>3, <3>1, QueueHead
    <3>3. ASSUME NEW i \in DOMAIN events', LastCampaign(i)' PROVE events'[i].data = stored
      <4>1. i \in Nat /\ i + 1 \in DOMAIN events /\ events'[i] = events[i + 1]
        BY <1>0, <3>2
      <4>2. ASSUME NEW j \in DOMAIN events, j > i + 1 PROVE events[j].kind # "campaign"
        <5>1. j - 1 \in DOMAIN events' /\ j - 1 > i /\ events'[j - 1] = events[j]
          BY <1>0, <3>2, <4>1, <4>2
        <5> QED
          BY <3>3, <5>1 DEF LastCampaign
      <4>3. LastCampaign(i + 1)
        BY <3>3, <4>1, <4>2 DEF LastCampaign
      <4> QED
        BY <4>1, <4>3 DEF Told
    <3>4. ASSUME \A i \in DOMAIN events' : events'[i].kind # "campaign"
          PROVE  /\ sending'.kind = "campaign" => sending'.event = stored
                 /\ \A c \in Client : Followed(c)' =>
                       \/ viewVersion'[c] = stored
                       \/ sending'.kind = "campaign" /\ c \in sending'.todo
      <4>1. ASSUME NEW j \in DOMAIN events, j # 1 PROVE events[j].kind # "campaign"
        <5>1. j - 1 \in DOMAIN events' /\ events'[j - 1] = events[j]
          BY <1>0, <3>2, <4>1
        <5> QED
          BY <3>4, <5>1
      <4>2. 1 \in DOMAIN events
        BY <1>0, <3>2
      <4>3. CASE events[1].kind = "campaign"
        <5>1. LastCampaign(1)
          BY <1>0, <4>1, <4>3 DEF LastCampaign
        <5>2. events[1].data = stored
          BY <4>2, <5>1 DEF Told
        <5> QED
          BY <2>1, <3>1, <3>2, <4>3, <5>2 DEF Followed, Connected
      <4>4. CASE events[1].kind # "campaign"
        <5>1. NoCampaign
          BY <4>1, <4>4
        <5> QED
          BY <2>1, <3>1, <3>2, <4>4, <5>1 DEF Told, Followed, Connected
      <4> QED
        BY <4>3, <4>4
    <3> QED
      BY <3>3, <3>4 DEF Told
  <2> QED
    BY <2>2, <2>3
<1>3. ASSUME BroadcastEnd PROVE Told(stored)'
  <2>1. /\ events' = events /\ sending'.kind = "none" /\ sending.todo = {}
        /\ clients' \subseteq clients /\ greeting' = greeting /\ browser' = browser
        /\ viewVersion' = viewVersion /\ dated' = dated
    BY <1>3 DEF BroadcastEnd, Idle
  <2> QED
    BY <1>1, <2>1 DEF Told, Followed, Connected
<1>4. ASSUME NEW d \in Client, BroadcastSend(d) PROVE Told(stored)'
  <2>1. /\ events' = events /\ clients' = clients /\ greeting' = greeting
        /\ browser' = browser
    BY <1>4 DEF BroadcastSend
  <2>2. /\ sending'.kind = sending.kind /\ sending'.event = sending.event
        /\ sending'.todo = sending.todo \ {d}
    BY <1>0, <1>4 DEF BroadcastSend, Sendings
  <2>3. \A c \in dated : c \in dated' \/ (sending.kind = "campaign" /\ c = d)
    BY <1>4 DEF BroadcastSend
  <2>4. ASSUME NoCampaign, NEW c \in Client, Followed(c)'
        PROVE  \/ viewVersion'[c] = stored
               \/ sending'.kind = "campaign" /\ c \in sending'.todo
    <3>1. /\ \/ viewVersion[c] = stored
             \/ sending.kind = "campaign" /\ c \in sending.todo
             \/ sending.kind = "campaign" /\ c = d
          /\ sending.kind = "campaign" => sending.event = stored
          /\ browser[c] = "open"
      BY <2>1, <2>3, <2>4 DEF Told, Followed, Connected
    <3>2. CASE c = d
      <4>1. viewVersion' = IF sending.kind = "campaign"
                           THEN [viewVersion EXCEPT ![c] = sending.event] ELSE viewVersion
        BY <1>4, <3>1, <3>2 DEF BroadcastSend
      <4> QED
        BY <1>0, <3>1, <4>1
    <3>3. CASE c # d
      <4>1. viewVersion'[c] = viewVersion[c]
        BY <1>0, <1>4, <3>3 DEF BroadcastSend
      <4> QED
        BY <2>2, <3>1, <3>3, <4>1
    <3> QED
      BY <3>2, <3>3
  <2> QED
    BY <1>1, <2>1, <2>2, <2>4 DEF Told
<1>5. ASSUME NEW d \in Client, Snapshot(d) PROVE Told(stored)'
  <2>1. /\ events' = events /\ sending' = sending /\ clients' = clients
        /\ browser' = browser /\ greeting = {d} /\ dated' = dated
        /\ \A c \in Client : viewVersion'[c] = IF c = d THEN stored ELSE viewVersion[c]
    BY <1>0, <1>5 DEF Snapshot
  <2> QED
    BY <1>1, <2>1 DEF Told, Followed, Connected
<1>6. ASSUME NEW d \in Client, Connect(d) \/ Leave(d) \/ Disconnect(d) \/ Return(d)
      PROVE  Told(stored)'
  <2>1. events' = events /\ sending' = sending
    BY <1>6 DEF Connect, Leave, Disconnect, Return
  <2>2. \A c \in Client : Followed(c)' => Followed(c) /\ viewVersion'[c] = viewVersion[c]
    BY <1>0, <1>6 DEF Connect, Leave, Disconnect, Return, Followed, Connected
  <2> QED
    BY <1>1, <2>1, <2>2 DEF Told
<1>7. ASSUME NEW d \in Client, AskRest(d) \/ ReadRest(d) \/ ShowRest(d) \/ LoseRest(d)
      PROVE  Told(stored)'
  <2>1. events' = events /\ sending' = sending
    BY <1>7 DEF AskRest, ReadRest, ShowRest, LoseRest
  <2>2. \A c \in Client : Followed(c)' => Followed(c) /\ viewVersion'[c] = viewVersion[c]
    BY <1>0, <1>7 DEF AskRest, ReadRest, ShowRest, LoseRest, Followed, Connected
  <2> QED
    BY <1>1, <2>1, <2>2 DEF Told
<1> QED
  BY <1>2, <1>3, <1>4, <1>5, <1>6, <1>7 DEF LoopStep, BrowserStep

\* A version that was read alone reaches everybody, whatever happens
\* in the meantime but an overlap, a failure to save or a crash.
LEMMA StepLatest ==
    ASSUME TypeOK, Carried, Latest, [Next]_vars
    PROVE  Latest'
<1> USE DEF Goto, producerVars, feedVars, browserVars, pageVars, diskVars, memoryVars, history
<1> SUFFICES ASSUME ~disturbed' PROVE Passing' /\ Passed'
  BY DEF Latest
<1>0. /\ events \in Seq(Events)
      /\ DOMAIN events = 1..Len(events) /\ Len(events) \in Nat
      /\ pc \in [Producer -> Labels] /\ item \in [Producer -> Nat]
  BY FeedTyped
\* A step that leaves the campaign's carriers and copies alone.
<1>1. ASSUME ~disturbed, stored' = stored, dbVersion' = dbVersion,
             liveCount' = liveCount \/ Reading', Reading => Reading',
             \A p \in Producer : /\ InCampaign(p)' <=> InCampaign(p)
                                 /\ InCampaign(p) => pc'[p] = pc[p] /\ item'[p] = item[p],
             Told(stored) => Told(stored)'
      PROVE  Passing' /\ Passed'
  BY <1>1 DEF Latest, Passing, Passed, Alone
<1>2. ASSUME NEW p \in Producer, CreateAlert(p) \/ StoreAlert(p) \/ SaveAlert(p)
      PROVE  Passing' /\ Passed'
  <2>1. /\ disturbed' = disturbed /\ stored' = stored /\ dbVersion' = dbVersion
        /\ liveCount' = liveCount /\ events' = events /\ sending' = sending
        /\ clients' = clients /\ greeting' = greeting /\ browser' = browser
        /\ viewVersion' = viewVersion /\ dated' = dated
    BY <1>2 DEF CreateAlert, StoreAlert, SaveAlert
  <2>2. /\ pc[p] \in {"idle", "store", "save"} /\ pc'[p] \in {"store", "save", "emit"}
        /\ \A q \in Producer \ {p} : pc'[q] = pc[q] /\ item'[q] = item[q]
    BY <1>0, <1>2 DEF CreateAlert, StoreAlert, SaveAlert
  <2>3. \A q \in Producer : /\ InCampaign(q)' <=> InCampaign(q)
                            /\ InCampaign(q) => pc'[q] = pc[q] /\ item'[q] = item[q]
    BY <2>2 DEF InCampaign
  <2>4. Reading => Reading'
    BY <2>2 DEF Reading
  <2>5. Told(stored) => Told(stored)'
    BY <2>1 DEF Told, LastCampaign, Followed, Connected
  <2> QED
    BY <1>1, <2>1, <2>3, <2>4, <2>5
<1>3. ASSUME NEW p \in Producer, EmitAlert(p) PROVE Passing' /\ Passed'
  <2>1. /\ disturbed' = disturbed /\ stored' = stored /\ dbVersion' = dbVersion
        /\ sending' = sending /\ clients' = clients /\ greeting' = greeting
        /\ browser' = browser /\ viewVersion' = viewVersion /\ dated' = dated /\ item' = item
        /\ events' = Append(events, Event("alert", item[p]))
    BY <1>3 DEF EmitAlert
  <2>2. /\ pc[p] = "emit" /\ pc'[p] = "toDict"
        /\ \A q \in Producer \ {p} : pc'[q] = pc[q]
    BY <1>0, <1>3 DEF EmitAlert
  <2>3. \A q \in Producer : /\ InCampaign(q)' <=> InCampaign(q)
                            /\ InCampaign(q) => pc'[q] = pc[q] /\ item'[q] = item[q]
    BY <2>1, <2>2 DEF InCampaign
  <2>4. Reading'
    BY <2>2 DEF Reading
  <2>5. ASSUME Told(stored) PROVE Told(stored)'
    <3>1. Event("alert", item[p]) \in Events /\ Event("alert", item[p]).kind = "alert"
      BY <1>0 DEF Event, Events
    <3>2. /\ DOMAIN events' = 1..Len(events) + 1
          /\ \A i \in 1..Len(events) : events'[i] = events[i]
          /\ events'[Len(events) + 1].kind = "alert"
      BY <1>0, <2>1, <3>1, QueueAppend
    <3>3. ASSUME NEW i \in DOMAIN events', LastCampaign(i)' PROVE events'[i].data = stored
      <4>1. i \in DOMAIN events /\ events'[i] = events[i]
        BY <1>0, <3>2, <3>3 DEF LastCampaign
      <4>2. LastCampaign(i)
        BY <1>0, <3>2, <3>3, <4>1 DEF LastCampaign
      <4> QED
        BY <2>5, <4>1, <4>2 DEF Told
    <3>4. (\A i \in DOMAIN events' : events'[i].kind # "campaign")
             => \A i \in DOMAIN events : events[i].kind # "campaign"
      BY <1>0, <3>2
    <3> QED
      BY <2>1, <2>5, <3>3, <3>4 DEF Told, Followed, Connected
  <2> QED
    BY <1>1, <2>1, <2>3, <2>4, <2>5
<1>4. ASSUME NEW p \in Producer, ReadCampaign(p) PROVE Passing' /\ Passed'
  <2>1. /\ \A q \in Producer \ {p} : ~InCampaign(q)
        /\ item'[p] = liveCount /\ liveCount' = liveCount /\ pc'[p] = "upsert"
        /\ \A q \in Producer \ {p} : pc'[q] = pc[q]
    BY <1>0, <1>4 DEF ReadCampaign
  <2>2. \A q \in Producer : InCampaign(q)' => q = p
    BY <2>1 DEF InCampaign
  <2>3. InCampaign(p)'
    BY <2>1 DEF InCampaign
  <2> QED
    BY <2>1, <2>2, <2>3 DEF Passing, Passed, Alone
<1>5. ASSUME NEW p \in Producer, StoreCampaign(p) PROVE Passing' /\ Passed'
  <2>1. /\ pc[p] = "upsert" /\ disturbed' = disturbed /\ liveCount' = liveCount
        /\ dbVersion' = dbVersion /\ item' = item /\ stored' = item[p]
        /\ \A q \in Producer : pc'[q] = IF q = p THEN "saveCampaign" ELSE pc[q]
    BY <1>0, <1>5 DEF StoreCampaign
  <2>2. Alone(p) /\ (item[p] = liveCount \/ Reading)
    BY <2>1 DEF Latest, Passing, InCampaign
  <2>3. \A q \in Producer : InCampaign(q)' => q = p
    BY <2>1, <2>2 DEF InCampaign, Alone
  <2>4. InCampaign(p)' /\ (Reading => Reading')
    BY <2>1 DEF InCampaign, Reading
  <2> QED
    BY <2>1, <2>2, <2>3, <2>4 DEF Passing, Passed, Alone
<1>6. ASSUME NEW p \in Producer, SaveCampaign(p) PROVE Passing' /\ Passed'
  <2>1. /\ pc[p] = "saveCampaign" /\ disturbed' = disturbed /\ liveCount' = liveCount
        /\ dbVersion' = item[p] /\ item' = item /\ stored' = stored
        /\ \A q \in Producer : pc'[q] = IF q = p THEN "emitCampaign" ELSE pc[q]
    BY <1>0, <1>6 DEF SaveCampaign
  <2>2. Alone(p) /\ (item[p] = liveCount \/ Reading) /\ stored = item[p]
    BY <2>1 DEF Latest, Passing, InCampaign
  <2>3. \A q \in Producer : InCampaign(q)' => q = p
    BY <2>1, <2>2 DEF InCampaign, Alone
  <2>4. InCampaign(p)' /\ (Reading => Reading')
    BY <2>1 DEF InCampaign, Reading
  <2> QED
    BY <2>1, <2>2, <2>3, <2>4 DEF Passing, Passed, Alone
<1>7. ASSUME NEW p \in Producer, EmitCampaign(p) PROVE Passing' /\ Passed'
  <2>1. /\ pc[p] = "emitCampaign" /\ disturbed' = disturbed /\ liveCount' = liveCount
        /\ dbVersion' = dbVersion /\ stored' = stored
        /\ events' = Append(events, Event("campaign", item[p]))
        /\ \A q \in Producer : pc'[q] = IF q = p THEN "idle" ELSE pc[q]
    BY <1>0, <1>7 DEF EmitCampaign
  <2>2. /\ Alone(p) /\ (item[p] = liveCount \/ Reading)
        /\ stored = item[p] /\ dbVersion = item[p]
    BY <2>1 DEF Latest, Passing, InCampaign
  <2>3. \A q \in Producer : ~InCampaign(q)'
    BY <2>1, <2>2 DEF InCampaign, Alone
  <2>4. Reading => Reading'
    BY <2>1 DEF Reading
  <2>5. Event("campaign", item[p]) \in Events
    BY <1>0 DEF Event, Events
  <2>6. /\ DOMAIN events' = 1..Len(events) + 1
        /\ events'[Len(events) + 1] = Event("campaign", item[p])
    BY <1>0, <2>1, <2>5, QueueAppend
  <2>7. /\ Len(events) + 1 \in DOMAIN events'
        /\ events'[Len(events) + 1].kind = "campaign"
        /\ events'[Len(events) + 1].data = stored
    BY <1>0, <2>2, <2>6 DEF Event
  <2>8. ASSUME NEW i \in DOMAIN events', LastCampaign(i)' PROVE events'[i].data = stored
    <3>1. i = Len(events) + 1
      <4>1. ~(Len(events) + 1 > i)
        BY <2>7, <2>8 DEF LastCampaign
      <4> QED
        BY <1>0, <2>6, <4>1
    <3> QED
      BY <2>7, <3>1
  <2>9. Told(stored)'
    BY <2>1, <2>7, <2>8 DEF Told
  <2> QED
    BY <2>1, <2>2, <2>3, <2>4, <2>9 DEF Passing, Passed
<1>8. ASSUME \/ LoopStep
             \/ \E c \in Client : BrowserStep(c)
      PROVE  Passing' /\ Passed'
  <2>1. /\ disturbed' = disturbed /\ stored' = stored /\ dbVersion' = dbVersion
        /\ liveCount' = liveCount /\ pc' = pc /\ item' = item
    BY <1>8 DEF LoopStep, BroadcastStart, BroadcastEnd, BroadcastSend, Snapshot, BrowserStep,
                Connect, Leave, Disconnect, Return, AskRest, ReadRest, ShowRest, LoseRest
  <2>2. Told(stored) => Told(stored)'
    BY <1>8, <2>1, StepTold
  <2> QED
    BY <1>1, <2>1, <2>2 DEF Reading, InCampaign
<1>9. ASSUME Restart PROVE FALSE
  BY <1>9 DEF Restart
<1>10. ASSUME UNCHANGED vars PROVE Passing' /\ Passed'
  BY <1>10
  DEF vars, Latest, Passing, Passed, Told, LastCampaign, Followed, Connected, Reading, InCampaign,
               Alone
<1> QED
  BY <1>2, <1>3, <1>4, <1>5, <1>6, <1>7, <1>8, <1>9, <1>10 DEF Next, ProducerStep

-----------------------------------------------------------------------------
(* Theorems                                                                *)

\* No step breaks the invariant.
LEMMA StepIInv == IInv /\ [Next]_vars => IInv'
BY StepTyped, StepNoGap, StepKept, StepLatest DEF IInv

\* The invariant holds for ever.
LEMMA Invariant == Spec => []IInv
<1>1. IInv /\ [Next]_vars => IInv'
  BY StepIInv
<1> QED
  BY <1>1, InitIInv, PTL DEF Spec

\* The store of alerts and the alerts table never exceed their caps, and what
\* the dashboard holds, sends and shows are alerts that were raised.
THEOREM DashboardWellFormed == Spec => []TypeOK
<1>1. IInv => TypeOK
  BY DEF IInv
<1> QED
  BY <1>1, Invariant, PTL

\* A browser that connects in the middle of everything misses no alert: each
\* is in the snapshot or comes with the live feed, unless it is too old, and
\* then stays on the list, unless a late REST snapshot takes it off.
THEOREM NoAlertFallsBetween == Spec => []NoGap
<1>1. IInv => NoGap
  BY DEF IInv
<1> QED
  BY <1>1, Invariant, PTL

\* What browsers were told, a restart shows again, unless its save raised or
\* as many newer alerts as the table holds have displaced it.
THEOREM BroadcastsAreDurable == Spec => []BroadcastIsDurable
<1>1. IInv => BroadcastIsDurable
  BY DEF IInv, Kept, Safe, BroadcastIsDurable
<1> QED
  BY <1>1, Invariant, PTL

\* After a campaign update that ran alone and was saved, all copies agree, but
\* for a browser to which a late REST snapshot brought another.
THEOREM CampaignCopiesAgree == Spec => []CampaignAgrees
<1>1. ASSUME IInv PROVE CampaignAgrees
  <2> SUFFICES ASSUME AtRest, ~disturbed
               PROVE  /\ stored = liveCount /\ dbVersion = stored
                      /\ \A c \in Client : Followed(c) => viewVersion[c] = stored
    BY DEF CampaignAgrees, Followed
  <2>1. ~Reading /\ \A p \in Producer : ~InCampaign(p)
    BY DEF AtRest, Reading, InCampaign
  <2>2. dbVersion = stored /\ stored = liveCount /\ Told(stored)
    BY <1>1, <2>1 DEF IInv, Latest, Passed
  <2>3. DOMAIN events = {} /\ sending.kind # "campaign"
    BY EmptySeq DEF AtRest
  <2> QED
    BY <2>2, <2>3 DEF Told
<1> QED
  BY <1>1, Invariant, PTL

-----------------------------------------------------------------------------
(* What CampaignNeverRegresses is violated by                              *)

\* As Spec, but for one process, and no thread calls to_dict() while another
\* has a copy that it has not stored: as if ingest_campaign() took the lock
\* before it copies the campaign, and not after.
CopyLocked ==
    /\ crashes' = crashes
    /\ \A p \in Producer : pc[p] = "toDict" /\ pc'[p] = "upsert" =>
          \A q \in Producer : pc[q] # "upsert"
LockedSpec == Init /\ [][Next /\ CopyLocked]_vars

\* One copy at a time is on its way, not older than the stored one and not
\* newer than the campaign.
InOrder ==
    /\ stored <= liveCount
    /\ \A p \in Producer : pc[p] = "upsert" => stored <= item[p] /\ item[p] <= liveCount
    /\ \A p, q \in Producer : pc[p] = "upsert" /\ pc[q] = "upsert" => p = q

LInv == TypeOK /\ Carried /\ InOrder

\* Every step keeps the copies in order, and stores none older than the last.
LEMMA StepInOrder ==
    ASSUME TypeOK, InOrder, Next, CopyLocked
    PROVE  InOrder' /\ stored' >= stored
<1>1. /\ stored \in Nat /\ liveCount \in Nat /\ item \in [Producer -> Nat]
      /\ pc \in [Producer -> Labels] /\ crashes \in Nat
  BY DashboardAssumption DEF DashboardAssumption, TypeOK, Labels
<1>2. CASE UNCHANGED <<stored, liveCount, pc, item>>
  BY <1>1, <1>2 DEF InOrder
<1>3. ASSUME NEW p \in Producer, CreateAlert(p) \/ StoreAlert(p) \/ SaveAlert(p) \/ SaveCampaign(p)
                                 \/ EmitCampaign(p)
      PROVE  InOrder' /\ stored' >= stored
  <2>1. UNCHANGED <<stored, liveCount>> /\ pc[p] # "upsert" /\ pc'[p] # "upsert"
        /\ \A q \in Producer \ {p} : pc'[q] = pc[q] /\ item'[q] = item[q]
    BY <1>1, <1>3
    DEF CreateAlert, StoreAlert, SaveAlert, SaveCampaign, EmitCampaign, Goto, memoryVars
  <2> QED
    BY <1>1, <2>1 DEF InOrder
<1>4. ASSUME NEW p \in Producer, EmitAlert(p) PROVE InOrder' /\ stored' >= stored
  <2>1. stored' = stored /\ liveCount' = liveCount + 1 /\ item' = item
        /\ pc'[p] # "upsert" /\ \A q \in Producer \ {p} : pc'[q] = pc[q]
    BY <1>1, <1>4 DEF EmitAlert, Goto
  <2> QED
    BY <1>1, <2>1 DEF InOrder
<1>5. ASSUME NEW p \in Producer, ReadCampaign(p) PROVE InOrder' /\ stored' >= stored
  <2>1. UNCHANGED <<stored, liveCount>> /\ item'[p] = liveCount
        /\ pc[p] = "toDict" /\ pc'[p] = "upsert"
        /\ \A q \in Producer \ {p} : pc'[q] = pc[q] /\ item'[q] = item[q]
    BY <1>1, <1>5 DEF ReadCampaign, Goto, memoryVars
  <2>2. \A q \in Producer : pc[q] # "upsert"
    BY <2>1 DEF CopyLocked
  <2> QED
    BY <1>1, <2>1, <2>2 DEF InOrder
<1>6. ASSUME NEW p \in Producer, StoreCampaign(p) PROVE InOrder' /\ stored' >= stored
  <2>1. stored' = item[p] /\ liveCount' = liveCount /\ pc[p] = "upsert" /\ pc'[p] # "upsert"
        /\ item' = item /\ \A q \in Producer \ {p} : pc'[q] = pc[q]
    BY <1>1, <1>6 DEF StoreCampaign, Goto
  <2>2. \A q \in Producer : pc'[q] # "upsert"
    BY <2>1 DEF InOrder
  <2>3. stored <= item[p] /\ item[p] <= liveCount /\ item[p] \in Nat
    BY <1>1, <2>1 DEF InOrder
  <2> QED
    BY <1>1, <2>1, <2>2, <2>3 DEF InOrder
<1>7. ASSUME NEW c \in Client,
             BrowserStep(c) \/ BroadcastSend(c) \/ Snapshot(c)
      PROVE  UNCHANGED <<stored, liveCount, pc, item>>
  BY <1>7 DEF BrowserStep, Connect, Leave, Disconnect, Return, AskRest, ReadRest, ShowRest,
              LoseRest, BroadcastSend, Snapshot, memoryVars, producerVars
<1>8. CASE BroadcastStart \/ BroadcastEnd
  BY <1>2, <1>8 DEF BroadcastStart, BroadcastEnd, memoryVars, producerVars
<1>9. ~Restart
  BY <1>1 DEF CopyLocked, Restart
<1> QED
  BY <1>2, <1>3, <1>4, <1>5, <1>6, <1>7, <1>8, <1>9 DEF Next, ProducerStep, LoopStep

\* CampaignNeverRegresses, which two producers violate, holds in every behaviour
\* of LockedSpec, whatever else interleaves: between two restarts, the copy that
\* to_dict() makes outside the lock is all that takes the stored campaign back.
THEOREM OnlyStaleCopiesRegress == LockedSpec => CampaignNeverRegresses
<1>1. Init => LInv
  BY InitIInv DEF LInv, IInv, InOrder, Init
<1>2. ASSUME LInv, [Next /\ CopyLocked]_vars
      PROVE  LInv' /\ [stored' >= stored]_vars
  <2>1. TypeOK' /\ Carried'
    BY <1>2, StepTyped DEF LInv
  <2>2. CASE UNCHANGED vars
    BY <1>2, <2>1, <2>2 DEF LInv, InOrder, vars, memoryVars, producerVars
  <2>3. CASE Next /\ CopyLocked
    BY <1>2, <2>1, <2>3, StepInOrder DEF LInv
  <2> QED
    BY <1>2, <2>2, <2>3
<1> QED
  BY <1>1, <1>2, PTL DEF LockedSpec, CampaignNeverRegresses
=============================================================================
