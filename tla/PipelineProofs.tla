---------------------------- MODULE PipelineProofs ----------------------------
(***************************************************************************)
(* Proofs about Pipeline, for any addresses, files, alerts and caps: every *)
(* change of the host is audited, fails to be, or is under way             *)
(* (ActedIsAudited), and the rules of each chain stay within what the      *)
(* alerts allow (BlocksBounded).                                           *)
(*                                                                         *)
(* Neither is inductive.  UnderWay says what a thread in the middle of an  *)
(* act has at the head of its list, and that the name it found for a file  *)
(* is still free: the ticker's alerts never end in a quarantine, so that   *)
(* only the worker takes names.  Granted adds to the rules of a chain what *)
(* the lists may still insert there: a block one, a campaign to be handled *)
(* up to MaxBlocks.                                                        *)
(***************************************************************************)
EXTENDS Pipeline, ListsProofs

Act == [kind : {"campaign", "push", "kill"}]
       \cup [kind : {"block"}, ip : Blockable]
       \cup [kind : {"quarantine"}, path : FilePath]
Dest == [stamp : Nat, counter : Nat]
Doing == {Idle} \cup [kind : {"block", "kill", "quarantine", "half"}, changed : Nat, success : BOOLEAN]
         \cup [kind : {"move"}, changed : {0}, success : BOOLEAN, dest : Dest]
FileState == {"regular", "inert", "link", "gone"}

Typed ==
    /\ dryRun \in BOOLEAN
    /\ stored \in 0..MaxStored /\ pushed \in 0..stored
    /\ campaign \in Seq(Alert) /\ Len(campaign) = stored
    /\ pending \in [Storer -> Seq(Act)] /\ doing \in [Storer -> Doing]
    /\ inRules \in [Ip -> Nat] /\ \A i \in Ip \ Blockable : inRules[i] = 0
    /\ outRules \in [Ip -> Nat] /\ \A i \in Ip \ Blockable : outRules[i] = 0
    /\ process \in {"suspect", "other", "gone"} /\ killed \in Nat
    /\ files \in [FilePath -> FileState] /\ disarmed \in Nat
    /\ IsFiniteSet(quarantine) /\ second \in Nat
    /\ audited \in Nat /\ misreported \in Nat /\ unaudited \in Nat

\* The ticker's list has nothing to kill and nothing to quarantine.
TickerOnlyBlocks ==
    \A i \in 1..Len(pending["ticker"]) : pending["ticker"][i].kind \in {"campaign", "push", "block"}

\* The act at the head of a list, for what a thread is doing
ActOf(kind) == CASE kind = "move" -> "quarantine" [] kind = "half" -> "block" [] OTHER -> kind

\* What a thread is doing is at the head of its list.
UnderWay ==
    \A t \in Storer : doing[t] # Idle =>
        pending[t] # <<>> /\ Head(pending[t]).kind = ActOf(doing[t].kind)

\* A block that is half done is not for show.
HalfIsReal == \A t \in Storer : doing[t].kind = "half" => ~dryRun

\* The name for the file is still free, and not for show.
NameIsFree == doing["worker"].kind = "move" => ~dryRun /\ doing["worker"].dest \notin quarantine

DryRunChangesNothing ==
    dryRun => /\ killed = 0 /\ disarmed = 0 /\ quarantine = {}
              /\ \A i \in Ip : inRules[i] = 0 /\ outRules[i] = 0

RuleSet(chain) == UNION {{i} \X (1..chain[i]) : i \in Ip}
InCount == Rules(inRules)
OutCount == Rules(outRules)
RulesCount == IsFiniteSet(RuleSet(inRules)) /\ IsFiniteSet(RuleSet(outRules))

Places(s, kind) == {i \in 1..Len(s) : s[i].kind = kind}
Count(s, kind) == Cardinality(Places(s, kind))

\* Rules that a list may still insert in a chain, and without the one of the
\* block under way
Due(s) == Count(s, "block") + MaxBlocks * Count(s, "campaign")
InDone(t) == IF doing[t].kind \in {"half", "block"} THEN 1 ELSE 0
OutDone(t) == IF doing[t].kind = "block" THEN 1 ELSE 0
DueIn(t) == Due(pending[t]) - InDone(t)
DueOut(t) == Due(pending[t]) - OutDone(t)

ActiveAlerts == {i \in DOMAIN campaign : AlertActs(campaign[i]) # <<>>}
Allowed == Cardinality(ActiveAlerts) + MaxBlocks * (IF stored > 1 THEN stored - 1 ELSE 0)
GrantedIn == InCount + DueIn("worker") + DueIn("ticker") <= Allowed
GrantedOut == OutCount + DueOut("worker") + DueOut("ticker") <= Allowed

PipelineInv ==
    /\ Typed /\ TickerOnlyBlocks /\ UnderWay /\ HalfIsReal /\ NameIsFree
    /\ DryRunChangesNothing /\ RulesCount /\ ActedIsAudited /\ GrantedIn /\ GrantedOut

-----------------------------------------------------------------------------
(* Counting                                                                *)

\* What a list has of a kind can be counted.
LEMMA CountType ==
    ASSUME NEW T, NEW s \in Seq(T), NEW kind
    PROVE  IsFiniteSet(Places(s, kind)) /\ Count(s, kind) \in Nat /\ Count(s, kind) <= Len(s)
<1>1. Len(s) \in Nat
  BY LenProperties
<1>2. IsFiniteSet(1..Len(s)) /\ Cardinality(1..Len(s)) = Len(s)
  BY <1>1, FS_Interval
<1>3. Places(s, kind) \subseteq 1..Len(s)
  BY DEF Places
<1> QED
  BY <1>2, <1>3, FS_Subset, FS_CardinalityType DEF Count

\* A list that has none of a kind.
LEMMA CountNone ==
    ASSUME NEW s, NEW kind, \A i \in 1..Len(s) : s[i].kind # kind
    PROVE  Count(s, kind) = 0
<1>1. Places(s, kind) = {}
  BY DEF Places
<1> QED
  BY <1>1, FS_EmptySet DEF Count

\* Counts of two lists one after the other add up.
LEMMA CountConcat ==
    ASSUME NEW T, NEW s \in Seq(T), NEW r \in Seq(T), NEW kind
    PROVE  Count(s \o r, kind) = Count(s, kind) + Count(r, kind)
<1> DEFINE n == Len(s)
           later == {i \in Places(s \o r, kind) : i > n}
           f == [j \in Places(r, kind) |-> n + j]
<1>1. /\ n \in Nat /\ Len(r) \in Nat /\ Len(s \o r) = n + Len(r)
      /\ \A i \in 1..n + Len(r) : (s \o r)[i] = IF i <= n THEN s[i] ELSE r[i - n]
  BY LenProperties, ConcatProperties
<1>2. /\ IsFiniteSet(Places(s, kind)) /\ Count(s, kind) \in Nat
      /\ IsFiniteSet(Places(r, kind)) /\ Count(r, kind) \in Nat
  BY CountType
<1>3. \A j : j \in Places(r, kind) => j \in 1..Len(r) /\ r[j].kind = kind
  BY DEF Places
<1>4. \A i : i \in later <=> i \in n + 1..n + Len(r) /\ r[i - n].kind = kind
  BY <1>1 DEF Places
<1>5. ExistsBijection(Places(r, kind), later)
  <2>1. \A j \in Places(r, kind) : f[j] \in later
    <3> TAKE j \in Places(r, kind)
    <3>1. j \in 1..Len(r) /\ r[j].kind = kind
      BY <1>3
    <3>2. n + j \in n + 1..n + Len(r) /\ n + j - n = j
      BY <1>1, <3>1
    <3> QED
      BY <1>4, <3>1, <3>2
  <2>2. \A j, l \in Places(r, kind) : f[j] = f[l] => j = l
    BY <1>1, <1>3
  <2>3. \A i \in later : \E j \in Places(r, kind) : f[j] = i
    <3> TAKE i \in later
    <3>1. i \in n + 1..n + Len(r) /\ r[i - n].kind = kind
      BY <1>4
    <3>2. i - n \in 1..Len(r) /\ n + (i - n) = i
      BY <1>1, <3>1
    <3>3. i - n \in Places(r, kind)
      BY <3>1, <3>2 DEF Places
    <3> QED
      BY <3>2, <3>3
  <2> HIDE DEF later
  <2>4. f \in [Places(r, kind) -> later]
    BY <2>1
  <2>5. f \in Bijection(Places(r, kind), later)
    BY <2>2, <2>3, <2>4 DEF Bijection, Injection, IsInjective, Surjection
  <2> QED
    BY <2>5 DEF ExistsBijection
<1>6. Places(s \o r, kind) = Places(s, kind) \cup later /\ Places(s, kind) \cap later = {}
  <2>1. \A i : i \in Places(s, kind) <=> i \in 1..n /\ (s \o r)[i].kind = kind
    BY <1>1 DEF Places
  <2>2. \A i : i \in Places(s \o r, kind) <=> i \in 1..n + Len(r) /\ (s \o r)[i].kind = kind
    BY <1>1 DEF Places
  <2>3. \A i : i \in later <=> i \in Places(s \o r, kind) /\ i > n
    OBVIOUS
  <2>4. \A i : i \in 1..n <=> i \in 1..n + Len(r) /\ ~(i > n)
    BY <1>1
  <2> HIDE DEF later
  <2> QED
    BY <2>1, <2>2, <2>3, <2>4
<1> HIDE DEF later, f, n
<1>7. IsFiniteSet(later) /\ Cardinality(later) = Count(r, kind)
  BY <1>2, <1>5, FS_Bijection DEF Count
<1>8. Cardinality(Places(s, kind) \cup later)
        = Cardinality(Places(s, kind)) + Cardinality(later) - Cardinality(Places(s, kind) \cap later)
  BY <1>2, <1>7, FS_Union
<1>9. Cardinality(Places(s, kind) \cap later) = 0
  BY <1>6, FS_EmptySet
<1> QED
  BY <1>2, <1>6, <1>7, <1>8, <1>9 DEF Count

\* A list of one.
LEMMA CountOne ==
    ASSUME NEW x, NEW kind
    PROVE  Count(<<x>>, kind) = IF x.kind = kind THEN 1 ELSE 0
<1>1. Len(<<x>>) = 1 /\ <<x>>[1] = x /\ 1..1 = {1}
  OBVIOUS
<1>2. Places(<<x>>, kind) = IF x.kind = kind THEN {1} ELSE {}
  BY <1>1 DEF Places
<1> QED
  BY <1>2, FS_Singleton, FS_EmptySet DEF Count

\* A list is its head and the rest.
LEMMA HeadAndTail ==
    ASSUME NEW T, NEW s \in Seq(T), s # <<>>
    PROVE  s = <<Head(s)>> \o Tail(s) /\ Head(s) = s[1] /\ Head(s) \in T /\ Tail(s) \in Seq(T)
<1>1. /\ Head(s) \in T /\ Tail(s) \in Seq(T) /\ Len(Tail(s)) = Len(s) - 1
      /\ \A i \in 1..Len(Tail(s)) : Tail(s)[i] = s[i + 1]
  BY HeadTailProperties
<1>2. Len(s) \in Nat \ {0} /\ Head(s) = s[1]
  BY EmptySeq
<1>3. <<Head(s)>> \in Seq(T) /\ Len(<<Head(s)>>) = 1 /\ <<Head(s)>>[1] = Head(s)
  BY <1>1
<1> DEFINE one == <<Head(s)>>
           r == Tail(s)
<1> HIDE DEF one, r
<1>4. /\ one \o r \in Seq(T) /\ Len(one \o r) = Len(one) + Len(r)
      /\ \A i \in 1..Len(one) + Len(r) : (one \o r)[i] = IF i <= Len(one) THEN one[i] ELSE r[i - Len(one)]
  BY <1>1, <1>3, ConcatProperties DEF one, r
<1>5. Len(one \o r) = Len(s)
  BY <1>1, <1>2, <1>3, <1>4 DEF one, r
<1>6. \A i \in 1..Len(s) : (one \o r)[i] = s[i]
  <2> TAKE i \in 1..Len(s)
  <2>1. CASE i = 1
    BY <1>2, <1>3, <1>4, <1>5, <2>1 DEF one
  <2>2. CASE i # 1
    <3>1. i \in Nat /\ ~(i <= 1) /\ i - 1 \in 1..Len(s) - 1 /\ i - 1 + 1 = i
      BY <1>2, <2>2
    <3>2. (one \o r)[i] = r[i - 1]
      BY <1>3, <1>4, <1>5, <3>1 DEF one
    <3> QED
      BY <1>1, <3>1, <3>2 DEF r
  <2> QED
    BY <2>1, <2>2
<1>7. one \o r = s
  BY <1>4, <1>5, <1>6, SeqEqual
<1> QED
  BY <1>1, <1>2, <1>7 DEF one, r

\* What is due for two lists adds up.
LEMMA DueConcat ==
    ASSUME NEW T, NEW s \in Seq(T), NEW r \in Seq(T)
    PROVE  Due(s \o r) = Due(s) + Due(r) /\ Due(s) \in Nat /\ Due(r) \in Nat
<1>1. MaxBlocks \in Nat
  BY PipelineAssumption DEF PipelineAssumption
<1>2. /\ Count(s \o r, "block") = Count(s, "block") + Count(r, "block")
      /\ Count(s \o r, "campaign") = Count(s, "campaign") + Count(r, "campaign")
  BY CountConcat
<1>3. /\ Count(s, "block") \in Nat /\ Count(s, "campaign") \in Nat
      /\ Count(r, "block") \in Nat /\ Count(r, "campaign") \in Nat
  BY CountType
<1> DEFINE p == MaxBlocks * Count(s, "campaign")
           q == MaxBlocks * Count(r, "campaign")
<1>4. \A m, a, b \in Nat : m * (a + b) = m * a + m * b /\ m * a \in Nat /\ m * b \in Nat
  OBVIOUS
<1>5. p \in Nat /\ q \in Nat /\ MaxBlocks * (Count(s, "campaign") + Count(r, "campaign")) = p + q
  BY <1>1, <1>3, <1>4
<1>6. /\ Due(s) = Count(s, "block") + p /\ Due(r) = Count(r, "block") + q
      /\ Due(s \o r) = Count(s \o r, "block") + MaxBlocks * Count(s \o r, "campaign")
  BY DEF Due
<1>7. Due(s \o r) = (Count(s, "block") + Count(r, "block")) + (p + q)
  BY <1>2, <1>5, <1>6
<1> HIDE DEF p, q
<1> QED
  BY <1>3, <1>5, <1>6, <1>7

\* What is due for one thing to do.
DueFor(x) == CASE x.kind = "block" -> 1 [] x.kind = "campaign" -> MaxBlocks [] OTHER -> 0

LEMMA DueOne == \A x : Due(<<x>>) = DueFor(x)
<1> TAKE x
<1>1. MaxBlocks \in Nat
  BY PipelineAssumption DEF PipelineAssumption
<1>2. /\ Count(<<x>>, "block") = IF x.kind = "block" THEN 1 ELSE 0
      /\ Count(<<x>>, "campaign") = IF x.kind = "campaign" THEN 1 ELSE 0
  BY CountOne
<1>3. MaxBlocks * 0 = 0 /\ MaxBlocks * 1 = MaxBlocks
  BY <1>1
<1> QED
  BY <1>1, <1>2, <1>3 DEF Due, DueFor

\* The first thing to do is done or begun: the rest is due.
LEMMA DueTail ==
    ASSUME NEW T, NEW s \in Seq(T), s # <<>>
    PROVE  /\ Tail(s) \in Seq(T) /\ Head(s) \in T
           /\ Due(Tail(s)) = Due(s) - DueFor(Head(s))
           /\ Due(Tail(s)) \in Nat /\ Due(s) \in Nat /\ DueFor(Head(s)) \in Nat
<1>1. s = <<Head(s)>> \o Tail(s) /\ Head(s) \in T /\ Tail(s) \in Seq(T)
  BY HeadAndTail
<1>2. <<Head(s)>> \in Seq(T)
  BY <1>1
<1>3. /\ Due(s) = Due(<<Head(s)>>) + Due(Tail(s))
      /\ Due(<<Head(s)>>) \in Nat /\ Due(Tail(s)) \in Nat
  BY <1>1, <1>2, DueConcat
<1>4. Due(<<Head(s)>>) = DueFor(Head(s))
  BY DueOne
<1> QED
  BY <1>1, <1>3, <1>4

\* An empty list is due nothing.
LEMMA DueEmpty == Due(<<>>) = 0
<1>1. \A i \in 1..Len(<<>>) : FALSE
  BY EmptySeq
<1>2. Count(<<>>, "block") = 0 /\ Count(<<>>, "campaign") = 0
  BY <1>1, CountNone
<1>3. MaxBlocks * 0 = 0
  BY PipelineAssumption DEF PipelineAssumption
<1> QED
  BY <1>2, <1>3 DEF Due

\* A list of blocks is due its length.
LEMMA DueBlocks ==
    ASSUME NEW T, NEW s \in Seq(T), NEW n \in Nat, Len(s) <= n,
           \A i \in 1..Len(s) : s[i].kind = "block"
    PROVE  Due(s) \in Nat /\ Due(s) <= n
<1>1. Count(s, "campaign") = 0
  BY CountNone
<1>2. Count(s, "block") \in Nat /\ Count(s, "block") <= Len(s) /\ Len(s) \in Nat
  BY CountType, LenProperties
<1>3. MaxBlocks * 0 = 0
  BY PipelineAssumption DEF PipelineAssumption
<1> QED
  BY <1>1, <1>2, <1>3 DEF Due

-----------------------------------------------------------------------------
(* What to do                                                              *)

\* FlattenSeq's function: the first i lists, one after the other
Joined(ss, m, f) == f = [i \in 1..m |-> IF i = 1 THEN ss[i] ELSE f[i - 1] \o ss[i]]

\* There is one, up to any list.
LEMMA JoinedExists ==
    ASSUME NEW ss, NEW n \in Nat
    PROVE  \E f : Joined(ss, n, f)
<1> DEFINE Bad == {m \in Nat : ~\E f : Joined(ss, m, f)}
<1> SUFFICES ASSUME Bad # {} PROVE FALSE
  OBVIOUS
<1>1. Bad \subseteq Nat
  OBVIOUS
<1>2. PICK m \in Bad : \A l \in Bad : m <= l
  <2> HIDE DEF Bad
  <2> QED
    BY <1>1, FirstIs
<1>3. m \in Nat /\ ~\E f : Joined(ss, m, f)
  OBVIOUS
<1>4. CASE m = 0
  <2> DEFINE e == [i \in 1..0 |-> 0]
  <2>1. 1..0 = {}
    OBVIOUS
  <2>2. Joined(ss, 0, e)
    BY <2>1 DEF Joined
  <2> QED
    BY <1>3, <1>4, <2>2
<1>5. CASE m # 0
  <2>1. m - 1 \in Nat /\ ~(m <= m - 1) /\ 1..m = 1..(m - 1) \cup {m} /\ m \notin 1..(m - 1)
    BY <1>3, <1>5
  <2>2. m - 1 \notin Bad
    BY <1>2, <2>1
  <2>3. PICK f : Joined(ss, m - 1, f)
    BY <2>1, <2>2
  <2> DEFINE g == [i \in 1..m |-> IF i = m THEN IF m = 1 THEN ss[m] ELSE f[m - 1] \o ss[m] ELSE f[i]]
  <2>4. \A i \in 1..m - 1 : f[i] = IF i = 1 THEN ss[i] ELSE f[i - 1] \o ss[i]
    BY <2>3 DEF Joined
  <2>5. \A i \in 1..m : g[i] = IF i = 1 THEN ss[i] ELSE g[i - 1] \o ss[i]
    <3> TAKE i \in 1..m
    <3>1. i # 1 => i - 1 \in 1..m /\ i - 1 # m
      BY <1>3
    <3>2. i # 1 => g[i - 1] = f[i - 1]
      BY <3>1
    <3>3. CASE i = m
      BY <3>2, <3>3
    <3>4. CASE i # m
      <4>1. i \in 1..m - 1
        BY <1>3, <3>4
      <4> QED
        BY <2>4, <3>2, <3>4, <4>1
    <3> QED
      BY <3>3, <3>4
  <2>6. Joined(ss, m, g)
    <3>1. g = [i \in 1..m |-> g[i]]
      OBVIOUS
    <3> HIDE DEF g
    <3> QED
      BY <2>5, <3>1 DEF Joined
  <2> QED
    BY <1>3, <2>6
<1> QED
  BY <1>4, <1>5

\* Joined lists have the entries of the lists.
LEMMA JoinedType ==
    ASSUME NEW T, NEW n \in Nat, NEW ss, \A i \in 1..n : ss[i] \in Seq(T),
           NEW f, Joined(ss, n, f)
    PROVE  \A i \in 1..n : f[i] \in Seq(T)
<1> DEFINE Bad == {i \in 1..n : f[i] \notin Seq(T)}
<1> SUFFICES ASSUME Bad # {} PROVE FALSE
  OBVIOUS
<1>1. Bad \subseteq Nat
  OBVIOUS
<1>2. PICK i \in Bad : \A j \in Bad : i <= j
  <2> HIDE DEF Bad
  <2> QED
    BY <1>1, FirstIs
<1>3. f[i] = (IF i = 1 THEN ss[i] ELSE f[i - 1] \o ss[i]) /\ f[i] \notin Seq(T) /\ i \in 1..n
  BY DEF Joined
<1>4. i # 1 => i - 1 \in 1..n /\ ~(i <= i - 1)
  BY <1>3
<1>5. i # 1 => f[i - 1] \in Seq(T)
  BY <1>2, <1>4
<1>6. i # 1 => f[i - 1] \o ss[i] \in Seq(T)
  BY <1>3, <1>5, ConcatProperties
<1> QED
  BY <1>3, <1>6

\* The addresses of the campaign are a list of addresses.
LEMMA FlattenType ==
    ASSUME NEW T, NEW n \in Nat, NEW ss \in [1..n -> Seq(T)]
    PROVE  FlattenSeq(ss) \in Seq(T)
<1>1. ss \in Seq(Seq(T)) /\ Len(ss) = n
  BY SeqDef, LenProperties
<1>2. CASE n = 0
  <2>1. FlattenSeq(ss) = ss
    BY <1>1, <1>2 DEF FlattenSeq
  <2>2. ss = <<>>
    BY <1>1, <1>2, EmptySeq
  <2> QED
    BY <2>1, <2>2, EmptySeq
<1>3. CASE n # 0
  <2> DEFINE f == CHOOSE f : Joined(ss, n, f)
  <2>1. Joined(ss, n, f)
    BY JoinedExists
  <2>2. FlattenSeq(ss) = f[n]
    BY <1>1, <1>3 DEF FlattenSeq, Joined
  <2>3. f[n] \in Seq(T)
    <3> HIDE DEF f
    <3>1. n \in 1..n
      BY <1>3
    <3> QED
      BY <2>1, <3>1, JoinedType
  <2> QED
    BY <2>2, <2>3
<1> QED
  BY <1>2, <1>3

\* The caps, and what they cap
LEMMA CapIs == MaxBlocks \in Nat \ {0} /\ MaxStored \in Nat \ {0} /\ Blockable \subseteq Ip
  BY PipelineAssumption DEF PipelineAssumption

\* The targets are blockable.
LEMMA TargetsAre ==
    ASSUME NEW ips \in Seq(Ip)
    PROVE  SafeTargets(ips) \in Seq(Blockable)
<1> DEFINE I == {i \in DOMAIN ips : ips[i] \in Blockable /\ \A j \in 1..i - 1 : ips[j] # ips[i]}
           F == KeepAt(ips, I)
<1>1. DOMAIN ips = 1..Len(ips)
  BY LenProperties
<1>2. I \in SUBSET (1..Len(ips)) /\ \A i \in I : ips[i] \in Blockable
  BY <1>1
<1> HIDE DEF I
<1>3. F \in Seq(Ip) /\ \A k \in 1..Len(F) : \E i \in I : F[k] = ips[i]
  BY <1>2, KeptIs
<1>4. Len(F) \in Nat /\ F \in [1..Len(F) -> Ip]
  BY <1>3, LenProperties
<1>5. \A k \in 1..Len(F) : F[k] \in Blockable
  BY <1>2, <1>3
<1>6. F \in [1..Len(F) -> Blockable]
  BY <1>4, <1>5
<1>7. F \in Seq(Blockable)
  BY <1>4, <1>6, SeqDef
<1> QED
  BY <1>7 DEF SafeTargets, I

\* No more than n of a list.
LEMMA AtMostOK ==
    ASSUME NEW T, NEW n \in Nat, NEW s \in Seq(T)
    PROVE  AtMostOf(n, s) \in Seq(T) /\ Len(AtMostOf(n, s)) <= n
<1> DEFINE m == IF Len(s) < n THEN Len(s) ELSE n
<1>1. Len(s) \in Nat /\ m \in Nat /\ m <= n /\ m <= Len(s)
  BY LenProperties
<1>2. \A i \in 1..m : s[i] \in T
  BY <1>1, ElementOfSeq
<1> HIDE DEF m
<1>3. SubSeq(s, 1, m) \in Seq(T) /\ Len(SubSeq(s, 1, m)) = IF 1 <= m THEN m - 1 + 1 ELSE 0
  BY <1>1, <1>2, SubSeqProperties
<1> QED
  BY <1>1, <1>3 DEF AtMostOf, m

\* Addresses to block are so many blocks.
LEMMA BlocksAre ==
    ASSUME NEW s \in Seq(Blockable), NEW n \in Nat, Len(s) <= n
    PROVE  LET blocks == [i \in DOMAIN s |-> Block(s[i])]
           IN  /\ blocks \in Seq(Act)
               /\ \A i \in 1..Len(blocks) : blocks[i].kind = "block"
               /\ Due(blocks) \in Nat /\ Due(blocks) <= n
<1> DEFINE blocks == [i \in DOMAIN s |-> Block(s[i])]
<1>1. Len(s) \in Nat /\ DOMAIN s = 1..Len(s) /\ \A i \in 1..Len(s) : s[i] \in Blockable
  BY LenProperties, ElementOfSeq
<1>2. \A ip \in Blockable : Block(ip) \in Act /\ Block(ip).kind = "block"
  BY DEF Block, Act
<1>3. /\ blocks \in [1..Len(s) -> Act]
      /\ \A i \in 1..Len(s) : blocks[i].kind = "block"
  BY <1>1, <1>2
<1> HIDE DEF blocks
<1>4. blocks \in Seq(Act) /\ Len(blocks) = Len(s)
  BY <1>1, <1>3, SeqDef, LenProperties
<1>5. Due(blocks) \in Nat /\ Due(blocks) <= n
  BY <1>3, <1>4, DueBlocks
<1> QED
  BY <1>3, <1>4, <1>5 DEF blocks

\* An alert has one rule inserted at most, and the global feed's has nothing done.
LEMMA AlertActsAre ==
    ASSUME NEW a \in Alert
    PROVE  /\ AlertActs(a) \in Seq(Act)
           /\ Due(AlertActs(a)) \in Nat /\ Due(AlertActs(a)) <= 1
           /\ AlertActs(a) = <<>> => Due(AlertActs(a)) = 0
           /\ a.module = "global_feed" => AlertActs(a) = <<>>
<1> DEFINE s == AtMostOf(1, SafeTargets(a.ips))
           blocks == [i \in DOMAIN s |-> Block(s[i])]
           kills == IF a.module = "file_monitor" /\ a.pid THEN <<[kind |-> "kill"]>> ELSE <<>>
           inserts == IF a.module = "network_monitor" THEN blocks ELSE <<>>
           moves == IF a.module = "file_monitor" /\ a.path \in FilePath
                    THEN <<[kind |-> "quarantine", path |-> a.path]>> ELSE <<>>
<1>1. a.ips \in Seq(Ip)
  BY PipelineAssumption DEF PipelineAssumption
<1>2. s \in Seq(Blockable) /\ Len(s) <= 1
  BY <1>1, TargetsAre, AtMostOK
<1>3. blocks \in Seq(Act) /\ Due(blocks) \in Nat /\ Due(blocks) <= 1
  <2> HIDE DEF s
  <2> QED
    BY <1>2, BlocksAre
<1>4. <<>> \in Seq(Act) /\ Due(<<>>) = 0
  BY EmptySeq, DueEmpty
<1>5. kills \in Seq(Act) /\ Due(kills) = 0
  <2>1. [kind |-> "kill"] \in Act /\ DueFor([kind |-> "kill"]) = 0
    BY DEF Act, DueFor
  <2>2. <<[kind |-> "kill"]>> \in Seq(Act) /\ Due(<<[kind |-> "kill"]>>) = 0
    BY <2>1, DueOne
  <2> QED
    BY <1>4, <2>2
<1>6. moves \in Seq(Act) /\ Due(moves) = 0
  <2> DEFINE q == [kind |-> "quarantine", path |-> a.path]
  <2>1. a.path \in FilePath => q \in Act
    BY DEF Act
  <2>2. DueFor(q) = 0
    BY DEF DueFor
  <2> HIDE DEF q
  <2>3. Due(<<q>>) = 0 /\ (a.path \in FilePath => <<q>> \in Seq(Act))
    BY <2>1, <2>2, DueOne
  <2> QED
    BY <1>4, <2>3 DEF q
<1>7. inserts \in Seq(Act) /\ Due(inserts) \in Nat /\ Due(inserts) <= 1
  <2> HIDE DEF blocks
  <2> QED
    BY <1>3, <1>4
<1>8. AlertActs(a) = IF ~a.severe THEN <<>> ELSE kills \o inserts \o moves
  BY DEF AlertActs
<1>9. a.module = "global_feed" => AlertActs(a) = <<>>
  <2> SUFFICES ASSUME a.module = "global_feed" PROVE AlertActs(a) = <<>>
    OBVIOUS
  <2>1. kills = <<>> /\ inserts = <<>> /\ moves = <<>>
    OBVIOUS
  <2> HIDE DEF kills, inserts, moves
  <2> QED
    BY <1>4, <1>8, <2>1, ConcatEmptySeq
<1> HIDE DEF kills, inserts, moves
<1>10. kills \o inserts \o moves \in Seq(Act) /\ Due(kills \o inserts \o moves) = Due(inserts)
  <2>1. kills \o inserts \in Seq(Act) /\ Due(kills \o inserts) = Due(inserts)
    BY <1>5, <1>7, ConcatProperties, DueConcat
  <2> DEFINE first == kills \o inserts
  <2> HIDE DEF first
  <2>2. first \in Seq(Act) /\ Due(first) = Due(inserts)
    BY <2>1 DEF first
  <2>3. first \o moves \in Seq(Act) /\ Due(first \o moves) = Due(first) + Due(moves)
    BY <1>6, <2>2, ConcatProperties, DueConcat
  <2> QED
    BY <1>6, <1>7, <2>2, <2>3 DEF first
<1> QED
  BY <1>4, <1>7, <1>8, <1>9, <1>10

\* A campaign has MaxBlocks rules inserted at most, and nothing else done.
LEMMA CampaignActsAre ==
    ASSUME campaign \in Seq(Alert), NEW raised
    PROVE  /\ CampaignActs(raised) \in Seq(Act)
           /\ \A i \in 1..Len(CampaignActs(raised)) : CampaignActs(raised)[i].kind = "block"
           /\ Due(CampaignActs(raised)) \in Nat /\ Due(CampaignActs(raised)) <= MaxBlocks
<1> DEFINE targets == AtMostOf(MaxBlocks, SafeTargets(Candidates))
           blocks == [i \in DOMAIN targets |-> Block(targets[i])]
<1>1. Candidates \in Seq(Ip)
  <2> DEFINE lists == [i \in DOMAIN campaign |-> campaign[i].ips]
  <2>1. DOMAIN campaign = 1..Len(campaign) /\ Len(campaign) \in Nat
    BY LenProperties
  <2>2. \A i \in 1..Len(campaign) : campaign[i].ips \in Seq(Ip)
    BY ElementOfSeq, PipelineAssumption DEF PipelineAssumption
  <2>3. lists \in [1..Len(campaign) -> Seq(Ip)]
    BY <2>1, <2>2
  <2> HIDE DEF lists
  <2>4. FlattenSeq(lists) \in Seq(Ip)
    BY <2>1, <2>3, FlattenType
  <2> QED
    BY <2>4 DEF Candidates, lists
<1>2. targets \in Seq(Blockable) /\ Len(targets) <= MaxBlocks
  BY <1>1, CapIs, TargetsAre, AtMostOK
<1>3. /\ blocks \in Seq(Act) /\ \A i \in 1..Len(blocks) : blocks[i].kind = "block"
      /\ Due(blocks) \in Nat /\ Due(blocks) <= MaxBlocks
  <2> HIDE DEF targets
  <2> QED
    BY <1>2, CapIs, BlocksAre
<1>4. <<>> \in Seq(Act) /\ Due(<<>>) = 0 /\ \A i \in 1..Len(<<>>) : <<>>[i].kind = "block"
  BY EmptySeq, DueEmpty
<1>5. CampaignActs(raised) = blocks \/ CampaignActs(raised) = <<>>
  BY DEF CampaignActs
<1>6. 0 <= MaxBlocks /\ 0 \in Nat
  BY CapIs
<1> HIDE DEF blocks
<1>7. CASE CampaignActs(raised) = blocks
  BY <1>3, <1>7
<1>8. CASE CampaignActs(raised) = <<>>
  BY <1>4, <1>6, <1>8
<1> QED
  BY <1>5, <1>7, <1>8

\* The name found for a file is free.
LEMMA DestIsFree ==
    ASSUME NEW taken, IsFiniteSet(taken), second \in Nat
    PROVE  UniqueDest(taken) \in Dest /\ UniqueDest(taken) \notin taken
<1> DEFINE name(n) == [stamp |-> second, counter |-> n]
           C == Cardinality(taken)
           Free == {n \in 0..C : name(n) \notin taken}
           f == [n \in 0..C |-> name(n)]
<1>1. C \in Nat
  BY FS_CardinalityType
<1>2. \A n, m \in 0..C : name(n) = name(m) => n = m
  <2> TAKE n \in 0..C, m \in 0..C
  <2>1. name(n).counter = n /\ name(m).counter = m
    OBVIOUS
  <2> QED
    BY <2>1
<1> HIDE DEF name
<1>3. Free # {}
  <2> SUFFICES ASSUME Free = {} PROVE FALSE
    OBVIOUS
  <2>1. f \in Injection(0..C, taken)
    BY <1>2 DEF Injection, IsInjective
  <2>2. Cardinality(0..C) <= C
    <3> HIDE DEF C, f
    <3> QED
      BY <2>1, FS_Injection DEF C
  <2>3. Cardinality(0..C) = C + 1
    <3> HIDE DEF C
    <3>1. 0 \in Int /\ C \in Int /\ ~(0 > C) /\ C - 0 + 1 = C + 1
      BY <1>1
    <3> QED
      BY <3>1, FS_Interval
  <2> QED
    BY <1>1, <2>2, <2>3
<1>4. Free \subseteq Nat
  BY <1>1
<1>5. PICK n \in Free : \A m \in Free : n <= m
  <2> HIDE DEF Free
  <2> QED
    BY <1>3, <1>4, FirstIs
<1>6. n \in 0..C /\ name(n) \notin taken /\ \A k \in 0..n - 1 : name(k) \in taken
  <2>1. n \in 0..C /\ name(n) \notin taken
    OBVIOUS
  <2>2. \A k \in 0..n - 1 : k \in 0..C /\ ~(n <= k)
    BY <1>1, <2>1
  <2> QED
    BY <1>5, <2>1, <2>2
<1> DEFINE c == CHOOSE m \in 0..C : name(m) \notin taken /\ \A k \in 0..m - 1 : name(k) \in taken
<1>7. c \in 0..C /\ name(c) \notin taken
  BY <1>6
<1>8. UniqueDest(taken) = name(c)
  BY DEF UniqueDest, name
<1> HIDE DEF c
<1>9. name(c) \in Dest
  BY <1>1, <1>7 DEF name, Dest
<1> QED
  BY <1>7, <1>8, <1>9

-----------------------------------------------------------------------------
(* The steps of a thread                                                   *)

\* A rule more is one pair more.
LEMMA RuleInserted ==
    ASSUME NEW old \in [Ip -> Nat], IsFiniteSet(RuleSet(old)), NEW i \in Ip,
           NEW chain, chain = [old EXCEPT ![i] = old[i] + 1]
    PROVE  IsFiniteSet(RuleSet(chain)) /\ Rules(old) \in Nat /\ Rules(chain) = Rules(old) + 1
<1> DEFINE new == <<i, old[i] + 1>>
<1>1. \A j \in Ip : old[j] \in Nat /\ chain[j] = IF j = i THEN old[i] + 1 ELSE old[j]
  OBVIOUS
<1>2. 1..old[i] + 1 = 1..old[i] \cup {old[i] + 1} /\ old[i] + 1 \notin 1..old[i]
  BY <1>1
<1>3. \A x : x \in RuleSet(old) <=> \E j \in Ip : x \in {j} \X (1..old[j])
  BY DEF RuleSet
<1>4. \A x : x \in RuleSet(chain) <=> \E j \in Ip : x \in {j} \X (1..chain[j])
  BY DEF RuleSet
<1>5. {i} \X (1..chain[i]) = ({i} \X (1..old[i])) \cup {new}
  BY <1>1, <1>2
<1>6. \A j \in Ip : j # i => {j} \X (1..chain[j]) = {j} \X (1..old[j])
  BY <1>1
<1>7. new \notin RuleSet(old)
  BY <1>2, <1>3
<1>8. RuleSet(chain) = RuleSet(old) \cup {new}
  <2> HIDE DEF new
  <2> QED
    BY <1>3, <1>4, <1>5, <1>6
<1>9. IsFiniteSet(RuleSet(old)) /\ Cardinality(RuleSet(old)) \in Nat
  BY FS_CardinalityType
<1>10. IsFiniteSet(RuleSet(chain)) /\ Cardinality(RuleSet(chain)) = Cardinality(RuleSet(old)) + 1
  <2> DEFINE before == RuleSet(old)
             after == RuleSet(chain)
  <2>1. new \notin before /\ after = before \cup {new} /\ IsFiniteSet(before)
    BY <1>7, <1>8, <1>9
  <2> HIDE DEF new, before, after
  <2>2. IsFiniteSet(after) /\ Cardinality(after) = Cardinality(before) + 1
    BY <2>1, FS_AddElement
  <2> QED
    BY <2>2 DEF before, after
<1> QED
  BY <1>9, <1>10 DEF Rules, RuleSet

\* One command: a rule more, or none.
LEMMA InsertedIs ==
    ASSUME NEW old \in [Ip -> Nat], IsFiniteSet(RuleSet(old)), NEW ip \in Ip, NEW done \in BOOLEAN,
           NEW chain, chain = Inserted(old, ip, done)
    PROVE  /\ IsFiniteSet(RuleSet(chain)) /\ Rules(old) \in Nat
           /\ Rules(chain) = Rules(old) + Once(done) /\ Once(done) \in {0, 1}
           /\ chain \in [Ip -> Nat] /\ \A i \in Ip : i # ip => chain[i] = old[i]
<1>1. CASE done
  <2>1. chain = [old EXCEPT ![ip] = old[ip] + 1]
    BY <1>1 DEF Inserted
  <2>2. IsFiniteSet(RuleSet(chain)) /\ Rules(old) \in Nat /\ Rules(chain) = Rules(old) + 1
    BY <2>1, RuleInserted
  <2>3. old[ip] + 1 \in Nat /\ chain \in [Ip -> Nat] /\ \A i \in Ip : i # ip => chain[i] = old[i]
    BY <2>1
  <2> QED
    BY <1>1, <2>2, <2>3 DEF Once
<1>2. CASE ~done
  <2>1. chain = old
    BY <1>2 DEF Inserted
  <2>2. Rules(old) \in Nat
    BY FS_CardinalityType DEF Rules, RuleSet
  <2> QED
    BY <1>2, <2>1, <2>2 DEF Once
<1> QED
  BY <1>1, <1>2

\* Without rules there are none to count.
LEMMA NoRules ==
    ASSUME NEW chain \in [Ip -> Nat], \A i \in Ip : chain[i] = 0
    PROVE  IsFiniteSet(RuleSet(chain)) /\ Rules(chain) = 0
<1>1. RuleSet(chain) = {}
  BY DEF RuleSet
<1> QED
  BY <1>1, FS_EmptySet DEF Rules, RuleSet

Other(t) == IF t = "worker" THEN "ticker" ELSE "worker"

Acted == InCount + OutCount + killed + disarmed + Cardinality(quarantine)
AuditLog == audited + misreported + unaudited
Changed(t) == doing[t].changed

\* The sums over both threads, seen from one
Seen(t) ==
    /\ InCount \in Nat /\ OutCount \in Nat
    /\ Changed(t) \in Nat /\ Acted \in Int /\ AuditLog \in Int
    /\ ActedIsAudited <=> Acted - AuditLog - Changed(t) = Changed(Other(t))
    /\ DueIn(t) \in Int /\ DueIn(Other(t)) \in Int
    /\ DueOut(t) \in Int /\ DueOut(Other(t)) \in Int
    /\ GrantedIn <=> InCount + DueIn(t) + DueIn(Other(t)) <= Allowed
    /\ GrantedOut <=> OutCount + DueOut(t) + DueOut(Other(t)) <= Allowed

LEMMA Others == \A t \in Storer : Other(t) \in Storer /\ Other(t) # t /\ \A u \in Storer : u # t => u = Other(t)
  BY DEF Storer, Other

AllSeen == \A t \in Storer : Seen(t)

LEMMA Sums == Typed /\ RulesCount => AllSeen
<1> SUFFICES ASSUME Typed, RulesCount, NEW t \in Storer PROVE Seen(t)
  BY DEF AllSeen
<1>1. \A u \in Storer : Changed(u) \in Nat /\ InDone(u) \in {0, 1} /\ OutDone(u) \in {0, 1}
  <2> TAKE u \in Storer
  <2>1. doing[u] \in Doing
    BY DEF Typed
  <2>2. doing[u].changed \in Nat
    BY <2>1 DEF Doing, Idle
  <2> QED
    BY <2>2 DEF Changed, InDone, OutDone
<1>2. \A u \in Storer : Due(pending[u]) \in Nat
  <2> TAKE u \in Storer
  <2>1. pending[u] \in Seq(Act)
    BY DEF Typed
  <2> QED
    BY <2>1, DueConcat
<1>3. \A u \in Storer : DueIn(u) \in Int /\ DueOut(u) \in Int
  BY <1>1, <1>2 DEF DueIn, DueOut
<1>4. InCount \in Nat /\ OutCount \in Nat
  BY FS_CardinalityType DEF RulesCount, Rules, RuleSet, InCount, OutCount
<1>5. "worker" \in Storer /\ "ticker" \in Storer /\ (t = "worker" \/ t = "ticker")
  BY DEF Storer
<1>6. ActedIsAudited <=> Acted = AuditLog + (Changed("worker") + Changed("ticker"))
  <2>1. Changes = Acted /\ InFlight = Changed("worker") + Changed("ticker")
    BY DEF Changes, Acted, InCount, OutCount, InFlight, Changed
  <2> QED
    BY <2>1 DEF ActedIsAudited, AuditLog
<1>10. Acted \in Int /\ AuditLog \in Int
  <2>1. /\ killed \in Nat /\ disarmed \in Nat /\ Cardinality(quarantine) \in Nat
        /\ audited \in Nat /\ misreported \in Nat /\ unaudited \in Nat
    BY FS_CardinalityType DEF Typed
  <2> QED
    BY <1>4, <2>1 DEF Acted, AuditLog
<1>7. /\ GrantedIn <=> InCount + DueIn("worker") + DueIn("ticker") <= Allowed
      /\ GrantedOut <=> OutCount + DueOut("worker") + DueOut("ticker") <= Allowed
  BY DEF GrantedIn, GrantedOut
<1>8. CASE t = "worker"
  <2>1. Other(t) = "ticker"
    BY <1>8 DEF Other
  <2>2. Changed("worker") \in Int /\ Changed("ticker") \in Int
    BY <1>1, <1>5
  <2>3. ActedIsAudited <=> Acted - AuditLog - Changed("worker") = Changed("ticker")
    BY <1>6, <1>10, <2>2
  <2> QED
    BY <1>1, <1>3, <1>4, <1>5, <1>7, <1>8, <1>10, <2>1, <2>3 DEF Seen
<1>9. CASE t = "ticker"
  <2>1. Other(t) = "worker"
    BY <1>9 DEF Other
  <2>2. /\ Changed("worker") \in Int /\ Changed("ticker") \in Int
        /\ DueIn("worker") \in Int /\ DueIn("ticker") \in Int
        /\ DueOut("worker") \in Int /\ DueOut("ticker") \in Int
    BY <1>1, <1>3, <1>5
  <2>3. ActedIsAudited <=> Acted - AuditLog - Changed("ticker") = Changed("worker")
    BY <1>6, <1>10, <2>2
  <2>4. /\ InCount + DueIn("worker") + DueIn("ticker") = InCount + DueIn("ticker") + DueIn("worker")
        /\ OutCount + DueOut("worker") + DueOut("ticker") = OutCount + DueOut("ticker") + DueOut("worker")
    BY <1>4, <2>2
  <2> QED
    BY <1>1, <1>3, <1>4, <1>5, <1>7, <1>9, <1>10, <2>1, <2>3, <2>4 DEF Seen
<1> QED
  BY <1>5, <1>8, <1>9

\* What a thread is doing fits its list.
Fits(t) ==
    /\ t = "ticker" => \A i \in 1..Len(pending[t]) : pending[t][i].kind \in {"campaign", "push", "block"}
    /\ doing[t] # Idle => pending[t] # <<>> /\ Head(pending[t]).kind = ActOf(doing[t].kind)
    /\ doing[t].kind = "half" => ~dryRun

\* One thread has its turn, the other is as it was: what has to be checked.
LEMMA Turn ==
    ASSUME PipelineInv, NEW t \in Storer, UNCHANGED dryRun,
           Typed', RulesCount', NameIsFree', DryRunChangesNothing', Fits(t)',
           pending'[Other(t)] = pending[Other(t)], doing'[Other(t)] = doing[Other(t)],
           Acted' - AuditLog' - Changed(t)' = Acted - AuditLog - Changed(t),
           InCount' + DueIn(t)' - Allowed' <= InCount + DueIn(t) - Allowed,
           OutCount' + DueOut(t)' - Allowed' <= OutCount + DueOut(t) - Allowed,
           Allowed \in Int, Allowed' \in Int
    PROVE  PipelineInv'
<1>1. Other(t) \in Storer /\ Other(t) # t /\ \A u \in Storer : u # t => u = Other(t)
  BY Others
<1>2. TickerOnlyBlocks'
  <2>1. CASE t = "ticker"
    BY <2>1 DEF TickerOnlyBlocks, Fits
  <2>2. CASE t = "worker"
    BY <2>2 DEF Other, PipelineInv, TickerOnlyBlocks
  <2> QED
    BY <2>1, <2>2 DEF Storer
<1>3. UnderWay' /\ HalfIsReal'
  <2> SUFFICES ASSUME NEW u \in Storer
               PROVE  /\ doing'[u] # Idle => pending'[u] # <<>> /\ Head(pending'[u]).kind = ActOf(doing'[u].kind)
                      /\ doing'[u].kind = "half" => ~dryRun
    BY DEF UnderWay, HalfIsReal, Idle
  <2>1. CASE u = t
    BY <2>1 DEF Fits, Idle
  <2>2. CASE u = Other(t)
    <3>1. /\ doing[u] # Idle => pending[u] # <<>> /\ Head(pending[u]).kind = ActOf(doing[u].kind)
          /\ doing[u].kind = "half" => ~dryRun
      BY DEF PipelineInv, UnderWay, HalfIsReal
    <3> QED
      BY <2>2, <3>1
  <2> QED
    BY <1>1, <2>1, <2>2
<1>4. Seen(t) /\ Seen(t)'
  <2>1. (Typed /\ RulesCount => AllSeen)'
    BY Sums, PTL
  <2> QED
    BY <2>1, Sums DEF PipelineInv, AllSeen, Storer
<1>5. /\ Changed(Other(t))' = Changed(Other(t))
      /\ DueIn(Other(t))' = DueIn(Other(t)) /\ DueOut(Other(t))' = DueOut(Other(t))
  BY DEF Changed, DueIn, DueOut, InDone, OutDone
<1>6. ActedIsAudited'
  <2>1. Acted - AuditLog - Changed(t) = Changed(Other(t))
    BY <1>4 DEF Seen, PipelineInv
  <2>2. Acted' - AuditLog' - Changed(t)' = Changed(Other(t))'
    BY <1>5, <2>1
  <2> QED
    BY <1>4, <2>2 DEF Seen
<1>7. GrantedIn'
  <2>1. /\ InCount \in Int /\ InCount' \in Int /\ DueIn(t) \in Int /\ DueIn(t)' \in Int
        /\ DueIn(Other(t)) \in Int
        /\ GrantedIn <=> InCount + DueIn(t) + DueIn(Other(t)) <= Allowed
        /\ GrantedIn' <=> InCount' + DueIn(t)' + DueIn(Other(t)) <= Allowed'
    BY <1>4, <1>5 DEF Seen
  <2>2. GrantedIn
    BY DEF PipelineInv
  <2> QED
    BY <2>1, <2>2, SMTT(30)
<1>8. GrantedOut'
  <2>1. /\ OutCount \in Int /\ OutCount' \in Int /\ DueOut(t) \in Int /\ DueOut(t)' \in Int
        /\ DueOut(Other(t)) \in Int
        /\ GrantedOut <=> OutCount + DueOut(t) + DueOut(Other(t)) <= Allowed
        /\ GrantedOut' <=> OutCount' + DueOut(t)' + DueOut(Other(t)) <= Allowed'
    BY <1>4, <1>5 DEF Seen
  <2>2. GrantedOut
    BY DEF PipelineInv
  <2> QED
    BY <2>1, <2>2, SMTT(30)
<1> QED
  BY <1>2, <1>3, <1>6, <1>7, <1>8 DEF PipelineInv

\* What the alerts allow is a number; nothing but another alert changes it.
LEMMA AllowedIs ==
    Typed => /\ IsFiniteSet(ActiveAlerts) /\ Cardinality(ActiveAlerts) \in Nat /\ Allowed \in Int
             /\ UNCHANGED <<campaign, stored>> => Allowed' = Allowed
<1> SUFFICES ASSUME Typed
             PROVE  /\ IsFiniteSet(ActiveAlerts) /\ Cardinality(ActiveAlerts) \in Nat /\ Allowed \in Int
                    /\ UNCHANGED <<campaign, stored>> => Allowed' = Allowed
  OBVIOUS
<1>1. DOMAIN campaign = 1..stored /\ stored \in Nat
  BY LenProperties, CapIs DEF Typed
<1>2. IsFiniteSet(1..stored)
  BY <1>1, FS_Interval
<1>3. ActiveAlerts \subseteq 1..stored
  BY <1>1 DEF ActiveAlerts
<1>4. IsFiniteSet(ActiveAlerts) /\ Cardinality(ActiveAlerts) \in Nat
  BY <1>2, <1>3, FS_Subset, FS_CardinalityType
<1>5. Allowed \in Int
  <2> DEFINE n == IF stored > 1 THEN stored - 1 ELSE 0
  <2>1. n \in Nat
    BY <1>1
  <2> HIDE DEF n
  <2>2. MaxBlocks * n \in Nat
    BY <2>1, CapIs
  <2> QED
    BY <1>4, <2>2 DEF Allowed, n
<1>6. UNCHANGED <<campaign, stored>> => Allowed' = Allowed
  BY DEF Allowed, ActiveAlerts
<1> QED
  BY <1>4, <1>5, <1>6

\* Another alert allows one rule if it has something done, and MaxBlocks for
\* the campaign it updates.
LEMMA AllowedGrows ==
    ASSUME Typed, NEW a \in Alert, campaign' = Append(campaign, a), stored' = stored + 1
    PROVE  Allowed' = Allowed + (IF AlertActs(a) # <<>> THEN 1 ELSE 0)
                              + (IF campaign # <<>> THEN MaxBlocks ELSE 0)
<1>1. /\ campaign \in Seq(Alert) /\ Len(campaign) = stored /\ DOMAIN campaign = 1..stored /\ stored \in Nat
      /\ MaxBlocks \in Nat
  BY LenProperties, CapIs DEF Typed
<1>2. /\ campaign' \in Seq(Alert) /\ Len(campaign') = stored + 1 /\ campaign'[stored + 1] = a
      /\ \A i \in 1..stored : campaign'[i] = campaign[i]
  BY <1>1, AppendProperties
<1>3. DOMAIN campaign' = 1..stored + 1
  BY <1>2, LenProperties
<1>4. 1..stored + 1 = 1..stored \cup {stored + 1} /\ stored + 1 \notin 1..stored
  BY <1>1
<1>5. ActiveAlerts' = {i \in DOMAIN campaign' : AlertActs(campaign'[i]) # <<>>}
  BY DEF ActiveAlerts
<1>6. ActiveAlerts' = ActiveAlerts \cup (IF AlertActs(a) # <<>> THEN {stored + 1} ELSE {})
  BY <1>1, <1>2, <1>3, <1>4, <1>5 DEF ActiveAlerts
<1>7. IsFiniteSet(ActiveAlerts) /\ Cardinality(ActiveAlerts) \in Nat /\ stored + 1 \notin ActiveAlerts
  BY <1>1, <1>4, AllowedIs DEF ActiveAlerts
<1>8. Cardinality(ActiveAlerts') = Cardinality(ActiveAlerts) + IF AlertActs(a) # <<>> THEN 1 ELSE 0
  <2>1. CASE AlertActs(a) # <<>>
    BY <1>6, <1>7, <2>1, FS_AddElement
  <2>2. CASE ~(AlertActs(a) # <<>>)
    <3>1. ActiveAlerts' = ActiveAlerts
      BY <1>6, <2>2
    <3> QED
      BY <1>7, <2>2, <3>1
  <2> QED
    BY <2>1, <2>2
<1>9. campaign # <<>> <=> stored > 0
  BY <1>1, EmptySeq
<1> DEFINE updates(n) == MaxBlocks * (IF n > 1 THEN n - 1 ELSE 0)
           before == updates(stored)
           after == updates(stored + 1)
<1>10. after = before + (IF campaign # <<>> THEN MaxBlocks ELSE 0) /\ before \in Nat /\ after \in Nat
  <2>1. \A m, k \in Nat : m * (k + 1) = m * k + m /\ m * k \in Nat /\ m * 0 = 0
    OBVIOUS
  <2>2. CASE stored = 0
    <3>1. (IF stored > 1 THEN stored - 1 ELSE 0) = 0 /\ (IF stored + 1 > 1 THEN stored + 1 - 1 ELSE 0) = 0
      BY <2>2
    <3>2. before = MaxBlocks * 0 /\ after = MaxBlocks * 0 /\ MaxBlocks * 0 = 0
      BY <1>1, <2>1, <3>1
    <3> QED
      BY <1>9, <2>2, <3>2
  <2>3. CASE stored # 0
    <3> DEFINE k == stored - 1
    <3>1. /\ k \in Nat /\ (IF stored > 1 THEN stored - 1 ELSE 0) = k
          /\ (IF stored + 1 > 1 THEN stored + 1 - 1 ELSE 0) = k + 1
      BY <1>1, <2>3
    <3> HIDE DEF k
    <3>2. before = MaxBlocks * k /\ after = MaxBlocks * (k + 1)
      <4>1. before = MaxBlocks * k
        BY <3>1
      <4>2. after = MaxBlocks * (k + 1)
        <5>1. after = MaxBlocks * (stored + 1 - 1)
          BY <1>1, <2>3
        <5>2. stored + 1 - 1 = k + 1
          BY <1>1, <2>3 DEF k
        <5> QED
          BY <5>1, <5>2
      <4> QED
        BY <4>1, <4>2
    <3> HIDE DEF before, after
    <3>3. after = before + MaxBlocks /\ before \in Nat
      BY <1>1, <2>1, <3>1, <3>2
    <3> QED
      BY <1>1, <1>9, <2>3, <3>3
  <2> QED
    BY <2>2, <2>3
<1>11. Allowed = Cardinality(ActiveAlerts) + before /\ Allowed' = Cardinality(ActiveAlerts') + after
  <2>1. Allowed' = Cardinality(ActiveAlerts') + updates(stored')
    BY DEF Allowed
  <2>2. Allowed = Cardinality(ActiveAlerts) + before
    BY DEF Allowed
  <2> HIDE DEF updates
  <2>3. updates(stored') = after
    OBVIOUS
  <2> QED
    BY <2>1, <2>2, <2>3
<1> HIDE DEF before, after
<1> QED
  BY <1>1, <1>7, <1>8, <1>10, <1>11

\* While the host stays as it is, so does what was done to it.
LEMMA NothingDone ==
    ASSUME PipelineInv, UNCHANGED <<dryRun, inRules, outRules, killed, disarmed, quarantine>>
    PROVE  /\ RulesCount' /\ DryRunChangesNothing' /\ Acted' = Acted
           /\ InCount' = InCount /\ OutCount' = OutCount /\ InCount \in Nat /\ OutCount \in Nat
<1>1. RulesCount'
  BY DEF PipelineInv, RulesCount
<1>2. DryRunChangesNothing'
  BY DEF PipelineInv, DryRunChangesNothing
<1>3. InCount' = InCount /\ OutCount' = OutCount
  BY DEF InCount, OutCount
<1>4. Acted' = Acted
  BY <1>3 DEF Acted
<1>5. AllSeen
  BY Sums DEF PipelineInv
<1>6. InCount \in Nat /\ OutCount \in Nat
  BY <1>5 DEF AllSeen, Seen, Storer
<1> QED
  BY <1>1, <1>2, <1>3, <1>4, <1>6

\* What the list of a thread is due
LEMMA DueOfIs ==
    ASSUME NEW t \in Storer, PipelineInv
    PROVE  /\ pending[t] \in Seq(Act) /\ Due(pending[t]) \in Nat
           /\ DueIn(t) \in Int /\ DueOut(t) \in Int /\ InCount \in Nat /\ OutCount \in Nat
           /\ Allowed \in Int /\ Acted \in Int /\ AuditLog \in Int /\ Changed(t) \in Nat
           /\ doing[t] = Idle => /\ DueIn(t) = Due(pending[t]) /\ DueOut(t) = Due(pending[t])
                                 /\ Changed(t) = 0
           /\ doing[t] # Idle =>
                /\ pending[t] # <<>> /\ Head(pending[t]) \in Act
                /\ Due(Tail(pending[t])) \in Nat /\ Tail(pending[t]) \in Seq(Act)
                /\ DueIn(t) = Due(Tail(pending[t]))
                /\ DueOut(t) = Due(Tail(pending[t])) + (IF doing[t].kind = "half" THEN 1 ELSE 0)
                /\ Head(pending[t]).kind = ActOf(doing[t].kind)
<1>1. pending[t] \in Seq(Act) /\ doing[t] \in Doing
  BY DEF PipelineInv, Typed
<1>2. Due(pending[t]) \in Nat
  BY <1>1, DueConcat
<1>3. /\ DueIn(t) \in Int /\ DueOut(t) \in Int /\ InCount \in Nat /\ OutCount \in Nat
      /\ Allowed \in Int /\ Acted \in Int /\ AuditLog \in Int /\ Changed(t) \in Nat
  BY Sums, AllowedIs DEF PipelineInv, AllSeen, Seen
<1>4. doing[t] = Idle => /\ DueIn(t) = Due(pending[t]) /\ DueOut(t) = Due(pending[t])
                         /\ Changed(t) = 0
  BY <1>2 DEF DueIn, DueOut, InDone, OutDone, Changed, Idle
<1>5. ASSUME doing[t] # Idle
      PROVE  /\ pending[t] # <<>> /\ Head(pending[t]) \in Act
             /\ Due(Tail(pending[t])) \in Nat /\ Tail(pending[t]) \in Seq(Act)
             /\ DueIn(t) = Due(Tail(pending[t]))
             /\ DueOut(t) = Due(Tail(pending[t])) + (IF doing[t].kind = "half" THEN 1 ELSE 0)
             /\ Head(pending[t]).kind = ActOf(doing[t].kind)
  <2>1. pending[t] # <<>> /\ Head(pending[t]).kind = ActOf(doing[t].kind)
    BY <1>5 DEF PipelineInv, UnderWay
  <2>2. /\ Head(pending[t]) \in Act /\ Tail(pending[t]) \in Seq(Act)
        /\ Due(Tail(pending[t])) = Due(pending[t]) - DueFor(Head(pending[t]))
        /\ Due(Tail(pending[t])) \in Nat /\ DueFor(Head(pending[t])) \in Nat
    BY <1>1, <2>1, DueTail
  <2>3. doing[t].kind \in {"block", "kill", "quarantine", "half", "move"}
    BY <1>1, <1>5 DEF Doing
  <2>4. /\ InDone(t) = DueFor(Head(pending[t]))
        /\ OutDone(t) = DueFor(Head(pending[t])) - (IF doing[t].kind = "half" THEN 1 ELSE 0)
    BY <2>1, <2>3 DEF InDone, OutDone, DueFor, ActOf
  <2>5. DueIn(t) = Due(Tail(pending[t]))
    BY <1>2, <2>2, <2>4 DEF DueIn
  <2>6. DueOut(t) = Due(Tail(pending[t])) + (IF doing[t].kind = "half" THEN 1 ELSE 0)
    BY <1>2, <2>2, <2>4 DEF DueOut
  <2> QED
    BY <2>1, <2>2, <2>5, <2>6
<1> QED
  BY <1>1, <1>2, <1>3, <1>4, <1>5

\* A thread that is not in the middle of an act is due its whole list.
LEMMA IdleIs ==
    ASSUME NEW t \in Storer, doing'[t] = Idle, Due(pending'[t]) \in Nat
    PROVE  DueIn(t)' = Due(pending'[t]) /\ DueOut(t)' = Due(pending'[t]) /\ Changed(t)' = 0
<1>1. Idle.kind = "idle" /\ Idle.changed = 0
  BY DEF Idle
<1>2. InDone(t)' = 0 /\ OutDone(t)' = 0 /\ Changed(t)' = 0
  BY <1>1 DEF InDone, OutDone, Changed
<1>3. DueIn(t)' = Due(pending'[t]) - InDone(t)' /\ DueOut(t)' = Due(pending'[t]) - OutDone(t)'
  BY DEF DueIn, DueOut
<1> QED
  BY <1>2, <1>3

\* A campaign is updated: responded to, then pushed.
LEMMA UpdateIs ==
    LET update == <<OnCampaign, PushCampaign>>
    IN  /\ update \in Seq(Act) /\ Due(update) = MaxBlocks
        /\ Len(update) = 2 /\ \A i \in 1..2 : update[i].kind \in {"campaign", "push"}
<1>1. OnCampaign \in Act /\ PushCampaign \in Act
  BY DEF OnCampaign, PushCampaign, Act
<1>2. DueFor(OnCampaign) = MaxBlocks /\ DueFor(PushCampaign) = 0
  BY DEF OnCampaign, PushCampaign, DueFor
<1>3. <<OnCampaign>> \in Seq(Act) /\ <<PushCampaign>> \in Seq(Act)
  BY <1>1
<1>4. <<OnCampaign>> \o <<PushCampaign>> = <<OnCampaign, PushCampaign>>
  <2> DEFINE s == <<OnCampaign>>
             r == <<PushCampaign>>
             u == <<OnCampaign, PushCampaign>>
  <2>1. /\ u \in Seq(Act) /\ Len(u) = 2 /\ u[1] = OnCampaign /\ u[2] = PushCampaign
        /\ Len(s) = 1 /\ Len(r) = 1 /\ s[1] = OnCampaign /\ r[1] = PushCampaign
    BY <1>1
  <2>2. s \in Seq(Act) /\ r \in Seq(Act)
    BY <1>3
  <2> HIDE DEF s, r, u
  <2>3. /\ s \o r \in Seq(Act) /\ Len(s \o r) = Len(s) + Len(r)
        /\ \A i \in 1..Len(s) + Len(r) : (s \o r)[i] = IF i <= Len(s) THEN s[i] ELSE r[i - Len(s)]
    BY <2>2, ConcatProperties
  <2>4. Len(s \o r) = Len(u) /\ \A i \in 1..Len(s \o r) : i = 1 \/ i = 2
    BY <2>1, <2>3
  <2>5. (s \o r)[1] = u[1] /\ (s \o r)[2] = u[2]
    BY <2>1, <2>3
  <2>6. \A i \in 1..Len(s \o r) : (s \o r)[i] = u[i]
    BY <2>4, <2>5
  <2>7. s \o r = u
    BY <2>1, <2>3, <2>4, <2>6, SeqEqual
  <2> QED
    BY <2>7 DEF s, r, u
<1>5. Due(<<OnCampaign>> \o <<PushCampaign>>) = Due(<<OnCampaign>>) + Due(<<PushCampaign>>)
  BY <1>3, DueConcat
<1>6. Due(<<OnCampaign, PushCampaign>>) = MaxBlocks
  <2>1. Due(<<OnCampaign>>) = MaxBlocks /\ Due(<<PushCampaign>>) = 0 /\ MaxBlocks + 0 = MaxBlocks
    BY <1>2, DueOne, CapIs
  <2> QED
    BY <1>4, <1>5, <2>1
<1>7. <<OnCampaign, PushCampaign>> \in Seq(Act) /\ Len(<<OnCampaign, PushCampaign>>) = 2
  BY <1>1
<1>8. \A i \in 1..2 : <<OnCampaign, PushCampaign>>[i].kind \in {"campaign", "push"}
  BY DEF OnCampaign, PushCampaign
<1> QED
  BY <1>6, <1>7, <1>8

\* An alert is stored: it allows what its list is due.
LEMMA StoreAlertStep ==
    ASSUME PipelineInv, NEW t \in Storer, NEW a \in Alert, StoreAlert(t, a)
    PROVE  PipelineInv'
<1> DEFINE update == IF campaign # <<>> THEN <<OnCampaign, PushCampaign>> ELSE <<>>
           acts == AlertActs(a)
           list == update \o acts
<1>1. /\ pending[t] = <<>> /\ doing[t] = Idle /\ stored < MaxStored
      /\ t = "ticker" => a.module = "global_feed"
      /\ stored' = stored + 1 /\ campaign' = Append(campaign, a)
      /\ pending' = [pending EXCEPT ![t] = list]
      /\ UNCHANGED <<dryRun, pushed, doing, hostVars, second, auditVars>>
  BY DEF StoreAlert
<1>2. Typed /\ pending \in [Storer -> Seq(Act)]
  BY DEF PipelineInv, Typed
<1>3. /\ acts \in Seq(Act) /\ Due(acts) \in Nat /\ Due(acts) <= 1
      /\ acts = <<>> => Due(acts) = 0
      /\ a.module = "global_feed" => acts = <<>>
  BY AlertActsAre
<1>4. <<>> \in Seq(Act) /\ Due(<<>>) = 0 /\ Len(<<>>) = 0
  BY EmptySeq, DueEmpty
<1>5. /\ update \in Seq(Act) /\ Due(update) = IF campaign # <<>> THEN MaxBlocks ELSE 0
      /\ \A i \in 1..Len(update) : update[i].kind \in {"campaign", "push", "block"}
  BY <1>4, UpdateIs
<1> HIDE DEF update, acts
<1>6. list \in Seq(Act) /\ Due(list) = Due(update) + Due(acts)
  BY <1>3, <1>5, ConcatProperties, DueConcat
<1>7. t = "ticker" => \A i \in 1..Len(list) : list[i].kind \in {"campaign", "push", "block"}
  <2> SUFFICES ASSUME t = "ticker" PROVE \A i \in 1..Len(list) : list[i].kind \in {"campaign", "push", "block"}
    OBVIOUS
  <2>1. list = update
    BY <1>1, <1>3, <1>5, ConcatEmptySeq
  <2> QED
    BY <1>5, <2>1
<1> HIDE DEF list
<1>8. pending'[t] = list /\ pending' \in [Storer -> Seq(Act)] /\ pending'[Other(t)] = pending[Other(t)]
  BY <1>1, <1>2, <1>6, Others
<1>9. Typed'
  <2>1. campaign' \in Seq(Alert) /\ Len(campaign') = stored'
    BY <1>1, AppendProperties, SMTT(30) DEF PipelineInv, Typed
  <2>2. stored' \in 0..MaxStored /\ pushed \in 0..stored'
    BY <1>1, CapIs DEF PipelineInv, Typed
  <2> QED
    BY <1>1, <1>2, <1>8, <2>1, <2>2 DEF Typed, hostVars, auditVars
<1>10. /\ RulesCount' /\ DryRunChangesNothing' /\ Acted' = Acted /\ AuditLog' = AuditLog
       /\ InCount' = InCount /\ OutCount' = OutCount /\ InCount \in Nat /\ OutCount \in Nat
  BY <1>1, NothingDone DEF AuditLog, hostVars, auditVars
<1>11. NameIsFree'
  BY <1>1 DEF PipelineInv, NameIsFree, hostVars
<1>12. doing'[t] = Idle /\ doing'[Other(t)] = doing[Other(t)] /\ Idle.kind = "idle"
  BY <1>1 DEF Idle
<1>13. /\ DueIn(t)' = Due(list) /\ DueOut(t)' = Due(list) /\ Changed(t)' = 0 /\ Changed(t) = 0
       /\ DueIn(t) = 0 /\ DueOut(t) = 0 /\ Allowed \in Int /\ Acted \in Int /\ AuditLog \in Int
  <2>1. Due(list) \in Nat
    BY <1>6, DueConcat
  <2> QED
    BY <1>1, <1>4, <1>8, <1>12, <2>1, IdleIs, DueOfIs
<1>14. Allowed' = Allowed + (IF acts # <<>> THEN 1 ELSE 0) + (IF campaign # <<>> THEN MaxBlocks ELSE 0)
  BY <1>1, <1>2, AllowedGrows DEF acts
<1>15. MaxBlocks \in Nat
  BY CapIs
<1>16. Due(list) <= (IF acts # <<>> THEN 1 ELSE 0) + (IF campaign # <<>> THEN MaxBlocks ELSE 0)
  BY <1>3, <1>5, <1>6, <1>15
<1>17. /\ Allowed' \in Int
       /\ InCount' + DueIn(t)' - Allowed' <= InCount + DueIn(t) - Allowed
       /\ OutCount' + DueOut(t)' - Allowed' <= OutCount + DueOut(t) - Allowed
  <2> DEFINE more == (IF acts # <<>> THEN 1 ELSE 0) + (IF campaign # <<>> THEN MaxBlocks ELSE 0)
  <2>1. more \in Int /\ Due(list) \in Int /\ Due(list) <= more /\ Allowed' = Allowed + more
    BY <1>3, <1>5, <1>6, <1>13, <1>14, <1>15, <1>16
  <2> HIDE DEF more
  <2> QED
    BY <1>10, <1>13, <2>1
<1>18. Acted' - AuditLog' - Changed(t)' = Acted - AuditLog - Changed(t)
  BY <1>10, <1>13
<1>19. Fits(t)'
  BY <1>7, <1>8, <1>12 DEF Fits
<1> QED
  BY <1>1, <1>8, <1>9, <1>10, <1>11, <1>12, <1>13, <1>17, <1>18, <1>19, Turn

\* The rest of a list has no kinds the list has not, ...
LEMMA TailKinds ==
    ASSUME NEW T, NEW s \in Seq(T), s # <<>>, NEW K, \A i \in 1..Len(s) : s[i].kind \in K
    PROVE  Head(s).kind \in K /\ \A i \in 1..Len(Tail(s)) : Tail(s)[i].kind \in K
<1>1. /\ Len(Tail(s)) = Len(s) - 1 /\ \A i \in 1..Len(Tail(s)) : Tail(s)[i] = s[i + 1]
      /\ Len(s) \in Nat \ {0} /\ Head(s) = s[1]
  BY HeadTailProperties, EmptySeq
<1>2. \A i \in 1..Len(Tail(s)) : i + 1 \in 1..Len(s)
  BY <1>1
<1>3. 1 \in 1..Len(s)
  BY <1>1
<1> QED
  BY <1>1, <1>2, <1>3

\* ... nor have two lists, one after the other.
LEMMA ConcatKinds ==
    ASSUME NEW T, NEW s \in Seq(T), NEW r \in Seq(T), NEW K,
           \A i \in 1..Len(s) : s[i].kind \in K, \A i \in 1..Len(r) : r[i].kind \in K
    PROVE  \A i \in 1..Len(s \o r) : (s \o r)[i].kind \in K
<1>1. /\ Len(s) \in Nat /\ Len(r) \in Nat /\ Len(s \o r) = Len(s) + Len(r)
      /\ \A i \in 1..Len(s) + Len(r) : (s \o r)[i] = IF i <= Len(s) THEN s[i] ELSE r[i - Len(s)]
  BY LenProperties, ConcatProperties
<1> TAKE i \in 1..Len(s \o r)
<1>2. CASE i <= Len(s)
  <2>1. i \in 1..Len(s)
    BY <1>1, <1>2
  <2> QED
    BY <1>1, <1>2, <2>1
<1>3. CASE ~(i <= Len(s))
  <2>1. i - Len(s) \in 1..Len(r)
    BY <1>1, <1>3
  <2> QED
    BY <1>1, <1>3, <2>1
<1> QED
  BY <1>2, <1>3

\* A campaign is handled: what it was due becomes MaxBlocks rules at most.
LEMMA RespondStep ==
    ASSUME PipelineInv, NEW t \in Storer, NEW raised, RespondToCampaign(t, raised)
    PROVE  PipelineInv'
<1> DEFINE acts == CampaignActs(raised)
           rest == Tail(pending[t])
           list == acts \o rest
           K == {"campaign", "push", "block"}
<1>1. /\ pending[t] # <<>> /\ Head(pending[t]).kind = "campaign" /\ doing[t] = Idle
      /\ pending' = [pending EXCEPT ![t] = list]
      /\ UNCHANGED <<dryRun, stored, campaign, pushed, doing, hostVars, second, auditVars>>
  BY DEF RespondToCampaign, Next1
<1>2. Typed /\ pending \in [Storer -> Seq(Act)] /\ campaign \in Seq(Alert) /\ pending[t] \in Seq(Act)
  BY DEF PipelineInv, Typed
<1>3. /\ acts \in Seq(Act) /\ Due(acts) \in Nat /\ Due(acts) <= MaxBlocks
      /\ \A i \in 1..Len(acts) : acts[i].kind = "block"
  BY <1>2, CampaignActsAre
<1>4. /\ rest \in Seq(Act) /\ Due(rest) \in Nat /\ Due(pending[t]) \in Nat
      /\ Due(rest) = Due(pending[t]) - DueFor(Head(pending[t]))
  BY <1>1, <1>2, DueTail
<1>5. DueFor(Head(pending[t])) = MaxBlocks /\ MaxBlocks \in Nat
  BY <1>1, CapIs DEF DueFor
<1>6. t = "ticker" => \A i \in 1..Len(list) : list[i].kind \in K
  <2> SUFFICES ASSUME t = "ticker" PROVE \A i \in 1..Len(list) : list[i].kind \in K
    OBVIOUS
  <2>1. \A i \in 1..Len(pending[t]) : pending[t][i].kind \in K
    BY DEF PipelineInv, TickerOnlyBlocks
  <2> HIDE DEF acts
  <2>2. \A i \in 1..Len(acts) : acts[i].kind \in K
    BY <1>3
  <2> HIDE DEF K
  <2>3. \A i \in 1..Len(rest) : rest[i].kind \in K
    BY <1>1, <1>2, <2>1, TailKinds
  <2> QED
    BY <1>3, <1>4, <2>2, <2>3, ConcatKinds
<1> HIDE DEF acts, rest
<1>7. list \in Seq(Act) /\ Due(list) = Due(acts) + Due(rest)
  BY <1>3, <1>4, ConcatProperties, DueConcat
<1> HIDE DEF list
<1>8. pending'[t] = list /\ pending' \in [Storer -> Seq(Act)] /\ pending'[Other(t)] = pending[Other(t)]
  BY <1>1, <1>2, <1>7, Others
<1>9. Typed'
  BY <1>1, <1>8 DEF PipelineInv, Typed, hostVars, auditVars
<1>10. /\ RulesCount' /\ DryRunChangesNothing' /\ Acted' = Acted
       /\ AuditLog' = AuditLog /\ Allowed' = Allowed
       /\ InCount' = InCount /\ OutCount' = OutCount /\ InCount \in Nat /\ OutCount \in Nat
  BY <1>1, <1>2, NothingDone, AllowedIs DEF AuditLog, hostVars, auditVars
<1>11. NameIsFree'
  BY <1>1 DEF PipelineInv, NameIsFree, hostVars
<1>12. doing'[t] = Idle /\ doing'[Other(t)] = doing[Other(t)] /\ Idle.kind = "idle"
  BY <1>1 DEF Idle
<1>13. /\ DueIn(t)' = Due(list) /\ DueOut(t)' = Due(list) /\ Changed(t)' = 0 /\ Changed(t) = 0
       /\ DueIn(t) = Due(pending[t]) /\ DueOut(t) = Due(pending[t])
       /\ Allowed \in Int /\ Acted \in Int /\ AuditLog \in Int
  <2>1. Due(list) \in Nat
    BY <1>7, DueConcat
  <2> QED
    BY <1>1, <1>8, <1>12, <2>1, IdleIs, DueOfIs
<1>14. Due(list) <= Due(pending[t]) /\ Due(list) \in Int
  BY <1>3, <1>4, <1>5, <1>7
<1>15. /\ InCount' + DueIn(t)' - Allowed' <= InCount + DueIn(t) - Allowed
       /\ OutCount' + DueOut(t)' - Allowed' <= OutCount + DueOut(t) - Allowed
  BY <1>4, <1>10, <1>13, <1>14
<1>16. Acted' - AuditLog' - Changed(t)' = Acted - AuditLog - Changed(t)
  BY <1>10, <1>13
<1>17. Fits(t)'
  BY <1>6, <1>8, <1>12 DEF Fits
<1> QED
  BY <1>1, <1>8, <1>9, <1>10, <1>11, <1>12, <1>13, <1>15, <1>16, <1>17, Turn

\* A campaign is shown: nothing is due for it.
LEMMA PushStep ==
    ASSUME PipelineInv, NEW t \in Storer, Push(t)
    PROVE  PipelineInv'
<1> DEFINE rest == Tail(pending[t])
           K == {"campaign", "push", "block"}
<1>1. /\ pending[t] # <<>> /\ Head(pending[t]).kind = "push" /\ doing[t] = Idle
      /\ pushed' = Len(campaign) /\ pending' = [pending EXCEPT ![t] = rest]
      /\ UNCHANGED <<dryRun, stored, campaign, doing, hostVars, second, auditVars>>
  BY DEF Push, Next1
<1>2. Typed /\ pending \in [Storer -> Seq(Act)] /\ pending[t] \in Seq(Act)
  BY DEF PipelineInv, Typed
<1>3. /\ rest \in Seq(Act) /\ Due(rest) \in Nat /\ Due(pending[t]) \in Nat
      /\ Due(rest) = Due(pending[t]) - DueFor(Head(pending[t]))
  BY <1>1, <1>2, DueTail
<1>4. DueFor(Head(pending[t])) = 0
  BY <1>1 DEF DueFor
<1>6. t = "ticker" => \A i \in 1..Len(rest) : rest[i].kind \in K
  <2> SUFFICES ASSUME t = "ticker" PROVE \A i \in 1..Len(rest) : rest[i].kind \in K
    OBVIOUS
  <2>1. \A i \in 1..Len(pending[t]) : pending[t][i].kind \in K
    BY DEF PipelineInv, TickerOnlyBlocks
  <2> HIDE DEF K
  <2> QED
    BY <1>1, <1>2, <2>1, TailKinds
<1> HIDE DEF rest
<1>8. pending'[t] = rest /\ pending' \in [Storer -> Seq(Act)] /\ pending'[Other(t)] = pending[Other(t)]
  BY <1>1, <1>2, <1>3, Others
<1>9. Typed'
  <2>1. pushed' \in 0..stored'
    BY <1>1, CapIs DEF PipelineInv, Typed
  <2> QED
    BY <1>1, <1>8, <2>1 DEF PipelineInv, Typed, hostVars, auditVars
<1>10. /\ RulesCount' /\ DryRunChangesNothing' /\ Acted' = Acted
       /\ AuditLog' = AuditLog /\ Allowed' = Allowed
       /\ InCount' = InCount /\ OutCount' = OutCount /\ InCount \in Nat /\ OutCount \in Nat
  BY <1>1, <1>2, NothingDone, AllowedIs DEF AuditLog, hostVars, auditVars
<1>11. NameIsFree'
  BY <1>1 DEF PipelineInv, NameIsFree, hostVars
<1>12. doing'[t] = Idle /\ doing'[Other(t)] = doing[Other(t)] /\ Idle.kind = "idle"
  BY <1>1 DEF Idle
<1>13. /\ DueIn(t)' = Due(rest) /\ DueOut(t)' = Due(rest) /\ Changed(t)' = 0 /\ Changed(t) = 0
       /\ DueIn(t) = Due(pending[t]) /\ DueOut(t) = Due(pending[t])
       /\ Allowed \in Int /\ Acted \in Int /\ AuditLog \in Int
  <2>1. Due(rest) \in Nat
    BY <1>3
  <2> QED
    BY <1>1, <1>8, <1>12, <2>1, IdleIs, DueOfIs
<1>14. Due(rest) <= Due(pending[t]) /\ Due(rest) \in Int
  BY <1>3, <1>4
<1>15. /\ InCount' + DueIn(t)' - Allowed' <= InCount + DueIn(t) - Allowed
       /\ OutCount' + DueOut(t)' - Allowed' <= OutCount + DueOut(t) - Allowed
  BY <1>3, <1>10, <1>13, <1>14
<1>16. Acted' - AuditLog' - Changed(t)' = Acted - AuditLog - Changed(t)
  BY <1>10, <1>13
<1>17. Fits(t)'
  BY <1>6, <1>8, <1>12 DEF Fits
<1> QED
  BY <1>1, <1>8, <1>9, <1>10, <1>11, <1>12, <1>13, <1>15, <1>16, <1>17, Turn

\* An act is done, and now to be audited.
LEMMA DidIs ==
    ASSUME PipelineInv, NEW t \in Storer, NEW n \in Nat, NEW success \in BOOLEAN, Did(t, n, success),
           UNCHANGED <<pending, stored, campaign>>,
           pending[t] # <<>>, Head(pending[t]).kind \in {"block", "kill", "quarantine"}
    PROVE  /\ doing' \in [Storer -> Doing] /\ doing'[Other(t)] = doing[Other(t)]
           /\ pending'[Other(t)] = pending[Other(t)]
           /\ doing'[t].kind # "move" /\ Fits(t)' /\ Changed(t)' = n
           /\ Due(Tail(pending[t])) \in Nat
           /\ DueIn(t)' = Due(Tail(pending[t])) /\ DueOut(t)' = Due(Tail(pending[t]))
           /\ Due(pending[t]) = Due(Tail(pending[t])) + (IF Head(pending[t]).kind = "block" THEN 1 ELSE 0)
           /\ Allowed \in Int /\ Allowed' = Allowed
<1> DEFINE done == [kind |-> Head(pending[t]).kind, changed |-> n, success |-> success]
<1>1. /\ Typed /\ doing \in [Storer -> Doing] /\ pending[t] \in Seq(Act)
      /\ doing' = [doing EXCEPT ![t] = done]
  BY DEF PipelineInv, Typed, Did
<1>2. done \in Doing /\ done.kind = Head(pending[t]).kind /\ done.changed = n
  BY DEF Doing
<1> HIDE DEF done
<1>3. doing' \in [Storer -> Doing] /\ doing'[t] = done /\ doing'[Other(t)] = doing[Other(t)]
  BY <1>1, <1>2, Others
<1>4. done.kind # "move" /\ done.kind # "half" /\ ActOf(done.kind) = done.kind
  BY <1>2 DEF ActOf
<1>5. t = "ticker" => \A i \in 1..Len(pending'[t]) : pending'[t][i].kind \in {"campaign", "push", "block"}
  BY DEF PipelineInv, TickerOnlyBlocks
<1>6. Fits(t)'
  BY <1>2, <1>3, <1>4, <1>5 DEF Fits
<1>7. /\ Due(Tail(pending[t])) \in Nat /\ Due(pending[t]) \in Nat /\ DueFor(Head(pending[t])) \in Nat
      /\ Due(Tail(pending[t])) = Due(pending[t]) - DueFor(Head(pending[t]))
  BY <1>1, DueTail
<1>8. DueFor(Head(pending[t])) = IF Head(pending[t]).kind = "block" THEN 1 ELSE 0
  BY DEF DueFor
<1>9. Due(pending[t]) = Due(Tail(pending[t])) + (IF Head(pending[t]).kind = "block" THEN 1 ELSE 0)
  BY <1>7, <1>8
<1>10. DueIn(t)' = Due(Tail(pending[t])) /\ DueOut(t)' = Due(Tail(pending[t]))
  <2>1. DueIn(t)' = Due(pending[t]) - InDone(t)' /\ DueOut(t)' = Due(pending[t]) - OutDone(t)'
    BY DEF DueIn, DueOut
  <2>2. /\ InDone(t)' = IF Head(pending[t]).kind = "block" THEN 1 ELSE 0
        /\ OutDone(t)' = IF Head(pending[t]).kind = "block" THEN 1 ELSE 0
    BY <1>2, <1>3 DEF InDone, OutDone
  <2> QED
    BY <1>7, <1>8, <2>1, <2>2
<1>11. Allowed \in Int /\ Allowed' = Allowed /\ Changed(t)' = n
  BY <1>1, <1>2, <1>3, AllowedIs DEF Changed
<1> QED
  BY <1>3, <1>2, <1>4, <1>6, <1>7, <1>9, <1>10, <1>11

\* Only the worker has files to quarantine.
LEMMA WorkerMoves ==
    ASSUME PipelineInv, NEW t \in Storer, pending[t] # <<>>, Head(pending[t]).kind = "quarantine"
    PROVE  t = "worker" /\ Other(t) = "ticker"
<1>1. pending[t] \in Seq(Act)
  BY DEF PipelineInv, Typed
<1>2. t # "ticker"
  <2> SUFFICES ASSUME t = "ticker" PROVE FALSE
    OBVIOUS
  <2> DEFINE K == {"campaign", "push", "block"}
  <2>1. \A i \in 1..Len(pending[t]) : pending[t][i].kind \in K
    BY DEF PipelineInv, TickerOnlyBlocks
  <2> HIDE DEF K
  <2>2. Head(pending[t]).kind \in K
    BY <1>1, <2>1, TailKinds
  <2> QED
    BY <2>2 DEF K
<1> QED
  BY <1>2 DEF Storer, Other

\* An act that changes nothing: a dry run says what it would do, or a file is
\* refused.
LEMMA NoActStep ==
    ASSUME PipelineInv, NEW t \in Storer, doing[t] = Idle, NEW success \in BOOLEAN, Did(t, 0, success),
           pending[t] # <<>>, Head(pending[t]).kind \in {"block", "kill", "quarantine"},
           UNCHANGED <<dryRun, stored, campaign, pushed, pending, hostVars, second, auditVars>>
    PROVE  PipelineInv'
<1>1. Typed /\ 0 \in Nat
  BY DEF PipelineInv
<1>2. /\ RulesCount' /\ DryRunChangesNothing' /\ Acted' = Acted /\ AuditLog' = AuditLog
      /\ InCount' = InCount /\ OutCount' = OutCount /\ InCount \in Nat /\ OutCount \in Nat
  BY NothingDone DEF AuditLog, hostVars, auditVars
<1>3. /\ DueIn(t) = Due(pending[t]) /\ DueOut(t) = Due(pending[t]) /\ Changed(t) = 0
      /\ Acted \in Int /\ AuditLog \in Int
  BY DueOfIs
<1>4. /\ doing' \in [Storer -> Doing] /\ doing'[Other(t)] = doing[Other(t)]
      /\ pending'[Other(t)] = pending[Other(t)]
      /\ doing'[t].kind # "move" /\ Fits(t)' /\ Changed(t)' = 0
      /\ Due(Tail(pending[t])) \in Nat
      /\ DueIn(t)' = Due(Tail(pending[t])) /\ DueOut(t)' = Due(Tail(pending[t]))
      /\ Due(pending[t]) = Due(Tail(pending[t])) + (IF Head(pending[t]).kind = "block" THEN 1 ELSE 0)
      /\ Allowed \in Int /\ Allowed' = Allowed
  BY <1>1, DidIs
<1>5. Typed'
  BY <1>1, <1>4 DEF Typed, hostVars, auditVars
<1>6. NameIsFree'
  BY <1>4 DEF PipelineInv, NameIsFree, Storer, Other, hostVars
<1>7. Acted' - AuditLog' - Changed(t)' = Acted - AuditLog - Changed(t)
  BY <1>2, <1>3, <1>4
<1>8. /\ InCount' + DueIn(t)' - Allowed' <= InCount + DueIn(t) - Allowed
      /\ OutCount' + DueOut(t)' - Allowed' <= OutCount + DueOut(t) - Allowed
  BY <1>2, <1>3, <1>4
<1> QED
  BY <1>2, <1>4, <1>5, <1>6, <1>7, <1>8, Turn

LEMMA PreviewStep ==
    ASSUME PipelineInv, NEW t \in Storer, Preview(t)
    PROVE  PipelineInv'
  BY NoActStep DEF Preview, Next1

\* The address of a block may be blocked.
LEMMA BlockIsBlockable ==
    ASSUME PipelineInv, NEW t \in Storer, pending[t] # <<>>, Head(pending[t]).kind = "block"
    PROVE  Head(pending[t]).ip \in Blockable /\ Head(pending[t]).ip \in Ip
<1>1. pending[t] \in Seq(Act)
  BY DEF PipelineInv, Typed
<1>2. Head(pending[t]) \in Act
  BY <1>1, DueTail
<1>3. \A x \in Act : x.kind = "block" => x.ip \in Blockable
  BY DEF Act
<1> QED
  BY <1>2, <1>3, CapIs

\* The first command of a block: a rule for what comes in, or none.
LEMMA InputStep ==
    ASSUME PipelineInv, NEW t \in Storer, NEW done \in BOOLEAN, NEW success \in BOOLEAN,
           InsertInput(t, done, success)
    PROVE  PipelineInv'
<1> DEFINE ip == Head(pending[t]).ip
           half == [kind |-> "half", changed |-> Once(done), success |-> success]
<1>1. /\ pending[t] # <<>> /\ Head(pending[t]).kind = "block" /\ doing[t] = Idle /\ ~dryRun
      /\ inRules' = Inserted(inRules, ip, done) /\ doing' = [doing EXCEPT ![t] = half]
      /\ UNCHANGED <<dryRun, stored, campaign, pushed, pending, outRules, process, killed, files,
                     disarmed, quarantine, second, auditVars>>
  BY DEF InsertInput, Next1
<1>2. /\ Typed /\ inRules \in [Ip -> Nat] /\ doing \in [Storer -> Doing]
      /\ IsFiniteSet(RuleSet(inRules)) /\ IsFiniteSet(RuleSet(outRules))
  BY DEF PipelineInv, Typed, RulesCount
<1>3. ip \in Blockable /\ ip \in Ip
  BY <1>1, BlockIsBlockable
<1> HIDE DEF ip
<1>4. /\ IsFiniteSet(RuleSet(inRules')) /\ Rules(inRules) \in Nat
      /\ Rules(inRules') = Rules(inRules) + Once(done) /\ Once(done) \in {0, 1}
      /\ inRules' \in [Ip -> Nat] /\ \A i \in Ip : i # ip => inRules'[i] = inRules[i]
  BY <1>1, <1>2, <1>3, InsertedIs
<1>5. RulesCount' /\ InCount' = InCount + Once(done) /\ OutCount' = OutCount
  BY <1>1, <1>2, <1>4 DEF RulesCount, InCount, OutCount
<1>6. /\ pending[t] \in Seq(Act) /\ Due(pending[t]) \in Nat /\ InCount \in Nat /\ OutCount \in Nat
      /\ DueIn(t) = Due(pending[t]) /\ DueOut(t) = Due(pending[t]) /\ Changed(t) = 0
      /\ Allowed \in Int /\ Acted \in Int /\ AuditLog \in Int
  BY <1>1, DueOfIs
<1>7. half \in Doing /\ half.kind = "half" /\ half.changed = Once(done)
  BY <1>4 DEF Doing
<1> HIDE DEF half
<1>8. doing' \in [Storer -> Doing] /\ doing'[t] = half /\ doing'[Other(t)] = doing[Other(t)]
  BY <1>1, <1>2, <1>7, Others
<1>9. Typed'
  <2>1. \A i \in Ip \ Blockable : inRules'[i] = 0
    BY <1>2, <1>3, <1>4 DEF Typed
  <2> QED
    BY <1>1, <1>2, <1>4, <1>8, <2>1 DEF Typed, auditVars
<1>10. NameIsFree' /\ DryRunChangesNothing'
  BY <1>1, <1>7, <1>8 DEF PipelineInv, NameIsFree, DryRunChangesNothing, Storer, Other
<1>11. Fits(t)'
  BY <1>1, <1>7, <1>8 DEF Fits, ActOf, PipelineInv, TickerOnlyBlocks
<1>12. Allowed' = Allowed
  BY <1>1, <1>2, AllowedIs
<1>13. Changed(t)' = Once(done)
  BY <1>7, <1>8 DEF Changed
<1>14. DueIn(t)' = Due(pending[t]) - 1 /\ DueOut(t)' = Due(pending[t])
  <2>1. InDone(t)' = 1 /\ OutDone(t)' = 0
    BY <1>7, <1>8 DEF InDone, OutDone
  <2>2. DueIn(t)' = Due(pending[t]) - InDone(t)' /\ DueOut(t)' = Due(pending[t]) - OutDone(t)'
    BY <1>1 DEF DueIn, DueOut
  <2> QED
    BY <1>6, <2>1, <2>2
<1>15. Acted' - AuditLog' - Changed(t)' = Acted - AuditLog - Changed(t)
  <2>1. killed \in Nat /\ disarmed \in Nat /\ Cardinality(quarantine) \in Nat /\ AuditLog' = AuditLog
    BY <1>1, <1>2, FS_CardinalityType DEF Typed, AuditLog, auditVars
  <2>2. /\ Acted' = InCount' + OutCount' + killed + disarmed + Cardinality(quarantine)
        /\ Acted = InCount + OutCount + killed + disarmed + Cardinality(quarantine)
    BY <1>1 DEF Acted
  <2>3. Acted' = Acted + Once(done)
    BY <1>4, <1>5, <1>6, <2>1, <2>2, SMTT(30)
  <2> QED
    BY <1>4, <1>6, <1>13, <2>1, <2>3
<1>16. /\ InCount' + DueIn(t)' - Allowed' <= InCount + DueIn(t) - Allowed
       /\ OutCount' + DueOut(t)' - Allowed' <= OutCount + DueOut(t) - Allowed
  BY <1>4, <1>5, <1>6, <1>12, <1>14
<1> QED
  BY <1>1, <1>5, <1>6, <1>8, <1>9, <1>10, <1>11, <1>12, <1>15, <1>16, Turn

\* The second command: a rule for what goes out, or none.
LEMMA OutputStep ==
    ASSUME PipelineInv, NEW t \in Storer, NEW done \in BOOLEAN, NEW success \in BOOLEAN,
           InsertOutput(t, done, success)
    PROVE  PipelineInv'
<1> DEFINE ip == Head(pending[t]).ip
           n == doing[t].changed + Once(done)
           both == doing[t].success /\ success
<1>1. /\ doing[t].kind = "half"
      /\ outRules' = Inserted(outRules, ip, done) /\ Did(t, n, both)
      /\ UNCHANGED <<dryRun, stored, campaign, pushed, pending, inRules, process, killed, files,
                     disarmed, quarantine, second, auditVars>>
  BY DEF InsertOutput
<1>2. /\ Typed /\ outRules \in [Ip -> Nat] /\ doing[t] \in Doing
      /\ IsFiniteSet(RuleSet(inRules)) /\ IsFiniteSet(RuleSet(outRules))
  BY DEF PipelineInv, Typed, RulesCount
<1>3. /\ doing[t] # Idle /\ ~dryRun /\ doing[t].changed \in Nat
      /\ doing[t].success \in BOOLEAN
  <2>1. doing[t] # Idle
    BY <1>1 DEF Idle
  <2>2. doing[t].changed \in Nat /\ doing[t].success \in BOOLEAN
    BY <1>2, <2>1 DEF Doing
  <2> QED
    BY <1>1, <2>1, <2>2 DEF PipelineInv, HalfIsReal
<1>4. /\ pending[t] # <<>> /\ Head(pending[t]).kind = "block"
      /\ DueIn(t) = Due(Tail(pending[t])) /\ DueOut(t) = Due(Tail(pending[t])) + 1
      /\ InCount \in Nat /\ OutCount \in Nat /\ Acted \in Int /\ AuditLog \in Int
  BY <1>1, <1>3, DueOfIs DEF ActOf
<1>5. ip \in Blockable /\ ip \in Ip
  BY <1>4, BlockIsBlockable
<1> HIDE DEF ip
<1>6. /\ IsFiniteSet(RuleSet(outRules')) /\ Rules(outRules) \in Nat
      /\ Rules(outRules') = Rules(outRules) + Once(done) /\ Once(done) \in {0, 1}
      /\ outRules' \in [Ip -> Nat] /\ \A i \in Ip : i # ip => outRules'[i] = outRules[i]
  BY <1>1, <1>2, <1>5, InsertedIs
<1>7. RulesCount' /\ OutCount' = OutCount + Once(done) /\ InCount' = InCount
  BY <1>1, <1>2, <1>6 DEF RulesCount, InCount, OutCount
<1>8. n \in Nat /\ both \in BOOLEAN
  BY <1>3, <1>6
<1> HIDE DEF both
<1>9. /\ doing' \in [Storer -> Doing] /\ doing'[Other(t)] = doing[Other(t)]
      /\ pending'[Other(t)] = pending[Other(t)]
      /\ doing'[t].kind # "move" /\ Fits(t)' /\ Changed(t)' = n
      /\ Due(Tail(pending[t])) \in Nat
      /\ DueIn(t)' = Due(Tail(pending[t])) /\ DueOut(t)' = Due(Tail(pending[t]))
      /\ Allowed \in Int /\ Allowed' = Allowed
  <2> HIDE DEF n
  <2> QED
    BY <1>1, <1>4, <1>8, DidIs
<1>10. Typed'
  <2>1. \A i \in Ip \ Blockable : outRules'[i] = 0
    BY <1>2, <1>5, <1>6 DEF Typed
  <2> QED
    BY <1>1, <1>2, <1>6, <1>9, <2>1 DEF Typed, auditVars
<1>11. NameIsFree' /\ DryRunChangesNothing'
  BY <1>1, <1>3, <1>9 DEF PipelineInv, NameIsFree, DryRunChangesNothing, Storer, Other
<1>12. Acted' - AuditLog' - Changed(t)' = Acted - AuditLog - Changed(t)
  <2>1. killed \in Nat /\ disarmed \in Nat /\ Cardinality(quarantine) \in Nat /\ AuditLog' = AuditLog
    BY <1>1, <1>2, FS_CardinalityType DEF Typed, AuditLog, auditVars
  <2>2. /\ Acted' = InCount' + OutCount' + killed + disarmed + Cardinality(quarantine)
        /\ Acted = InCount + OutCount + killed + disarmed + Cardinality(quarantine)
    BY <1>1 DEF Acted
  <2>3. Acted' = Acted + Once(done)
    BY <1>4, <1>6, <1>7, <2>1, <2>2
  <2>4. Changed(t)' = Changed(t) + Once(done) /\ Changed(t) \in Nat
    BY <1>3, <1>9 DEF Changed
  <2> QED
    BY <1>4, <1>6, <2>1, <2>3, <2>4
<1>13. /\ InCount' + DueIn(t)' - Allowed' <= InCount + DueIn(t) - Allowed
       /\ OutCount' + DueOut(t)' - Allowed' <= OutCount + DueOut(t) - Allowed
  BY <1>4, <1>6, <1>7, <1>9
<1> QED
  BY <1>1, <1>7, <1>9, <1>10, <1>11, <1>12, <1>13, Turn

\* A process is killed, or not.
LEMMA KillStep ==
    ASSUME PipelineInv, NEW t \in Storer, NEW done \in BOOLEAN, KillProcess(t, done)
    PROVE  PipelineInv'
<1> DEFINE success == done \/ process = "gone"
<1>1. /\ pending[t] # <<>> /\ Head(pending[t]).kind = "kill" /\ doing[t] = Idle /\ ~dryRun
      /\ process' = IF done THEN "gone" ELSE process
      /\ killed' = killed + Once(done) /\ Did(t, Once(done), success)
      /\ UNCHANGED <<dryRun, stored, campaign, pushed, pending, inRules, outRules, files, disarmed,
                     quarantine, second, auditVars>>
  BY DEF KillProcess, Next1
<1>2. Typed /\ RulesCount /\ killed \in Nat /\ Once(done) \in Nat /\ success \in BOOLEAN
  BY DEF PipelineInv, Typed, Once
<1> HIDE DEF success
<1>3. /\ doing' \in [Storer -> Doing] /\ doing'[Other(t)] = doing[Other(t)]
      /\ pending'[Other(t)] = pending[Other(t)]
      /\ doing'[t].kind # "move" /\ Fits(t)' /\ Changed(t)' = Once(done)
      /\ Due(Tail(pending[t])) \in Nat
      /\ DueIn(t)' = Due(Tail(pending[t])) /\ DueOut(t)' = Due(Tail(pending[t]))
      /\ Due(pending[t]) = Due(Tail(pending[t])) + (IF Head(pending[t]).kind = "block" THEN 1 ELSE 0)
      /\ Allowed \in Int /\ Allowed' = Allowed
  BY <1>1, <1>2, DidIs
<1>4. Typed'
  BY <1>1, <1>2, <1>3 DEF Typed, auditVars
<1>5. RulesCount' /\ InCount' = InCount /\ OutCount' = OutCount
  BY <1>1, <1>2 DEF RulesCount, InCount, OutCount
<1>6. NameIsFree' /\ DryRunChangesNothing'
  BY <1>1, <1>3 DEF PipelineInv, NameIsFree, DryRunChangesNothing, Storer, Other
<1>8. /\ DueIn(t) = Due(pending[t]) /\ DueOut(t) = Due(pending[t]) /\ Changed(t) = 0
      /\ InCount \in Nat /\ OutCount \in Nat /\ Acted \in Int /\ AuditLog \in Int
  BY <1>1, DueOfIs
<1>9. Acted' - AuditLog' - Changed(t)' = Acted - AuditLog - Changed(t)
  <2>1. disarmed \in Nat /\ Cardinality(quarantine) \in Nat /\ AuditLog' = AuditLog
    BY <1>1, <1>2, FS_CardinalityType DEF Typed, AuditLog, auditVars
  <2>2. /\ Acted' = InCount' + OutCount' + killed' + disarmed + Cardinality(quarantine)
        /\ Acted = InCount + OutCount + killed + disarmed + Cardinality(quarantine)
    BY <1>1 DEF Acted
  <2>4. Acted' = Acted + Once(done)
    BY <1>1, <1>2, <1>5, <1>8, <2>1, <2>2, SMTT(30)
  <2> QED
    BY <1>2, <1>3, <1>8, <2>1, <2>4
<1>10. /\ InCount' + DueIn(t)' - Allowed' <= InCount + DueIn(t) - Allowed
       /\ OutCount' + DueOut(t)' - Allowed' <= OutCount + DueOut(t) - Allowed
  BY <1>1, <1>3, <1>5, <1>8
<1> QED
  BY <1>1, <1>3, <1>4, <1>5, <1>6, <1>9, <1>10, Turn

\* A file is refused, or a name that is free is found for it.
LEMMA CheckStep ==
    ASSUME PipelineInv, NEW t \in Storer, CheckFile(t)
    PROVE  PipelineInv'
<1>1. /\ pending[t] # <<>> /\ Head(pending[t]).kind = "quarantine" /\ doing[t] = Idle
      /\ UNCHANGED <<dryRun, stored, campaign, pushed, pending, hostVars, second, auditVars>>
  BY DEF CheckFile, Next1
<1>2. Typed /\ doing \in [Storer -> Doing] /\ dryRun \in BOOLEAN
  BY DEF PipelineInv, Typed
<1>3. CASE Did(t, 0, dryRun)
  BY <1>1, <1>2, <1>3, NoActStep
<1>4. CASE ~Did(t, 0, dryRun)
  <2> DEFINE dest == UniqueDest(quarantine)
             move == [kind |-> "move", changed |-> 0, success |-> FALSE, dest |-> dest]
  <2>1. ~dryRun /\ doing' = [doing EXCEPT ![t] = move]
    BY <1>4 DEF CheckFile
  <2>2. dest \in Dest /\ dest \notin quarantine
    BY <1>2, DestIsFree DEF Typed
  <2> HIDE DEF dest
  <2>3. /\ move \in Doing /\ move.kind = "move" /\ move.changed = 0 /\ move.dest = dest
        /\ move # Idle
    <3>1. move.kind # Idle.kind
      BY DEF Idle
    <3> QED
      BY <2>2, <3>1 DEF Doing
  <2> HIDE DEF move
  <2>4. doing' \in [Storer -> Doing] /\ doing'[t] = move /\ doing'[Other(t)] = doing[Other(t)]
    BY <1>2, <2>1, <2>3, Others
  <2>5. Typed'
    BY <1>1, <1>2, <2>4 DEF Typed, hostVars, auditVars
  <2>6. t = "worker" /\ Other(t) = "ticker"
    BY <1>1, WorkerMoves
  <2>7. NameIsFree'
    BY <1>1, <2>1, <2>2, <2>3, <2>4, <2>6 DEF NameIsFree, hostVars
  <2>8. Changed(t)' = 0 /\ InDone(t)' = 0 /\ OutDone(t)' = 0
    BY <2>3, <2>4 DEF Changed, InDone, OutDone
  <2>9. /\ DueIn(t)' = Due(pending[t]) - InDone(t)' /\ DueOut(t)' = Due(pending[t]) - OutDone(t)'
    BY <1>1 DEF DueIn, DueOut
  <2>10. /\ Due(pending[t]) \in Nat /\ DueIn(t) = Due(pending[t]) /\ DueOut(t) = Due(pending[t])
         /\ Changed(t) = 0 /\ Acted \in Int /\ AuditLog \in Int /\ Allowed \in Int
    BY <1>1, DueOfIs
  <2>11. /\ RulesCount' /\ DryRunChangesNothing' /\ Acted' = Acted /\ AuditLog' = AuditLog
         /\ InCount' = InCount /\ OutCount' = OutCount /\ InCount \in Nat /\ OutCount \in Nat
    BY <1>1, NothingDone DEF AuditLog, hostVars, auditVars
  <2>12. Allowed' = Allowed
    BY <1>1, <1>2, AllowedIs
  <2>13. Acted' - AuditLog' - Changed(t)' = Acted - AuditLog - Changed(t)
    BY <2>8, <2>10, <2>11
  <2>14. /\ InCount' + DueIn(t)' - Allowed' <= InCount + DueIn(t) - Allowed
         /\ OutCount' + DueOut(t)' - Allowed' <= OutCount + DueOut(t) - Allowed
    BY <2>8, <2>9, <2>10, <2>11, <2>12
  <2>15. Fits(t)'
    BY <1>1, <2>3, <2>4, <2>6 DEF Fits, ActOf
  <2> QED
    BY <1>1, <2>4, <2>5, <2>7, <2>10, <2>11, <2>12, <2>13, <2>14, <2>15, Turn
<1> QED
  BY <1>3, <1>4

\* The file is moved or copied under the name, which is still free, or it is
\* not; its execute bits may be taken either way.
LEMMA MoveStep ==
    ASSUME PipelineInv, NEW t \in Storer, NEW disarm \in BOOLEAN,
           NEW outcome \in {"moved", "copied", "failed"}, MoveFile(t, disarm, outcome)
    PROVE  PipelineInv'
<1> DEFINE path == Head(pending[t]).path
           dest == doing[t].dest
           taken == disarm /\ files[path] = "regular"
           named == outcome # "failed"
           n == Once(taken) + Once(named)
           success == outcome = "moved"
<1>1. /\ doing[t].kind = "move"
      /\ files' = [files EXCEPT ![path] =
            IF outcome = "moved" THEN "gone" ELSE IF taken THEN "inert" ELSE files[path]]
      /\ disarmed' = disarmed + Once(taken)
      /\ quarantine' = IF named THEN quarantine \cup {dest} ELSE quarantine
      /\ Did(t, n, success)
      /\ UNCHANGED <<dryRun, stored, campaign, pushed, pending, inRules, outRules, process, killed,
                     second, auditVars>>
  BY DEF MoveFile
<1>2. /\ Typed /\ RulesCount /\ doing[t] \in Doing /\ IsFiniteSet(quarantine) /\ disarmed \in Nat
  BY DEF PipelineInv, Typed
<1>3. doing[t] # Idle /\ doing[t].changed = 0
  <2>1. Idle.kind = "idle"
    BY DEF Idle
  <2>2. \A d \in Doing : d.kind = "move" => d.changed = 0
    BY <2>1 DEF Doing
  <2> QED
    BY <1>1, <1>2, <2>1, <2>2
<1>4. /\ pending[t] # <<>> /\ Head(pending[t]).kind = "quarantine" /\ Head(pending[t]) \in Act
      /\ DueIn(t) = Due(Tail(pending[t])) /\ DueOut(t) = Due(Tail(pending[t])) + 0
      /\ InCount \in Nat /\ OutCount \in Nat /\ Acted \in Int /\ AuditLog \in Int
  BY <1>1, <1>3, DueOfIs DEF ActOf
<1>5. t = "worker" /\ Other(t) = "ticker"
  BY <1>4, WorkerMoves
<1>6. dest \notin quarantine /\ ~dryRun
  BY <1>1, <1>5 DEF PipelineInv, NameIsFree
<1>7. files' \in [FilePath -> FileState]
  <2>1. files \in [FilePath -> FileState]
    BY <1>2 DEF Typed
  <2>2. \A p \in FilePath : files'[p] \in FileState
    BY <1>1, <2>1 DEF FileState
  <2> QED
    BY <1>1, <2>1, <2>2
<1> HIDE DEF taken, named, success, path, dest
<1>8. /\ Once(taken) \in {0, 1} /\ Once(named) \in {0, 1} /\ n \in Nat /\ success \in BOOLEAN
  BY DEF Once, success
<1>9. /\ doing' \in [Storer -> Doing] /\ doing'[Other(t)] = doing[Other(t)]
      /\ pending'[Other(t)] = pending[Other(t)]
      /\ doing'[t].kind # "move" /\ Fits(t)' /\ Changed(t)' = n
      /\ Due(Tail(pending[t])) \in Nat
      /\ DueIn(t)' = Due(Tail(pending[t])) /\ DueOut(t)' = Due(Tail(pending[t]))
      /\ Allowed \in Int /\ Allowed' = Allowed
  <2> HIDE DEF n
  <2> QED
    BY <1>1, <1>4, <1>8, DidIs
<1>10. /\ IsFiniteSet(quarantine') /\ Cardinality(quarantine) \in Nat
       /\ Cardinality(quarantine') = Cardinality(quarantine) + Once(named)
  <2>1. Cardinality(quarantine) \in Nat
    BY <1>2, FS_CardinalityType
  <2>2. CASE named
    BY <1>1, <1>2, <1>6, <2>1, <2>2, FS_AddElement DEF Once
  <2>3. CASE ~named
    BY <1>1, <1>2, <2>1, <2>3 DEF Once
  <2> QED
    BY <2>1, <2>2, <2>3
<1>11. Typed'
  <2>1. disarmed' \in Nat
    BY <1>1, <1>2, <1>8
  <2> QED
    BY <1>1, <1>2, <1>7, <1>9, <1>10, <2>1 DEF Typed, auditVars
<1>12. RulesCount' /\ InCount' = InCount /\ OutCount' = OutCount
  BY <1>1, <1>2 DEF RulesCount, InCount, OutCount
<1>13. NameIsFree' /\ DryRunChangesNothing'
  BY <1>1, <1>5, <1>6, <1>9 DEF NameIsFree, DryRunChangesNothing
<1>14. Acted' - AuditLog' - Changed(t)' = Acted - AuditLog - Changed(t)
  <2>1. killed \in Nat /\ AuditLog' = AuditLog
    BY <1>1, <1>2 DEF Typed, AuditLog, auditVars
  <2>2. /\ Acted' = InCount' + OutCount' + killed + disarmed' + Cardinality(quarantine')
        /\ Acted = InCount + OutCount + killed + disarmed + Cardinality(quarantine)
    BY <1>1 DEF Acted
  <2>3. Acted' = Acted + Once(taken) + Once(named)
    BY <1>1, <1>2, <1>4, <1>8, <1>10, <1>12, <2>1, <2>2, SMTT(30)
  <2>4. Changed(t) = 0
    BY <1>3 DEF Changed
  <2> QED
    BY <1>4, <1>8, <1>9, <2>1, <2>3, <2>4
<1>15. /\ InCount' + DueIn(t)' - Allowed' <= InCount + DueIn(t) - Allowed
       /\ OutCount' + DueOut(t)' - Allowed' <= OutCount + DueOut(t) - Allowed
  BY <1>4, <1>9, <1>12
<1> QED
  BY <1>1, <1>9, <1>11, <1>12, <1>13, <1>14, <1>15, Turn

\* An act is audited, or its record is lost: then the rest of the list is
\* given up as well.
LEMMA AuditStep ==
    ASSUME PipelineInv, NEW t \in Storer, Audit(t) \/ AuditFails(t)
    PROVE  PipelineInv'
<1> DEFINE K == {"campaign", "push", "block"}
           n == doing[t].changed
<1>1. /\ doing[t].kind \in {"block", "kill", "quarantine"}
      /\ doing' = [doing EXCEPT ![t] = Idle]
      /\ pending' = [pending EXCEPT ![t] = Tail(pending[t])] \/ pending' = [pending EXCEPT ![t] = <<>>]
      /\ UNCHANGED <<dryRun, stored, campaign, pushed, hostVars, second>>
      /\ \/ audited' = audited + n /\ UNCHANGED <<misreported, unaudited>>
         \/ misreported' = misreported + n /\ UNCHANGED <<audited, unaudited>>
         \/ unaudited' = unaudited + n /\ UNCHANGED <<audited, misreported>>
  BY DEF Audit, AuditFails
<1>2. /\ Typed /\ doing \in [Storer -> Doing] /\ pending \in [Storer -> Seq(Act)]
      /\ audited \in Nat /\ misreported \in Nat /\ unaudited \in Nat /\ pending[t] \in Seq(Act)
  BY DEF PipelineInv, Typed
<1>3. doing[t] # Idle /\ doing[t].kind # "half"
  BY <1>1 DEF Idle
<1>4. /\ pending[t] # <<>> /\ Tail(pending[t]) \in Seq(Act) /\ Due(Tail(pending[t])) \in Nat
      /\ DueIn(t) = Due(Tail(pending[t])) /\ DueOut(t) = Due(Tail(pending[t]))
      /\ InCount \in Nat /\ OutCount \in Nat /\ Allowed \in Int
      /\ Acted \in Int /\ AuditLog \in Int /\ Changed(t) \in Nat
  BY <1>3, DueOfIs
<1>5. Idle \in Doing /\ <<>> \in Seq(Act) /\ Due(<<>>) = 0 /\ Len(<<>>) = 0
  BY EmptySeq, DueEmpty DEF Doing
<1>6. /\ doing' \in [Storer -> Doing] /\ doing'[t] = Idle /\ doing'[Other(t)] = doing[Other(t)]
      /\ pending' \in [Storer -> Seq(Act)] /\ pending'[Other(t)] = pending[Other(t)]
      /\ pending'[t] = Tail(pending[t]) \/ pending'[t] = <<>>
  BY <1>1, <1>2, <1>4, <1>5, Others, ZenonT(40)
<1>7. t = "ticker" => \A i \in 1..Len(pending'[t]) : pending'[t][i].kind \in K
  <2> SUFFICES ASSUME t = "ticker" PROVE \A i \in 1..Len(pending'[t]) : pending'[t][i].kind \in K
    OBVIOUS
  <2>1. \A i \in 1..Len(pending[t]) : pending[t][i].kind \in K
    BY DEF PipelineInv, TickerOnlyBlocks
  <2> HIDE DEF K
  <2>2. \A i \in 1..Len(Tail(pending[t])) : Tail(pending[t])[i].kind \in K
    BY <1>2, <1>4, <2>1, TailKinds
  <2>3. \A i \in 1..Len(<<>>) : FALSE
    BY <1>5
  <2>4. CASE pending'[t] = Tail(pending[t])
    BY <2>2, <2>4
  <2>5. CASE pending'[t] = <<>>
    BY <2>3, <2>5
  <2> QED
    BY <1>6, <2>4, <2>5
<1>8. n \in Nat /\ Changed(t) = n
  BY <1>4 DEF Changed
<1> HIDE DEF n
<1>9. /\ audited' \in Nat /\ misreported' \in Nat /\ unaudited' \in Nat
      /\ AuditLog' = AuditLog + n
  <2>1. audited' \in Nat /\ misreported' \in Nat /\ unaudited' \in Nat
    BY <1>1, <1>2, <1>8
  <2>2. /\ AuditLog = audited + misreported + unaudited
        /\ AuditLog' = audited' + misreported' + unaudited'
    BY DEF AuditLog
  <2>3. AuditLog' = AuditLog + n
    BY <1>1, <1>2, <1>8, <2>2, SMTT(30)
  <2> QED
    BY <2>1, <2>3
<1>10. Typed'
  BY <1>1, <1>2, <1>6, <1>9 DEF Typed, hostVars
<1>11. /\ RulesCount' /\ DryRunChangesNothing' /\ Acted' = Acted /\ Allowed' = Allowed
       /\ InCount' = InCount /\ OutCount' = OutCount
  BY <1>1, <1>2, NothingDone, AllowedIs DEF hostVars
<1>12. NameIsFree'
  <2>1. Idle.kind # "move"
    BY DEF Idle
  <2> QED
    BY <1>1, <1>6, <2>1, Others DEF PipelineInv, NameIsFree, Storer, Other, hostVars
<1>13. /\ DueIn(t)' = Due(pending'[t]) /\ DueOut(t)' = Due(pending'[t]) /\ Changed(t)' = 0
       /\ Due(pending'[t]) \in Nat /\ Due(pending'[t]) <= Due(Tail(pending[t]))
  <2>1. Due(pending'[t]) = Due(Tail(pending[t])) \/ Due(pending'[t]) = 0
    BY <1>5, <1>6
  <2>2. Due(pending'[t]) \in Nat /\ Due(pending'[t]) <= Due(Tail(pending[t]))
    BY <1>4, <2>1
  <2> QED
    BY <1>6, <2>2, IdleIs
<1>14. Acted' - AuditLog' - Changed(t)' = Acted - AuditLog - Changed(t)
  BY <1>4, <1>8, <1>9, <1>11, <1>13
<1>15. /\ InCount' + DueIn(t)' - Allowed' <= InCount + DueIn(t) - Allowed
       /\ OutCount' + DueOut(t)' - Allowed' <= OutCount + DueOut(t) - Allowed
  BY <1>4, <1>11, <1>13
<1>16. Fits(t)'
  <2>1. Idle.kind = "idle"
    BY DEF Idle
  <2> QED
    BY <1>6, <1>7, <2>1 DEF Fits
<1> QED
  BY <1>1, <1>4, <1>6, <1>10, <1>11, <1>12, <1>14, <1>15, <1>16, Turn

-----------------------------------------------------------------------------
(* The theorems                                                            *)

\* Nothing has been done, and nothing is due.
LEMMA PipelineStart == PipelineInit => PipelineInv
<1> SUFFICES ASSUME PipelineInit PROVE PipelineInv
  OBVIOUS
<1>1. /\ dryRun \in BOOLEAN /\ stored = 0 /\ campaign = <<>> /\ pushed = 0
      /\ pending = [t \in Storer |-> <<>>] /\ doing = [t \in Storer |-> Idle]
      /\ inRules = [i \in Ip |-> 0] /\ outRules = [i \in Ip |-> 0]
      /\ process = "suspect" /\ killed = 0
      /\ files = [p \in FilePath |-> "regular"] /\ disarmed = 0 /\ quarantine = {}
      /\ second = 0 /\ audited = 0 /\ misreported = 0 /\ unaudited = 0
  BY DEF PipelineInit
<1>2. IsFiniteSet({}) /\ Cardinality({}) = 0 /\ \A T : <<>> \in Seq(T) /\ Len(<<>>) = 0
  BY FS_EmptySet, EmptySeq
<1>3. Idle \in Doing /\ Idle.kind = "idle" /\ Idle.changed = 0
  BY DEF Doing, Idle
<1>4. \A t \in Storer : pending[t] = <<>> /\ doing[t] = Idle
  BY <1>1
<1>5. /\ pending \in [Storer -> Seq(Act)] /\ doing \in [Storer -> Doing]
      /\ inRules \in [Ip -> Nat] /\ \A i \in Ip : inRules[i] = 0
      /\ outRules \in [Ip -> Nat] /\ \A i \in Ip : outRules[i] = 0
  BY <1>1, <1>2, <1>3
<1>6. Typed
  <2>1. stored \in 0..MaxStored /\ pushed \in 0..stored
    BY <1>1, CapIs
  <2>2. campaign \in Seq(Alert) /\ Len(campaign) = stored
    BY <1>1, <1>2
  <2>3. files \in [FilePath -> FileState]
    BY <1>1 DEF FileState
  <2> QED
    BY <1>1, <1>2, <1>5, <2>1, <2>2, <2>3 DEF Typed
<1>7. RulesCount /\ InCount = 0 /\ OutCount = 0
  BY <1>5, NoRules DEF RulesCount, InCount, OutCount
<1>8. TickerOnlyBlocks
  BY <1>2, <1>4 DEF TickerOnlyBlocks, Storer
<1>9. UnderWay /\ HalfIsReal /\ NameIsFree /\ DryRunChangesNothing
  BY <1>1, <1>3, <1>4, <1>5 DEF UnderWay, HalfIsReal, NameIsFree, DryRunChangesNothing, Storer
<1>10. "worker" \in Storer /\ "ticker" \in Storer
  BY DEF Storer
<1>11. ActedIsAudited
  <2>1. InFlight = 0
    BY <1>3, <1>4, <1>10 DEF InFlight
  <2>2. Changes = 0
    BY <1>1, <1>2, <1>7 DEF Changes, InCount, OutCount
  <2> QED
    BY <1>1, <2>1, <2>2 DEF ActedIsAudited
<1>12. GrantedIn /\ GrantedOut
  <2>1. /\ DueIn("worker") = 0 /\ DueIn("ticker") = 0
        /\ DueOut("worker") = 0 /\ DueOut("ticker") = 0
    BY <1>3, <1>4, <1>10, DueEmpty DEF DueIn, DueOut, InDone, OutDone
  <2>2. Allowed >= 0
    <3>1. DOMAIN campaign = {}
      BY <1>1
    <3>2. ActiveAlerts = {}
      BY <3>1 DEF ActiveAlerts
    <3>3. MaxBlocks * 0 = 0
      BY CapIs
    <3> QED
      BY <1>1, <1>2, <3>2, <3>3 DEF Allowed
  <2> QED
    BY <1>6, <1>7, <2>1, <2>2, AllowedIs DEF GrantedIn, GrantedOut
<1> QED
  BY <1>6, <1>7, <1>8, <1>9, <1>11, <1>12 DEF PipelineInv

\* What happens on the host, and to the clock, changes none of it.
LEMMA HostStep ==
    ASSUME PipelineInv, UNCHANGED <<dryRun, stored, campaign, pushed, pending, doing, inRules, outRules,
                                    killed, disarmed, quarantine, auditVars>>,
           process' \in {"suspect", "other", "gone"}, files' \in [FilePath -> FileState], second' \in Nat
    PROVE  PipelineInv'
<1>1. Typed'
  BY DEF PipelineInv, Typed, auditVars
<1>2. TickerOnlyBlocks' /\ UnderWay' /\ HalfIsReal' /\ NameIsFree'
  BY DEF PipelineInv, TickerOnlyBlocks, UnderWay, HalfIsReal, NameIsFree
<1>3. RulesCount' /\ DryRunChangesNothing' /\ InCount' = InCount /\ OutCount' = OutCount
  BY NothingDone
<1>4. ActedIsAudited'
  <2>1. Changes' = Changes
    BY DEF Changes
  <2> QED
    BY <2>1 DEF PipelineInv, ActedIsAudited, InFlight, auditVars
<1>5. GrantedIn' /\ GrantedOut'
  <2>1. Allowed' = Allowed
    BY AllowedIs DEF PipelineInv
  <2>2. /\ DueIn("worker")' = DueIn("worker") /\ DueIn("ticker")' = DueIn("ticker")
        /\ DueOut("worker")' = DueOut("worker") /\ DueOut("ticker")' = DueOut("ticker")
    BY DEF DueIn, DueOut, InDone, OutDone
  <2> QED
    BY <1>3, <2>1, <2>2 DEF PipelineInv, GrantedIn, GrantedOut
<1> QED
  BY <1>1, <1>2, <1>3, <1>4, <1>5 DEF PipelineInv

\* Each step keeps the invariant.
LEMMA PipelineStep == PipelineInv /\ [PipelineNext]_pipelineVars => PipelineInv'
<1> SUFFICES ASSUME PipelineInv, [PipelineNext]_pipelineVars PROVE PipelineInv'
  OBVIOUS
<1>0. Typed /\ second \in Nat
  BY DEF PipelineInv, Typed
<1>1. CASE \E t \in Storer :
        \/ \E a \in Alert : StoreAlert(t, a)
        \/ \E raised \in BOOLEAN : RespondToCampaign(t, raised)
        \/ Push(t) \/ Preview(t)
  BY <1>1, StoreAlertStep, RespondStep, PushStep, PreviewStep
<1>2. CASE \E t \in Storer :
        \/ \E done, success \in BOOLEAN : InsertInput(t, done, success) \/ InsertOutput(t, done, success)
        \/ \E done \in BOOLEAN : KillProcess(t, done)
  BY <1>2, InputStep, OutputStep, KillStep
<1>3. CASE \E t \in Storer :
        \/ CheckFile(t)
        \/ \E disarm \in BOOLEAN, outcome \in {"moved", "copied", "failed"} : MoveFile(t, disarm, outcome)
        \/ Audit(t) \/ AuditFails(t)
  BY <1>3, CheckStep, MoveStep, AuditStep
<1>4. CASE ProcessExits
  <2>1. process' \in {"suspect", "other", "gone"}
    BY <1>4 DEF ProcessExits
  <2> QED
    BY <1>0, <1>4, <2>1, HostStep DEF ProcessExits, Typed
<1>5. CASE SecondPasses
  <2>1. second' \in Nat
    BY <1>0, <1>5 DEF SecondPasses
  <2> QED
    BY <1>0, <1>5, <2>1, HostStep DEF SecondPasses, Typed, hostVars
<1>6. CASE \E p \in FilePath, what \in {"regular", "link", "gone"} : FileReplaced(p, what)
  <2>1. files' \in [FilePath -> FileState]
    BY <1>0, <1>6 DEF FileReplaced, Typed, FileState
  <2> QED
    BY <1>0, <1>6, <2>1, HostStep DEF FileReplaced, Typed
<1>7. CASE UNCHANGED pipelineVars
  BY <1>0, <1>7, HostStep DEF pipelineVars, hostVars, Typed
<1> QED
  BY <1>1, <1>2, <1>3, <1>4, <1>5, <1>6, <1>7 DEF PipelineNext

\* The invariant holds throughout.
THEOREM PipelineInvariant == PipelineSpec => []PipelineInv
  BY PipelineStart, PipelineStep, PTL DEF PipelineSpec

\* Every variable has its type, a dry run changes nothing, and no rule is for
\* an address that must stay reachable (responder.py).
THEOREM PipelineIsTyped == PipelineSpec => []PipelineTypeOK
<1>1. PipelineInv => PipelineTypeOK
  <2> SUFFICES ASSUME PipelineInv PROVE PipelineTypeOK
    OBVIOUS
  <2>1. Typed /\ (dryRun => Changes = 0)
    <3>1. inRules \in [Ip -> Nat] /\ outRules \in [Ip -> Nat]
      BY DEF PipelineInv, Typed
    <3>2. ASSUME dryRun PROVE Changes = 0
      <4>1. /\ killed = 0 /\ disarmed = 0 /\ quarantine = {}
            /\ \A i \in Ip : inRules[i] = 0 /\ outRules[i] = 0
        BY <3>2 DEF PipelineInv, DryRunChangesNothing
      <4>2. Rules(inRules) = 0 /\ Rules(outRules) = 0 /\ Cardinality(quarantine) = 0
        BY <3>1, <4>1, NoRules, FS_EmptySet
      <4> QED
        BY <4>1, <4>2 DEF Changes
    <3> QED
      BY <3>2 DEF PipelineInv
  <2>2. \A t \in Storer : doing[t] # Idle => pending[t] # <<>>
    BY DEF PipelineInv, UnderWay
  <2> QED
    BY <2>1, <2>2 DEF Typed, PipelineTypeOK, FileState
<1> QED
  BY PipelineInvariant, <1>1, PTL

\* Every rule of either chain, every kill, every file disarmed and every name in
\* quarantine is in the trail as done, in the trail under a failure, lost to a
\* write that failed, or of the act under way; so no file in quarantine was
\* written over (responder.py: block_ip, quarantine_file, _audit).
THEOREM ActsAreAudited == PipelineSpec => []ActedIsAudited
<1>1. PipelineInv => ActedIsAudited
  BY DEF PipelineInv
<1> QED
  BY PipelineInvariant, <1>1, PTL

\* In each chain the cap holds for each time a campaign is handled, and each
\* alert adds one rule at most, however the two threads take turns
\* (respond_to_campaign, respond_to_alert, block_ip).
THEOREM BlocksAreBounded == PipelineSpec => []BlocksBounded
<1>1. PipelineInv => BlocksBounded
  <2> SUFFICES ASSUME PipelineInv PROVE BlocksBounded
    OBVIOUS
  <2>1. \A t \in Storer : /\ DueIn(t) \in Int /\ DueIn(t) >= 0 /\ DueOut(t) \in Int /\ DueOut(t) >= 0
                          /\ InCount \in Nat /\ OutCount \in Nat /\ Allowed \in Int
    <3> TAKE t \in Storer
    <3>1. CASE doing[t] = Idle
      BY <3>1, DueOfIs
    <3>2. CASE doing[t] # Idle
      BY <3>2, DueOfIs
    <3> QED
      BY <3>1, <3>2
  <2>2. /\ InCount + DueIn("worker") + DueIn("ticker") <= Allowed
        /\ OutCount + DueOut("worker") + DueOut("ticker") <= Allowed
    BY DEF PipelineInv, GrantedIn, GrantedOut
  <2>3. "worker" \in Storer /\ "ticker" \in Storer
    BY DEF Storer
  <2>4. InCount <= Allowed /\ OutCount <= Allowed
    BY <2>1, <2>2, <2>3
  <2> QED
    BY <2>4 DEF BlocksBounded, Allowed, ActiveAlerts, InCount, OutCount
<1> QED
  BY PipelineInvariant, <1>1, PTL

=============================================================================
