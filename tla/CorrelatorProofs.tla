-------------------------- MODULE CorrelatorProofs --------------------------
(***************************************************************************)
(* Proofs about Correlator, for any monitor threads, alerts, thresholds,   *)
(* windows and caps: ingest() never calls the handler with an immature     *)
(* campaign, nor with one that has no narrative unless the model took it   *)
(* away, at rest the handler has been told of every alert, and no          *)
(* narrative written without the lock takes a severity out of its bounds.  *)
(*                                                                         *)
(* None of these is inductive.  A thread may be half way through writing a *)
(* narrative that another thread, or the worker, writes as well: Narrated  *)
(* says from which step on there is one.  That the last call saw all       *)
(* alerts is false while threads are inside ingest(): Heard says that one  *)
(* of them is then on its way to the handler.  A severity is read before   *)
(* it is written, alerts arrive between, and an alert is there before its  *)
(* severity is taken up: Rated bounds what was read, which stays in its    *)
(* bounds because a mature campaign's first alerts do not change.  That    *)
(* only one alert at a time waits to be taken up is the lock's doing:      *)
(* Exclusive.                                                              *)
(*                                                                         *)
(* Two properties that runs refute hold where their cause is missing: the  *)
(* severity is exact when no two threads are inside ingest() (Exact), and  *)
(* mature campaigns are submitted as long as there is no handler           *)
(* (Submitting).                                                           *)
(***************************************************************************)
EXTENDS Correlator, TLAPS, SequenceTheorems, FiniteSetTheorems, WellFoundedInduction

-----------------------------------------------------------------------------
(* The least and the greatest of a set                                     *)

Less == {p \in Nat \X Nat : p[1] < p[2]}

\* The numbers are well founded.
LEMMA LessWF == IsWellFoundedOn(Less, Nat)
<1>1. OpToRel(<, Nat) = Less
  BY DEF OpToRel, Less
<1> QED
  BY <1>1, NatLessThanWellFounded

\* Joinable campaigns have an oldest.
LEMMA MinIs ==
    ASSUME NEW T, T \subseteq Nat, T # {}
    PROVE  Min(T) \in T /\ \A y \in T : Min(T) <= y
<1>1. PICK x \in T : \A y \in T : ~(<<y, x>> \in Less)
  BY LessWF, WFMin
<1>2. \A y \in T : y < x => <<y, x>> \in Less
  BY DEF Less
<1>3. \A y \in T : ~(y < x)
  BY <1>1, <1>2, Zenon
<1>4. \A y \in T : x <= y
  BY <1>3
<1> QED
  BY <1>4 DEF Min

\* Severities have a worst.
LEMMA MaxIs ==
    ASSUME NEW n \in Nat, NEW T, T \subseteq 1..n, T # {}
    PROVE  Max(T) \in T /\ \A y \in T : y <= Max(T)
<1> DEFINE U == {k \in Nat : \E x \in T : k = n - x}
<1>1. \A x \in T : x \in Int /\ n - x \in Nat
  OBVIOUS
<1>2. U \subseteq Nat /\ \A x \in T : n - x \in U
  BY <1>1
<1>3. PICK z \in T : TRUE
  OBVIOUS
<1>4. n - z \in U
  BY <1>2, <1>3
<1>5. U # {}
  BY <1>4
<1>6. Min(U) \in U /\ \A v \in U : Min(U) <= v
  BY <1>2, <1>5, MinIs
<1>7. PICK x \in T : Min(U) = n - x
  BY <1>6
<1>8. \A y \in T : x >= y
  <2> SUFFICES ASSUME NEW y \in T PROVE x >= y
    OBVIOUS
  <2>1. n - x <= n - y
    BY <1>2, <1>6, <1>7
  <2> QED
    BY <1>1, <2>1
<1> HIDE DEF U
<1>9. Max(T) \in T /\ \A y \in T : Max(T) >= y
  BY <1>7, <1>8 DEF Max
<1> QED
  BY <1>1, <1>9

-----------------------------------------------------------------------------
(* The worst of the alerts                                                 *)

Alerts == Seq(Severities) \ {<<>>}

\* Of the first n alerts those before the one that makes a campaign mature
First(alerts, n) == SubSeq(alerts, 1, Min({MinAlerts - 1, n}))

Bounded(v, alerts, n) == v <= Worst(alerts) /\ v >= Worst(First(alerts, n))

\* _recompute_severity is the severity of an alert, and no alert is worse.
LEMMA WorstIs ==
    ASSUME NEW alerts \in Alerts
    PROVE  /\ Worst(alerts) \in Severities
           /\ \A k \in 1..Len(alerts) : alerts[k] <= Worst(alerts)
           /\ \E k \in 1..Len(alerts) : alerts[k] = Worst(alerts)
<1>1. /\ Len(alerts) \in Nat /\ DOMAIN alerts = 1..Len(alerts) /\ Len(alerts) # 0
      /\ \A k \in 1..Len(alerts) : alerts[k] \in Severities
  BY LenProperties, EmptySeq, ElementOfSeq DEF Alerts
<1>2. ToSet(alerts) \subseteq 1..Levels /\ ToSet(alerts) # {}
  BY <1>1 DEF ToSet, Severities
<1>3. Max(ToSet(alerts)) \in ToSet(alerts) /\ \A y \in ToSet(alerts) : y <= Max(ToSet(alerts))
  BY <1>2, MaxIs, CorrelatorAssumption DEF CorrelatorAssumption
<1> QED
  BY <1>1, <1>2, <1>3 DEF Worst, ToSet, Severities

\* The first alerts are alerts, and no others than the alerts' first, ...
LEMMA FirstIs ==
    ASSUME NEW alerts \in Alerts, NEW n \in 1..Len(alerts)
    PROVE  /\ First(alerts, n) \in Alerts /\ Len(First(alerts, n)) <= n
           /\ Len(alerts) \in Nat /\ Len(First(alerts, n)) \in Nat
           /\ Len(First(alerts, n)) = IF n < MinAlerts - 1 THEN n ELSE MinAlerts - 1
           /\ \A k \in 1..Len(First(alerts, n)) : First(alerts, n)[k] = alerts[k]
<1> DEFINE m == Min({MinAlerts - 1, n})
<1>1. Len(alerts) \in Nat \ {0} /\ \A k \in 1..Len(alerts) : alerts[k] \in Severities
  BY LenProperties, EmptySeq, ElementOfSeq DEF Alerts
<1>2. m \in {MinAlerts - 1, n} /\ m <= MinAlerts - 1 /\ m <= n
  <2>1. MinAlerts - 1 \in Nat /\ n \in Nat
    BY <1>1, CorrelatorAssumption DEF CorrelatorAssumption
  <2> QED
    BY <2>1, MinIs
<1>3. m \in Nat \ {0} /\ m <= n /\ n <= Len(alerts) /\ m = IF n < MinAlerts - 1 THEN n ELSE MinAlerts - 1
  BY <1>1, <1>2, CorrelatorAssumption DEF CorrelatorAssumption
<1> HIDE DEF m
<1>4. /\ SubSeq(alerts, 1, m) \in Seq(Severities) /\ Len(SubSeq(alerts, 1, m)) = m
      /\ \A k \in 1..m : SubSeq(alerts, 1, m)[k] = alerts[k]
  <2>1. \A k \in 1..m : alerts[k] \in Severities
    BY <1>1, <1>3
  <2>2. /\ SubSeq(alerts, 1, m) \in Seq(Severities)
        /\ Len(SubSeq(alerts, 1, m)) = IF 1 <= m THEN m - 1 + 1 ELSE 0
        /\ \A k \in 1..m - 1 + 1 : SubSeq(alerts, 1, m)[k] = alerts[1 + k - 1]
    BY <1>3, <2>1, SubSeqProperties
  <2> QED
    BY <1>3, <2>2
<1>5. SubSeq(alerts, 1, m) # <<>>
  BY <1>3, <1>4, EmptySeq
<1>6. First(alerts, n) = SubSeq(alerts, 1, m)
  BY DEF First, m
<1> QED
  BY <1>1, <1>3, <1>4, <1>5, <1>6 DEF Alerts

\* ... the same in two sequences that begin alike, ...
LEMMA FirstAlike ==
    ASSUME NEW alerts \in Alerts, NEW n \in 1..Len(alerts),
           NEW others \in Alerts, NEW m \in 1..Len(others),
           n = m \/ (n >= MinAlerts - 1 /\ m >= MinAlerts - 1),
           \A k \in 1..Len(First(alerts, n)) : alerts[k] = others[k]
    PROVE  First(alerts, n) = First(others, m)
<1>1. Len(alerts) \in Nat /\ Len(others) \in Nat /\ MinAlerts \in Nat
  BY FirstIs, CorrelatorAssumption DEF CorrelatorAssumption
<1>2. /\ Len(First(alerts, n)) = IF n < MinAlerts - 1 THEN n ELSE MinAlerts - 1
      /\ Len(First(others, m)) = IF m < MinAlerts - 1 THEN m ELSE MinAlerts - 1
      /\ First(alerts, n) \in Seq(Severities) /\ First(others, m) \in Seq(Severities)
  BY FirstIs DEF Alerts
<1>3. Len(First(alerts, n)) = Len(First(others, m))
  BY <1>1, <1>2
<1>4. \A k \in 1..Len(First(alerts, n)) : First(alerts, n)[k] = First(others, m)[k]
  <2>1. /\ \A k \in 1..Len(First(alerts, n)) : First(alerts, n)[k] = alerts[k]
        /\ \A k \in 1..Len(First(others, m)) : First(others, m)[k] = others[k]
    BY FirstIs
  <2> QED
    BY <1>3, <2>1
<1> QED
  BY <1>2, <1>3, <1>4, SeqEqual

\* ... and none worse than the worst.
LEMMA WorstBounded ==
    ASSUME NEW alerts \in Alerts, NEW n \in 1..Len(alerts)
    PROVE  Bounded(Worst(alerts), alerts, n)
<1>1. /\ Worst(alerts) \in Severities /\ \A k \in 1..Len(alerts) : alerts[k] <= Worst(alerts)
  BY WorstIs
<1>2. PICK k \in 1..Len(First(alerts, n)) : First(alerts, n)[k] = Worst(First(alerts, n))
  BY FirstIs, WorstIs
<1>3. k \in 1..Len(alerts) /\ First(alerts, n)[k] = alerts[k]
  BY FirstIs, <1>2
<1> QED
  BY <1>1, <1>2, <1>3 DEF Bounded, Severities

\* In a mature campaign it does not matter whether the last alert counts.
LEMMA BoundedAlike ==
    ASSUME NEW alerts \in Alerts, NEW n \in 1..Len(alerts), NEW m \in 1..Len(alerts),
           n >= MinAlerts - 1, m >= MinAlerts - 1, NEW v, Bounded(v, alerts, n)
    PROVE  Bounded(v, alerts, m)
  BY FirstAlike DEF Bounded

\* An alert that arrives keeps a severity in its bounds.
LEMMA BoundedGrows ==
    ASSUME NEW alerts \in Alerts, NEW sev \in Severities, NEW v \in Severities,
           NEW n \in 1..Len(alerts), Bounded(v, alerts, n)
    PROVE  /\ Append(alerts, sev) \in Alerts /\ Len(Append(alerts, sev)) = Len(alerts) + 1
           /\ Bounded(v, Append(alerts, sev), n)
<1> DEFINE more == Append(alerts, sev)
<1>1. /\ more \in Alerts /\ Len(more) = Len(alerts) + 1
      /\ \A k \in 1..Len(alerts) : more[k] = alerts[k]
  BY AppendProperties DEF Alerts
<1> HIDE DEF more
<1>2. First(more, n) = First(alerts, n)
  <2>1. n \in 1..Len(more) /\ \A k \in 1..Len(First(alerts, n)) : alerts[k] = more[k]
    BY <1>1, FirstIs
  <2> QED
    BY <1>1, <2>1, FirstAlike
<1>3. Worst(alerts) <= Worst(more)
  <2>1. PICK k \in 1..Len(alerts) : alerts[k] = Worst(alerts)
    BY WorstIs
  <2>2. k \in 1..Len(more) /\ more[k] = alerts[k]
    BY <1>1, <2>1, FirstIs
  <2> QED
    BY <1>1, <2>1, <2>2, WorstIs
<1>4. v \in Int /\ Worst(alerts) \in Int /\ Worst(more) \in Int
  BY <1>1, WorstIs DEF Severities
<1> QED
  BY <1>1, <1>2, <1>3, <1>4 DEF Bounded, more

-----------------------------------------------------------------------------
(* What a step writes into the campaigns                                   *)

\* One campaign is written to, and its alerts stay as they are.
Rewritten(i) ==
    /\ campaigns' \in Seq(Campaign) /\ Len(campaigns') = Len(campaigns)
    /\ DOMAIN campaigns' = DOMAIN campaigns
    /\ \A j \in DOMAIN campaigns \ {i} : campaigns'[j] = campaigns[j]
    /\ campaigns'[i].alerts = campaigns[i].alerts

\* Replacing a campaign by another with the same alerts rewrites it.
LEMMA OneRewritten ==
    ASSUME campaigns \in Seq(Campaign), NEW i \in DOMAIN campaigns, NEW c \in Campaign,
           c.alerts = campaigns[i].alerts, campaigns' = [campaigns EXCEPT ![i] = c]
    PROVE  Rewritten(i) /\ campaigns'[i] = c
<1>1. DOMAIN campaigns = 1..Len(campaigns)
  BY LenProperties
<1>2. /\ campaigns' \in Seq(Campaign) /\ Len(campaigns') = Len(campaigns)
      /\ \A j \in 1..Len(campaigns) : campaigns'[j] = IF j = i THEN c ELSE campaigns[j]
  BY <1>1, ExceptSeq
<1>3. DOMAIN campaigns' = 1..Len(campaigns)
  BY <1>2, LenProperties
<1> QED
  BY <1>1, <1>2, <1>3 DEF Rewritten

\* The text of a narrative
LEMMA TextWritten ==
    ASSUME campaigns \in Seq(Campaign), NEW i \in DOMAIN campaigns,
           NEW text \in {"rules", "model", "none"},
           campaigns' = [campaigns EXCEPT ![i].synthesis = text]
    PROVE  /\ Rewritten(i) /\ campaigns'[i].synthesis = text
           /\ campaigns'[i].severity = campaigns[i].severity
           /\ campaigns'[i].status = campaigns[i].status
<1> DEFINE c == [campaigns[i] EXCEPT !.synthesis = text]
<1>1. campaigns[i] \in Campaign
  BY ElementOfSeq, LenProperties
<1>2. \A d \in Campaign : LET e == [d EXCEPT !.synthesis = text] IN
          e \in Campaign /\ e.alerts = d.alerts /\ e.severity = d.severity /\ e.synthesis = text
          /\ e.status = d.status
  BY DEF Campaign
<1>3. campaigns' = [campaigns EXCEPT ![i] = c]
  OBVIOUS
<1>4. c \in Campaign /\ c.alerts = campaigns[i].alerts /\ c.severity = campaigns[i].severity
      /\ c.synthesis = text /\ c.status = campaigns[i].status
  BY <1>1, <1>2
<1> HIDE DEF c
<1> QED
  BY <1>3, <1>4, OneRewritten

\* A severity
LEMMA SeverityWritten ==
    ASSUME campaigns \in Seq(Campaign), NEW i \in DOMAIN campaigns, NEW sev \in Severities,
           campaigns' = [campaigns EXCEPT ![i].severity = sev]
    PROVE  /\ Rewritten(i) /\ campaigns'[i].severity = sev
           /\ campaigns'[i].synthesis = campaigns[i].synthesis
           /\ campaigns'[i].status = campaigns[i].status
<1> DEFINE c == [campaigns[i] EXCEPT !.severity = sev]
<1>1. campaigns[i] \in Campaign
  BY ElementOfSeq, LenProperties
<1>2. \A d \in Campaign : LET e == [d EXCEPT !.severity = sev] IN
          e \in Campaign /\ e.alerts = d.alerts /\ e.severity = sev
          /\ e.synthesis = d.synthesis /\ e.status = d.status
  BY DEF Campaign
<1>3. campaigns' = [campaigns EXCEPT ![i] = c]
  OBVIOUS
<1>4. c \in Campaign /\ c.alerts = campaigns[i].alerts /\ c.severity = sev
      /\ c.synthesis = campaigns[i].synthesis /\ c.status = campaigns[i].status
  BY <1>1, <1>2
<1> HIDE DEF c
<1> QED
  BY <1>3, <1>4, OneRewritten

\* Its status
LEMMA StatusWritten ==
    ASSUME campaigns \in Seq(Campaign), NEW i \in DOMAIN campaigns,
           campaigns' = [campaigns EXCEPT ![i].status = "SYNTHESIZED"]
    PROVE  /\ Rewritten(i) /\ campaigns'[i].severity = campaigns[i].severity
           /\ campaigns'[i].synthesis = campaigns[i].synthesis
<1> DEFINE c == [campaigns[i] EXCEPT !.status = "SYNTHESIZED"]
<1>1. campaigns[i] \in Campaign
  BY ElementOfSeq, LenProperties
<1>2. \A d \in Campaign : LET e == [d EXCEPT !.status = "SYNTHESIZED"] IN
          e \in Campaign /\ e.alerts = d.alerts /\ e.severity = d.severity
          /\ e.synthesis = d.synthesis
  BY DEF Campaign, Status
<1>3. campaigns' = [campaigns EXCEPT ![i] = c]
  OBVIOUS
<1>4. c \in Campaign /\ c.alerts = campaigns[i].alerts /\ c.severity = campaigns[i].severity
      /\ c.synthesis = campaigns[i].synthesis
  BY <1>1, <1>2
<1> HIDE DEF c
<1> QED
  BY <1>3, <1>4, OneRewritten

\* Its status, by the worker
LEMMA SynthesisWritten ==
    ASSUME campaigns \in Seq(Campaign), jobCount \in Nat, NEW i \in DOMAIN campaigns,
           campaigns' = [campaigns EXCEPT ![i].status = "SYNTHESIZED", ![i].synthesizedAt = jobCount]
    PROVE  /\ Rewritten(i) /\ campaigns'[i].severity = campaigns[i].severity
           /\ campaigns'[i].synthesis = campaigns[i].synthesis
<1> DEFINE c == [campaigns[i] EXCEPT !.status = "SYNTHESIZED", !.synthesizedAt = jobCount]
<1>1. campaigns[i] \in Campaign
  BY ElementOfSeq, LenProperties
<1>2. \A d \in Campaign : LET e == [d EXCEPT !.status = "SYNTHESIZED", !.synthesizedAt = jobCount] IN
          e \in Campaign /\ e.alerts = d.alerts /\ e.severity = d.severity
          /\ e.synthesis = d.synthesis
  BY DEF Campaign, Status
<1>3. campaigns' = [campaigns EXCEPT ![i] = c]
  BY <1>1 DEF Campaign
<1>4. c \in Campaign /\ c.alerts = campaigns[i].alerts /\ c.severity = campaigns[i].severity
      /\ c.synthesis = campaigns[i].synthesis
  BY <1>1, <1>2
<1> HIDE DEF c
<1> QED
  BY <1>3, <1>4, OneRewritten

\* An alert joins a campaign.
LEMMA JoinWritten ==
    ASSUME campaigns \in Seq(Campaign), now \in Nat, NEW i \in DOMAIN campaigns,
           NEW sev \in Severities, NEW entities \in EntitySets, JoinCampaign(i, sev, entities)
    PROVE  /\ campaigns' \in Seq(Campaign) /\ Len(campaigns') = Len(campaigns)
           /\ DOMAIN campaigns' = DOMAIN campaigns
           /\ \A j \in DOMAIN campaigns \ {i} : campaigns'[j] = campaigns[j]
           /\ campaigns'[i].alerts = Append(campaigns[i].alerts, sev)
           /\ campaigns'[i].severity = campaigns[i].severity
           /\ campaigns'[i].synthesis = campaigns[i].synthesis
           /\ campaigns'[i].status = campaigns[i].status
<1> DEFINE more == Append(campaigns[i].alerts, sev)
           d == campaigns[i]
           c == [d EXCEPT !.alerts = more, !.last = now, !.entities = @ \cup entities]
<1>1. DOMAIN campaigns = 1..Len(campaigns) /\ d \in Campaign
  BY ElementOfSeq, LenProperties
<1>2. d.alerts \in Alerts
  BY <1>1 DEF Campaign, Alerts
<1>3. more \in Alerts
  BY <1>2, AppendProperties DEF Alerts
<1>5. campaigns' = [campaigns EXCEPT ![i] = c]
  BY DEF JoinCampaign
<1> HIDE DEF more
<1>6. /\ c \in Campaign /\ c.alerts = more /\ c.severity = d.severity
      /\ c.synthesis = d.synthesis /\ c.status = d.status
  BY <1>1, <1>3 DEF Campaign, Alerts
<1> HIDE DEF c
<1>7. /\ campaigns' \in Seq(Campaign) /\ Len(campaigns') = Len(campaigns)
      /\ \A j \in 1..Len(campaigns) : campaigns'[j] = IF j = i THEN c ELSE campaigns[j]
  BY <1>1, <1>5, <1>6, ExceptSeq
<1>8. DOMAIN campaigns' = 1..Len(campaigns)
  BY <1>7, LenProperties
<1> QED
  BY <1>1, <1>6, <1>7, <1>8 DEF more

\* An alert starts a campaign.
LEMMA NewWritten ==
    ASSUME campaigns \in Seq(Campaign), now \in Nat,
           NEW sev \in Severities, NEW entities \in EntitySets,
           campaigns' = Append(campaigns, NewCampaign(sev, entities))
    PROVE  /\ campaigns' \in Seq(Campaign) /\ Len(campaigns') = Len(campaigns) + 1
           /\ DOMAIN campaigns' = DOMAIN campaigns \cup {Len(campaigns) + 1}
           /\ \A j \in DOMAIN campaigns : campaigns'[j] = campaigns[j]
           /\ campaigns'[Len(campaigns) + 1].status = "ACTIVE"
           /\ campaigns'[Len(campaigns) + 1].severity = Worst(campaigns'[Len(campaigns) + 1].alerts)
           /\ Len(campaigns'[Len(campaigns) + 1].alerts) = 1
<1> DEFINE c == NewCampaign(sev, entities)
           n == Len(campaigns)
<1>1. DOMAIN campaigns = 1..n /\ n \in Nat
  BY LenProperties
<1>2. <<sev>> \in Alerts /\ Len(<<sev>>) = 1 /\ <<sev>>[1] = sev
  BY DEF Alerts
<1>3. Worst(<<sev>>) = sev
  BY <1>2, WorstIs
<1>4. /\ c \in Campaign /\ c.alerts = <<sev>> /\ c.severity = sev /\ c.status = "ACTIVE"
  BY <1>2 DEF NewCampaign, Campaign, Alerts, Status
<1> HIDE DEF c
<1>5. campaigns' = Append(campaigns, c)
  BY DEF c
<1>6. /\ campaigns' \in Seq(Campaign) /\ Len(campaigns') = n + 1
      /\ \A j \in 1..n : campaigns'[j] = campaigns[j]
      /\ campaigns'[n + 1] = c
  BY <1>4, <1>5, AppendProperties
<1>7. DOMAIN campaigns' = 1..n + 1
  BY <1>6, LenProperties
<1> QED
  BY <1>1, <1>2, <1>3, <1>4, <1>6, <1>7

\* A prune only changes statuses, and only to EXPIRED.
LEMMA PruneWritten ==
    ASSUME campaigns \in Seq(Campaign), Prune
    PROVE  /\ campaigns' \in Seq(Campaign) /\ Len(campaigns') = Len(campaigns)
           /\ DOMAIN campaigns' = DOMAIN campaigns
           /\ \A j \in DOMAIN campaigns :
                 /\ campaigns'[j].alerts = campaigns[j].alerts
                 /\ campaigns'[j].severity = campaigns[j].severity
                 /\ campaigns'[j].synthesis = campaigns[j].synthesis
                 /\ campaigns'[j].status \in {"EXPIRED", campaigns[j].status}
<1>1. DOMAIN campaigns = 1..Len(campaigns) /\ Len(campaigns) \in Nat
      /\ \A j \in 1..Len(campaigns) : campaigns[j] \in Campaign
  BY ElementOfSeq, LenProperties
<1>2. \A d \in Campaign : LET e == [d EXCEPT !.status = "EXPIRED"] IN
          e \in Campaign /\ e.alerts = d.alerts /\ e.severity = d.severity
          /\ e.synthesis = d.synthesis /\ e.status = "EXPIRED"
  BY DEF Campaign, Status
<1>3. campaigns' = [j \in 1..Len(campaigns) |->
                       IF Old(campaigns[j]) \/ j \in OverCap
                       THEN [campaigns[j] EXCEPT !.status = "EXPIRED"] ELSE campaigns[j]]
  BY <1>1 DEF Prune
<1>4. \A j \in 1..Len(campaigns) :
          campaigns'[j] = [campaigns[j] EXCEPT !.status = "EXPIRED"] \/ campaigns'[j] = campaigns[j]
  BY <1>3
<1>5. campaigns' \in [1..Len(campaigns) -> Campaign]
  BY <1>1, <1>2, <1>3
<1>6. /\ campaigns' \in Seq(Campaign) /\ DOMAIN campaigns' = 1..Len(campaigns)
      /\ Len(campaigns') = Len(campaigns)
  <2>1. campaigns' \in Seq(Campaign)
    BY <1>1, <1>5, SeqDef
  <2> QED
    BY <1>1, <1>5, <2>1, LenProperties
<1>7. ASSUME NEW j \in DOMAIN campaigns
      PROVE  /\ campaigns'[j].alerts = campaigns[j].alerts
             /\ campaigns'[j].severity = campaigns[j].severity
             /\ campaigns'[j].synthesis = campaigns[j].synthesis
             /\ campaigns'[j].status \in {"EXPIRED", campaigns[j].status}
  <2>1. campaigns[j] \in Campaign
    BY <1>1
  <2>2. CASE campaigns'[j] = campaigns[j]
    BY <2>2
  <2>3. CASE campaigns'[j] = [campaigns[j] EXCEPT !.status = "EXPIRED"]
    BY <1>2, <2>1, <2>3
  <2> QED
    BY <1>1, <1>4, <2>2, <2>3
<1> QED
  BY <1>1, <1>6, <1>7

-----------------------------------------------------------------------------
(* The shape of the state                                                  *)

Label == {"idle", "recompute", "mature", "narrative", "rules", "applyText",
          "applySeverity", "applyStatus", "callback", "submit"}

WorkerLabel == {"idle", "infer", "raised", "answered", "status", "rules", "rulesText",
                "rulesStatus", "notify", "notifyRules"}
\* Where a narrative's severity has been read and not been written yet
Carrying == {"applyText", "applySeverity"}
WorkerCarrying == {"rules", "rulesText"}

\* Who has something to apply has read it.
HasRead ==
    /\ \A t \in Thread : pc[t] \in Carrying => sevRead[t] \in Severities
    /\ workerPc \in WorkerCarrying => jobSev \in Severities

Shaped == TypeOK /\ HasRead

\* The shape holds initially.
LEMMA ShapedInit == Init => Shaped
<1> SUFFICES ASSUME Init PROVE Shaped
  OBVIOUS
<1>1. /\ campaigns = <<>> /\ <<>> \in Seq(Campaign) /\ Len(<<>>) = 0
      /\ jobs \in Seq(DOMAIN campaigns) /\ alertOf \in Seq(DOMAIN campaigns)
      /\ Len(jobs) = 0 /\ Len(alertOf) = 0
  BY EmptySeq DEF Init
<1>2. 0 \in 0..MaxTime /\ 0 <= MaxPendingJobs /\ 0 <= MaxAlerts
  BY CorrelatorAssumption DEF CorrelatorAssumption
<1>3. heard \in [DOMAIN campaigns -> Nat]
  BY <1>1, EmptySeq, LenProperties DEF Init
<1> QED
  BY <1>1, <1>2, <1>3 DEF Init, Shaped, TypeOK, HasRead, Carrying, WorkerCarrying

\* An index into the campaigns stays one when campaigns are added.
LEMMA IndicesStay ==
    ASSUME TypeOK, DOMAIN campaigns \subseteq DOMAIN campaigns'
    PROVE  jobs \in Seq(DOMAIN campaigns') /\ alertOf \in Seq(DOMAIN campaigns')
  BY SeqMonotonic DEF TypeOK

\* The campaign of a thread inside ingest(), and of the busy worker, exists.
LEMMA HeldExists ==
    ASSUME TypeOK
    PROVE  /\ DOMAIN campaigns = 1..Len(campaigns) /\ Len(campaigns) \in Nat
           /\ \A t \in Thread : pc[t] # "idle" => held[t] \in DOMAIN campaigns
           /\ workerPc # "idle" => job \in DOMAIN campaigns
           /\ \A i \in DOMAIN campaigns : /\ campaigns[i] \in Campaign
                                          /\ campaigns[i].alerts \in Alerts
                                          /\ Len(campaigns[i].alerts) \in Nat
                                          /\ campaigns[i].severity \in Severities
<1>1. DOMAIN campaigns = 1..Len(campaigns) /\ Len(campaigns) \in Nat
  BY LenProperties DEF TypeOK
<1>2. \A i \in DOMAIN campaigns : campaigns[i] \in Campaign
  BY <1>1, ElementOfSeq DEF TypeOK
<1>3. \A d \in Campaign : d.alerts \in Alerts /\ d.severity \in Severities
  BY DEF Campaign, Alerts
<1>4. \A alerts \in Alerts : Len(alerts) \in Nat
  BY LenProperties DEF Alerts
<1>5. \A t \in Thread : pc[t] # "idle" => held[t] \in DOMAIN campaigns
  BY <1>1 DEF TypeOK
<1>6. workerPc # "idle" => job \in DOMAIN campaigns
  BY <1>1 DEF TypeOK
<1> QED
  BY <1>1, <1>2, <1>3, <1>4, <1>5, <1>6

\* ingest() under the lock keeps the shape.
LEMMA ShapedIngest ==
    ASSUME Shaped, NEW t \in Thread, NEW sev \in Severities, NEW entities \in EntitySets,
           Ingest(t, sev, entities)
    PROVE  Shaped'
<1> DEFINE i == IF Joinable(entities) = {} THEN Len(campaigns) + 1 ELSE Min(Joinable(entities))
<1>1. TypeOK /\ HasRead
  BY DEF Shaped
<1>2. now \in Nat
  BY <1>1, CorrelatorAssumption DEF TypeOK, CorrelatorAssumption
<1>3. /\ campaigns' \in Seq(Campaign) /\ DOMAIN campaigns \subseteq DOMAIN campaigns'
      /\ DOMAIN campaigns' = 1..Len(campaigns') /\ i \in DOMAIN campaigns'
      /\ Len(campaigns') >= Len(campaigns) /\ heard' \in [DOMAIN campaigns' -> Nat]
      /\ Len(campaigns) \in Nat /\ Len(campaigns') \in Nat
  <2>1. CASE Joinable(entities) = {}
    <3>1. campaigns' = Append(campaigns, NewCampaign(sev, entities)) /\ heard' = Append(heard, 0)
      BY <2>1 DEF Ingest
    <3>2. /\ campaigns' \in Seq(Campaign) /\ Len(campaigns') = Len(campaigns) + 1
          /\ DOMAIN campaigns' = DOMAIN campaigns \cup {Len(campaigns) + 1}
      BY <1>1, <1>2, <3>1, NewWritten DEF TypeOK
    <3>3. heard \in Seq(Nat) /\ Len(heard) = Len(campaigns)
      <4>1. heard \in [1..Len(campaigns) -> Nat] /\ Len(campaigns) \in Nat
        BY <1>1, HeldExists DEF TypeOK
      <4>2. heard \in Seq(Nat)
        BY <4>1, SeqDef
      <4> QED
        BY <4>1, <4>2, LenProperties
    <3>4. heard' \in Seq(Nat) /\ Len(heard') = Len(campaigns) + 1
      BY <3>1, <3>3, AppendProperties
    <3>5. heard' \in [1..Len(campaigns) + 1 -> Nat]
      BY <3>4, LenProperties
    <3>6. DOMAIN campaigns' = 1..Len(campaigns')
      BY <3>2, LenProperties
    <3> QED
      BY <1>1, <2>1, <3>2, <3>5, <3>6, HeldExists
  <2>2. CASE Joinable(entities) # {}
    <3>1. JoinCampaign(i, sev, entities) /\ heard' = heard
      BY <2>2 DEF Ingest
    <3>2. Joinable(entities) \subseteq DOMAIN campaigns /\ DOMAIN campaigns \subseteq Nat
      BY <1>1, HeldExists DEF Joinable
    <3>3. i \in DOMAIN campaigns
      BY <2>2, <3>2, MinIs
    <3> HIDE DEF i
    <3>4. /\ campaigns' \in Seq(Campaign) /\ Len(campaigns') = Len(campaigns)
          /\ DOMAIN campaigns' = DOMAIN campaigns
      BY <1>1, <1>2, <3>1, <3>3, JoinWritten DEF TypeOK
    <3> QED
      BY <1>1, <3>1, <3>3, <3>4, HeldExists DEF TypeOK
  <2> QED
    BY <2>1, <2>2
<1>4. /\ pc[t] = "idle" /\ Len(alertOf) < MaxAlerts /\ alertOf' = Append(alertOf, i)
      /\ held' = [held EXCEPT ![t] = i]
      /\ \E label \in {"recompute", "mature"} : pc' = [pc EXCEPT ![t] = label]
      /\ UNCHANGED <<now, handler, sevRead, jobs, workerPc, job, jobCount, jobSev, asked, judged, blanked>>
  BY DEF Ingest, workerVars
<1> HIDE DEF i
<1>5. jobs \in Seq(DOMAIN campaigns') /\ alertOf \in Seq(DOMAIN campaigns')
  BY <1>1, <1>3, IndicesStay
<1>6. alertOf' \in Seq(DOMAIN campaigns') /\ Len(alertOf') <= MaxAlerts
  <2>1. alertOf' \in Seq(DOMAIN campaigns') /\ Len(alertOf') = Len(alertOf) + 1 /\ Len(alertOf) \in Nat
    BY <1>3, <1>4, <1>5, AppendProperties, LenProperties
  <2> QED
    BY <1>4, <2>1, CorrelatorAssumption DEF CorrelatorAssumption
<1>7. held' \in [Thread -> 0..Len(campaigns')] /\ \A u \in Thread : held'[u] = 0 <=> pc'[u] = "idle"
  BY <1>1, <1>3, <1>4 DEF TypeOK
<1>8. pc' \in [Thread -> Label]
  BY <1>1, <1>4 DEF TypeOK, Label
<1>9. asked' \subseteq DOMAIN campaigns' /\ judged' \subseteq DOMAIN campaigns' /\ job' \in 0..Len(campaigns')
  BY <1>1, <1>3, <1>4 DEF TypeOK
<1>10. TypeOK'
  BY <1>1, <1>3, <1>4, <1>5, <1>6, <1>7, <1>8, <1>9 DEF TypeOK, Label
<1>11. HasRead'
  BY <1>1, <1>4 DEF HasRead, TypeOK, Carrying, WorkerCarrying
<1> QED
  BY <1>10, <1>11 DEF Shaped

\* So does what ingest() does after it released the lock.
LEMMA ShapedThread ==
    ASSUME Shaped, NEW t \in Thread, IngestStep(t)
    PROVE  Shaped'
<1>1. TypeOK /\ HasRead
  BY DEF Shaped
<1>2. pc[t] # "idle" => held[t] \in DOMAIN campaigns
  BY <1>1, HeldExists
<1>0. CASE Recompute(t)
  <2>1. held[t] \in DOMAIN campaigns /\ Worst(campaigns[held[t]].alerts) \in Severities
    BY <1>1, <1>0, HeldExists, WorstIs DEF Recompute
  <2>2. Rewritten(held[t])
    BY <1>1, <1>0, <2>1, SeverityWritten DEF Recompute, TypeOK
  <2> QED
    BY <1>1, <1>0, <2>2
    DEF Recompute, Rewritten, Shaped, TypeOK, HasRead, Carrying, WorkerCarrying, workerVars, history
<1>3. CASE CheckMature(t)
  <2>1. /\ pc[t] = "mature" /\ UNCHANGED <<now, campaigns, handler, jobs, workerPc, job, jobCount, jobSev, alertOf,
                                            asked, judged, blanked>>
        /\ \/ pc' = [pc EXCEPT ![t] = "narrative"] /\ UNCHANGED <<held, sevRead>>
           \/ pc' = [pc EXCEPT ![t] = "submit"] /\ UNCHANGED <<held, sevRead>>
           \/ /\ pc' = [pc EXCEPT ![t] = "idle"] /\ held' = [held EXCEPT ![t] = 0]
              /\ sevRead' = [sevRead EXCEPT ![t] = 0]
    BY <1>3 DEF CheckMature, Goto, Return, workerVars
  <2>2. heard' = heard \/ heard' = [heard EXCEPT ![held[t]] = Len(campaigns[held[t]].alerts)]
    BY <1>3 DEF CheckMature
  <2>3. held[t] \in DOMAIN campaigns /\ Len(campaigns[held[t]].alerts) \in Nat
    BY <1>1, <2>1, HeldExists
  <2>4. heard' \in [DOMAIN campaigns' -> Nat]
    BY <1>1, <2>1, <2>2, <2>3 DEF TypeOK
  <2>5. pc' \in [Thread -> Label] /\ held' \in [Thread -> 0..Len(campaigns)]
        /\ sevRead' \in [Thread -> Severities \cup {0}]
    <3>1. 0 \in 0..Len(campaigns)
      BY <1>1, HeldExists
    <3> QED
      BY <1>1, <2>1, <3>1 DEF TypeOK, Label
  <2>6. \A u \in Thread : held'[u] = 0 <=> pc'[u] = "idle"
    BY <1>1, <2>1 DEF TypeOK
  <2>7. HasRead'
    BY <1>1, <2>1 DEF TypeOK, HasRead, Carrying, WorkerCarrying
  <2> QED
    BY <1>1, <2>1, <2>4, <2>5, <2>6, <2>7 DEF Shaped, TypeOK, Label
<1>4. CASE CheckNarrative(t)
  BY <1>1, <1>4
  DEF CheckNarrative, Goto, Shaped, TypeOK, HasRead, Carrying, WorkerCarrying, workerVars, history
<1>5. CASE ReadSeverity(t)
  <2>1. campaigns[held[t]].severity \in Severities
    BY <1>1, <1>5, HeldExists DEF ReadSeverity
  <2> QED
    BY <1>1, <1>5, <2>1
    DEF ReadSeverity, Goto, Shaped, TypeOK, HasRead, Carrying, WorkerCarrying, workerVars, history
<1>6. CASE ApplyText(t)
  <2>1. Rewritten(held[t])
    BY <1>1, <1>2, <1>6, TextWritten DEF ApplyText, TypeOK
  <2> QED
    BY <1>1, <1>6, <2>1
    DEF ApplyText, Rewritten, Goto, Shaped, TypeOK, HasRead, Carrying, WorkerCarrying, workerVars,
        history
<1>7. CASE ApplySeverity(t)
  <2>1. sevRead[t] \in Severities
    BY <1>1, <1>7 DEF ApplySeverity, HasRead, Carrying
  <2>2. Rewritten(held[t])
    BY <1>1, <1>2, <1>7, <2>1, SeverityWritten DEF ApplySeverity, TypeOK
  <2> QED
    BY <1>1, <1>7, <2>2
    DEF ApplySeverity, Rewritten, Goto, Shaped, TypeOK, HasRead, Carrying, WorkerCarrying,
        workerVars, history
<1>8. CASE ApplyStatus(t)
  <2>1. Rewritten(held[t])
    BY <1>1, <1>2, <1>8, StatusWritten DEF ApplyStatus, TypeOK
  <2> QED
    BY <1>1, <1>8, <2>1
    DEF ApplyStatus, Rewritten, Goto, Shaped, TypeOK, HasRead, Carrying, WorkerCarrying,
        workerVars, history
<1>9. CASE Callback(t)
  <2>1. held[t] \in DOMAIN campaigns /\ Len(campaigns[held[t]].alerts) \in Nat
    BY <1>1, <1>9, HeldExists DEF Callback
  <2>2. heard' \in [DOMAIN campaigns -> Nat]
    BY <1>1, <1>9, <2>1 DEF Callback, TypeOK
  <2> QED
    BY <1>1, <1>9, <2>2
    DEF Callback, Goto, Shaped, TypeOK, HasRead, Carrying, WorkerCarrying, workerVars
<1>10. CASE SubmitSynthesis(t)
  <2>1. held[t] \in DOMAIN campaigns
    BY <1>2, <1>10 DEF SubmitSynthesis
  <2>2. JobsWith(held[t]) \in Seq(DOMAIN campaigns) /\ Len(JobsWith(held[t])) <= MaxPendingJobs
    <3>1. jobs \in Seq(DOMAIN campaigns) /\ Len(jobs) \in Nat /\ Len(jobs) <= MaxPendingJobs
          /\ MaxPendingJobs \in Nat \ {0}
      BY <1>1, LenProperties, CorrelatorAssumption DEF TypeOK, CorrelatorAssumption
    <3>2. CASE Len(jobs) < MaxPendingJobs
      BY <2>1, <3>1, <3>2, AppendProperties DEF JobsWith
    <3>3. CASE ~(Len(jobs) < MaxPendingJobs)
      <4>1. Tail(jobs) \in Seq(DOMAIN campaigns) /\ Len(Tail(jobs)) = Len(jobs) - 1
        BY <3>1, <3>3, HeadTailProperties, EmptySeq
      <4> QED
        BY <2>1, <3>1, <3>3, <4>1, AppendProperties DEF JobsWith
    <3> QED
      BY <3>2, <3>3
  <2>3. /\ jobs' \in Seq(DOMAIN campaigns) /\ Len(jobs') <= MaxPendingJobs /\ asked' \subseteq DOMAIN campaigns
        /\ pc' = [pc EXCEPT ![t] = "idle"] /\ held' = [held EXCEPT ![t] = 0]
        /\ sevRead' = [sevRead EXCEPT ![t] = 0]
        /\ UNCHANGED <<now, campaigns, handler, workerPc, job, jobCount, jobSev, alertOf, judged, blanked, heard>>
    BY <1>1, <1>10, <2>1, <2>2 DEF SubmitSynthesis, Return, Goto, TypeOK, workerVars
  <2> QED
    BY <1>1, <2>3 DEF Shaped, TypeOK, HasRead, Carrying, WorkerCarrying
<1> QED
  BY <1>0, <1>3, <1>4, <1>5, <1>6, <1>7, <1>8, <1>9, <1>10 DEF IngestStep

\* And what the worker does
LEMMA ShapedWorker ==
    ASSUME Shaped, Worker
    PROVE  Shaped'
<1>1. TypeOK /\ HasRead
  BY DEF Shaped
<1>2. workerPc # "idle" => job \in DOMAIN campaigns
  BY <1>1, HeldExists
<1>3. CASE SynthesisStart
  <2>1. /\ Head(jobs) \in DOMAIN campaigns /\ Tail(jobs) \in Seq(DOMAIN campaigns)
        /\ Len(Tail(jobs)) <= MaxPendingJobs
    <3>1. jobs \in Seq(DOMAIN campaigns) /\ jobs # <<>> /\ Len(jobs) \in Nat
          /\ Len(jobs) <= MaxPendingJobs /\ MaxPendingJobs \in Nat
      BY <1>1, <1>3, LenProperties, CorrelatorAssumption
      DEF SynthesisStart, TypeOK, CorrelatorAssumption
    <3>2. Head(jobs) \in DOMAIN campaigns /\ Tail(jobs) \in Seq(DOMAIN campaigns)
          /\ Len(Tail(jobs)) = Len(jobs) - 1
      BY <3>1, HeadTailProperties
    <3> QED
      BY <3>1, <3>2
  <2>2. Len(campaigns[Head(jobs)].alerts) \in Nat /\ Head(jobs) \in 1..Len(campaigns)
    BY <1>1, <2>1, HeldExists
  <2>3. /\ jobs' = Tail(jobs)
        /\ \/ UNCHANGED <<workerPc, job, jobCount, jobSev>>
           \/ /\ job' = Head(jobs) /\ jobCount' = Len(campaigns[Head(jobs)].alerts)
              /\ workerPc' = "infer" /\ jobSev' = jobSev
        /\ UNCHANGED <<now, campaigns, handler, pc, held, sevRead, alertOf, asked, judged, blanked, heard>>
    BY <1>3 DEF SynthesisStart, workerVars, threadVars, history
  <2>4. /\ workerPc' \in WorkerLabel /\ (workerPc' \in WorkerCarrying => workerPc \in WorkerCarrying)
        /\ job' \in 0..Len(campaigns) /\ (job' = 0 <=> workerPc' = "idle") /\ jobCount' \in Nat
    <3>1. Len(campaigns) \in Nat /\ Head(jobs) \in 0..Len(campaigns) /\ Head(jobs) # 0
      BY <1>1, <2>2, HeldExists
    <3> QED
      BY <1>1, <2>2, <2>3, <3>1 DEF TypeOK, WorkerLabel, WorkerCarrying
  <2> QED
    BY <1>1, <2>1, <2>3, <2>4 DEF Shaped, TypeOK, HasRead, Carrying, WorkerCarrying, WorkerLabel
<1>4. CASE SynthesisFromModel
  <2>1. job \in DOMAIN campaigns
    BY <1>2, <1>4 DEF SynthesisFromModel
  <2>2. PICK text \in {"model", "none"} :
          /\ campaigns' = [campaigns EXCEPT ![job].synthesis = text]
          /\ blanked' \in {blanked, blanked \cup Overtaken}
    BY <1>4 DEF SynthesisFromModel
  <2>3. Rewritten(job) /\ blanked' \subseteq Thread
    BY <1>1, <2>1, <2>2, TextWritten DEF TypeOK, Overtaken
  <2> QED
    BY <1>1, <1>4, <2>1, <2>3
    DEF SynthesisFromModel, Rewritten, Shaped, TypeOK, HasRead, Carrying, WorkerCarrying, threadVars
<1>5. CASE AnsweredSeverity
  <2>1. job \in DOMAIN campaigns
    BY <1>2, <1>5 DEF AnsweredSeverity
  <2>2. Rewritten(job)
    BY <1>1, <1>5, <2>1, SeverityWritten DEF AnsweredSeverity, TypeOK
  <2> QED
    BY <1>1, <1>5, <2>2
    DEF AnsweredSeverity, Rewritten, Shaped, TypeOK, HasRead, Carrying, WorkerCarrying,
        threadVars, history
<1>8. CASE SynthesisFromRules
  <2>1. job \in DOMAIN campaigns /\ campaigns[job].severity \in Severities
    BY <1>1, <1>8, HeldExists DEF SynthesisFromRules
  <2> QED
    BY <1>1, <1>8, <2>1
    DEF SynthesisFromRules, Shaped, TypeOK, HasRead, Carrying, WorkerCarrying, threadVars, history
<1>9. CASE RulesText
  <2>1. job \in DOMAIN campaigns
    BY <1>2, <1>9 DEF RulesText
  <2>2. Rewritten(job)
    BY <1>1, <1>9, <2>1, TextWritten DEF RulesText, TypeOK
  <2> QED
    BY <1>1, <1>9, <2>2
    DEF RulesText, Rewritten, Shaped, TypeOK, HasRead, Carrying, WorkerCarrying, threadVars, history
<1>10. CASE RulesSeverity
  <2>1. job \in DOMAIN campaigns /\ jobSev \in Severities
    BY <1>1, <1>2, <1>10 DEF RulesSeverity, HasRead, Carrying, WorkerCarrying
  <2>2. Rewritten(job)
    BY <1>1, <1>10, <2>1, SeverityWritten DEF RulesSeverity, TypeOK
  <2> QED
    BY <1>1, <1>10, <2>2
    DEF RulesSeverity, Rewritten, Shaped, TypeOK, HasRead, Carrying, WorkerCarrying, threadVars,
        history
<1>11. CASE SynthesisStatus
  <2>1. job \in DOMAIN campaigns
    BY <1>2, <1>11 DEF SynthesisStatus
  <2>2. Rewritten(job)
    BY <1>1, <1>11, <2>1, SynthesisWritten DEF SynthesisStatus, TypeOK
  <2> QED
    BY <1>1, <1>11, <2>2
    DEF SynthesisStatus, Rewritten, Shaped, TypeOK, HasRead, Carrying, WorkerCarrying, threadVars,
        history
<1>6. CASE SynthesisNotify
  <2>1. job \in DOMAIN campaigns /\ Len(campaigns[job].alerts) \in Nat
    BY <1>1, <1>6, HeldExists DEF SynthesisNotify
  <2>2. heard' \in [DOMAIN campaigns -> Nat]
    BY <1>1, <1>6, <2>1 DEF SynthesisNotify, TypeOK
  <2>3. 0 \in 0..Len(campaigns)
    BY <1>1, HeldExists
  <2> QED
    BY <1>1, <1>6, <2>2, <2>3
    DEF SynthesisNotify, Shaped, TypeOK, HasRead, Carrying, WorkerCarrying, threadVars
<1>7. CASE SynthesisNotifyRaises
  BY <1>1, <1>7
  DEF SynthesisNotifyRaises, Shaped, TypeOK, HasRead, Carrying, WorkerCarrying, threadVars, history
<1> QED
  BY <1>3, <1>4, <1>5, <1>6, <1>7, <1>8, <1>9, <1>10, <1>11 DEF Worker

\* Every step keeps the shape.
LEMMA ShapedStep == Shaped /\ [Next]_vars => Shaped'
<1> SUFFICES ASSUME Shaped, [Next]_vars PROVE Shaped'
  OBVIOUS
<1>1. TypeOK /\ HasRead
  BY DEF Shaped
<1>2. ASSUME NEW t \in Thread, NEW sev \in Severities, NEW entities \in EntitySets,
             Ingest(t, sev, entities)
      PROVE  Shaped'
  BY <1>2, ShapedIngest
<1>3. ASSUME NEW t \in Thread, IngestStep(t) PROVE Shaped'
  BY <1>3, ShapedThread
<1>4. CASE Worker
  BY <1>4, ShapedWorker
<1>5. CASE Prune
  <2>1. /\ campaigns' \in Seq(Campaign) /\ Len(campaigns') = Len(campaigns)
        /\ DOMAIN campaigns' = DOMAIN campaigns
    BY <1>1, <1>5, PruneWritten DEF TypeOK
  <2> QED
    BY <1>1, <1>5, <2>1
    DEF Prune, Shaped, TypeOK, HasRead, Carrying, WorkerCarrying, threadVars, workerVars, history
<1>6. CASE SetHandler
  BY <1>1, <1>6
  DEF SetHandler, Shaped, TypeOK, HasRead, Carrying, WorkerCarrying, threadVars, workerVars, history
<1>7. CASE Tick
  <2>1. now' \in 0..MaxTime
    BY <1>1, <1>7, CorrelatorAssumption DEF Tick, TypeOK, CorrelatorAssumption
  <2> QED
    BY <1>1, <1>7, <2>1
    DEF Tick, Shaped, TypeOK, HasRead, Carrying, WorkerCarrying, threadVars, workerVars, history
<1>8. CASE UNCHANGED vars
  BY <1>1, <1>8
  DEF vars, Shaped, TypeOK, HasRead, Carrying, WorkerCarrying, threadVars, workerVars, history
<1> QED
  BY <1>2, <1>3, <1>4, <1>5, <1>6, <1>7, <1>8 DEF Next

\* TypeOK holds in every behaviour: the indices the threads, the worker and
\* the queue hold are campaigns, whatever was pruned or added meanwhile.
THEOREM CampaignsWellFormed == Spec => []TypeOK
<1>1. Shaped => TypeOK
  BY DEF Shaped
<1> QED
  BY ShapedInit, ShapedStep, <1>1, PTL DEF Spec

-----------------------------------------------------------------------------
(* The invariant                                                           *)

\* Past the maturity check, on the way to the handler
Informing == {"narrative", "rules", "applyText", "applySeverity", "applyStatus", "callback"}
Coming == Informing \cup {"recompute", "mature"}
\* Past the narrative's text
Writing == {"applySeverity", "applyStatus", "callback"}
WorkerWriting == {"answered", "status", "rulesText", "rulesStatus"}

\* Nobody else has the lock while a thread is between append and recompute.
Exclusive ==
    /\ \A t, u \in Thread : pc[t] = "recompute" /\ pc[u] = "recompute" => t = u
    /\ workerPc \in WorkerWriting \cup {"rules"} => \A t \in Thread : pc[t] # "recompute"

\* From where on a thread's campaign is mature and has a narrative
Narrated ==
    /\ \A t \in Thread :
          /\ pc[t] \in Informing => Mature(campaigns[held[t]])
          /\ pc[t] \in Writing => /\ campaigns[held[t]].synthesis # ""
                                  /\ HasText(campaigns[held[t]]) \/ t \in blanked
    /\ \A i \in DOMAIN campaigns :
          campaigns[i].status = "SYNTHESIZED" => campaigns[i].synthesis # ""
    /\ workerPc \in WorkerWriting => campaigns[job].synthesis # ""

\* Whoever has not told the handler of an alert is on its way there.
Heard ==
    \A i \in DOMAIN campaigns :
        Mature(campaigns[i]) =>
            \/ heard[i] = Len(campaigns[i].alerts)
            \/ \E t \in Thread : pc[t] \in Coming /\ held[t] = i

\* The severities of the campaigns, and those still to be written
Rated ==
    /\ \A i \in DOMAIN campaigns : Taken(i) \in 1..Len(campaigns[i].alerts)
    /\ \A i \in DOMAIN campaigns \ judged :
          Bounded(campaigns[i].severity, campaigns[i].alerts, Taken(i))
    /\ \A t \in Thread :
          pc[t] \in Carrying /\ held[t] \notin judged =>
              Bounded(sevRead[t], campaigns[held[t]].alerts, MinAlerts - 1)
    /\ workerPc \in WorkerCarrying /\ job \notin judged =>
          Bounded(jobSev, campaigns[job].alerts, Len(campaigns[job].alerts))
    /\ workerPc = "answered" => job \in judged

IInv == Shaped /\ Exclusive /\ Narrated /\ Heard /\ Rated

\* The lock keeps the others out.
LEMMA ExclusiveStep ==
    ASSUME Shaped, Exclusive, [Next]_vars
    PROVE  Exclusive'
<1>1. TypeOK
  BY DEF Shaped
<1>2. ASSUME NEW t \in Thread, NEW sev \in Severities, NEW entities \in EntitySets,
             Ingest(t, sev, entities)
      PROVE  Exclusive'
  <2>1. Free /\ workerPc' = workerPc /\ \A u \in Thread \ {t} : pc'[u] = pc[u]
    BY <1>1, <1>2 DEF Ingest, TypeOK, workerVars
  <2> QED
    BY <2>1 DEF Free, Exclusive, WorkerWriting
<1>3. ASSUME NEW t \in Thread, IngestStep(t) PROVE Exclusive'
  <2>1. workerPc' = workerPc /\ \E label \in Label \ {"recompute"} : pc' = [pc EXCEPT ![t] = label]
    BY <1>3 DEF IngestStep, Recompute, CheckMature, CheckNarrative, ReadSeverity, ApplyText,
                ApplySeverity, ApplyStatus, Callback, SubmitSynthesis, Goto, Return, workerVars, Label
  <2>2. \A u \in Thread : pc'[u] = "recompute" => pc[u] = "recompute"
    BY <1>1, <2>1 DEF TypeOK
  <2> QED
    BY <2>1, <2>2 DEF Exclusive
<1>4. CASE Worker
  <2>1. pc' = pc
    BY <1>4 DEF Worker, SynthesisStart, SynthesisFromModel, AnsweredSeverity, SynthesisFromRules,
                RulesText, RulesSeverity, SynthesisStatus, SynthesisNotify,
                SynthesisNotifyRaises, threadVars
  <2>2. workerPc' \in WorkerWriting \cup {"rules"} => workerPc \in WorkerWriting \cup {"rules"} \/ Free
    BY <1>4 DEF Worker, SynthesisStart, SynthesisFromModel, AnsweredSeverity, SynthesisFromRules,
                RulesText, RulesSeverity, SynthesisStatus, SynthesisNotify,
                SynthesisNotifyRaises, WorkerWriting, workerVars
  <2> QED
    BY <2>1, <2>2 DEF Exclusive, Free
<1>5. CASE Prune \/ SetHandler \/ Tick \/ UNCHANGED vars
  BY <1>5 DEF Prune, SetHandler, Tick, vars, threadVars, workerVars, Exclusive
<1> QED
  BY <1>2, <1>3, <1>4, <1>5 DEF Next

\* No alert joins.
AlertsKept ==
    /\ DOMAIN campaigns' = DOMAIN campaigns
    /\ \A i \in DOMAIN campaigns : campaigns'[i].alerts = campaigns[i].alerts

\* A step that takes no narrative away
LEMMA StillNarrated ==
    ASSUME Shaped, Narrated, AlertsKept,
           \A i \in DOMAIN campaigns :
              \/ campaigns'[i].synthesis # ""
              \/ /\ campaigns'[i].synthesis = campaigns[i].synthesis
                 /\ campaigns'[i].status \in {campaigns[i].status, "EXPIRED"},
           \A u \in Thread :
              /\ pc'[u] \in Informing =>
                    /\ held'[u] = held[u] /\ held[u] \in DOMAIN campaigns
                    /\ pc[u] \in Informing \/ Mature(campaigns[held[u]])
              /\ pc'[u] \in Writing =>
                    \/ HasText(campaigns'[held[u]])
                    \/ /\ pc[u] \in Writing
                       /\ u \in blanked' \/ (u \notin blanked /\
                              campaigns'[held[u]].synthesis = campaigns[held[u]].synthesis),
           workerPc' \in WorkerWriting =>
              /\ job' = job /\ job \in DOMAIN campaigns
              /\ workerPc \in WorkerWriting \/ campaigns'[job].synthesis # ""
    PROVE  Narrated'
<1>1. ASSUME NEW u \in Thread, pc'[u] \in Informing PROVE Mature(campaigns'[held'[u]])
  BY <1>1 DEF Narrated, AlertsKept, Mature
<1>2. ASSUME NEW u \in Thread, pc'[u] \in Writing
      PROVE  /\ campaigns'[held'[u]].synthesis # ""
             /\ HasText(campaigns'[held'[u]]) \/ u \in blanked'
  <2>1. held'[u] = held[u] /\ held[u] \in DOMAIN campaigns
    BY <1>2 DEF Informing, Writing
  <2>2. CASE HasText(campaigns'[held[u]])
    BY <2>1, <2>2 DEF HasText
  <2>3. CASE ~HasText(campaigns'[held[u]])
    <3>1. pc[u] \in Writing /\ campaigns[held[u]].synthesis # ""
      BY <1>2, <2>3 DEF Narrated
    <3>2. campaigns'[held[u]].synthesis # ""
      BY <2>1, <3>1
    <3>3. u \in blanked'
      BY <1>2, <2>3, <3>1 DEF Narrated, HasText
    <3> QED
      BY <2>1, <3>2, <3>3
  <2> QED
    BY <2>2, <2>3
<1>3. \A i \in DOMAIN campaigns' : campaigns'[i].status = "SYNTHESIZED" => campaigns'[i].synthesis # ""
  BY DEF Narrated, AlertsKept
<1>4. workerPc' \in WorkerWriting => campaigns'[job'].synthesis # ""
  BY DEF Narrated
<1> QED
  BY <1>1, <1>2, <1>3, <1>4 DEF Narrated

\* A step after which whoever was on the way to the handler still is, or has
\* told it
LEMMA StillHeard ==
    ASSUME Shaped, Heard, AlertsKept,
           \A i \in DOMAIN campaigns : heard'[i] \in {heard[i], Len(campaigns[i].alerts)},
           \A u \in Thread :
              pc[u] \in Coming /\ Mature(campaigns[held[u]]) =>
                  \/ pc'[u] \in Coming /\ held'[u] = held[u]
                  \/ heard'[held[u]] = Len(campaigns[held[u]].alerts)
    PROVE  Heard'
  BY DEF Heard, AlertsKept, Mature

\* A step in which no severity is taken up
LEMMA StillRated ==
    ASSUME Shaped, Rated, AlertsKept, judged \subseteq judged',
           \A u \in Thread :
              /\ (pc'[u] = "recompute") = (pc[u] = "recompute")
              /\ pc[u] = "recompute" => held'[u] = held[u]
              /\ pc'[u] \in Carrying => /\ pc[u] \in Carrying /\ held'[u] = held[u]
                                        /\ sevRead'[u] = sevRead[u],
           \A i \in DOMAIN campaigns \ judged' :
              \/ campaigns'[i].severity = campaigns[i].severity
              \/ Bounded(campaigns'[i].severity, campaigns[i].alerts, Taken(i)),
           workerPc' \in WorkerCarrying =>
              /\ job' = job /\ job \in DOMAIN campaigns
              /\ workerPc \in WorkerCarrying /\ jobSev' = jobSev,
           workerPc' = "answered" => job' \in judged'
    PROVE  Rated'
<1>1. \A i \in DOMAIN campaigns : Taken(i)' = Taken(i)
  BY DEF Taken, Recomputing, AlertsKept
<1>2. \A u \in Thread : pc[u] \in Carrying => held[u] \in DOMAIN campaigns
  BY HeldExists DEF Shaped, Carrying
<1>3. \A i \in DOMAIN campaigns' : Taken(i)' \in 1..Len(campaigns'[i].alerts)
  BY <1>1 DEF Rated, AlertsKept
<1>4. \A i \in DOMAIN campaigns' \ judged' :
          Bounded(campaigns'[i].severity, campaigns'[i].alerts, Taken(i)')
  BY <1>1 DEF Rated, AlertsKept
<1>5. \A u \in Thread : pc'[u] \in Carrying /\ held'[u] \notin judged' =>
          Bounded(sevRead'[u], campaigns'[held'[u]].alerts, MinAlerts - 1)
  BY <1>2 DEF Rated, AlertsKept
<1>6. workerPc' \in WorkerCarrying /\ job' \notin judged' =>
          Bounded(jobSev', campaigns'[job'].alerts, Len(campaigns'[job'].alerts))
  BY DEF Rated, AlertsKept
<1> QED
  BY <1>3, <1>4, <1>5, <1>6 DEF Rated

\* In a mature campaign the severity is within the bounds of the first alerts.
LEMMA MatureBounded ==
    ASSUME Shaped, Rated, NEW i \in DOMAIN campaigns, Mature(campaigns[i])
    PROVE  /\ campaigns[i].alerts \in Alerts
           /\ Taken(i) \in 1..Len(campaigns[i].alerts) /\ Taken(i) >= MinAlerts - 1
           /\ MinAlerts - 1 \in 1..Len(campaigns[i].alerts)
<1>1. campaigns[i].alerts \in Alerts /\ Len(campaigns[i].alerts) \in Nat /\ MinAlerts \in Nat \ {0, 1}
  BY HeldExists, CorrelatorAssumption DEF Shaped, CorrelatorAssumption
<1>2. Taken(i) \in 1..Len(campaigns[i].alerts) /\ Taken(i) >= Len(campaigns[i].alerts) - 1
  <2>1. Taken(i) \in 1..Len(campaigns[i].alerts)
    BY DEF Rated
  <2>2. CASE Recomputing(i)
    BY <1>1, <2>1, <2>2 DEF Taken
  <2>3. CASE ~Recomputing(i)
    BY <1>1, <2>1, <2>3 DEF Taken
  <2> QED
    BY <2>2, <2>3
<1>3. Len(campaigns[i].alerts) >= MinAlerts
  BY DEF Mature
<1>4. MinAlerts - 1 \in 1..Len(campaigns[i].alerts)
  BY <1>1, <1>3
<1>5. Taken(i) \in Int
  BY <1>1, <1>2
<1>6. Taken(i) >= MinAlerts - 1
  BY <1>1, <1>2, <1>3, <1>5
<1> QED
  BY <1>1, <1>2, <1>4, <1>6

\* What a thread does after it appended an alert keeps the invariant.
LEMMA ThreadKeeps ==
    ASSUME IInv, NEW t \in Thread, IngestStep(t)
    PROVE  Narrated' /\ Heard' /\ Rated'
<1>1. Shaped /\ TypeOK /\ HasRead /\ Exclusive /\ Narrated /\ Heard /\ Rated
  BY DEF IInv, Shaped
<1>2. \A u \in Thread : pc[u] # "idle" => held[u] \in DOMAIN campaigns
  BY <1>1, HeldExists
<1>3. UNCHANGED <<workerPc, job, jobSev, judged>>
  BY DEF IngestStep, Recompute, CheckMature, CheckNarrative, ReadSeverity, ApplyText, ApplySeverity,
         ApplyStatus, Callback, SubmitSynthesis, workerVars, history
<1>4. /\ \A u \in Thread \ {t} : pc'[u] = pc[u] /\ held'[u] = held[u] /\ sevRead'[u] = sevRead[u]
      /\ blanked \ {t} \subseteq blanked' /\ blanked' \subseteq blanked
      /\ pc[t] # "idle" /\ pc[t] \in Label /\ pc'[t] \in Label
  <2>1. /\ \E label \in Label : pc' = [pc EXCEPT ![t] = label]
        /\ held' = held \/ held' = [held EXCEPT ![t] = 0]
        /\ \E sev : sevRead' = sevRead \/ sevRead' = [sevRead EXCEPT ![t] = sev]
    BY
    DEF IngestStep, Recompute, CheckMature, CheckNarrative, ReadSeverity, ApplyText, ApplySeverity,
           ApplyStatus, Callback, SubmitSynthesis, Goto, Return, Label
  <2>2. pc[t] # "idle" /\ blanked' \in {blanked, blanked \ {t}}
    BY
    DEF IngestStep, Recompute, CheckMature, CheckNarrative, ReadSeverity, ApplyText, ApplySeverity,
           ApplyStatus, Callback, SubmitSynthesis, history
  <2> QED
    BY <1>1, <2>1, <2>2 DEF TypeOK, Label
<1>5. /\ workerPc \in WorkerWriting \cup WorkerCarrying => job \in DOMAIN campaigns
      /\ workerPc = "answered" => job \in judged
      /\ \A u \in Thread : pc[u] \in Coming \cup Carrying => held[u] \in DOMAIN campaigns
  BY <1>1, HeldExists DEF WorkerWriting, WorkerCarrying, Rated, Coming, Carrying, Informing
<1>15. ASSUME AlertsKept,
              \A i \in DOMAIN campaigns :
                 /\ \/ campaigns'[i].synthesis # ""
                    \/ /\ campaigns'[i].synthesis = campaigns[i].synthesis
                       /\ campaigns'[i].status \in {campaigns[i].status, "EXPIRED"}
                 /\ campaigns'[i].synthesis = campaigns[i].synthesis \/ HasText(campaigns'[i]),
              pc'[t] \in Informing =>
                 held'[t] = held[t] /\ (pc[t] \in Informing \/ Mature(campaigns[held[t]])),
              pc'[t] \in Writing =>
                 HasText(campaigns'[held[t]]) \/ (pc[t] \in Writing /\ blanked' = blanked)
       PROVE  Narrated'
  <2>1. ASSUME NEW u \in Thread, pc'[u] \in Informing
        PROVE  /\ held'[u] = held[u] /\ held[u] \in DOMAIN campaigns
               /\ pc[u] \in Informing \/ Mature(campaigns[held[u]])
    BY <1>2, <1>4, <1>15, <2>1 DEF Informing
  <2>2. ASSUME NEW u \in Thread, pc'[u] \in Writing
        PROVE  \/ HasText(campaigns'[held[u]])
               \/ /\ pc[u] \in Writing
                  /\ u \in blanked' \/ (u \notin blanked /\
                              campaigns'[held[u]].synthesis = campaigns[held[u]].synthesis)
    <3>1. held[u] \in DOMAIN campaigns
      BY <2>1, <2>2 DEF Informing, Writing
    <3>2. u # t => pc[u] \in Writing /\ (u \in blanked => u \in blanked')
      BY <1>4, <2>2
    <3>3. u = t => HasText(campaigns'[held[u]])
                   \/ (pc[u] \in Writing /\ (u \in blanked => u \in blanked'))
      BY <1>15, <2>2
    <3> QED
      BY <1>15, <3>1, <3>2, <3>3
  <2>3. workerPc' \in WorkerWriting =>
            /\ job' = job /\ job \in DOMAIN campaigns
            /\ workerPc \in WorkerWriting \/ campaigns'[job].synthesis # ""
    BY <1>3, <1>5
  <2> QED
    BY <1>1, <1>15, <2>1, <2>2, <2>3, StillNarrated
<1>6. CASE Recompute(t)
  <2>1. /\ pc[t] = "recompute" /\ pc'[t] = "mature" /\ held' = held /\ sevRead' = sevRead
        /\ UNCHANGED <<heard, blanked>>
        /\ campaigns' = [campaigns EXCEPT ![held[t]].severity = Worst(campaigns[held[t]].alerts)]
    BY <1>1, <1>6 DEF Recompute, TypeOK, history
  <2>2. /\ held[t] \in DOMAIN campaigns /\ campaigns[held[t]].alerts \in Alerts
        /\ Worst(campaigns[held[t]].alerts) \in Severities
    BY <1>1, <1>2, <2>1, HeldExists, WorstIs
  <2>3. /\ Rewritten(held[t]) /\ campaigns'[held[t]].severity = Worst(campaigns[held[t]].alerts)
        /\ campaigns'[held[t]].synthesis = campaigns[held[t]].synthesis
        /\ campaigns'[held[t]].status = campaigns[held[t]].status
    BY <1>1, <2>1, <2>2, SeverityWritten DEF TypeOK
  <2>4. /\ AlertsKept
        /\ \A i \in DOMAIN campaigns : /\ campaigns'[i].synthesis = campaigns[i].synthesis
                                       /\ campaigns'[i].status = campaigns[i].status
    BY <2>3 DEF AlertsKept, Rewritten
  <2>5. Narrated'
    BY <2>1, <2>4, <1>1, <1>2, <1>15 DEF Informing, Writing
  <2>6. Heard'
    BY <1>1, <1>4, <2>1, <2>4, StillHeard DEF Coming
  <2>7. \A i \in DOMAIN campaigns : ~Recomputing(i)' /\ Taken(i)' = Len(campaigns[i].alerts)
    <3>1. \A u \in Thread : pc'[u] # "recompute"
      BY <1>1, <1>4, <2>1 DEF Exclusive
    <3>2. \A i \in DOMAIN campaigns : ~Recomputing(i)' /\ Len(campaigns'[i].alerts) \in Nat
      BY <1>1, <2>4, <3>1, HeldExists DEF Recomputing, AlertsKept
    <3> QED
      BY <2>4, <3>2 DEF Taken, Recomputing, AlertsKept
  <2>8. \A i \in DOMAIN campaigns \ {held[t]} : Taken(i) = Len(campaigns[i].alerts)
    <3>1. \A i \in DOMAIN campaigns \ {held[t]} : ~Recomputing(i)
      <4>1. \A u \in Thread : pc[u] = "recompute" => u = t
        BY <1>1, <2>1 DEF Exclusive
      <4> QED
        BY <4>1 DEF Recomputing
    <3> QED
      BY <1>1, <3>1, HeldExists DEF Taken, Recomputing
  <2>9. Rated'
    <3>1. Len(campaigns[held[t]].alerts) \in 1..Len(campaigns[held[t]].alerts)
      BY <1>1, <2>2, HeldExists, FirstIs, LenProperties, EmptySeq DEF Alerts
    <3>2. \A i \in DOMAIN campaigns' : Taken(i)' \in 1..Len(campaigns'[i].alerts)
      <4>1. \A i \in DOMAIN campaigns : Len(campaigns[i].alerts) \in 1..Len(campaigns[i].alerts)
        <5>1. \A alerts \in Alerts : Len(alerts) \in Nat /\ Len(alerts) # 0
          BY LenProperties, EmptySeq DEF Alerts
        <5> QED
          BY <1>1, <5>1, HeldExists
      <4> QED
        BY <2>4, <2>7, <4>1 DEF AlertsKept
    <3>3. ASSUME NEW i \in DOMAIN campaigns' \ judged'
          PROVE  Bounded(campaigns'[i].severity, campaigns'[i].alerts, Taken(i)')
      <4>1. CASE i = held[t]
        <5>1. Bounded(campaigns'[i].severity, campaigns[i].alerts, Len(campaigns[i].alerts))
          BY <2>2, <2>3, <3>1, <4>1, WorstBounded
        <5>2. Taken(i)' = Len(campaigns[i].alerts) /\ campaigns'[i].alerts = campaigns[i].alerts
          BY <2>2, <2>4, <2>7, <4>1 DEF AlertsKept
        <5> QED
          BY <5>1, <5>2
      <4>2. CASE i # held[t]
        BY <1>1, <1>3, <2>3, <2>4, <2>7, <2>8, <4>2 DEF Rated, AlertsKept, Rewritten
      <4> QED
        BY <4>1, <4>2
    <3>4. \A u \in Thread : pc'[u] \in Carrying => pc[u] \in Carrying /\ held[u] \in DOMAIN campaigns
      BY <1>4, <1>5, <2>1 DEF Carrying
    <3>5. \A u \in Thread : pc'[u] \in Carrying /\ held'[u] \notin judged' =>
              Bounded(sevRead'[u], campaigns'[held'[u]].alerts, MinAlerts - 1)
      BY <1>1, <1>3, <2>1, <2>4, <3>4 DEF Rated, AlertsKept
    <3>6. workerPc' \in WorkerCarrying /\ job' \notin judged' =>
              Bounded(jobSev', campaigns'[job'].alerts, Len(campaigns'[job'].alerts))
      BY <1>1, <1>3, <1>5, <2>4 DEF Rated, AlertsKept
    <3>7. workerPc' = "answered" => job' \in judged'
      BY <1>3, <1>5
    <3> QED
      BY <3>2, <3>3, <3>5, <3>6, <3>7 DEF Rated
  <2> QED
    BY <2>5, <2>6, <2>9
<1>7. CASE CheckMature(t)
  <2>1. /\ pc[t] = "mature" /\ UNCHANGED <<campaigns, blanked>>
        /\ pc'[t] \in {"narrative", "submit", "idle"}
        /\ (pc'[t] # "idle" => held'[t] = held[t] /\ Mature(campaigns[held[t]]))
        /\ (pc'[t] = "idle" => ~Mature(campaigns[held[t]]))
        /\ (pc'[t] = "narrative" <=> handler /\ Mature(campaigns[held[t]]))
        /\ heard' = IF handler THEN heard
                    ELSE [heard EXCEPT ![held[t]] = Len(campaigns[held[t]].alerts)]
    BY <1>1, <1>7 DEF CheckMature, Goto, Return, TypeOK
  <2>2. AlertsKept
    BY <2>1 DEF AlertsKept
  <2>3. \A i \in DOMAIN campaigns :
            heard'[i] = IF handler \/ i # held[t] THEN heard[i] ELSE Len(campaigns[i].alerts)
    BY <1>1, <2>1 DEF TypeOK
  <2>4. Narrated'
    BY <2>1, <2>2, <1>1, <1>2, <1>15 DEF Informing, Writing
  <2>5. Heard'
    BY <1>1, <1>2, <1>4, <2>1, <2>2, <2>3, StillHeard DEF Coming, Informing
  <2>6. Rated'
    BY <1>1, <1>3, <1>4, <1>5, <2>1, <2>2, StillRated DEF Carrying
  <2> QED
    BY <2>4, <2>5, <2>6
<1>8. CASE CheckNarrative(t)
  <2>1. /\ pc[t] = "narrative" /\ UNCHANGED <<campaigns, held, sevRead, heard, blanked>>
        /\ pc'[t] = IF HasText(campaigns[held[t]]) THEN "callback" ELSE "rules"
    BY <1>1, <1>8 DEF CheckNarrative, Goto, TypeOK, history
  <2>2. AlertsKept
    BY <2>1 DEF AlertsKept
  <2>3. Narrated'
    BY <2>1, <2>2, <1>1, <1>2, <1>15 DEF Informing, Writing
  <2>4. Heard'
    BY <1>1, <1>4, <2>1, <2>2, StillHeard DEF Coming, Informing
  <2>5. Rated'
    BY <1>1, <1>3, <1>4, <1>5, <2>1, <2>2, StillRated DEF Carrying
  <2> QED
    BY <2>3, <2>4, <2>5
<1>9. CASE ReadSeverity(t)
  <2>1. /\ pc[t] = "rules" /\ pc'[t] = "applyText" /\ UNCHANGED <<campaigns, held, heard, blanked>>
        /\ sevRead'[t] = campaigns[held[t]].severity
    BY <1>1, <1>9 DEF ReadSeverity, Goto, TypeOK, history
  <2>2. AlertsKept /\ held[t] \in DOMAIN campaigns /\ Mature(campaigns[held[t]])
    BY <1>1, <1>2, <2>1 DEF AlertsKept, Narrated, Informing
  <2>3. Narrated'
    BY <2>1, <2>2, <1>1, <1>2, <1>15 DEF Informing, Writing
  <2>4. Heard'
    BY <1>1, <1>4, <2>1, <2>2, StillHeard DEF Coming, Informing
  <2>5. held[t] \notin judged => Bounded(sevRead'[t], campaigns[held[t]].alerts, MinAlerts - 1)
    <3>1. held[t] \notin judged => Bounded(sevRead'[t], campaigns[held[t]].alerts, Taken(held[t]))
      BY <1>1, <2>1, <2>2 DEF Rated
    <3>2. MinAlerts - 1 >= MinAlerts - 1
      BY CorrelatorAssumption DEF CorrelatorAssumption
    <3> QED
      BY <1>1, <2>2, <3>1, <3>2, MatureBounded, BoundedAlike
  <2>6. \A i \in DOMAIN campaigns : Taken(i)' = Taken(i)
    BY <1>4, <2>1 DEF Taken, Recomputing
  <2>7. Rated'
    <3>1. \A u \in Thread : pc'[u] \in Carrying /\ held'[u] \notin judged' =>
              Bounded(sevRead'[u], campaigns'[held'[u]].alerts, MinAlerts - 1)
      BY <1>1, <1>3, <1>4, <2>1, <2>5 DEF Rated
    <3> QED
      BY <1>1, <1>3, <2>1, <2>6, <3>1 DEF Rated
  <2> QED
    BY <2>3, <2>4, <2>7
<1>10. CASE ApplyText(t)
  <2>1. /\ pc[t] = "applyText" /\ pc'[t] = "applySeverity" /\ UNCHANGED <<held, sevRead, heard, blanked>>
        /\ campaigns' = [campaigns EXCEPT ![held[t]].synthesis = "rules"]
    BY <1>1, <1>10 DEF ApplyText, Goto, TypeOK, history
  <2>2. /\ Rewritten(held[t]) /\ campaigns'[held[t]].synthesis = "rules"
        /\ campaigns'[held[t]].severity = campaigns[held[t]].severity
    BY <1>1, <1>2, <2>1, TextWritten DEF TypeOK
  <2>3. /\ AlertsKept /\ HasText(campaigns'[held[t]])
        /\ \A i \in DOMAIN campaigns : campaigns'[i].severity = campaigns[i].severity
        /\ \A i \in DOMAIN campaigns : i = held[t] \/ campaigns'[i] = campaigns[i]
    BY <2>2 DEF AlertsKept, HasText, Rewritten
  <2>4. Narrated'
    BY <2>1, <2>2, <2>3, <1>1, <1>2, <1>15 DEF Informing, Writing
  <2>5. Heard'
    BY <1>1, <1>4, <2>1, <2>3, StillHeard DEF Coming, Informing
  <2>6. Rated'
    BY <1>1, <1>3, <1>4, <1>5, <2>1, <2>3, StillRated DEF Carrying
  <2> QED
    BY <2>4, <2>5, <2>6
<1>11. CASE ApplySeverity(t)
  <2>1. /\ pc[t] = "applySeverity" /\ pc'[t] = "applyStatus"
        /\ UNCHANGED <<held, sevRead, heard, blanked>>
        /\ campaigns' = [campaigns EXCEPT ![held[t]].severity = sevRead[t]]
        /\ sevRead[t] \in Severities
    BY <1>1, <1>11 DEF ApplySeverity, Goto, TypeOK, history, HasRead, Carrying
  <2>2. /\ Rewritten(held[t]) /\ campaigns'[held[t]].severity = sevRead[t]
        /\ campaigns'[held[t]].synthesis = campaigns[held[t]].synthesis
        /\ campaigns'[held[t]].status = campaigns[held[t]].status
    BY <1>1, <1>2, <2>1, SeverityWritten DEF TypeOK
  <2>3. /\ AlertsKept /\ held[t] \in DOMAIN campaigns /\ Mature(campaigns[held[t]])
        /\ \A i \in DOMAIN campaigns : /\ campaigns'[i].synthesis = campaigns[i].synthesis
                                       /\ campaigns'[i].status = campaigns[i].status
                                       /\ i = held[t] \/ campaigns'[i] = campaigns[i]
    BY <1>1, <1>2, <2>1, <2>2 DEF AlertsKept, Rewritten, Narrated, Informing
  <2>4. Narrated'
    BY <2>1, <2>3, <1>1, <1>2, <1>15 DEF Informing, Writing
  <2>5. Heard'
    BY <1>1, <1>4, <2>1, <2>3, StillHeard DEF Coming, Informing
  <2>6. held[t] \notin judged => Bounded(sevRead[t], campaigns[held[t]].alerts, Taken(held[t]))
    <3>1. held[t] \notin judged => Bounded(sevRead[t], campaigns[held[t]].alerts, MinAlerts - 1)
      BY <1>1, <2>1 DEF Rated, Carrying
    <3>2. MinAlerts - 1 >= MinAlerts - 1
      BY CorrelatorAssumption DEF CorrelatorAssumption
    <3> QED
      BY <1>1, <2>3, <3>1, <3>2, MatureBounded, BoundedAlike
  <2>7. Rated'
    BY <1>1, <1>3, <1>4, <1>5, <2>1, <2>2, <2>3, <2>6, StillRated DEF Carrying
  <2> QED
    BY <2>4, <2>5, <2>7
<1>12. CASE ApplyStatus(t)
  <2>1. /\ pc[t] = "applyStatus" /\ pc'[t] = "callback" /\ UNCHANGED <<held, sevRead, heard, blanked>>
        /\ campaigns' = [campaigns EXCEPT ![held[t]].status = "SYNTHESIZED"]
    BY <1>1, <1>12 DEF ApplyStatus, Goto, TypeOK, history
  <2>2. held[t] \in DOMAIN campaigns /\ campaigns[held[t]].synthesis # ""
    BY <1>1, <1>2, <2>1 DEF Narrated, Writing
  <2>3. /\ Rewritten(held[t]) /\ campaigns'[held[t]].severity = campaigns[held[t]].severity
        /\ campaigns'[held[t]].synthesis = campaigns[held[t]].synthesis
    BY <1>1, <2>1, <2>2, StatusWritten DEF TypeOK
  <2>4. /\ AlertsKept
        /\ \A i \in DOMAIN campaigns : /\ campaigns'[i].synthesis = campaigns[i].synthesis
                                       /\ campaigns'[i].severity = campaigns[i].severity
                                       /\ i = held[t] \/ campaigns'[i] = campaigns[i]
    BY <2>3 DEF AlertsKept, Rewritten
  <2>5. Narrated'
    BY <2>1, <2>2, <2>4, <1>1, <1>2, <1>15 DEF Informing, Writing
  <2>6. Heard'
    BY <1>1, <1>4, <2>1, <2>4, StillHeard DEF Coming, Informing
  <2>7. Rated'
    BY <1>1, <1>3, <1>4, <1>5, <2>1, <2>4, StillRated DEF Carrying
  <2> QED
    BY <2>5, <2>6, <2>7
<1>13. CASE Callback(t)
  <2>1. /\ pc[t] = "callback" /\ pc'[t] = "submit" /\ UNCHANGED <<campaigns, held, sevRead>>
        /\ heard' = [heard EXCEPT ![held[t]] = Len(campaigns[held[t]].alerts)]
    BY <1>1, <1>13 DEF Callback, Goto, TypeOK
  <2>2. AlertsKept
    BY <2>1 DEF AlertsKept
  <2>3. \A i \in DOMAIN campaigns :
            heard'[i] = IF i # held[t] THEN heard[i] ELSE Len(campaigns[i].alerts)
    BY <1>1, <2>1 DEF TypeOK
  <2>4. Narrated'
    BY <2>1, <2>2, <1>1, <1>2, <1>15 DEF Informing, Writing
  <2>5. Heard'
    BY <1>1, <1>2, <1>4, <2>1, <2>2, <2>3, StillHeard DEF Coming, Informing
  <2>6. Rated'
    BY <1>1, <1>3, <1>4, <1>5, <2>1, <2>2, StillRated DEF Carrying
  <2> QED
    BY <2>4, <2>5, <2>6
<1>14. CASE SubmitSynthesis(t)
  <2>1. pc[t] = "submit" /\ pc'[t] = "idle" /\ UNCHANGED <<campaigns, heard, blanked>>
    BY <1>1, <1>14 DEF SubmitSynthesis, Return, Goto, TypeOK
  <2>2. AlertsKept
    BY <2>1 DEF AlertsKept
  <2>3. Narrated'
    BY <2>1, <2>2, <1>1, <1>2, <1>15 DEF Informing, Writing
  <2>4. Heard'
    BY <1>1, <1>4, <2>1, <2>2, StillHeard DEF Coming, Informing
  <2>5. Rated'
    BY <1>1, <1>3, <1>4, <1>5, <2>1, <2>2, StillRated DEF Carrying
  <2> QED
    BY <2>3, <2>4, <2>5
<1> QED
  BY <1>6, <1>7, <1>8, <1>9, <1>10, <1>11, <1>12, <1>13, <1>14 DEF IngestStep

\* An alert that joins or starts a campaign keeps the invariant.
LEMMA IngestKeeps ==
    ASSUME IInv, NEW t \in Thread, NEW sev \in Severities, NEW entities \in EntitySets,
           Ingest(t, sev, entities)
    PROVE  Narrated' /\ Heard' /\ Rated'
<1> DEFINE i == IF Joinable(entities) = {} THEN Len(campaigns) + 1 ELSE Min(Joinable(entities))
<1>1. Shaped /\ TypeOK /\ HasRead /\ Exclusive /\ Narrated /\ Heard /\ Rated
  BY DEF IInv, Shaped
<1>2. now \in Nat /\ campaigns \in Seq(Campaign)
  BY <1>1, CorrelatorAssumption DEF TypeOK, CorrelatorAssumption
<1>3. /\ pc[t] = "idle" /\ pc'[t] \in {"recompute", "mature"} /\ held'[t] = i
      /\ (pc'[t] = "recompute" <=> Joinable(entities) # {})
      /\ \A u \in Thread \ {t} : pc'[u] = pc[u] /\ held'[u] = held[u]
      /\ UNCHANGED <<sevRead, judged, blanked, workerPc>>
  BY <1>1 DEF Ingest, TypeOK, workerVars
<1>4. /\ DOMAIN campaigns = 1..Len(campaigns) /\ Len(campaigns) \in Nat
      /\ \A u \in Thread : pc[u] \in Informing => u # t /\ held[u] \in DOMAIN campaigns
      /\ \A j \in DOMAIN campaigns : campaigns[j].alerts \in Alerts /\ Len(campaigns[j].alerts) \in Nat
      /\ \A j \in DOMAIN campaigns : campaigns[j].severity \in Severities
  BY <1>1, <1>3, HeldExists DEF Informing
<1>7. /\ workerPc \notin WorkerWriting \cup WorkerCarrying /\ workerPc # "answered"
      /\ \A u \in Thread : pc[u] # "recompute"
      /\ \A j \in DOMAIN campaigns : ~Recomputing(j) /\ Taken(j) = Len(campaigns[j].alerts)
  <2>1. /\ workerPc \notin WorkerWriting \cup WorkerCarrying /\ workerPc # "answered"
        /\ \A u \in Thread : pc[u] # "recompute"
    BY DEF Ingest, Free, WorkerWriting, WorkerCarrying
  <2>2. \A j \in DOMAIN campaigns : ~Recomputing(j)
    BY <2>1 DEF Recomputing
  <2> QED
    BY <2>1, <2>2 DEF Taken
<1>5. CASE Joinable(entities) # {}
  <2>1. JoinCampaign(i, sev, entities) /\ heard' = heard
    BY <1>5 DEF Ingest
  <2>2. i \in DOMAIN campaigns
    <3>1. Joinable(entities) \subseteq DOMAIN campaigns /\ DOMAIN campaigns \subseteq Nat
      BY <1>4 DEF Joinable
    <3> QED
      BY <1>5, <3>1, MinIs
  <2> HIDE DEF i
  <2>3. /\ campaigns' \in Seq(Campaign) /\ DOMAIN campaigns' = DOMAIN campaigns
        /\ \A j \in DOMAIN campaigns \ {i} : campaigns'[j] = campaigns[j]
        /\ campaigns'[i].alerts = Append(campaigns[i].alerts, sev)
        /\ campaigns'[i].severity = campaigns[i].severity
        /\ campaigns'[i].synthesis = campaigns[i].synthesis
        /\ campaigns'[i].status = campaigns[i].status
    BY <1>2, <2>1, <2>2, JoinWritten
  <2>4. campaigns'[i].alerts \in Alerts /\ Len(campaigns'[i].alerts) = Len(campaigns[i].alerts) + 1
    BY <1>4, <2>2, <2>3, AppendProperties DEF Alerts
  <2>5. \A j \in DOMAIN campaigns : Mature(campaigns[j]) => Mature(campaigns'[j])
    <3>1. Mature(campaigns[i]) => Mature(campaigns'[i])
      BY <1>4, <2>2, <2>4, CorrelatorAssumption DEF Mature, CorrelatorAssumption
    <3> QED
      BY <2>3, <3>1
  <2>6. Narrated'
    <3>1. \A u \in Thread : pc'[u] \in Informing => Mature(campaigns'[held'[u]])
      BY <1>1, <1>3, <1>4, <2>5 DEF Narrated, Informing
    <3>2. \A u \in Thread : pc'[u] \in Writing =>
              /\ campaigns'[held'[u]].synthesis # ""
              /\ HasText(campaigns'[held'[u]]) \/ u \in blanked'
      <4>1. \A j \in DOMAIN campaigns : campaigns'[j].synthesis = campaigns[j].synthesis
        BY <2>3
      <4>2. \A u \in Thread : pc'[u] \in Writing =>
                pc[u] \in Writing /\ held'[u] = held[u] /\ held[u] \in DOMAIN campaigns
        BY <1>3, <1>4 DEF Informing, Writing
      <4> QED
        BY <1>1, <1>3, <4>1, <4>2 DEF Narrated, HasText
    <3>3. \A j \in DOMAIN campaigns :
              campaigns'[j].status = "SYNTHESIZED" => campaigns'[j].synthesis # ""
      BY <1>1, <2>3 DEF Narrated
    <3> QED
      BY <1>3, <1>7, <2>3, <3>1, <3>2, <3>3 DEF Narrated
  <2>7. Heard'
    <3>1. ASSUME NEW j \in DOMAIN campaigns, Mature(campaigns'[j])
          PROVE  \/ heard'[j] = Len(campaigns'[j].alerts)
                 \/ \E u \in Thread : pc'[u] \in Coming /\ held'[u] = j
      <4>1. CASE j = i
        BY <1>3, <4>1 DEF Coming
      <4>2. CASE j # i
        <5>1. campaigns'[j] = campaigns[j] /\ heard'[j] = heard[j]
          BY <2>1, <2>3, <4>2
        <5>2. \A u \in Thread : pc[u] \in Coming => u # t
          BY <1>3 DEF Coming, Informing
        <5> QED
          BY <1>1, <1>3, <3>1, <5>1, <5>2 DEF Heard
      <4> QED
        BY <4>1, <4>2
    <3> QED
      BY <2>3, <3>1 DEF Heard
  <2>8. \A j \in DOMAIN campaigns : Taken(j)' = Len(campaigns[j].alerts)
    <3> SUFFICES ASSUME NEW j \in DOMAIN campaigns PROVE Taken(j)' = Len(campaigns[j].alerts)
      OBVIOUS
    <3>1. CASE j = i
      <4>1. Recomputing(j)'
        BY <1>3, <1>5, <3>1 DEF Recomputing
      <4>2. Len(campaigns'[j].alerts) = Len(campaigns[j].alerts) + 1
        BY <2>4, <3>1
      <4> QED
        BY <1>4, <4>1, <4>2 DEF Taken
    <3>2. CASE j # i
      <4>1. ~Recomputing(j)'
        BY <1>3, <1>7, <3>2 DEF Recomputing
      <4> QED
        BY <2>3, <3>2, <4>1 DEF Taken
    <3> QED
      BY <3>1, <3>2
  <2>9. Rated'
    <3>1. ASSUME NEW j \in DOMAIN campaigns
          PROVE  /\ Taken(j)' \in 1..Len(campaigns'[j].alerts)
                 /\ j \notin judged => Bounded(campaigns'[j].severity, campaigns'[j].alerts, Taken(j)')
      <4>1. /\ Len(campaigns[j].alerts) \in 1..Len(campaigns[j].alerts)
            /\ j \notin judged =>
                  Bounded(campaigns[j].severity, campaigns[j].alerts, Len(campaigns[j].alerts))
        BY <1>1, <1>7 DEF Rated
      <4>2. CASE j = i
        <5>1. j \notin judged => Bounded(campaigns'[j].severity, campaigns'[j].alerts, Taken(j)')
          <6>1. j \notin judged => Bounded(campaigns[j].severity, Append(campaigns[j].alerts, sev),
                                        Len(campaigns[j].alerts))
            BY <1>4, <4>1, BoundedGrows
          <6>2. /\ campaigns'[j].alerts = Append(campaigns[j].alerts, sev)
                /\ campaigns'[j].severity = campaigns[j].severity
                /\ Taken(j)' = Len(campaigns[j].alerts)
            BY <2>3, <2>8, <4>2
          <6> QED
            BY <6>1, <6>2
        <5> QED
          BY <1>4, <2>2, <2>4, <2>8, <4>1, <4>2, <5>1
      <4>3. CASE j # i
        BY <2>3, <2>8, <4>1, <4>3
      <4> QED
        BY <4>2, <4>3
    <3>2. ASSUME NEW u \in Thread, pc'[u] \in Carrying, held'[u] \notin judged
          PROVE  Bounded(sevRead[u], campaigns'[held'[u]].alerts, MinAlerts - 1)
      <4>1. /\ u # t /\ pc[u] \in Carrying /\ held'[u] = held[u]
            /\ held[u] \in DOMAIN campaigns /\ pc[u] \in Informing
        BY <1>3, <1>4, <3>2 DEF Informing, Carrying
      <4>2. /\ Bounded(sevRead[u], campaigns[held[u]].alerts, MinAlerts - 1)
            /\ sevRead[u] \in Severities /\ Mature(campaigns[held[u]])
        BY <1>1, <3>2, <4>1 DEF Rated, HasRead, Narrated
      <4>3. MinAlerts - 1 \in 1..Len(campaigns[held[u]].alerts)
        BY <1>1, <4>1, <4>2, MatureBounded
      <4>4. CASE held[u] = i
        BY <1>4, <2>3, <4>1, <4>2, <4>3, <4>4, BoundedGrows
      <4>5. CASE held[u] # i
        BY <2>3, <4>1, <4>2, <4>5
      <4> QED
        BY <4>4, <4>5
    <3> QED
      BY <1>3, <1>7, <2>3, <3>1, <3>2 DEF Rated
  <2> QED
    BY <2>6, <2>7, <2>9
<1>6. CASE Joinable(entities) = {}
  <2>1. campaigns' = Append(campaigns, NewCampaign(sev, entities)) /\ heard' = Append(heard, 0)
        /\ i = Len(campaigns) + 1
    BY <1>6 DEF Ingest
  <2> HIDE DEF i
  <2>2. /\ campaigns' \in Seq(Campaign) /\ DOMAIN campaigns' = DOMAIN campaigns \cup {i}
        /\ \A j \in DOMAIN campaigns : campaigns'[j] = campaigns[j]
        /\ campaigns'[i].status = "ACTIVE" /\ campaigns'[i].severity = Worst(campaigns'[i].alerts)
        /\ Len(campaigns'[i].alerts) = 1
    BY <1>2, <2>1, NewWritten
  <2>3. campaigns'[i].alerts \in Alerts
    <3>1. i \in 1..Len(campaigns')
      BY <2>2, LenProperties
    <3>2. campaigns'[i] \in Campaign
      BY <2>2, <3>1, ElementOfSeq
    <3> QED
      BY <3>2 DEF Campaign, Alerts
  <2>4. Narrated'
    <3>1. \A u \in Thread : pc'[u] \in Informing => Mature(campaigns'[held'[u]])
      BY <1>1, <1>3, <1>4, <2>2 DEF Narrated, Informing
    <3>2. \A u \in Thread : pc'[u] \in Writing =>
              /\ campaigns'[held'[u]].synthesis # ""
              /\ HasText(campaigns'[held'[u]]) \/ u \in blanked'
      BY <1>1, <1>3, <1>4, <2>2 DEF Narrated, Informing, Writing
    <3>3. \A j \in DOMAIN campaigns' :
              campaigns'[j].status = "SYNTHESIZED" => campaigns'[j].synthesis # ""
      BY <1>1, <2>2 DEF Narrated
    <3> QED
      BY <1>3, <1>7, <3>1, <3>2, <3>3 DEF Narrated
  <2>5. Heard'
    <3>1. \A j \in DOMAIN campaigns : heard'[j] = heard[j]
      <4>1. heard \in [1..Len(campaigns) -> Nat]
        BY <1>1, <1>4 DEF TypeOK
      <4>2. heard \in Seq(Nat) /\ Len(heard) = Len(campaigns)
        <5>1. heard \in Seq(Nat)
          BY <1>4, <4>1, SeqDef
        <5> QED
          BY <1>4, <4>1, <5>1, LenProperties
      <4> QED
        BY <1>4, <2>1, <4>2, AppendProperties
    <3>2. \A u \in Thread : pc[u] \in Coming => u # t
      BY <1>3 DEF Coming, Informing
    <3>3. ASSUME NEW j \in DOMAIN campaigns', Mature(campaigns'[j])
          PROVE  \/ heard'[j] = Len(campaigns'[j].alerts)
                 \/ \E u \in Thread : pc'[u] \in Coming /\ held'[u] = j
      <4>1. CASE j = i
        BY <1>3, <4>1 DEF Coming
      <4>2. CASE j # i
        BY <1>1, <1>3, <2>2, <3>1, <3>2, <3>3, <4>2 DEF Heard
      <4> QED
        BY <4>1, <4>2
    <3> QED
      BY <3>3 DEF Heard
  <2>6. \A j \in DOMAIN campaigns' : Taken(j)' = Len(campaigns'[j].alerts)
    <3>1. \A u \in Thread : pc'[u] # "recompute"
      BY <1>3, <1>6, <1>7
    <3>2. \A j \in DOMAIN campaigns' : ~Recomputing(j)'
      BY <3>1 DEF Recomputing
    <3> QED
      BY <3>2 DEF Taken
  <2>7. Rated'
    <3>1. ASSUME NEW j \in DOMAIN campaigns'
          PROVE  /\ Taken(j)' \in 1..Len(campaigns'[j].alerts)
                 /\ j \notin judged => Bounded(campaigns'[j].severity, campaigns'[j].alerts, Taken(j)')
      <4>1. CASE j = i
        <5>1. /\ campaigns'[j].alerts \in Alerts /\ Len(campaigns'[j].alerts) = 1
              /\ campaigns'[j].severity = Worst(campaigns'[j].alerts) /\ Taken(j)' = 1
          BY <2>2, <2>3, <2>6, <4>1
        <5>2. Taken(j)' \in 1..Len(campaigns'[j].alerts)
          BY <5>1
        <5> QED
          BY <5>1, <5>2, WorstBounded
      <4>2. CASE j # i
        BY <1>1, <1>7, <2>2, <2>6, <4>2 DEF Rated
      <4> QED
        BY <4>1, <4>2
    <3>2. ASSUME NEW u \in Thread, pc'[u] \in Carrying, held'[u] \notin judged
          PROVE  Bounded(sevRead[u], campaigns'[held'[u]].alerts, MinAlerts - 1)
      <4>1. /\ u # t /\ pc[u] \in Carrying /\ held'[u] = held[u]
            /\ held[u] \in DOMAIN campaigns
        BY <1>3, <1>4, <3>2 DEF Informing, Carrying
      <4> QED
        BY <1>1, <2>2, <3>2, <4>1 DEF Rated
    <3> QED
      BY <1>3, <1>7, <3>1, <3>2 DEF Rated
  <2> QED
    BY <2>4, <2>5, <2>7
<1> QED
  BY <1>5, <1>6

\* What the worker does keeps the invariant.
LEMMA WorkerKeeps ==
    ASSUME IInv, Worker
    PROVE  Narrated' /\ Heard' /\ Rated'
<1>1. Shaped /\ TypeOK /\ HasRead /\ Exclusive /\ Narrated /\ Heard /\ Rated
  BY DEF IInv, Shaped
<1>2. UNCHANGED <<pc, held, sevRead>>
  BY
  DEF Worker, SynthesisStart, SynthesisFromModel, AnsweredSeverity, SynthesisFromRules, RulesText,
         RulesSeverity, SynthesisStatus, SynthesisNotify, SynthesisNotifyRaises, threadVars
<1>3. workerPc # "idle" => job \in DOMAIN campaigns
  BY <1>1, HeldExists
<1>4. \A u \in Thread : pc[u] \in Informing \cup Writing \cup Carrying => held[u] \in DOMAIN campaigns
  BY <1>1, HeldExists DEF Informing, Writing, Carrying
<1>5. ASSUME AlertsKept,
             \A i \in DOMAIN campaigns : heard'[i] \in {heard[i], Len(campaigns[i].alerts)}
      PROVE  Heard'
  BY <1>1, <1>2, <1>5, StillHeard
<1>6. ASSUME AlertsKept, blanked' = blanked,
             \A i \in DOMAIN campaigns :
                \/ /\ campaigns'[i].synthesis = campaigns[i].synthesis
                   /\ campaigns'[i].synthesis # "" \/ campaigns'[i].status \in {campaigns[i].status, "EXPIRED"}
                \/ HasText(campaigns'[i]),
             workerPc' \in WorkerWriting =>
                job' = job /\ job \in DOMAIN campaigns
                /\ (workerPc \in WorkerWriting \/ campaigns'[job].synthesis # "")
      PROVE  Narrated'
  <2>1. \A i \in DOMAIN campaigns :
           \/ campaigns'[i].synthesis # ""
           \/ /\ campaigns'[i].synthesis = campaigns[i].synthesis
              /\ campaigns'[i].status \in {campaigns[i].status, "EXPIRED"}
    BY <1>6 DEF HasText
  <2>2. \A u \in Thread : pc'[u] \in Informing =>
           /\ held'[u] = held[u] /\ held[u] \in DOMAIN campaigns
           /\ pc[u] \in Informing \/ Mature(campaigns[held[u]])
    BY <1>2, <1>4
  <2>3. \A u \in Thread : pc'[u] \in Writing =>
           \/ HasText(campaigns'[held[u]])
           \/ /\ pc[u] \in Writing
              /\ u \in blanked' \/ (u \notin blanked /\
                     campaigns'[held[u]].synthesis = campaigns[held[u]].synthesis)
    BY <1>2, <1>4, <1>6
  <2> QED
    BY <1>1, <1>6, <2>1, <2>2, <2>3, StillNarrated
<1>7. ASSUME AlertsKept, judged' = judged,
             \A i \in DOMAIN campaigns \ judged :
                \/ campaigns'[i].severity = campaigns[i].severity
                \/ Bounded(campaigns'[i].severity, campaigns[i].alerts, Taken(i)),
             workerPc' \in WorkerCarrying =>
                /\ job' = job /\ job \in DOMAIN campaigns
                /\ workerPc \in WorkerCarrying /\ jobSev' = jobSev,
             workerPc' # "answered" \/ (workerPc = "answered" /\ job' = job)
      PROVE  Rated'
  BY <1>1, <1>2, <1>7, StillRated DEF Rated
<1>8. CASE SynthesisStart
  <2>1. /\ UNCHANGED <<campaigns, judged, blanked, heard>>
        /\ workerPc' = "infer" \/ UNCHANGED <<workerPc, job, jobSev>>
    BY <1>8 DEF SynthesisStart, workerVars, history
  <2>2. AlertsKept /\ (workerPc # "idle" => job \in DOMAIN campaigns)
    BY <1>3, <2>1 DEF AlertsKept
  <2>3. Heard'
    BY <1>5, <2>1, <2>2
  <2>4. Narrated'
    BY <1>1, <1>6, <2>1, <2>2 DEF WorkerWriting, Narrated
  <2>5. Rated'
    BY <1>7, <2>1, <2>2 DEF WorkerCarrying
  <2> QED
    BY <2>3, <2>4, <2>5
<1>9. CASE SynthesisFromModel
  <2>1. /\ workerPc = "infer" /\ workerPc' = "answered" /\ job' = job /\ job \in DOMAIN campaigns
        /\ judged' = judged \cup {job} /\ heard' = heard
    BY <1>3, <1>9 DEF SynthesisFromModel
  <2>2. PICK text \in {"model", "none"} :
          /\ campaigns' = [campaigns EXCEPT ![job].synthesis = text]
          /\ blanked' = IF text = "none" THEN blanked \cup Overtaken ELSE blanked
    BY <1>9 DEF SynthesisFromModel
  <2>3. /\ Rewritten(job) /\ campaigns'[job].synthesis = text
        /\ campaigns'[job].severity = campaigns[job].severity
    BY <1>1, <2>1, <2>2, TextWritten DEF TypeOK
  <2>4. /\ AlertsKept /\ \A i \in DOMAIN campaigns \ {job} : campaigns'[i] = campaigns[i]
        /\ \A i \in DOMAIN campaigns : campaigns'[i].severity = campaigns[i].severity
    BY <2>3 DEF AlertsKept, Rewritten
  <2>5. Heard'
    BY <1>5, <2>1, <2>4
  <2>6. Narrated'
    <3>1. ASSUME NEW u \in Thread, pc'[u] \in Writing
          PROVE  \/ HasText(campaigns'[held[u]])
                 \/ /\ pc[u] \in Writing
                    /\ u \in blanked' \/ (u \notin blanked /\
                           campaigns'[held[u]].synthesis = campaigns[held[u]].synthesis)
      <4>1. pc[u] \in Writing /\ held[u] \in DOMAIN campaigns
        BY <1>2, <1>4, <3>1
      <4>2. CASE held[u] # job
        BY <2>2, <2>4, <4>1, <4>2
      <4>3. CASE held[u] = job /\ text = "model"
        BY <2>3, <4>3 DEF HasText
      <4>4. CASE held[u] = job /\ text = "none"
        BY <2>2, <4>1, <4>4 DEF Overtaken, Writing
      <4> QED
        BY <4>2, <4>3, <4>4
    <3>2. \A u \in Thread : pc'[u] \in Informing =>
             /\ held'[u] = held[u] /\ held[u] \in DOMAIN campaigns
             /\ pc[u] \in Informing \/ Mature(campaigns[held[u]])
      BY <1>2, <1>4
    <3>3. \A i \in DOMAIN campaigns :
             \/ campaigns'[i].synthesis # ""
             \/ /\ campaigns'[i].synthesis = campaigns[i].synthesis
                /\ campaigns'[i].status \in {campaigns[i].status, "EXPIRED"}
      BY <2>2, <2>3, <2>4
    <3> QED
      BY <1>1, <2>1, <2>2, <2>3, <2>4, <3>1, <3>2, <3>3, StillNarrated
  <2>7. Rated'
    BY <1>1, <1>2, <2>1, <2>4, StillRated DEF WorkerCarrying
  <2> QED
    BY <2>5, <2>6, <2>7
<1>10. CASE AnsweredSeverity
  <2>1. /\ workerPc = "answered" /\ workerPc' = "status" /\ job' = job /\ job \in DOMAIN campaigns
        /\ UNCHANGED <<judged, blanked, heard>> /\ job \in judged
    BY <1>1, <1>3, <1>10 DEF AnsweredSeverity, history, Rated
  <2>2. PICK sev \in Severities : campaigns' = [campaigns EXCEPT ![job].severity = sev]
    BY <1>10 DEF AnsweredSeverity
  <2>3. /\ Rewritten(job) /\ campaigns'[job].synthesis = campaigns[job].synthesis
        /\ campaigns'[job].status = campaigns[job].status
    BY <1>1, <2>1, <2>2, SeverityWritten DEF TypeOK
  <2>4. /\ AlertsKept /\ \A i \in DOMAIN campaigns \ {job} : campaigns'[i] = campaigns[i]
        /\ \A i \in DOMAIN campaigns : /\ campaigns'[i].synthesis = campaigns[i].synthesis
                                       /\ campaigns'[i].status = campaigns[i].status
    BY <2>3 DEF AlertsKept, Rewritten
  <2>5. Heard'
    BY <1>5, <2>1, <2>4
  <2>6. Narrated'
    BY <1>6, <2>1, <2>4 DEF WorkerWriting
  <2>7. Rated'
    BY <1>7, <2>1, <2>4 DEF WorkerCarrying
  <2> QED
    BY <2>5, <2>6, <2>7
<1>11. CASE SynthesisFromRules
  <2>1. /\ workerPc \in {"infer", "raised"} /\ workerPc' = "rules" /\ job' = job /\ job \in DOMAIN campaigns
        /\ UNCHANGED <<campaigns, judged, blanked, heard>> /\ jobSev' = campaigns[job].severity
        /\ \A u \in Thread : pc[u] # "recompute"
    BY <1>3, <1>11 DEF SynthesisFromRules, history, Free
  <2>2. AlertsKept
    BY <2>1 DEF AlertsKept
  <2>3. Heard'
    BY <1>5, <2>1, <2>2
  <2>4. Narrated'
    BY <1>6, <2>1, <2>2 DEF WorkerWriting
  <2>5. \A i \in DOMAIN campaigns : Taken(i)' = Taken(i)
    BY <1>2, <2>1 DEF Taken, Recomputing
  <2>6. job \notin judged => Bounded(jobSev', campaigns[job].alerts, Len(campaigns[job].alerts))
    <3>1. ~Recomputing(job)
      BY <2>1 DEF Recomputing
    <3>2. Taken(job) = Len(campaigns[job].alerts)
      BY <3>1 DEF Taken
    <3> QED
      BY <1>1, <2>1, <3>2 DEF Rated
  <2>7. Rated'
    BY <1>1, <1>2, <2>1, <2>5, <2>6 DEF Rated
  <2> QED
    BY <2>3, <2>4, <2>7
<1>12. CASE RulesText
  <2>1. /\ workerPc = "rules" /\ workerPc' = "rulesText" /\ job \in DOMAIN campaigns
        /\ UNCHANGED <<job, jobSev, judged, blanked, heard>>
        /\ campaigns' = [campaigns EXCEPT ![job].synthesis = "rules"]
    BY <1>3, <1>12 DEF RulesText, history
  <2>2. /\ Rewritten(job) /\ campaigns'[job].synthesis = "rules"
        /\ campaigns'[job].severity = campaigns[job].severity
    BY <1>1, <2>1, TextWritten DEF TypeOK
  <2>3. /\ AlertsKept /\ \A i \in DOMAIN campaigns \ {job} : campaigns'[i] = campaigns[i]
        /\ \A i \in DOMAIN campaigns : campaigns'[i].severity = campaigns[i].severity
        /\ HasText(campaigns'[job]) /\ campaigns'[job].synthesis # ""
    BY <2>2 DEF AlertsKept, Rewritten, HasText
  <2>4. Heard'
    BY <1>5, <2>1, <2>3
  <2>5. Narrated'
    BY <1>6, <2>1, <2>3
  <2>6. Rated'
    BY <1>7, <2>1, <2>3 DEF WorkerCarrying
  <2> QED
    BY <2>4, <2>5, <2>6
<1>13. CASE RulesSeverity
  <2>1. /\ workerPc = "rulesText" /\ workerPc' = "rulesStatus" /\ job' = job /\ job \in DOMAIN campaigns
        /\ UNCHANGED <<judged, blanked, heard>> /\ jobSev \in Severities
        /\ campaigns' = [campaigns EXCEPT ![job].severity = jobSev]
    BY <1>1, <1>3, <1>13 DEF RulesSeverity, history, HasRead, WorkerCarrying
  <2>2. /\ Rewritten(job) /\ campaigns'[job].severity = jobSev
        /\ campaigns'[job].synthesis = campaigns[job].synthesis
        /\ campaigns'[job].status = campaigns[job].status
    BY <1>1, <2>1, SeverityWritten DEF TypeOK
  <2>3. /\ AlertsKept /\ \A i \in DOMAIN campaigns \ {job} : campaigns'[i] = campaigns[i]
        /\ \A i \in DOMAIN campaigns : /\ campaigns'[i].synthesis = campaigns[i].synthesis
                                       /\ campaigns'[i].status = campaigns[i].status
    BY <2>2 DEF AlertsKept, Rewritten
  <2>4. Heard'
    BY <1>5, <2>1, <2>3
  <2>5. Narrated'
    BY <1>6, <2>1, <2>3 DEF WorkerWriting
  <2>6. job \notin judged => Bounded(campaigns'[job].severity, campaigns[job].alerts, Taken(job))
    <3>1. ~Recomputing(job)
      BY <1>1, <2>1 DEF Recomputing, Exclusive, WorkerWriting
    <3>2. Taken(job) = Len(campaigns[job].alerts)
      BY <3>1 DEF Taken
    <3> QED
      BY <1>1, <2>1, <2>2, <3>2 DEF Rated, WorkerCarrying
  <2>7. Rated'
    BY <1>7, <2>1, <2>3, <2>6 DEF WorkerCarrying
  <2> QED
    BY <2>4, <2>5, <2>7
<1>14. CASE SynthesisStatus
  <2>1. /\ workerPc \in WorkerWriting /\ workerPc' \in {"notify", "notifyRules"} /\ job \in DOMAIN campaigns
        /\ UNCHANGED <<judged, blanked, heard>>
        /\ campaigns' = [campaigns EXCEPT ![job].status = "SYNTHESIZED", ![job].synthesizedAt = jobCount]
    BY <1>3, <1>14 DEF SynthesisStatus, history, WorkerWriting
  <2>2. /\ Rewritten(job) /\ campaigns'[job].severity = campaigns[job].severity
        /\ campaigns'[job].synthesis = campaigns[job].synthesis /\ campaigns[job].synthesis # ""
    BY <1>1, <2>1, SynthesisWritten DEF TypeOK, Narrated
  <2>3. /\ AlertsKept /\ \A i \in DOMAIN campaigns \ {job} : campaigns'[i] = campaigns[i]
        /\ \A i \in DOMAIN campaigns : /\ campaigns'[i].synthesis = campaigns[i].synthesis
                                       /\ campaigns'[i].severity = campaigns[i].severity
    BY <2>2 DEF AlertsKept, Rewritten
  <2>4. Heard'
    BY <1>5, <2>1, <2>3
  <2>5. Narrated'
    BY <1>6, <2>1, <2>2, <2>3 DEF WorkerWriting
  <2>6. Rated'
    BY <1>7, <2>1, <2>3 DEF WorkerCarrying
  <2> QED
    BY <2>4, <2>5, <2>6
<1>15. CASE SynthesisNotify \/ SynthesisNotifyRaises
  <2>1. /\ UNCHANGED <<campaigns, judged, blanked>> /\ workerPc' \in {"idle", "raised"}
        /\ \A i \in DOMAIN campaigns : heard'[i] \in {heard[i], Len(campaigns[i].alerts)}
    BY <1>1, <1>15 DEF SynthesisNotify, SynthesisNotifyRaises, TypeOK, history
  <2>2. AlertsKept
    BY <2>1 DEF AlertsKept
  <2>3. Heard'
    BY <1>5, <2>1, <2>2
  <2>4. Narrated'
    BY <1>6, <2>1, <2>2 DEF WorkerWriting
  <2>5. Rated'
    BY <1>7, <2>1, <2>2 DEF WorkerCarrying
  <2> QED
    BY <2>3, <2>4, <2>5
<1> QED
  BY <1>8, <1>9, <1>10, <1>11, <1>12, <1>13, <1>14, <1>15 DEF Worker

-----------------------------------------------------------------------------
(* The theorems                                                            *)

\* The invariant holds initially.
LEMMA IInvInit == Init => IInv
<1> SUFFICES ASSUME Init PROVE IInv
  OBVIOUS
<1>1. DOMAIN campaigns = {} /\ \A t \in Thread : pc[t] = "idle"
  BY EmptySeq, LenProperties DEF Init
<1>2. workerPc = "idle"
  BY DEF Init
<1> QED
  BY <1>1, <1>2, ShapedInit
  DEF IInv, Exclusive, Narrated, Heard, Rated, Informing, Writing, WorkerWriting, Carrying,
      WorkerCarrying

\* Every step keeps it.
LEMMA IInvStep == IInv /\ [Next]_vars => IInv'
<1> SUFFICES ASSUME IInv, [Next]_vars PROVE IInv'
  OBVIOUS
<1>1. Shaped /\ Shaped' /\ TypeOK /\ Narrated /\ Heard /\ Rated /\ Exclusive'
  BY ShapedStep, ExclusiveStep DEF IInv, Shaped
<1>2. ASSUME NEW t \in Thread, NEW sev \in Severities, NEW entities \in EntitySets,
             Ingest(t, sev, entities)
      PROVE  IInv'
  BY <1>1, <1>2, IngestKeeps DEF IInv
<1>3. ASSUME NEW t \in Thread, IngestStep(t) PROVE IInv'
  BY <1>1, <1>3, ThreadKeeps DEF IInv
<1>4. CASE Worker
  BY <1>1, <1>4, WorkerKeeps DEF IInv
<1>5. CASE Prune
  <2>1. /\ DOMAIN campaigns' = DOMAIN campaigns
        /\ \A j \in DOMAIN campaigns :
              /\ campaigns'[j].alerts = campaigns[j].alerts
              /\ campaigns'[j].severity = campaigns[j].severity
              /\ campaigns'[j].synthesis = campaigns[j].synthesis
              /\ campaigns'[j].status \in {"EXPIRED", campaigns[j].status}
    BY <1>1, <1>5, PruneWritten DEF TypeOK
  <2>2. UNCHANGED <<pc, held, sevRead, workerPc, job, jobSev, judged, blanked, heard>>
    BY <1>5 DEF Prune, threadVars, workerVars, history
  <2>3. /\ \A t \in Thread : pc[t] \in Informing \cup Writing \cup Carrying => held[t] \in DOMAIN campaigns
        /\ workerPc \in WorkerWriting \cup WorkerCarrying => job \in DOMAIN campaigns
    BY <1>1, HeldExists DEF Informing, Writing, Carrying, WorkerWriting, WorkerCarrying
  <2>4. AlertsKept
    BY <2>1 DEF AlertsKept
  <2>5. Narrated'
    <3>1. \A i \in DOMAIN campaigns :
             \/ campaigns'[i].synthesis # ""
             \/ /\ campaigns'[i].synthesis = campaigns[i].synthesis
                /\ campaigns'[i].status \in {campaigns[i].status, "EXPIRED"}
      BY <2>1
    <3>2. \A u \in Thread : pc'[u] \in Informing =>
             /\ held'[u] = held[u] /\ held[u] \in DOMAIN campaigns
             /\ pc[u] \in Informing \/ Mature(campaigns[held[u]])
      BY <2>2, <2>3
    <3>3. \A u \in Thread : pc'[u] \in Writing =>
             \/ HasText(campaigns'[held[u]])
             \/ /\ pc[u] \in Writing
                /\ u \in blanked' \/ (u \notin blanked /\
                       campaigns'[held[u]].synthesis = campaigns[held[u]].synthesis)
      BY <2>1, <2>2, <2>3
    <3>4. workerPc' \in WorkerWriting =>
             /\ job' = job /\ job \in DOMAIN campaigns
             /\ workerPc \in WorkerWriting \/ campaigns'[job].synthesis # ""
      BY <2>2, <2>3
    <3> QED
      BY <1>1, <2>4, <3>1, <3>2, <3>3, <3>4, StillNarrated
  <2>6. Heard'
    BY <1>1, <2>2, <2>4, StillHeard
  <2>7. Rated'
    BY <1>1, <2>1, <2>2, <2>3, <2>4, StillRated DEF Rated
  <2> QED
    BY <1>1, <2>5, <2>6, <2>7 DEF IInv
<1>6. CASE SetHandler \/ Tick \/ UNCHANGED vars
  <2>1. UNCHANGED <<campaigns, pc, held, sevRead, workerPc, job, jobSev, judged, blanked, heard>>
    BY <1>6 DEF SetHandler, Tick, vars, threadVars, workerVars, history
  <2> QED
    BY <1>1, <2>1 DEF IInv, Narrated, Heard, Rated, Taken, Recomputing
<1> QED
  BY <1>2, <1>3, <1>4, <1>5, <1>6 DEF Next

\* NarrativeBeforeCallback holds in every behaviour: whichever thread or
\* worker wrote last, ingest() calls the handler with a mature campaign, and
\* with a narrated one but for what an empty answer of the model took away
\* between its check and its call.
THEOREM NarrativeComesFirst == Spec => []NarrativeBeforeCallback
<1>1. IInv => NarrativeBeforeCallback
  BY DEF IInv, Narrated, NarrativeBeforeCallback, Informing, Writing
<1> QED
  BY IInvInit, IInvStep, <1>1, PTL DEF Spec

\* EveryUpdateHeard holds in every behaviour: however many threads update one
\* campaign at once, the last call of the handler saw all its alerts.
THEOREM NoUpdateIsLost == Spec => []EveryUpdateHeard
<1>1. IInv => EveryUpdateHeard
  BY DEF IInv, Heard, EveryUpdateHeard, Quiescent, Coming, Informing
<1> QED
  BY IInvInit, IInvStep, <1>1, PTL DEF Spec

\* SeverityBounded holds in every behaviour: the severity that the unlocked
\* narrative writes back late, or has read while an alert had joined and was not
\* taken up yet, is still within the bounds of the alerts.
THEOREM SeverityStaysBounded == Spec => []SeverityBounded
<1>1. IInv => SeverityBounded
  <2> SUFFICES ASSUME IInv, NEW i \in DOMAIN campaigns \ judged
               PROVE  /\ campaigns[i].severity <= Worst(campaigns[i].alerts)
                      /\ campaigns[i].severity >= Worst(Early(i))
    BY DEF SeverityBounded
  <2>1. Bounded(campaigns[i].severity, campaigns[i].alerts, Taken(i))
    BY DEF IInv, Rated
  <2>2. Early(i) = First(campaigns[i].alerts, Taken(i))
    BY DEF Early, First
  <2> QED
    BY <2>1, <2>2 DEF Bounded
<1> QED
  BY IInvInit, IInvStep, <1>1, PTL DEF Spec

-----------------------------------------------------------------------------
(* What SeverityIsWorst is violated by                                     *)

\* An ingest() begins, and has the lock.
Begins == \E t \in Thread : pc[t] = "idle" /\ pc'[t] # "idle"

\* As Spec, but no ingest() begins while another thread is inside one: the
\* behaviours of a correlator that would keep its lock up to the callback, and
\* all those of a single monitor.  The worker and the prune run as they do.
SerialSpec == Init /\ [][Next /\ (Begins => Quiescent)]_vars

\* One thread at a time is inside ingest().
Alone == \A t, u \in Thread : pc[t] # "idle" /\ pc[u] # "idle" => t = u

\* Every severity is the worst of the campaign's alerts, unless its thread is
\* about to make it so, and so is one that is still to be written back.
Exact ==
    /\ \A i \in DOMAIN campaigns \ judged :
          Recomputing(i) \/ campaigns[i].severity = Worst(campaigns[i].alerts)
    /\ \A t \in Thread :
          pc[t] \in Carrying /\ held[t] \notin judged =>
              sevRead[t] = Worst(campaigns[held[t]].alerts)
    /\ workerPc \in WorkerCarrying /\ job \notin judged =>
          jobSev = Worst(campaigns[job].alerts)
    /\ workerPc = "answered" => job \in judged

SInv == Shaped /\ Alone /\ Exact

\* Nothing but a thread's own step moves it, and none becomes busy otherwise
\* than by beginning an ingest().
LEMMA AloneKept ==
    ASSUME TypeOK, Alone, Next, Begins => Quiescent
    PROVE  Alone'
<1>1. ASSUME NEW t \in Thread, \A u \in Thread \ {t} : pc'[u] = pc[u]
      PROVE  Alone'
  <2>1. CASE pc[t] = "idle" /\ pc'[t] # "idle"
    <3>1. \A u \in Thread : pc[u] = "idle"
      BY <2>1 DEF Begins, Quiescent
    <3> QED
      BY <1>1, <3>1 DEF Alone
  <2>2. CASE ~(pc[t] = "idle" /\ pc'[t] # "idle")
    <3>1. \A u \in Thread : pc'[u] # "idle" => pc[u] # "idle"
      BY <1>1, <2>2
    <3> QED
      BY <3>1 DEF Alone
  <2> QED
    BY <2>1, <2>2
<1>2. ASSUME NEW t \in Thread, NEW sev \in Severities, NEW entities \in EntitySets,
             Ingest(t, sev, entities)
      PROVE  Alone'
  BY <1>1, <1>2 DEF Ingest, TypeOK
<1>3. ASSUME NEW t \in Thread, IngestStep(t) PROVE Alone'
  <2>1. \E label : pc' = [pc EXCEPT ![t] = label]
    BY <1>3 DEF IngestStep, Recompute, CheckMature, CheckNarrative, ReadSeverity, ApplyText,
                ApplySeverity, ApplyStatus, Callback, SubmitSynthesis, Goto, Return
  <2> QED
    BY <1>1, <2>1 DEF TypeOK
<1>4. CASE Worker \/ Prune \/ SetHandler \/ Tick
  <2>1. pc' = pc
    BY <1>4 DEF Worker, SynthesisStart, SynthesisFromModel, AnsweredSeverity, SynthesisFromRules,
                RulesText, RulesSeverity, SynthesisStatus, SynthesisNotify, SynthesisNotifyRaises,
                Prune, SetHandler, Tick, threadVars
  <2> QED
    BY <2>1 DEF Alone
<1> QED
  BY <1>2, <1>3, <1>4 DEF Next

\* A step that writes no other severity than the worst
LEMMA StillExact ==
    ASSUME Shaped, Exact, AlertsKept, judged \subseteq judged',
           \A u \in Thread :
              /\ pc[u] = "recompute" => pc'[u] = "recompute" /\ held'[u] = held[u]
              /\ pc'[u] \in Carrying => /\ pc[u] \in Carrying /\ held'[u] = held[u]
                                        /\ sevRead'[u] = sevRead[u],
           \A i \in DOMAIN campaigns \ judged' :
              campaigns'[i].severity \in {campaigns[i].severity, Worst(campaigns[i].alerts)},
           workerPc' \in WorkerCarrying =>
              job' = job /\ workerPc \in WorkerCarrying /\ jobSev' = jobSev,
           workerPc' = "answered" => job' \in judged'
    PROVE  Exact'
<1>1. \A u \in Thread : pc[u] \in Carrying => held[u] \in DOMAIN campaigns
  BY HeldExists DEF Shaped, Carrying
<1>2. workerPc \in WorkerCarrying => job \in DOMAIN campaigns
  BY HeldExists DEF Shaped, WorkerCarrying
<1>3. \A i \in DOMAIN campaigns : Recomputing(i) => Recomputing(i)'
  BY DEF Recomputing
<1>4. \A i \in DOMAIN campaigns' \ judged' :
          Recomputing(i)' \/ campaigns'[i].severity = Worst(campaigns'[i].alerts)
  BY <1>3 DEF Exact, AlertsKept
<1>5. \A u \in Thread :
          pc'[u] \in Carrying /\ held'[u] \notin judged' =>
              sevRead'[u] = Worst(campaigns'[held'[u]].alerts)
  BY <1>1 DEF Exact, AlertsKept
<1>6. workerPc' \in WorkerCarrying /\ job' \notin judged' => jobSev' = Worst(campaigns'[job'].alerts)
  BY <1>2 DEF Exact, AlertsKept
<1> QED
  BY <1>4, <1>5, <1>6 DEF Exact

\* A step of a thread writes the severity that it has read, which nothing has
\* raised since.
LEMMA ExactThread ==
    ASSUME Shaped, Alone, Exact, NEW t \in Thread, IngestStep(t)
    PROVE  Exact'
<1>1. TypeOK /\ campaigns \in Seq(Campaign)
  BY DEF Shaped, TypeOK
<1>2. pc[t] # "idle" => held[t] \in DOMAIN campaigns
  BY <1>1, HeldExists
<1>3. /\ UNCHANGED <<workerPc, job, jobSev, judged>> /\ pc[t] # "idle"
      /\ \E label \in Label \ {"recompute"} : pc' = [pc EXCEPT ![t] = label]
  BY DEF IngestStep, Recompute, CheckMature, CheckNarrative, ReadSeverity, ApplyText, ApplySeverity,
         ApplyStatus, Callback, SubmitSynthesis, Goto, Return, workerVars, history, Label
<1>4. /\ \A u \in Thread \ {t} : pc'[u] = pc[u] /\ pc[u] = "idle"
      /\ pc'[t] # "recompute"
  BY <1>1, <1>3 DEF TypeOK, Alone, Label
<1>5. workerPc = "answered" => job \in judged
  BY DEF Exact
<1>6. CASE Recompute(t)
  <2>1. /\ pc[t] = "recompute" /\ pc'[t] = "mature" /\ UNCHANGED <<held, sevRead>>
        /\ campaigns' = [campaigns EXCEPT ![held[t]].severity = Worst(campaigns[held[t]].alerts)]
    BY <1>1, <1>6 DEF Recompute, TypeOK
  <2>2. held[t] \in DOMAIN campaigns /\ Worst(campaigns[held[t]].alerts) \in Severities
    BY <1>1, <1>2, <2>1, HeldExists, WorstIs
  <2>3. Rewritten(held[t]) /\ campaigns'[held[t]].severity = Worst(campaigns[held[t]].alerts)
    BY <1>1, <2>1, <2>2, SeverityWritten
  <2>4. \A i \in DOMAIN campaigns' \ judged' : campaigns'[i].severity = Worst(campaigns'[i].alerts)
    <3> SUFFICES ASSUME NEW i \in DOMAIN campaigns' \ judged'
                 PROVE  campaigns'[i].severity = Worst(campaigns'[i].alerts)
      OBVIOUS
    <3>1. CASE i = held[t]
      BY <2>3, <3>1 DEF Rewritten
    <3>2. CASE i # held[t]
      <4>1. ~Recomputing(i)
        BY <1>4, <3>2 DEF Recomputing
      <4> QED
        BY <1>3, <2>3, <3>2, <4>1 DEF Rewritten, Exact
    <3> QED
      BY <3>1, <3>2
  <2>5. \A u \in Thread : pc'[u] \notin Carrying
    BY <1>4, <2>1 DEF Carrying
  <2>6. workerPc' \in WorkerCarrying /\ job' \notin judged' => jobSev' = Worst(campaigns'[job'].alerts)
    <3>1. workerPc \in WorkerCarrying => job \in DOMAIN campaigns
      BY <1>1, HeldExists DEF WorkerCarrying
    <3> QED
      BY <1>3, <2>3, <3>1 DEF Exact, Rewritten
  <2> QED
    BY <1>3, <1>5, <2>4, <2>5, <2>6 DEF Exact
<1>7. CASE CheckMature(t) \/ CheckNarrative(t) \/ Callback(t) \/ SubmitSynthesis(t)
  <2>1. campaigns' = campaigns /\ pc[t] # "recompute" /\ pc'[t] \notin Carrying
    BY <1>1, <1>7
    DEF CheckMature, CheckNarrative, Callback, SubmitSynthesis, Goto, Return, TypeOK, Carrying
  <2>2. AlertsKept
    BY <2>1 DEF AlertsKept
  <2>3. \A u \in Thread : pc[u] # "recompute" /\ pc'[u] \notin Carrying
    BY <1>4, <2>1 DEF Carrying
  <2> QED
    BY <1>3, <1>5, <2>1, <2>2, <2>3, StillExact
<1>8. CASE ReadSeverity(t)
  <2>1. /\ UNCHANGED <<campaigns, held>> /\ pc[t] = "rules"
        /\ held[t] \in DOMAIN campaigns /\ sevRead'[t] = campaigns[held[t]].severity
    BY <1>1, <1>2, <1>8 DEF ReadSeverity, Goto, TypeOK
  <2>2. \A i \in DOMAIN campaigns : ~Recomputing(i)
    BY <1>4, <2>1 DEF Recomputing
  <2> QED
    BY <1>3, <1>4, <2>1, <2>2 DEF Exact, Carrying
<1>9. CASE ApplyText(t)
  <2>1. /\ held[t] \in DOMAIN campaigns /\ UNCHANGED <<held, sevRead>> /\ pc[t] = "applyText"
        /\ campaigns' = [campaigns EXCEPT ![held[t]].synthesis = "rules"]
    BY <1>1, <1>2, <1>9 DEF ApplyText, TypeOK
  <2>2. Rewritten(held[t]) /\ campaigns'[held[t]].severity = campaigns[held[t]].severity
    BY <1>1, <2>1, TextWritten
  <2>3. AlertsKept /\ \A i \in DOMAIN campaigns : campaigns'[i].severity = campaigns[i].severity
    BY <2>2 DEF AlertsKept, Rewritten
  <2>4. \A u \in Thread : pc[u] # "recompute" /\ (pc'[u] \in Carrying => pc[u] \in Carrying)
    BY <1>4, <2>1 DEF Carrying
  <2> QED
    BY <1>3, <1>5, <2>1, <2>3, <2>4, StillExact
<1>10. CASE ApplySeverity(t)
  <2>1. /\ held[t] \in DOMAIN campaigns /\ UNCHANGED <<held, sevRead>>
        /\ pc[t] = "applySeverity" /\ pc'[t] = "applyStatus" /\ sevRead[t] \in Severities
        /\ campaigns' = [campaigns EXCEPT ![held[t]].severity = sevRead[t]]
    BY <1>1, <1>2, <1>10 DEF ApplySeverity, Goto, TypeOK, Shaped, HasRead, Carrying
  <2>2. Rewritten(held[t]) /\ campaigns'[held[t]].severity = sevRead[t]
    BY <1>1, <2>1, SeverityWritten
  <2>3. AlertsKept /\ \A i \in DOMAIN campaigns \ judged :
            campaigns'[i].severity \in {campaigns[i].severity, Worst(campaigns[i].alerts)}
    BY <2>1, <2>2 DEF AlertsKept, Rewritten, Exact, Carrying
  <2>4. \A u \in Thread : pc[u] # "recompute" /\ pc'[u] \notin Carrying
    BY <1>4, <2>1 DEF Carrying
  <2> QED
    BY <1>3, <1>5, <2>1, <2>3, <2>4, StillExact
<1>11. CASE ApplyStatus(t)
  <2>1. /\ held[t] \in DOMAIN campaigns /\ UNCHANGED <<held, sevRead>>
        /\ pc[t] = "applyStatus" /\ pc'[t] = "callback"
        /\ campaigns' = [campaigns EXCEPT ![held[t]].status = "SYNTHESIZED"]
    BY <1>1, <1>2, <1>11 DEF ApplyStatus, Goto, TypeOK
  <2>2. Rewritten(held[t]) /\ campaigns'[held[t]].severity = campaigns[held[t]].severity
    BY <1>1, <2>1, StatusWritten
  <2>3. AlertsKept /\ \A i \in DOMAIN campaigns : campaigns'[i].severity = campaigns[i].severity
    BY <2>2 DEF AlertsKept, Rewritten
  <2>4. \A u \in Thread : pc[u] # "recompute" /\ pc'[u] \notin Carrying
    BY <1>4, <2>1 DEF Carrying
  <2> QED
    BY <1>3, <1>5, <2>1, <2>3, <2>4, StillExact
<1> QED
  BY <1>6, <1>7, <1>8, <1>9, <1>10, <1>11 DEF IngestStep

\* An alert that arrives while no other thread carries a severity
LEMMA ExactIngest ==
    ASSUME Shaped, Exact, Quiescent, NEW t \in Thread, NEW sev \in Severities,
           NEW entities \in EntitySets, Ingest(t, sev, entities)
    PROVE  Exact'
<1> DEFINE i == IF Joinable(entities) = {} THEN Len(campaigns) + 1 ELSE Min(Joinable(entities))
<1>1. TypeOK /\ campaigns \in Seq(Campaign) /\ now \in Nat
  BY CorrelatorAssumption DEF Shaped, TypeOK, CorrelatorAssumption
<1>2. /\ UNCHANGED <<judged, workerPc>> /\ held'[t] = i
      /\ (pc'[t] = "recompute" <=> Joinable(entities) # {})
      /\ \A u \in Thread : pc'[u] \notin Carrying
      /\ workerPc \notin WorkerCarrying \cup {"answered"}
  BY <1>1 DEF Ingest, Free, TypeOK, Quiescent, workerVars, Carrying, WorkerCarrying
<1>3. DOMAIN campaigns = 1..Len(campaigns) /\ Len(campaigns) \in Nat /\ judged \subseteq DOMAIN campaigns
  BY <1>1, HeldExists DEF TypeOK
<1>4. \A j \in DOMAIN campaigns \ judged : campaigns[j].severity = Worst(campaigns[j].alerts)
  BY DEF Exact, Recomputing, Quiescent
<1>5. \A j \in DOMAIN campaigns' \ judged :
          Recomputing(j)' \/ campaigns'[j].severity = Worst(campaigns'[j].alerts)
  <2>1. CASE Joinable(entities) # {}
    <3>1. JoinCampaign(i, sev, entities)
      BY <2>1 DEF Ingest
    <3>2. Joinable(entities) \subseteq DOMAIN campaigns /\ DOMAIN campaigns \subseteq Nat
      BY <1>3 DEF Joinable
    <3>3. i \in DOMAIN campaigns
      BY <2>1, <3>2, MinIs
    <3> HIDE DEF i
    <3>4. /\ DOMAIN campaigns' = DOMAIN campaigns
          /\ \A j \in DOMAIN campaigns \ {i} : campaigns'[j] = campaigns[j]
      BY <1>1, <3>1, <3>3, JoinWritten
    <3>5. \A j \in DOMAIN campaigns : j = i => Recomputing(j)'
      BY <1>2, <2>1 DEF Recomputing
    <3> QED
      BY <1>4, <3>4, <3>5
  <2>2. CASE Joinable(entities) = {}
    <3>1. campaigns' = Append(campaigns, NewCampaign(sev, entities))
      BY <2>2 DEF Ingest
    <3>2. /\ DOMAIN campaigns' = DOMAIN campaigns \cup {Len(campaigns) + 1}
          /\ \A j \in DOMAIN campaigns : campaigns'[j] = campaigns[j]
          /\ campaigns'[Len(campaigns) + 1].severity = Worst(campaigns'[Len(campaigns) + 1].alerts)
      BY <1>1, <3>1, NewWritten
    <3> QED
      BY <1>4, <3>2
  <2> QED
    BY <2>1, <2>2
<1> QED
  BY <1>2, <1>5 DEF Exact

\* The worker gives a campaign a severity of its own only when it judges it.
LEMMA ExactWorker ==
    ASSUME Shaped, Exact, Worker
    PROVE  Exact'
<1>1. TypeOK /\ campaigns \in Seq(Campaign) /\ jobCount \in Nat
  BY DEF Shaped, TypeOK
<1>2. UNCHANGED <<pc, held, sevRead>>
  BY
  DEF Worker, SynthesisStart, SynthesisFromModel, AnsweredSeverity, SynthesisFromRules, RulesText,
         RulesSeverity, SynthesisStatus, SynthesisNotify, SynthesisNotifyRaises, threadVars
<1>3. /\ workerPc # "idle" => job \in DOMAIN campaigns
      /\ \A j \in DOMAIN campaigns : campaigns[j].severity \in Severities
  BY <1>1, HeldExists
<1>4. CASE SynthesisStart \/ SynthesisNotify \/ SynthesisNotifyRaises
  <2>1. /\ UNCHANGED <<campaigns, judged>>
        /\ workerPc' \in {"idle", "infer", "raised"} \/ UNCHANGED <<workerPc, job, jobSev>>
    BY <1>4 DEF SynthesisStart, SynthesisNotify, SynthesisNotifyRaises, workerVars, history
  <2>2. AlertsKept
    BY <2>1 DEF AlertsKept
  <2> QED
    BY <1>2, <2>1, <2>2, StillExact DEF Exact, WorkerCarrying
<1>5. CASE SynthesisFromModel
  <2>1. PICK text \in {"model", "none"} : campaigns' = [campaigns EXCEPT ![job].synthesis = text]
    BY <1>5 DEF SynthesisFromModel
  <2>2. /\ job \in DOMAIN campaigns /\ judged' = judged \cup {job} /\ job' = job
        /\ workerPc' = "answered"
    BY <1>3, <1>5 DEF SynthesisFromModel
  <2>3. Rewritten(job) /\ campaigns'[job].severity = campaigns[job].severity
    BY <1>1, <2>1, <2>2, TextWritten
  <2>4. AlertsKept /\ \A i \in DOMAIN campaigns : campaigns'[i].severity = campaigns[i].severity
    BY <2>3 DEF AlertsKept, Rewritten
  <2> QED
    BY <1>2, <2>2, <2>4, StillExact DEF WorkerCarrying
<1>6. CASE AnsweredSeverity
  <2>1. PICK sev \in Severities : campaigns' = [campaigns EXCEPT ![job].severity = sev]
    BY <1>6 DEF AnsweredSeverity
  <2>2. /\ job \in DOMAIN campaigns /\ judged' = judged /\ job \in judged /\ workerPc' = "status"
    BY <1>3, <1>6 DEF AnsweredSeverity, history, Exact
  <2>3. Rewritten(job)
    BY <1>1, <2>1, <2>2, SeverityWritten
  <2>4. /\ AlertsKept
        /\ \A i \in DOMAIN campaigns \ judged : campaigns'[i].severity = campaigns[i].severity
    BY <2>2, <2>3 DEF AlertsKept, Rewritten
  <2> QED
    BY <1>2, <2>2, <2>4, StillExact DEF WorkerCarrying
<1>7. CASE SynthesisFromRules
  <2>1. /\ UNCHANGED <<campaigns, job, judged>> /\ workerPc' = "rules"
        /\ job \in DOMAIN campaigns /\ jobSev' = campaigns[job].severity
        /\ \A u \in Thread : pc[u] # "recompute"
    BY <1>3, <1>7 DEF SynthesisFromRules, Free, history
  <2>2. \A i \in DOMAIN campaigns : ~Recomputing(i)
    BY <2>1 DEF Recomputing
  <2> QED
    BY <1>2, <2>1, <2>2 DEF Exact
<1>8. CASE RulesText
  <2>1. /\ job \in DOMAIN campaigns /\ UNCHANGED <<job, jobSev, judged>>
        /\ workerPc = "rules" /\ workerPc' = "rulesText"
        /\ campaigns' = [campaigns EXCEPT ![job].synthesis = "rules"]
    BY <1>3, <1>8 DEF RulesText, history
  <2>2. Rewritten(job) /\ campaigns'[job].severity = campaigns[job].severity
    BY <1>1, <2>1, TextWritten
  <2>3. AlertsKept /\ \A i \in DOMAIN campaigns : campaigns'[i].severity = campaigns[i].severity
    BY <2>2 DEF AlertsKept, Rewritten
  <2> QED
    BY <1>2, <2>1, <2>3, StillExact DEF WorkerCarrying
<1>9. CASE RulesSeverity
  <2>1. /\ job \in DOMAIN campaigns /\ jobSev \in Severities /\ judged' = judged
        /\ workerPc = "rulesText" /\ workerPc' = "rulesStatus"
        /\ campaigns' = [campaigns EXCEPT ![job].severity = jobSev]
    BY <1>3, <1>9 DEF RulesSeverity, history, Shaped, HasRead, WorkerCarrying
  <2>2. Rewritten(job) /\ campaigns'[job].severity = jobSev
    BY <1>1, <2>1, SeverityWritten
  <2>3. AlertsKept /\ \A i \in DOMAIN campaigns \ judged :
            campaigns'[i].severity \in {campaigns[i].severity, Worst(campaigns[i].alerts)}
    BY <2>1, <2>2 DEF AlertsKept, Rewritten, Exact, WorkerCarrying
  <2> QED
    BY <1>2, <2>1, <2>3, StillExact DEF WorkerCarrying
<1>10. CASE SynthesisStatus
  <2>1. /\ job \in DOMAIN campaigns /\ judged' = judged /\ workerPc' \in {"notify", "notifyRules"}
        /\ campaigns' = [campaigns EXCEPT ![job].status = "SYNTHESIZED", ![job].synthesizedAt = jobCount]
    BY <1>3, <1>10 DEF SynthesisStatus, history
  <2>2. Rewritten(job) /\ campaigns'[job].severity = campaigns[job].severity
    BY <1>1, <2>1, SynthesisWritten
  <2>3. AlertsKept /\ \A i \in DOMAIN campaigns : campaigns'[i].severity = campaigns[i].severity
    BY <2>2 DEF AlertsKept, Rewritten
  <2> QED
    BY <1>2, <2>1, <2>3, StillExact DEF WorkerCarrying
<1> QED
  BY <1>4, <1>5, <1>6, <1>7, <1>8, <1>9, <1>10 DEF Worker

\* Every step of SerialSpec keeps the severities exact.
LEMMA SInvStep ==
    ASSUME SInv, [Next /\ (Begins => Quiescent)]_vars
    PROVE  SInv'
<1>1. Shaped /\ TypeOK /\ Alone /\ Exact
  BY DEF SInv, Shaped
<1>2. Shaped'
  BY <1>1, ShapedStep
<1>3. CASE UNCHANGED vars
  <2>1. UNCHANGED <<campaigns, pc, held, sevRead, workerPc, job, jobSev, judged>>
    BY <1>3 DEF vars, threadVars, workerVars, history
  <2> QED
    BY <1>1, <1>2, <2>1 DEF SInv, Alone, Exact, Recomputing
<1>4. CASE Next /\ (Begins => Quiescent)
  <2>1. Alone'
    BY <1>1, <1>4, AloneKept
  <2>2. ASSUME NEW t \in Thread, NEW sev \in Severities, NEW entities \in EntitySets,
               Ingest(t, sev, entities)
        PROVE  Exact'
    <3>1. pc[t] = "idle" /\ pc'[t] # "idle"
      BY <1>1, <2>2 DEF Ingest, TypeOK
    <3>2. Quiescent
      BY <1>4, <3>1 DEF Begins
    <3> QED
      BY <1>1, <2>2, <3>2, ExactIngest
  <2>3. ASSUME NEW t \in Thread, IngestStep(t) PROVE Exact'
    BY <1>1, <2>3, ExactThread
  <2>4. ASSUME Worker PROVE Exact'
    BY <1>1, <2>4, ExactWorker
  <2>5. ASSUME Prune PROVE Exact'
    <3>1. /\ DOMAIN campaigns' = DOMAIN campaigns
          /\ \A j \in DOMAIN campaigns : /\ campaigns'[j].alerts = campaigns[j].alerts
                                         /\ campaigns'[j].severity = campaigns[j].severity
      BY <1>1, <2>5, PruneWritten DEF TypeOK
    <3>2. UNCHANGED <<pc, held, sevRead, workerPc, job, jobSev, judged>>
      BY <2>5 DEF Prune, threadVars, workerVars, history
    <3>3. AlertsKept /\ \A i \in DOMAIN campaigns : campaigns'[i].severity = campaigns[i].severity
      BY <3>1 DEF AlertsKept
    <3> QED
      BY <1>1, <3>2, <3>3, StillExact DEF Exact
  <2>6. ASSUME SetHandler \/ Tick PROVE Exact'
    <3>1. UNCHANGED <<campaigns, pc, held, sevRead, workerPc, job, jobSev, judged>>
      BY <2>6 DEF SetHandler, Tick, threadVars, workerVars, history
    <3> QED
      BY <1>1, <3>1 DEF Exact, Recomputing
  <2>7. Exact'
    BY <1>4, <2>2, <2>3, <2>4, <2>5, <2>6 DEF Next
  <2> QED
    BY <1>2, <2>1, <2>7 DEF SInv
<1> QED
  BY <1>3, <1>4

\* SeverityIsWorst, which two threads inside ingest() violate, holds in every
\* behaviour in which none begins before the other has returned, whatever the
\* worker and the prune do meanwhile: the narrative that ingest() writes after
\* it has released its lock is all that loses a raised severity.
THEOREM OnlyOverlapLosesSeverity == SerialSpec => []SeverityIsWorst
<1>1. Init => SInv
  <2> SUFFICES ASSUME Init PROVE SInv
    OBVIOUS
  <2>1. DOMAIN campaigns = {} /\ workerPc = "idle" /\ \A t \in Thread : pc[t] = "idle"
    BY EmptySeq, LenProperties DEF Init
  <2> QED
    BY <2>1, ShapedInit DEF SInv, Alone, Exact, Carrying, WorkerCarrying
<1>2. SInv => SeverityIsWorst
  BY DEF SInv, Exact, SeverityIsWorst, Quiescent, Recomputing
<1> QED
  BY <1>1, <1>2, SInvStep, PTL DEF SerialSpec

-----------------------------------------------------------------------------
(* What MatureIsSubmitted is violated by                                   *)

\* Campaign i has the alerts that call for the model.
Wanted(i) == Len(campaigns[i].alerts) >= SlmThreshold

\* MatureIsSubmitted, but for campaigns that expired and correlators that have
\* a handler
SubmittedWithoutHandler ==
    ~handler /\ Quiescent =>
        \A i \in DOMAIN campaigns : Wanted(i) => i \in asked \/ campaigns[i].status = "EXPIRED"

\* A campaign that calls for the model is on its way to it.
OnTheWay ==
    \A i \in DOMAIN campaigns : Wanted(i) =>
        \/ i \in asked \/ campaigns[i].status = "EXPIRED"
        \/ \E t \in Thread : pc[t] \in {"recompute", "mature", "submit"} /\ held[t] = i

\* Without a handler no thread writes a narrative, and what is marked
\* SYNTHESIZED, queued or at the worker has been submitted.
Submitting ==
    /\ \A t \in Thread : pc[t] \in {"idle", "recompute", "mature", "submit"}
    /\ \A i \in DOMAIN campaigns : campaigns[i].status = "SYNTHESIZED" => i \in asked
    /\ jobs \in Seq(asked)
    /\ workerPc # "idle" => job \in asked
    /\ OnTheWay

\* The thread that joined or opened a campaign will look at it.
LEMMA IngestSubmits ==
    ASSUME Shaped, Submitting, NEW t \in Thread, NEW sev \in Severities,
           NEW entities \in EntitySets, Ingest(t, sev, entities)
    PROVE  Submitting'
<1> DEFINE i == IF Joinable(entities) = {} THEN Len(campaigns) + 1 ELSE Min(Joinable(entities))
<1>1. TypeOK /\ campaigns \in Seq(Campaign) /\ now \in Nat
  BY CorrelatorAssumption DEF Shaped, TypeOK, CorrelatorAssumption
<1>2. DOMAIN campaigns = 1..Len(campaigns) /\ Len(campaigns) \in Nat
  BY <1>1, HeldExists
<1>3. /\ pc[t] = "idle" /\ pc'[t] \in {"recompute", "mature"} /\ held'[t] = i
      /\ \A u \in Thread \ {t} : pc'[u] = pc[u] /\ held'[u] = held[u]
      /\ UNCHANGED <<jobs, workerPc, job, asked>>
  BY <1>1 DEF Ingest, TypeOK, workerVars
<1>4. /\ DOMAIN campaigns' = DOMAIN campaigns \cup {i}
      /\ \A j \in DOMAIN campaigns \ {i} : campaigns'[j] = campaigns[j]
      /\ \/ campaigns'[i].status = "ACTIVE"
         \/ i \in DOMAIN campaigns /\ campaigns'[i].status = campaigns[i].status
  <2>1. CASE Joinable(entities) # {}
    <3>1. JoinCampaign(i, sev, entities)
      BY <2>1 DEF Ingest
    <3>2. Joinable(entities) \subseteq DOMAIN campaigns /\ DOMAIN campaigns \subseteq Nat
      BY <1>2 DEF Joinable
    <3>3. i \in DOMAIN campaigns
      BY <2>1, <3>2, MinIs
    <3> HIDE DEF i
    <3> QED
      BY <1>1, <3>1, <3>3, JoinWritten
  <2>2. CASE Joinable(entities) = {}
    <3>1. campaigns' = Append(campaigns, NewCampaign(sev, entities)) /\ i = Len(campaigns) + 1
      BY <2>2 DEF Ingest
    <3> QED
      BY <1>1, <1>2, <3>1, NewWritten
  <2> QED
    BY <2>1, <2>2
<1> HIDE DEF i
<1>5. \A j \in DOMAIN campaigns' : campaigns'[j].status = "SYNTHESIZED" => j \in asked'
  BY <1>3, <1>4 DEF Submitting
<1>6. OnTheWay'
  <2> SUFFICES ASSUME NEW j \in DOMAIN campaigns', Wanted(j)'
               PROVE  \/ j \in asked' \/ campaigns'[j].status = "EXPIRED"
                      \/ \E u \in Thread : pc'[u] \in {"recompute", "mature", "submit"} /\ held'[u] = j
    BY DEF OnTheWay
  <2>1. CASE j = i
    BY <1>3, <2>1
  <2>2. CASE j # i
    <3>1. j \in DOMAIN campaigns /\ campaigns'[j] = campaigns[j] /\ Wanted(j)
      BY <1>4, <2>2 DEF Wanted
    <3> QED
      BY <1>3, <3>1 DEF Submitting, OnTheWay
  <2> QED
    BY <2>1, <2>2
<1> QED
  BY <1>3, <1>5, <1>6 DEF Submitting

\* A thread that leaves ingest() has submitted its campaign, or found it too
\* small, submitted before, or expired.
LEMMA ThreadSubmits ==
    ASSUME Shaped, Submitting, ~handler, MinAlerts <= SlmThreshold, NEW t \in Thread, IngestStep(t)
    PROVE  Submitting'
<1>1. /\ TypeOK /\ pc[t] \in {"idle", "recompute", "mature", "submit"} /\ MinAlerts \in Nat /\ SlmThreshold \in Nat
      /\ (pc[t] # "idle" => held[t] \in DOMAIN campaigns /\ Len(campaigns[held[t]].alerts) \in Nat)
  BY HeldExists, CorrelatorAssumption DEF Shaped, Submitting, CorrelatorAssumption
<1>5. CASE Recompute(t)
  <2>1. /\ pc[t] = "recompute" /\ UNCHANGED <<held, jobs, workerPc, job, asked>>
        /\ \A u \in Thread : pc'[u] = IF u = t THEN "mature" ELSE pc[u]
        /\ campaigns' = [campaigns EXCEPT ![held[t]].severity = Worst(campaigns[held[t]].alerts)]
    BY <1>1, <1>5 DEF Recompute, TypeOK, workerVars, history
  <2>2. held[t] \in DOMAIN campaigns /\ Worst(campaigns[held[t]].alerts) \in Severities
    BY <1>1, <2>1, HeldExists, WorstIs
  <2>3. Rewritten(held[t]) /\ campaigns'[held[t]].status = campaigns[held[t]].status
    BY <1>1, <2>1, <2>2, SeverityWritten DEF TypeOK
  <2>4. /\ DOMAIN campaigns' = DOMAIN campaigns
        /\ \A j \in DOMAIN campaigns : /\ campaigns'[j].alerts = campaigns[j].alerts
                                       /\ campaigns'[j].status = campaigns[j].status
    BY <2>3 DEF Rewritten
  <2>5. OnTheWay'
    BY <2>1, <2>4 DEF Submitting, OnTheWay, Wanted
  <2>6. \A u \in Thread : pc'[u] \in {"idle", "recompute", "mature", "submit"}
    BY <2>1 DEF Submitting
  <2> QED
    BY <2>1, <2>4, <2>5, <2>6 DEF Submitting
<1>2. CASE CheckMature(t)
  <2>1. /\ pc[t] = "mature" /\ UNCHANGED <<campaigns, jobs, workerPc, job, asked>>
        /\ \/ pc'[t] = "submit" /\ held' = held
           \/ pc'[t] = "idle" /\ ~Mature(campaigns[held[t]]) /\ held'[t] = 0
        /\ \A u \in Thread \ {t} : pc'[u] = pc[u] /\ held'[u] = held[u]
    BY <1>1, <1>2 DEF CheckMature, Goto, Return, TypeOK, workerVars
  <2>2. ~Mature(campaigns[held[t]]) => ~Wanted(held[t])
    BY <1>1, <2>1 DEF Mature, Wanted
  <2>3. OnTheWay'
    BY <2>1, <2>2 DEF Submitting, OnTheWay, Wanted
  <2>4. \A u \in Thread : pc'[u] \in {"idle", "recompute", "mature", "submit"}
    BY <2>1 DEF Submitting
  <2> QED
    BY <2>1, <2>3, <2>4 DEF Submitting
<1>3. CASE SubmitSynthesis(t)
  <2>1. /\ pc[t] = "submit" /\ pc'[t] = "idle" /\ held'[t] = 0 /\ UNCHANGED <<campaigns, workerPc, job>>
        /\ \A u \in Thread \ {t} : pc'[u] = pc[u] /\ held'[u] = held[u]
    BY <1>1, <1>3 DEF SubmitSynthesis, Return, Goto, TypeOK, workerVars
  <2>2. held[t] \in DOMAIN campaigns /\ campaigns[held[t]].status \in Status
    BY <1>1, <2>1, HeldExists DEF Campaign
  <2>3. asked \subseteq asked' /\ (Wanted(held[t]) => held[t] \in asked' \/ campaigns[held[t]].status = "EXPIRED")
    <3>1. CASE WantsSynthesis(campaigns[held[t]])
      BY <1>3, <3>1 DEF SubmitSynthesis
    <3>2. CASE ~WantsSynthesis(campaigns[held[t]])
      BY <1>3, <2>2, <3>2 DEF SubmitSynthesis, WantsSynthesis, Wanted, Status, Submitting
    <3> QED
      BY <3>1, <3>2
  <2>4. jobs' \in Seq(asked')
    <3>1. jobs \in Seq(asked)
      BY DEF Submitting
    <3>2. jobs \in Seq(asked')
      BY <2>3, <3>1, SeqMonotonic
    <3>3. CASE WantsSynthesis(campaigns[held[t]])
      <4>1. jobs' = JobsWith(held[t]) /\ held[t] \in asked'
        BY <1>3, <3>3 DEF SubmitSynthesis
      <4>2. CASE Len(jobs) < MaxPendingJobs
        BY <3>2, <4>1, <4>2, AppendProperties DEF JobsWith
      <4>3. CASE ~(Len(jobs) < MaxPendingJobs)
        <5>1. jobs # <<>>
          BY <4>3, EmptySeq, CorrelatorAssumption DEF CorrelatorAssumption
        <5>2. Tail(jobs) \in Seq(asked')
          BY <3>2, <5>1, HeadTailProperties
        <5> QED
          BY <4>1, <4>3, <5>2, AppendProperties DEF JobsWith
      <4> QED
        BY <4>2, <4>3
    <3>4. CASE ~WantsSynthesis(campaigns[held[t]])
      BY <1>3, <3>1, <3>4 DEF SubmitSynthesis
    <3> QED
      BY <3>3, <3>4
  <2>5. OnTheWay'
    BY <2>1, <2>3 DEF Submitting, OnTheWay, Wanted
  <2> QED
    BY <2>1, <2>3, <2>4, <2>5 DEF Submitting
<1>4. CASE CheckNarrative(t) \/ ReadSeverity(t) \/ ApplyText(t) \/ ApplySeverity(t) \/ ApplyStatus(t)
           \/ Callback(t)
  BY <1>1, <1>4 DEF CheckNarrative, ReadSeverity, ApplyText, ApplySeverity, ApplyStatus, Callback
<1> QED
  BY <1>2, <1>3, <1>4, <1>5 DEF IngestStep

\* The worker takes what has been submitted.
LEMMA WorkerSubmits ==
    ASSUME Shaped, Submitting, Worker
    PROVE  Submitting'
<1>1. /\ TypeOK /\ campaigns \in Seq(Campaign) /\ jobCount \in Nat /\ jobs \in Seq(asked)
      /\ workerPc # "idle" => job \in DOMAIN campaigns /\ job \in asked
  BY HeldExists DEF Shaped, TypeOK, Submitting
<1>2. UNCHANGED <<pc, held, asked>>
  BY
  DEF Worker, SynthesisStart, SynthesisFromModel, AnsweredSeverity, SynthesisFromRules, RulesText,
         RulesSeverity, SynthesisStatus, SynthesisNotify, SynthesisNotifyRaises, threadVars, history
<1>3. CASE SynthesisStart
  <2>1. /\ jobs # <<>> /\ jobs' = Tail(jobs) /\ campaigns' = campaigns
        /\ job' = Head(jobs) \/ (workerPc' = workerPc /\ job' = job)
    BY <1>3 DEF SynthesisStart, workerVars
  <2>2. Head(jobs) \in asked /\ Tail(jobs) \in Seq(asked)
    BY <1>1, <2>1, HeadTailProperties
  <2> QED
    BY <1>2, <2>1, <2>2 DEF Submitting, OnTheWay, Wanted
<1>4. CASE SynthesisNotify \/ SynthesisNotifyRaises \/ SynthesisFromRules
  <2>1. UNCHANGED <<campaigns, jobs>> /\ (workerPc' # "idle" => workerPc # "idle" /\ job' = job)
    BY <1>4 DEF SynthesisNotify, SynthesisNotifyRaises, SynthesisFromRules
  <2> QED
    BY <1>1, <1>2, <2>1 DEF Submitting, OnTheWay, Wanted
<1>5. CASE SynthesisFromModel \/ AnsweredSeverity \/ RulesText \/ RulesSeverity \/ SynthesisStatus
  <2>1. workerPc # "idle" /\ job' = job /\ jobs' = jobs
    BY <1>5 DEF SynthesisFromModel, AnsweredSeverity, RulesText, RulesSeverity, SynthesisStatus
  <2>2. job \in DOMAIN campaigns /\ job \in asked
    BY <1>1, <2>1
  <2>3. Rewritten(job)
    <3>1. CASE SynthesisFromModel
      <4>1. \E text \in {"model", "none"} : campaigns' = [campaigns EXCEPT ![job].synthesis = text]
        BY <3>1 DEF SynthesisFromModel
      <4> QED
        BY <1>1, <2>2, <4>1, TextWritten
    <3>2. CASE AnsweredSeverity
      BY <1>1, <2>2, <3>2, SeverityWritten DEF AnsweredSeverity
    <3>3. CASE RulesText
      BY <1>1, <2>2, <3>3, TextWritten DEF RulesText
    <3>4. CASE RulesSeverity
      <4>1. jobSev \in Severities
        BY <3>4 DEF RulesSeverity, Shaped, HasRead, WorkerCarrying
      <4> QED
        BY <1>1, <2>2, <3>4, <4>1, SeverityWritten DEF RulesSeverity
    <3>5. CASE SynthesisStatus
      BY <1>1, <2>2, <3>5, SynthesisWritten DEF SynthesisStatus
    <3> QED
      BY <1>5, <3>1, <3>2, <3>3, <3>4, <3>5
  <2>4. OnTheWay'
    BY <1>2, <2>2, <2>3 DEF Submitting, OnTheWay, Wanted, Rewritten
  <2> QED
    BY <1>1, <1>2, <2>1, <2>2, <2>3, <2>4 DEF Submitting, Rewritten
<1> QED
  BY <1>3, <1>4, <1>5 DEF Worker

\* Every step keeps it, as long as no handler is set.
LEMMA SubmittingStep ==
    ASSUME MinAlerts <= SlmThreshold, Shaped, ~handler => Submitting, [Next]_vars
    PROVE  ~handler' => Submitting'
<1> SUFFICES ASSUME ~handler' PROVE Submitting'
  OBVIOUS
<1>1. ~handler
  BY DEF Next, Ingest, IngestStep, Recompute, CheckMature, CheckNarrative, ReadSeverity, ApplyText,
         ApplySeverity, ApplyStatus, Callback, SubmitSynthesis, Worker, SynthesisStart,
         SynthesisFromModel, AnsweredSeverity, SynthesisFromRules, RulesText, RulesSeverity,
         SynthesisStatus, SynthesisNotify, SynthesisNotifyRaises, Prune, SetHandler, Tick, vars
<1>2. Submitting /\ TypeOK
  BY <1>1 DEF Shaped
<1>3. ASSUME NEW t \in Thread, NEW sev \in Severities, NEW entities \in EntitySets,
             Ingest(t, sev, entities)
      PROVE  Submitting'
  BY <1>2, <1>3, IngestSubmits
<1>4. ASSUME NEW t \in Thread, IngestStep(t) PROVE Submitting'
  BY <1>1, <1>2, <1>4, ThreadSubmits
<1>5. CASE Worker
  BY <1>2, <1>5, WorkerSubmits
<1>6. CASE Prune
  <2>1. /\ DOMAIN campaigns' = DOMAIN campaigns
        /\ \A j \in DOMAIN campaigns : /\ campaigns'[j].alerts = campaigns[j].alerts
                                       /\ campaigns'[j].status \in {"EXPIRED", campaigns[j].status}
    BY <1>2, <1>6, PruneWritten DEF TypeOK
  <2>2. UNCHANGED <<pc, held, jobs, workerPc, job, asked>>
    BY <1>6 DEF Prune, threadVars, workerVars, history
  <2>3. OnTheWay'
    BY <1>2, <2>1, <2>2 DEF Submitting, OnTheWay, Wanted
  <2> QED
    BY <1>2, <2>1, <2>2, <2>3 DEF Submitting
<1>7. CASE SetHandler \/ Tick \/ UNCHANGED vars
  <2>1. UNCHANGED <<campaigns, pc, held, jobs, workerPc, job, asked>>
    BY <1>7 DEF SetHandler, Tick, vars, threadVars, workerVars, history
  <2> QED
    BY <1>2, <2>1 DEF Submitting, OnTheWay, Wanted
<1> QED
  BY <1>3, <1>4, <1>5, <1>6, <1>7 DEF Next

\* MatureIsSubmitted fails only where there is a handler or a campaign expires:
\* as long as the correlator has no handler, however its threads, its worker and
\* its prune interleave, every campaign of CAMPAIGN_SLM_THRESHOLD alerts has
\* been submitted or has expired.  (The code's thresholds are 2 and 3.)
THEOREM OnlyHandlersKeepBack ==
    ASSUME MinAlerts <= SlmThreshold
    PROVE  Spec => []SubmittedWithoutHandler
<1>1. Init => Submitting
  <2> SUFFICES ASSUME Init PROVE Submitting
    OBVIOUS
  <2>1. DOMAIN campaigns = {} /\ jobs \in Seq(asked) /\ workerPc = "idle"
        /\ \A t \in Thread : pc[t] = "idle"
    BY EmptySeq, LenProperties DEF Init
  <2> QED
    BY <2>1 DEF Submitting, OnTheWay
<1>2. (~handler => Submitting) => SubmittedWithoutHandler
  BY DEF Submitting, OnTheWay, SubmittedWithoutHandler, Quiescent
<1>3. Shaped /\ (~handler => Submitting) /\ [Next]_vars => (~handler => Submitting)'
  BY SubmittingStep
<1> QED
  BY <1>1, <1>2, <1>3, ShapedInit, ShapedStep, PTL DEF Spec

-----------------------------------------------------------------------------
(* The prune                                                               *)

\* How many campaigns have been quiet longer
Rank(i) == Cardinality({j \in DOMAIN campaigns : Older(j, i)})

\* The rank of a campaign is its place in the order of age.
LEMMA RankIs ==
    ASSUME campaigns \in Seq(Campaign)
    PROVE  /\ \A i \in 1..Len(campaigns) : Rank(i) \in 0..Len(campaigns) - 1
           /\ \A i, j \in 1..Len(campaigns) : Older(i, j) => Rank(i) < Rank(j)
           /\ \A i, j \in 1..Len(campaigns) : Rank(i) = Rank(j) => i = j
<1> DEFINE N == Len(campaigns)
           Below(i) == {j \in DOMAIN campaigns : Older(j, i)}
<1>1. /\ N \in Nat /\ DOMAIN campaigns = 1..N
      /\ \A i \in 1..N : i \in Nat /\ campaigns[i].last \in Nat
  <2>1. N \in Nat /\ DOMAIN campaigns = 1..N /\ \A i \in 1..N : campaigns[i] \in Campaign
    BY ElementOfSeq, LenProperties
  <2>2. \A d \in Campaign : d.last \in Nat
    BY DEF Campaign
  <2> QED
    BY <2>1, <2>2
<1>2. IsFiniteSet(1..N) /\ Cardinality(1..N) = N
  <2>1. N > 0 \/ N = 0
    BY <1>1
  <2> HIDE DEF N
  <2> QED
    BY <1>1, <2>1, FS_Interval
<1>3. /\ \A i \in 1..N : ~Older(i, i)
      /\ \A i, j, k \in 1..N : Older(i, j) /\ Older(j, k) => Older(i, k)
      /\ \A i, j \in 1..N : i = j \/ Older(i, j) \/ Older(j, i)
  <2> HIDE DEF N
  <2> QED
    BY <1>1 DEF Older
<1> HIDE DEF N
<1>4. \A i : Below(i) \subseteq 1..N /\ IsFiniteSet(Below(i)) /\ Rank(i) = Cardinality(Below(i))
             /\ Rank(i) \in Nat
  <2> TAKE i
  <2>1. Below(i) \subseteq 1..N
    BY <1>1
  <2>2. Rank(i) = Cardinality(Below(i))
    BY DEF Rank
  <2> HIDE DEF Below
  <2> QED
    BY <1>2, <2>1, <2>2, FS_Subset, FS_CardinalityType
<1>5. ASSUME NEW i \in 1..N, NEW U, U \subseteq 1..N, Below(i) \subseteq U, i \in U
      PROVE  Rank(i) < Cardinality(U)
  <2>1. i \notin Below(i)
    BY <1>3
  <2> HIDE DEF Below
  <2>2. IsFiniteSet(U) /\ Cardinality(U) \in Nat
    BY <1>2, <1>5, FS_Subset, FS_CardinalityType
  <2>3. Below(i) # U
    BY <1>5, <2>1
  <2> QED
    BY <1>4, <1>5, <2>2, <2>3, FS_Subset
<1>6. \A i \in 1..N : Rank(i) \in 0..N - 1
  <2> TAKE i \in 1..N
  <2>1. Rank(i) < N
    BY <1>2, <1>4, <1>5
  <2>2. Rank(i) \in Nat
    BY <1>4
  <2> HIDE DEF Below
  <2> QED
    BY <1>1, <2>1, <2>2
<1>7. \A i, j \in 1..N : Older(i, j) => Rank(i) < Rank(j)
  <2> SUFFICES ASSUME NEW i \in 1..N, NEW j \in 1..N, Older(i, j) PROVE Rank(i) < Rank(j)
    OBVIOUS
  <2>1. Below(i) \subseteq Below(j) /\ i \in Below(j) /\ Below(j) \subseteq 1..N
    BY <1>1, <1>3
  <2> HIDE DEF Below
  <2> QED
    BY <1>4, <1>5, <2>1
<1>8. \A i, j \in 1..N : Rank(i) = Rank(j) => i = j
  <2> SUFFICES ASSUME NEW i \in 1..N, NEW j \in 1..N, Rank(i) = Rank(j), i # j PROVE FALSE
    OBVIOUS
  <2>1. Rank(i) < Rank(j) \/ Rank(j) < Rank(i)
    BY <1>3, <1>7
  <2>2. Rank(i) \in Nat /\ Rank(j) \in Nat
    BY <1>4
  <2> QED
    BY <2>1, <2>2
<1> QED
  BY <1>6, <1>7, <1>8 DEF N

\* A prune gives up those of the lowest ranks, and all that are old.
LEMMA PruneKeeps ==
    ASSUME campaigns \in Seq(Campaign), Prune
    PROVE  LET kept == {i \in DOMAIN campaigns : campaigns'[i].status # "EXPIRED"}
               given == {i \in DOMAIN campaigns \ kept :
                           campaigns[i].status # "EXPIRED" /\ ~Old(campaigns[i])}
           IN  /\ Cardinality(kept) <= MaxCampaigns
               /\ \A i \in given, j \in kept : campaigns[i].last <= campaigns[j].last
<1> DEFINE N == Len(campaigns)
           low == IF N < MaxCampaigns THEN 0 ELSE N - MaxCampaigns
           kept == {i \in DOMAIN campaigns : campaigns'[i].status # "EXPIRED"}
           given == {i \in DOMAIN campaigns \ kept :
                       campaigns[i].status # "EXPIRED" /\ ~Old(campaigns[i])}
<1>1. /\ N \in Nat /\ DOMAIN campaigns = 1..N /\ MaxCampaigns \in Nat
      /\ \A i \in 1..N : campaigns[i] \in Campaign
  BY ElementOfSeq, LenProperties, CorrelatorAssumption DEF CorrelatorAssumption
<1>2. /\ \A i \in 1..N : Rank(i) \in 0..N - 1
      /\ \A i, j \in 1..N : Older(i, j) => Rank(i) < Rank(j)
      /\ \A i, j \in 1..N : Rank(i) = Rank(j) => i = j
  BY RankIs
<1>3. \A i \in 1..N : i \in OverCap <=> Rank(i) < N - MaxCampaigns
  BY <1>1 DEF OverCap, Rank
<1>4. \A i \in 1..N : campaigns'[i] = IF Old(campaigns[i]) \/ i \in OverCap
                                      THEN [campaigns[i] EXCEPT !.status = "EXPIRED"]
                                      ELSE campaigns[i]
  BY <1>1 DEF Prune
<1>5. \A d \in Campaign : [d EXCEPT !.status = "EXPIRED"].status = "EXPIRED"
  BY DEF Campaign
<1>6. \A i \in kept : i \in 1..N /\ i \notin OverCap /\ Rank(i) \in low..N - 1
  <2> TAKE i \in kept
  <2>1. i \in 1..N /\ i \notin OverCap
    BY <1>1, <1>4, <1>5
  <2> QED
    BY <1>1, <1>2, <1>3, <2>1
<1>7. \A i \in given : i \in 1..N /\ i \in OverCap
  BY <1>1, <1>4
<1>8. IsFiniteSet(low..N - 1) /\ Cardinality(low..N - 1) <= MaxCampaigns
  <2>1. low \in Int /\ N - 1 \in Int /\ low >= N - MaxCampaigns /\ low <= N
    BY <1>1
  <2> HIDE DEF low
  <2>2. IsFiniteSet(low..N - 1)
        /\ Cardinality(low..N - 1) = IF low > N - 1 THEN 0 ELSE N - 1 - low + 1
    BY <2>1, FS_Interval
  <2> QED
    BY <1>1, <2>1, <2>2
<1> HIDE DEF low, kept, given
<1>9. Cardinality(kept) <= MaxCampaigns
  <2> DEFINE r == [i \in kept |-> Rank(i)]
  <2>1. r \in Injection(kept, low..N - 1)
    BY <1>2, <1>6 DEF Injection, IsInjective
  <2> HIDE DEF r
  <2>2. /\ IsFiniteSet(kept) /\ Cardinality(kept) <= Cardinality(low..N - 1)
        /\ Cardinality(kept) \in Nat /\ Cardinality(low..N - 1) \in Nat
    BY <1>8, <2>1, FS_Injection, FS_CardinalityType
  <2> QED
    BY <1>1, <1>8, <2>2
<1>10. \A i \in given, j \in kept : campaigns[i].last <= campaigns[j].last
  <2> SUFFICES ASSUME NEW i \in given, NEW j \in kept, ~(campaigns[i].last <= campaigns[j].last)
               PROVE  FALSE
    OBVIOUS
  <2>1. i \in 1..N /\ j \in 1..N /\ campaigns[i].last \in Nat /\ campaigns[j].last \in Nat
    BY <1>1, <1>6, <1>7 DEF Campaign
  <2>2. Older(j, i)
    BY <2>1 DEF Older
  <2>3. Rank(j) < Rank(i) /\ Rank(i) < N - MaxCampaigns /\ ~(Rank(j) < N - MaxCampaigns)
    BY <1>2, <1>3, <1>6, <1>7, <2>1, <2>2
  <2>4. Rank(i) \in Int /\ Rank(j) \in Int
    BY <1>2, <2>1
  <2> QED
    BY <1>1, <2>3, <2>4
<1> QED
  BY <1>9, <1>10 DEF kept, given

\* What PruneKeepsNewest says of a step
PruneStep ==
    Prune =>
        LET kept == {i \in DOMAIN campaigns : campaigns'[i].status # "EXPIRED"}
            given == {i \in DOMAIN campaigns \ kept :
                        campaigns[i].status # "EXPIRED" /\ ~Old(campaigns[i])}
        IN  /\ Cardinality(kept) <= MaxCampaigns
            /\ \A i \in given, j \in kept : campaigns[i].last <= campaigns[j].last

\* No prune, at any moment of any behaviour, gives up a campaign inside its
\* window while it keeps one that was quiet longer, nor keeps too many.
THEOREM PruneIsFair == Spec => PruneKeepsNewest
<1>1. ASSUME TypeOK, [Next]_vars
      PROVE  [PruneStep]_vars
  BY <1>1, PruneKeeps DEF PruneStep, TypeOK
<1>2. Spec => [][PruneStep]_vars
  BY <1>1, CampaignsWellFormed, PTL DEF Spec
<1> QED
  BY <1>2, PTL DEF PruneKeepsNewest, PruneStep

=============================================================================
