---------------------------- MODULE ServicesProofs ----------------------------
(***************************************************************************)
(* Proofs about the parts that run beside the core: the feeds never go     *)
(* back to an older version (Feeds), verdicts are grounded (Verdicts), the *)
(* monitors report everything once (Monitors), the breach lookup keeps its *)
(* quota, nearly, and answers with what is recent (Breach), and the ticker *)
(* surfaces an entry once, for one provider and in fair shares, and        *)
(* forgets what it should (GlobalTicker); and that they keep all this side *)
(* by side (MCServices).                                                   *)
(***************************************************************************)
EXTENDS MCServices, PipelineProofs, ListsProofs

-----------------------------------------------------------------------------
(* Feeds.  NoFeedGoesBack is not inductive: what the monitor publishes     *)
(* next comes from its fetch, or from the cache file, which a command of   *)
(* another process may write.  Reach adds what keeps both recent: what is  *)
(* there after the forced removal of the file was fetched after the last   *)
(* publication, by the monitor or by a command that began after it.        *)

\* Data of the version published last, of a later one, or none
AsNew(data) == data.version = 0 \/ newest <= data.version

Writing == {"open", "fill", "lost"}

\* No version is ahead of the provider.
Behind ==
    /\ newest <= provider
    /\ cacheFile.version <= provider
    /\ \A p \in Process : loader[p].data.version <= provider

Reach ==
    /\ feedIndex.version \in {0, newest}
    /\ ~started => newest = 0
    /\ loader["monitor"].at # "idle" => ~straggler
    /\ loader["command"].at \in Writing /\ ~straggler => newest <= loader["command"].data.version
    /\ loader["monitor"].at \in Writing => newest <= loader["monitor"].data.version
    /\ loader["monitor"].at = "done" => AsNew(loader["monitor"].data)
    /\ started /\ loader["monitor"].at \notin {"idle", "unlink"} => AsNew(cacheFile)

FeedsInv == FeedsTypeOK /\ Behind /\ Reach

-----------------------------------------------------------------------------
(* Feeds: type correctness                                                 *)

LoadStage == {"idle", "unlink", "look", "read", "fetch", "open", "fill", "lost", "fallback", "done"}
Load == [at : LoadStage, data : Data]

\* The types hold initially, ...
LEMMA FeedsInitTypes == FeedsInit => FeedsTypeOK
<1> SUFFICES ASSUME FeedsInit PROVE FeedsTypeOK
  OBVIOUS
<1> USE FeedsAssumption DEF FeedsAssumption, FeedsInit, Data, NoData
<1>1. NoData \in Data /\ cacheFile \in Data
  <2>1. [version |-> 0, whole |-> TRUE] \in Data /\ [version |-> 1, whole |-> TRUE] \in Data
    OBVIOUS
  <2> QED
    BY <2>1
<1>2. provider \in 1..MaxVersion /\ newest \in 0..MaxVersion
  OBVIOUS
<1>3. At("idle") \in Load
  BY <1>1 DEF At, LoadStage, Load
<1>4. loader \in [Process -> Load]
  BY <1>3
<1>5. fresh \in BOOLEAN /\ started \in BOOLEAN /\ straggler \in BOOLEAN
  OBVIOUS
<1>6. feedIndex \in Data /\ enricherIndex \in Data
  BY <1>1
<1> HIDE DEF FeedsInit, NoData, Data
<1> QED
  BY <1>1, <1>2, <1>4, <1>5, <1>6 DEF FeedsTypeOK, LoadStage, Load

\* ... and each step keeps them.
LEMMA FeedsStepTypes == FeedsTypeOK /\ [FeedsNext]_feedsVars => FeedsTypeOK'
<1> SUFFICES ASSUME FeedsTypeOK, [FeedsNext]_feedsVars PROVE FeedsTypeOK'
  OBVIOUS
<1> USE FeedsAssumption DEF FeedsAssumption, FeedsTypeOK, Data, NoData, At, Process, MemoryKept, Step, Got
<1>1. CASE UNCHANGED feedsVars
  BY <1>1 DEF feedsVars
<1>2. ASSUME NEW p \in Process, NEW forced \in BOOLEAN, Begin(p, forced) PROVE FeedsTypeOK'
  BY <1>2 DEF Begin
<1>3. ASSUME NEW p \in Process, Unlink(p) PROVE FeedsTypeOK'
  <2>1. ASSUME NEW q \in Process, NEW s \in LoadStage PROVE [loader[q] EXCEPT !.at = s] \in Load
    BY DEF Load, LoadStage
  <2>2. loader' \in [Process -> Load]
    BY <1>3, <2>1 DEF Unlink, LoadStage, Load
  <2>3. cacheFile' \in Data
    <3>1. NoData \in Data
      OBVIOUS
    <3> HIDE DEF Data, NoData
    <3> QED
      BY <1>3, <3>1 DEF Unlink
  <2>4. fresh' \in BOOLEAN
    BY <1>3 DEF Unlink
  <2>5. UNCHANGED <<provider, feedIndex, enricherIndex, started, straggler, newest>>
    BY <1>3 DEF Unlink
  <2> HIDE DEF Data
  <2> QED
    BY <2>2, <2>3, <2>4, <2>5 DEF Load, LoadStage
<1>4. ASSUME NEW p \in Process, Look(p) PROVE FeedsTypeOK'
  BY <1>4 DEF Look
<1>5. ASSUME NEW p \in Process, ReadCache(p) PROVE FeedsTypeOK'
  BY <1>5 DEF ReadCache
<1>6. ASSUME NEW p \in Process, Fetch(p) PROVE FeedsTypeOK'
  <2>1. CASE loader' = [loader EXCEPT ![p] = [at |-> "open", data |-> [version |-> provider, whole |-> TRUE]]]
    <3>1. [at |-> "open", data |-> [version |-> provider, whole |-> TRUE]] \in Load
      BY DEF Load, LoadStage
    <3> QED
      BY <1>6, <2>1, <3>1 DEF Fetch, Load, LoadStage
  <2>2. CASE loader' = [loader EXCEPT ![p].at = "fallback"]
    BY <1>6, <2>2 DEF Fetch
  <2> QED
    BY <1>6, <2>1, <2>2 DEF Fetch
<1>7. ASSUME NEW p \in Process, Truncate(p) PROVE FeedsTypeOK'
  BY <1>7 DEF Truncate
<1>8. ASSUME NEW p \in Process, Fill(p) PROVE FeedsTypeOK'
  <2>1. At("fallback") \in Load
    BY DEF Load, LoadStage
  <2>2. [loader[p] EXCEPT !.at = "done"] \in Load
    BY DEF Load, LoadStage
  <2>3. loader' \in [Process -> Load]
    <3>1. loader \in [Process -> Load]
      BY DEF Load, LoadStage
    <3>2. \/ loader' = [loader EXCEPT ![p].at = "done"]
          \/ loader' = [loader EXCEPT ![p] = At("fallback")]
      BY <1>8 DEF Fill
    <3> HIDE DEF FeedsTypeOK, At, Data, NoData
    <3> QED
      BY <2>1, <2>2, <3>1, <3>2
  <2>4. loader[p].data \in Data
    OBVIOUS
  <2>5. cacheFile' \in Data
    <3> HIDE DEF Data
    <3> QED
      BY <1>8, <2>4 DEF Fill
  <2>6. fresh' \in BOOLEAN
    BY <1>8 DEF Fill
  <2>7. UNCHANGED <<provider, feedIndex, enricherIndex, started, straggler, newest>>
    BY <1>8 DEF Fill
  <2> HIDE DEF Data
  <2> QED
    BY <2>3, <2>5, <2>6, <2>7 DEF Load, LoadStage
<1>9. ASSUME NEW p \in Process, Fallback(p) PROVE FeedsTypeOK'
  BY <1>9 DEF Fallback
<1>10. CASE Publish
  <2>1. loader["monitor"].data \in Data
    BY DEF Process
  <2> QED
    BY <1>10, <2>1 DEF Publish
<1>11. CASE CommandEnds
  <2>1. At("idle") \in Load
    BY DEF Load, LoadStage
  <2> QED
    BY <1>11, <2>1 DEF CommandEnds, Load, LoadStage
<1>12. CASE ProviderUpdates \/ CacheAges
  <2>1. provider' \in 1..MaxVersion
    BY <1>12 DEF ProviderUpdates, CacheAges
  <2> QED
    BY <1>12, <2>1 DEF ProviderUpdates, CacheAges
<1> QED
  BY <1>1, <1>2, <1>3, <1>4, <1>5, <1>6, <1>7, <1>8, <1>9, <1>10, <1>11, <1>12 DEF FeedsNext

-----------------------------------------------------------------------------
(* Nothing goes back                                                       *)

\* Before the first load nothing is ahead of the provider, ...
LEMMA FeedsInitInv == FeedsInit => FeedsInv
<1> SUFFICES ASSUME FeedsInit PROVE Behind /\ Reach
  BY FeedsInitTypes DEF FeedsInv
<1> QED
  BY DEF FeedsInit, Behind, Reach, AsNew, Writing, NoData, At, Process

\* ... and each step of either process keeps it so.
LEMMA FeedsStepInv == FeedsInv /\ [FeedsNext]_feedsVars => FeedsInv'
<1> SUFFICES ASSUME FeedsInv, [FeedsNext]_feedsVars PROVE (Behind /\ Reach)'
  BY FeedsStepTypes DEF FeedsInv
<1> USE FeedsAssumption DEF FeedsAssumption, FeedsInv, FeedsTypeOK, Data, NoData, At, Process, MemoryKept, Step, Got,
        Behind, Reach, AsNew, Writing
<1>1. CASE UNCHANGED feedsVars
  BY <1>1 DEF feedsVars
<1>2. ASSUME NEW p \in Process, NEW forced \in BOOLEAN, Begin(p, forced) PROVE (Behind /\ Reach)'
  BY <1>2 DEF Begin
<1>3. ASSUME NEW p \in Process, Unlink(p) PROVE (Behind /\ Reach)'
  BY <1>3 DEF Unlink
<1>4. ASSUME NEW p \in Process, Look(p) PROVE (Behind /\ Reach)'
  BY <1>4 DEF Look
<1>5. ASSUME NEW p \in Process, ReadCache(p) PROVE (Behind /\ Reach)'
  BY <1>5 DEF ReadCache
<1>6. ASSUME NEW p \in Process, Fetch(p) PROVE (Behind /\ Reach)'
  BY <1>6 DEF Fetch
<1>7. ASSUME NEW p \in Process, Truncate(p) PROVE (Behind /\ Reach)'
  BY <1>7 DEF Truncate
<1>8. ASSUME NEW p \in Process, Fill(p) PROVE (Behind /\ Reach)'
  BY <1>8 DEF Fill
<1>9. ASSUME NEW p \in Process, Fallback(p) PROVE (Behind /\ Reach)'
  BY <1>9 DEF Fallback
<1>10. CASE Publish
  <2> DEFINE d == loader["monitor"].data
  <2>1. d.version \in Int /\ d.version <= provider /\ AsNew(d)
    BY <1>10 DEF Publish
  <2>2. feedIndex' = d /\ UNCHANGED <<provider, cacheFile>>
    BY <1>10 DEF Publish
  <2>3. newest' = IF d.version > newest THEN d.version ELSE newest
    BY <1>10 DEF Publish
  <2>4. loader'["monitor"].at = "idle" /\ loader'["command"] = loader["command"]
    BY <1>10 DEF Publish
  <2>5. \A p \in Process : loader'[p].data = loader[p].data
    BY <1>10 DEF Publish
  <2>6. started' = TRUE /\ straggler' = (loader["command"].at # "idle")
    BY <1>10 DEF Publish
  <2>7. Behind'
    BY <2>1, <2>2, <2>3, <2>5
  <2>8. feedIndex'.version \in {0, newest'}
    BY <2>1, <2>2, <2>3
  <2>9. loader'["command"].at \in Writing => straggler'
    BY <2>4, <2>6
  <2>10. Reach'
    BY <2>4, <2>6, <2>8, <2>9
  <2> QED
    BY <2>7, <2>10
<1>11. CASE CommandEnds
  BY <1>11 DEF CommandEnds
<1>12. CASE ProviderUpdates \/ CacheAges
  BY <1>12 DEF ProviderUpdates, CacheAges
<1> QED
  BY <1>1, <1>2, <1>3, <1>4, <1>5, <1>6, <1>7, <1>8, <1>9, <1>10, <1>11, <1>12 DEF FeedsNext

\* The index never holds a version older than one it held before, however a
\* command of another process and the background refresh take turns on the
\* cache file (load_feeds, start_background_refresh).
THEOREM FeedsMoveForward == FeedsSpec => []NoFeedGoesBack
<1>1. FeedsInv => NoFeedGoesBack
  BY DEF FeedsInv, Reach, NoFeedGoesBack
<1> QED
  BY FeedsInitInv, FeedsStepInv, <1>1, PTL DEF FeedsSpec

-----------------------------------------------------------------------------
(* Verdicts.  A refutation of a source with an export rests on what the    *)
(* source and its export have and on how the export was read, and that     *)
(* stays true while the indicator is checked (Rests); once there is a      *)
(* verdict, no check is made any more.                                     *)

Rests ==
    \A c \in checks : c.status = "refute" /\ c.source \in Exporting =>
        c.source \in DOMAIN datasets /\ MayRefute(c.source)

\* What the verdict says of the checks
Follows ==
    /\ verdict = "FALSE POSITIVE" =>
        \E c \in checks : c.status = "refute" /\ (Scope(alert.raised) # {} => c.source \in Scope(alert.raised))
    /\ CheckResult("CISA KEV", "authoritative") \in checks /\ verdict # "none" => verdict = "GENUINE/Critical"
    /\ verdict # "none" => routes = <<>>

\* A source with an export refutes an indicator it does not have, or whose
\* export of recent entries does not have it, has no rows, or is searched for
\* another hash.
LEMMA RefutationRests ==
    ASSUME NEW source \in Exporting, NEW reply, NEW exportReply, NEW of,
           Check(source, reply, exportReply, of) = "refute"
    PROVE  \/ of.entry = "no" \/ of.recent = "no" \/ exportReply = "odd"
           \/ source = "MalwareBazaar" /\ ~alert.sha256
<1> DEFINE export == Export(source, exportReply, of)
<1>1. Dataset(source) = source /\ source \notin {"AbuseIPDB", "NVD"}
  BY DEF Exporting, Dataset
<1>2. ApiCheck(source, reply, of, export) = "refute"
  <2>1. source \notin {"CISA KEV", "Feodo Tracker", "PhishTank", "Spamhaus DROP"}
    BY DEF Exporting
  <2> HIDE DEF export
  <2> QED
    BY <1>1, <2>1 DEF Check, export
<1> DEFINE other == source = "MalwareBazaar" /\ ~alert.sha256
           excused == of.recent = "no" \/ exportReply = "odd" \/ other
<1>3. export = "refute" => excused
  <2>1. CASE ~other /\ of.recent # "no" /\ exportReply = "ok"
    <3>1. export # "refute"
      BY <2>1 DEF Export
    <3> HIDE DEF export, excused
    <3> QED
      BY <3>1
  <2>2. CASE exportReply # "ok" /\ exportReply # "odd"
    <3>1. export # "refute"
      BY <2>2 DEF Export
    <3> HIDE DEF export, excused
    <3> QED
      BY <3>1
  <2>3. CASE excused
    BY <2>3
  <2> HIDE DEF export, other
  <2> QED
    BY <2>1, <2>2, <2>3
<1>4. Refutes(source) /\ source = "URLhaus" => alert.kind # "domain"
  BY DEF Refutes
<1> HIDE DEF export
<1> QED
  BY <1>2, <1>3, <1>4 DEF ApiCheck, Found, Refutes

\* Without checks there is nothing to rest on.
LEMMA VerdictsStart == VerdictsInit => Rests /\ Follows
  BY DEF VerdictsInit, Rests, Follows

\* The next check rests on what its source has.
LEMMA CheckKeepsRests == Rests /\ CheckNext => Rests'
<1> SUFFICES ASSUME Rests, CheckNext PROVE Rests'
  OBVIOUS
<1> DEFINE source == Head(routes)
           d == Dataset(source)
<1>1. PICK of \in MayHave(source), reply \in Replies, exportReply \in {"ok", "odd", "down"} :
        /\ checks' = checks \cup {CheckResult(source, Check(source, reply, exportReply, of))}
        /\ datasets' = IF d \in Exporting
                       THEN [e \in DOMAIN datasets \cup {d} |-> IF e = d THEN of ELSE datasets[e]]
                       ELSE datasets
        /\ blank' = IF exportReply = "odd" /\ d \in Exporting THEN blank \cup {d} ELSE blank
  BY DEF CheckNext
<1>2. d \in DOMAIN datasets => of = datasets[d]
  BY <1>1 DEF MayHave
<1>3. \A e \in DOMAIN datasets : e \in DOMAIN datasets' /\ datasets'[e] = datasets[e]
  BY <1>1, <1>2
<1>4. source \in Exporting => d = source
  BY DEF Exporting, Dataset
<1> SUFFICES ASSUME NEW c \in checks', c.status = "refute", c.source \in Exporting
             PROVE  c.source \in DOMAIN datasets' /\ MayRefute(c.source)'
  BY DEF Rests
<1>0. alert' = alert /\ blank \subseteq blank'
  BY <1>1 DEF CheckNext
<1>5. CASE c \in checks
  <2>1. c.source \in DOMAIN datasets /\ MayRefute(c.source)
    BY <1>5 DEF Rests
  <2> QED
    BY <1>0, <1>3, <2>1 DEF MayRefute
<1>6. CASE c = CheckResult(source, Check(source, reply, exportReply, of))
  <2>1. c.source = source /\ Check(source, reply, exportReply, of) = "refute"
    BY <1>6 DEF CheckResult
  <2>2. source \in DOMAIN datasets' /\ datasets'[source] = of
    BY <1>1, <1>4, <2>1
  <2>3. \/ of.entry = "no" \/ of.recent = "no" \/ exportReply = "odd"
        \/ source = "MalwareBazaar" /\ ~alert.sha256
    BY <2>1, RefutationRests
  <2>4. exportReply = "odd" => source \in blank'
    BY <1>1, <1>4, <2>1
  <2> QED
    BY <1>0, <2>1, <2>2, <2>3, <2>4 DEF MayRefute
<1> QED
  BY <1>1, <1>5, <1>6

\* The verdict follows from the checks.
LEMMA ClassifyFollows == Classify => Follows'
<1> SUFFICES ASSUME Classify PROVE Follows'
  OBVIOUS
<1>1. verdict' = Classification /\ routes = <<>> /\ UNCHANGED <<alert, routes, checks>>
  BY DEF Classify
<1>2. Classification = "FALSE POSITIVE" => RelevantRefutes # {}
  BY DEF Classification
<1>3. RelevantRefutes # {} =>
        \E c \in checks : c.status = "refute" /\ (Scope(alert.raised) # {} => c.source \in Scope(alert.raised))
  <2> HIDE DEF Scope
  <2> QED
    BY DEF RelevantRefutes, Saying
<1>4. CheckResult("CISA KEV", "authoritative") \in checks => "CISA KEV" \in Saying("authoritative")
  <2> DEFINE r == CheckResult("CISA KEV", "authoritative")
  <2>1. r.source = "CISA KEV" /\ r.status = "authoritative"
    BY DEF CheckResult
  <2> HIDE DEF r
  <2>2. r \in checks => r.source \in Saying("authoritative")
    BY <2>1 DEF Saying
  <2> QED
    BY <2>1, <2>2 DEF r
<1>5. "CISA KEV" \in Saying("authoritative") => Classification = "GENUINE/Critical"
  BY DEF Classification
<1> QED
  BY <1>1, <1>2, <1>3, <1>4, <1>5 DEF Follows

\* Each step keeps both.
LEMMA VerdictsStep == Rests /\ Follows /\ [VerdictsNext]_verdictsVars => Rests' /\ Follows'
<1> SUFFICES ASSUME Rests, Follows, [VerdictsNext]_verdictsVars PROVE Rests' /\ Follows'
  OBVIOUS
<1>1. CASE CheckNext
  <2>1. Follows'
    BY <1>1 DEF CheckNext, Follows
  <2> QED
    BY <1>1, <2>1, CheckKeepsRests
<1>2. CASE Classify
  <2>1. Rests'
    BY <1>2 DEF Classify, Rests, MayRefute
  <2> QED
    BY <1>2, <2>1, ClassifyFollows
<1>3. CASE UNCHANGED verdictsVars
  BY <1>3 DEF verdictsVars, Rests, MayRefute, Follows
<1> QED
  BY <1>1, <1>2, <1>3 DEF VerdictsNext

\* An alert of a known feed is called a false positive only on a refutation of
\* that feed; of a feed with an export, only if the feed or its export does not
\* have the indicator, the export came without rows, or the hash is not a
\* SHA-256.  What CISA lists is critical, whatever the replies, failures and
\* fallbacks (cross_check, classify).
THEOREM VerdictsAreGrounded == VerdictsSpec => []VerdictIsGrounded
<1>1. Rests /\ Follows => VerdictIsGrounded
  BY DEF Rests, Follows, VerdictIsGrounded
<1> QED
  BY VerdictsStart, VerdictsStep, <1>1, PTL DEF VerdictsSpec

\* A function on 1..n is a sequence.
LEMMA FunctionIsSeq ==
    ASSUME NEW T, NEW n \in Nat, NEW f \in [1..n -> T]
    PROVE  f \in Seq(T) /\ Len(f) = n
BY SeqDef, LenProperties

\* The routes of a kind are a list of sources.
LEMMA ListOfSources ==
    ASSUME NEW t, NEW n \in Nat, DOMAIN t = 1..n, t = [i \in 1..n |-> t[i]], ToSet(t) \subseteq Source
    PROVE  t \in Seq(Source)
<1>1. t \in [1..n -> Source]
  BY DEF ToSet
<1> QED
  BY <1>1, FunctionIsSeq

LEMMA RoutesAre == \A k \in Kind : Routes(k) \in Seq(Source)
<1> SUFFICES ASSUME NEW k \in Kind PROVE Routes(k) \in Seq(Source)
  OBVIOUS
<1>1. ToSet(Routes(k)) \subseteq Source
  BY DEF Source
<1>2. \E n \in {0, 1, 2, 4, 7} : DOMAIN Routes(k) = 1..n /\ Routes(k) = [i \in 1..n |-> Routes(k)[i]]
  <2>1. CASE k = "ip"
    <3>1. Routes(k) = IpRoutes
      BY <2>1 DEF Routes
    <3>2. DOMAIN IpRoutes = 1..7 /\ IpRoutes = [i \in 1..7 |-> IpRoutes[i]]
      BY DEF IpRoutes
    <3> QED
      BY <3>1, <3>2
  <2>2. CASE k = "domain"
    <3>1. Routes(k) = DomainRoutes
      BY <2>2 DEF Routes
    <3>2. DOMAIN DomainRoutes = 1..4 /\ DomainRoutes = [i \in 1..4 |-> DomainRoutes[i]]
      BY DEF DomainRoutes
    <3> QED
      BY <3>1, <3>2
  <2>3. CASE k = "url"
    <3>1. Routes(k) = UrlRoutes
      BY <2>3 DEF Routes
    <3>2. DOMAIN UrlRoutes = 1..4 /\ UrlRoutes = [i \in 1..4 |-> UrlRoutes[i]]
      BY DEF UrlRoutes
    <3> QED
      BY <3>1, <3>2
  <2>4. CASE k = "hash"
    <3> DEFINE t == <<"MalwareBazaar", "abuse.ch Hunting">>
    <3>1. Routes(k) = t
      BY <2>4, Zenon DEF Routes
    <3>2. DOMAIN t = 1..2 /\ t = [i \in 1..2 |-> t[i]]
      OBVIOUS
    <3> HIDE DEF t
    <3> QED
      BY <3>1, <3>2
  <2>5. CASE k = "cidr"
    <3> DEFINE t == <<"Spamhaus DROP">>
    <3>1. Routes(k) = t
      BY <2>5, Zenon DEF Routes
    <3>2. DOMAIN t = 1..1 /\ t = [i \in 1..1 |-> t[i]]
      OBVIOUS
    <3> HIDE DEF t
    <3> QED
      BY <3>1, <3>2
  <2>6. CASE k = "cve"
    <3> DEFINE t == <<"CISA KEV", "NVD">>
    <3>1. Routes(k) = t
      BY <2>6, Zenon DEF Routes
    <3>2. DOMAIN t = 1..2 /\ t = [i \in 1..2 |-> t[i]]
      OBVIOUS
    <3> HIDE DEF t
    <3> QED
      BY <3>1, <3>2
  <2>7. CASE k = "unknown"
    <3> DEFINE t == <<>>
    <3>1. Routes(k) = t
      BY <2>7, Zenon DEF Routes
    <3>2. DOMAIN t = 1..0 /\ t = [i \in 1..0 |-> t[i]]
      OBVIOUS
    <3> HIDE DEF t
    <3> QED
      BY <3>1, <3>2
  <2> QED
    BY <2>1, <2>2, <2>3, <2>4, <2>5, <2>6, <2>7 DEF Kind
<1> QED
  BY <1>1, <1>2, ListOfSources

\* Whatever is answered, a check says one of six things.
ResultKind == {"authoritative", "corroborating", "refute", "miss", "error", "skipped"}

LEMMA ExportingAre ==
    ASSUME NEW source
    PROVE  /\ source = "AbuseIPDB" \/ source = "NVD" => Dataset(source) \notin Exporting
           /\ source \in {"CISA KEV", "Feodo Tracker", "PhishTank", "Spamhaus DROP"} => Dataset(source) \notin Exporting
BY DEF Dataset, Exporting

\* Which check a source gets
LEMMA CheckIs ==
    ASSUME NEW source, NEW reply, NEW exportReply, NEW of, NEW c, c = Check(source, reply, exportReply, of)
    PROVE  \/ c = AbuseIpdbCheck(reply, of.entry) \/ c = NvdCheck(reply, of.entry) \/ c = KevCheck(reply, of.entry)
           \/ c = FeedCheck(source, reply, of.entry) \/ c = ListCheck(source, reply, of.entry)
           \/ c = ApiCheck(source, reply, of, Export(source, exportReply, of))
<1>1. CASE source = "AbuseIPDB"
  <2>1. Check(source, reply, exportReply, of) = AbuseIpdbCheck(reply, of.entry)
    BY <1>1, ExportingAre DEF Check
  <2> QED
    BY <2>1
<1>2. CASE source = "NVD"
  <2>1. Check(source, reply, exportReply, of) = NvdCheck(reply, of.entry)
    BY <1>2, ExportingAre DEF Check
  <2> QED
    BY <2>1
<1>3. CASE source # "AbuseIPDB" /\ source # "NVD" /\ Dataset(source) \in Exporting
  <2>1. Check(source, reply, exportReply, of) = ApiCheck(source, reply, of, Export(source, exportReply, of))
    BY <1>3, ExportingAre DEF Check
  <2> QED
    BY <2>1
<1>4. CASE source # "AbuseIPDB" /\ source # "NVD" /\ Dataset(source) \notin Exporting
  <2>1. \/ Check(source, reply, exportReply, of) = KevCheck(reply, of.entry)
        \/ Check(source, reply, exportReply, of) = FeedCheck(source, reply, of.entry)
        \/ Check(source, reply, exportReply, of) = ListCheck(source, reply, of.entry)
    BY <1>4, ExportingAre DEF Check
  <2> QED
    BY <2>1
<1> QED
  BY <1>1, <1>2, <1>3, <1>4

LEMMA ChecksAre ==
    ASSUME NEW source, NEW reply \in Replies, NEW exportReply, NEW of,
           of.entry \in {"active", "known", "faint", "no"}
    PROVE  Check(source, reply, exportReply, of) \in ResultKind
<1> DEFINE e == of.entry
           export == Export(source, exportReply, of)
<1>1. export \in ResultKind
  BY DEF Export, ResultKind
<1>2. /\ FeedCheck(source, reply, e) \in ResultKind /\ ListCheck(source, reply, e) \in ResultKind
      /\ KevCheck(reply, e) \in ResultKind /\ NvdCheck(reply, e) \in ResultKind
  BY DEF FeedCheck, ListCheck, KevCheck, NvdCheck, ResultKind, Replies
<1>3. e \in {"active", "known", "faint", "no"}
  OBVIOUS
<1>4. AbuseIpdbCheck(reply, e) \in ResultKind
  <2> HIDE DEF e
  <2> QED
    BY <1>3 DEF AbuseIpdbCheck, ResultKind, Replies
<1>5. ApiCheck(source, reply, of, export) \in ResultKind
  <2> HIDE DEF export
  <2> QED
    BY <1>1 DEF ApiCheck, ResultKind
<1> QED
  BY <1>1, <1>2, <1>4, <1>5, CheckIs

\* What a source has on an indicator
LEMMA EntriesAre ==
    ASSUME NEW d
    PROVE  Entries(d) \subseteq {"active", "known", "faint", "no"} /\ (d # "AbuseIPDB" => "faint" \notin Entries(d))
<1>1. Entries(d) \subseteq {"active", "known", "faint", "no"}
  BY DEF Entries
<1>2. d # "AbuseIPDB" => "faint" \notin Entries(d)
  BY DEF Entries
<1> QED
  BY <1>1, <1>2

\* The routes that are left are a list of sources.
Has == [entry : {"active", "known", "no"}, recent : {"active", "known", "no"}]
Said == [source : Source, status : ResultKind]
Verdict5 == {"GENUINE/Critical", "GENUINE/High", "GENUINE/Medium", "FALSE POSITIVE", "UNVERIFIED"}
VerdictsTyped ==
    /\ alert \in Alerts /\ keys \in KeySets
    /\ \A d \in DOMAIN datasets : d \in Exporting /\ datasets[d] \in Has
    /\ blank \subseteq DOMAIN datasets
    /\ routes \in Seq(Source) /\ ToSet(routes) \subseteq Source
    /\ checks \subseteq Said
    /\ verdict \in {"none"} \cup Verdict5

LEMMA VerdictsStartTyped == VerdictsInit => VerdictsTyped
<1> SUFFICES ASSUME VerdictsInit PROVE VerdictsTyped
  OBVIOUS
<1>1. alert \in Alerts /\ alert.kind \in Kind /\ keys \in KeySets /\ verdict = "none" /\ checks = {}
  BY VerdictsAssumption DEF VerdictsInit, VerdictsAssumption
<1>2. routes \in Seq(Source)
  BY <1>1, RoutesAre DEF VerdictsInit
<1>3. ToSet(routes) \subseteq Source
  BY <1>2, LenProperties, ElementOfSeq DEF ToSet
<1>4. DOMAIN datasets = {} /\ blank = {}
  BY DEF VerdictsInit
<1> QED
  BY <1>1, <1>2, <1>3, <1>4 DEF VerdictsTyped

LEMMA CheckKeepsTyped == VerdictsTyped /\ CheckNext => VerdictsTyped'
<1> SUFFICES ASSUME VerdictsTyped, CheckNext PROVE VerdictsTyped'
  OBVIOUS
<1> DEFINE source == Head(routes)
           d == Dataset(source)
<1>1. PICK of \in MayHave(source), reply \in Replies, exportReply \in {"ok", "odd", "down"} :
        /\ checks' = checks \cup {CheckResult(source, Check(source, reply, exportReply, of))}
        /\ datasets' = IF d \in Exporting
                       THEN [e \in DOMAIN datasets \cup {d} |-> IF e = d THEN of ELSE datasets[e]]
                       ELSE datasets
        /\ blank' = IF exportReply = "odd" /\ d \in Exporting THEN blank \cup {d} ELSE blank
  BY DEF CheckNext
<1>2. routes # <<>> /\ routes' = Tail(routes) /\ UNCHANGED <<alert, keys, verdict>>
  BY DEF CheckNext
<1>3. source \in Source /\ Tail(routes) \in Seq(Source)
  BY <1>2, HeadTailProperties DEF VerdictsTyped
<1>4. ToSet(routes') \subseteq Source
  BY <1>2, <1>3, LenProperties, ElementOfSeq DEF ToSet
<1> HIDE DEF source, d
<1>5. /\ of.entry \in {"active", "known", "faint", "no"}
      /\ d \in Exporting => of \in Has
  <2>1. CASE d \in DOMAIN datasets
    <3>1. of = datasets[d] /\ of \in Has
      BY <1>1, <2>1 DEF MayHave, d, VerdictsTyped
    <3> QED
      BY <3>1 DEF Has
  <2>2. CASE d \notin DOMAIN datasets
    <3>1. of \in [entry : Entries(d), recent : IF d \in Exporting THEN Entries(d) ELSE {"no"}]
      BY <1>1, <2>2 DEF MayHave, d
    <3>2. Entries(d) \subseteq {"active", "known", "faint", "no"} /\ (d # "AbuseIPDB" => "faint" \notin Entries(d))
      BY EntriesAre
    <3>3. d \in Exporting => d # "AbuseIPDB"
      BY DEF Exporting
    <3> QED
      BY <3>1, <3>2, <3>3 DEF Has
  <2> QED
    BY <2>1, <2>2
<1>6. CheckResult(source, Check(source, reply, exportReply, of)) \in Said
  BY <1>3, <1>5, ChecksAre DEF CheckResult, Said
<1>7. checks' \subseteq Said
  BY <1>1, <1>6 DEF VerdictsTyped
<1>8. /\ \A e \in DOMAIN datasets' : e \in Exporting /\ datasets'[e] \in Has
      /\ blank' \subseteq DOMAIN datasets'
  BY <1>1, <1>5 DEF VerdictsTyped
<1> QED
  BY <1>2, <1>3, <1>4, <1>7, <1>8 DEF VerdictsTyped

\* Every alert ends with one of five verdicts, from checks of the sources that
\* there are routes for, each of which says one of six things (route_sources,
\* cross_check, classify).
THEOREM VerdictsAreTyped == VerdictsSpec => []VerdictsTypeOK
<1>1. VerdictsTyped /\ [VerdictsNext]_verdictsVars => VerdictsTyped'
  <2> SUFFICES ASSUME VerdictsTyped, [VerdictsNext]_verdictsVars PROVE VerdictsTyped'
    OBVIOUS
  <2>1. CASE Classify
    <3>1. Classification \in Verdict5
      BY DEF Classification, Verdict5
    <3> QED
      BY <2>1, <3>1 DEF Classify, VerdictsTyped
  <2>2. CASE UNCHANGED verdictsVars
    BY <2>2 DEF verdictsVars, VerdictsTyped
  <2> QED
    BY <2>1, <2>2, CheckKeepsTyped DEF VerdictsNext
<1>2. VerdictsTyped => VerdictsTypeOK
  BY Zenon DEF VerdictsTyped, VerdictsTypeOK, Has, Said, ResultKind, Verdict5
<1> QED
  BY VerdictsStartTyped, <1>1, <1>2, PTL DEF VerdictsSpec

-----------------------------------------------------------------------------
(* Monitors.  Nothing is lost or repeated because of what the loops keep   *)
(* between their steps.  Files: the baseline is what the last job spoke    *)
(* of, and a pass leaves behind it no difference of its kind (Scanned).    *)
(* Processes: a process that was reported holds its id, in the memory of   *)
(* the monitor if not on the host (Watched).  Lines: what is kept follows  *)
(* on what was handed over (Buffered), and a piece belongs to the line of  *)
(* the one before it or to the next (Pieced).                              *)

Scanned ==
    /\ told = baseline /\ ~echoed
    /\ scan # "idle" => monitor = "file" /\ left \subseteq File
    /\ scan = "compare" => \A f \in File \ left : current[f] \in {0, baseline[f]}
    /\ scan = "removed" => /\ \A f \in File : current[f] \in {0, baseline[f]}
                           /\ \A f \in File \ left : baseline[f] = 0 \/ current[f] # 0
    /\ complete => scan = "idle" /\ baseline = current

Watched ==
    /\ monitor = "process" => left \subseteq Pid
    /\ running \in [Pid -> 0..changes]
    /\ \A p, q \in Pid : running[p] = running[q] /\ running[p] # 0 => p = q
    /\ reported \subseteq 1..changes /\ seenPids \subseteq Pid /\ refused \in Nat
    /\ \A p \in Pid : running[p] \in reported => p \in seenPids
    /\ IsFiniteSet(reported) /\ IsFiniteSet(seenPids)
    /\ Cardinality(seenPids) = Cardinality(reported) + refused

\* The capture ended with a batch that could not be submitted.
Cut == monitor = "network" /\ reader = "ended"

Buffered ==
    /\ changes \in 0..MaxChange /\ handed \in Nat
    /\ buffer \in Seq(Nat) /\ lastBatch \in Seq(Nat)
    /\ Lines => \A i \in DOMAIN lastBatch : lastBatch[i] = handed - Len(lastBatch) + i
    /\ Lines /\ ~Cut => /\ \A i \in DOMAIN buffer : buffer[i] = handed + i
                        /\ handed + Len(buffer) = changes

Pieced ==
    /\ line \in Nat /\ pieces \in Seq(Nat)
    /\ partial => line \in split
    /\ monitor = "log" => Len(pieces) = changes
    /\ \A k \in DOMAIN pieces : pieces[k] \in 1..line
    /\ \A j, k \in DOMAIN pieces :
          j < k => pieces[j] < pieces[k] \/ (pieces[j] = pieces[k] /\ pieces[j] \in split)
    /\ \A n \in (1..line) \ split : \E k \in DOMAIN pieces : pieces[k] = n

MonitorsInv == MonitorsTypeOK /\ Scanned /\ Watched /\ Buffered /\ Pieced

\* The loops start with the baseline of what is there, and nothing kept.
LEMMA MonitorsStart == MonitorsInit => MonitorsInv
<1> SUFFICES ASSUME MonitorsInit PROVE MonitorsInv
  OBVIOUS
<1>1. {MaxContent, MaxChange, BatchSize, FlaggedMin, FlaggedMax} \subseteq Nat \ {0}
  BY MonitorsAssumption DEF MonitorsAssumption
<1>2. /\ content \in [File -> 0..1] /\ current = content /\ baseline = content /\ told = content
      /\ echoed = FALSE /\ changes = 0 /\ scan = "idle" /\ left = {}
      /\ running = [p \in Pid |-> 0] /\ seenPids = {} /\ reported = {} /\ refused = 0
      /\ buffer = <<>> /\ lastBatch = <<>> /\ handed = 0 /\ reader = "on"
      /\ line = 0 /\ partial = FALSE /\ pieces = <<>> /\ split = {}
  BY DEF MonitorsInit
<1>3. content \in [File -> 0..MaxContent]
  BY <1>1, <1>2
<1>4. Len(<<>>) = 0 /\ DOMAIN <<>> = {} /\ <<>> \in Seq(Nat)
  BY EmptySeq
<1>5. IsFiniteSet({}) /\ Cardinality({}) = 0
  BY FS_EmptySet
<1>6. running \in [Pid -> 0..0] /\ \A p \in Pid : running[p] = 0
  BY <1>2
<1>7. MonitorsTypeOK
  BY <1>1, <1>2, <1>3, <1>4, <1>6 DEF MonitorsTypeOK
<1>8. Scanned
  BY <1>2 DEF Scanned
<1>9. Watched
  BY <1>2, <1>5, <1>6 DEF Watched
<1>10. Buffered
  BY <1>1, <1>2, <1>4 DEF Buffered
<1>11. Pieced
  BY <1>2, <1>4 DEF Pieced
<1> QED
  BY <1>7, <1>8, <1>9, <1>10, <1>11 DEF MonitorsInv

\* The file monitor leaves the others' state alone.
LEMMA FileMonitorSteps ==
    ASSUME MonitorsInv, NEW f \in File,
           (\E v \in 0..MaxContent : FileChanges(f, v)) \/ Digest(f) \/ Compare(f) \/ Removed(f)
    PROVE  MonitorsInv'
<1> USE DEF MonitorsInv
<1>0. {MaxContent, MaxChange, BatchSize, FlaggedMin, FlaggedMax} \subseteq Nat \ {0}
  BY MonitorsAssumption DEF MonitorsAssumption
<1>1. CASE \E v \in 0..MaxContent : FileChanges(f, v)
  <2>1. MonitorsTypeOK'
    BY <1>0, <1>1
    DEF FileChanges, Changing, MonitorsTypeOK, Buffered, bufferVars, batchVars, lineVars,
        processVars, Lines
  <2>2. Scanned'
    BY <1>1 DEF FileChanges, Scanned
  <2>3. Watched'
    BY <1>1 DEF FileChanges, Changing, Watched, Buffered, Pieced, Cut, processVars
  <2>4. Buffered' /\ Pieced'
    BY <1>0, <1>1
    DEF FileChanges, Changing, Buffered, Pieced, Cut, bufferVars, batchVars, lineVars, Lines
  <2> QED
    BY <2>1, <2>2, <2>3, <2>4
<1>2. CASE Digest(f)
  <2>1. MonitorsTypeOK' /\ Scanned'
    BY <1>2 DEF Digest, MonitorsTypeOK, Scanned, processVars, bufferVars, batchVars, lineVars
  <2>2. Watched' /\ Buffered' /\ Pieced'
    BY <1>2
    DEF Digest, Watched, Buffered, Pieced, Cut, processVars, bufferVars, batchVars, lineVars, Lines
  <2> QED
    BY <2>1, <2>2
<1>3. CASE Compare(f)
  <2>1. MonitorsTypeOK'
    BY <1>3 DEF Compare, Note, MonitorsTypeOK, processVars, bufferVars, batchVars, lineVars
  <2>2. Scanned'
    BY <1>3, ZenonT(40) DEF Compare, Note, Tell, Scanned, MonitorsTypeOK
  <2>3. Watched' /\ Buffered' /\ Pieced'
    BY <1>3
    DEF Compare, Watched, Buffered, Pieced, Cut, processVars, bufferVars, batchVars, lineVars, Lines
  <2> QED
    BY <2>1, <2>2, <2>3
<1>4. CASE Removed(f)
  <2>1. MonitorsTypeOK'
    BY <1>4 DEF Removed, Note, MonitorsTypeOK, processVars, bufferVars, batchVars, lineVars
  <2>2. Scanned'
    BY <1>4 DEF Removed, Note, Tell, Scanned, MonitorsTypeOK
  <2>3. Watched' /\ Buffered' /\ Pieced'
    BY <1>4
    DEF Removed, Watched, Buffered, Pieced, Cut, processVars, bufferVars, batchVars, lineVars, Lines
  <2> QED
    BY <2>1, <2>2, <2>3
<1> QED
  BY <1>1, <1>2, <1>3, <1>4

\* A pass begins, or gives way to the next.
LEMMA PassSteps == MonitorsInv /\ (ScanBegins \/ NextPass \/ ScanAborts \/ ProcessScan) => MonitorsInv'
<1> SUFFICES ASSUME MonitorsInv, ScanBegins \/ NextPass \/ ScanAborts \/ ProcessScan PROVE MonitorsInv'
  OBVIOUS
<1> USE DEF MonitorsInv
<1>0. {MaxContent, MaxChange, BatchSize, FlaggedMin, FlaggedMax} \subseteq Nat \ {0}
  BY MonitorsAssumption DEF MonitorsAssumption
<1>1. CASE ScanBegins
  <2>1. MonitorsTypeOK' /\ Scanned'
    BY <1>0, <1>1
    DEF ScanBegins, MonitorsTypeOK, Scanned, processVars, bufferVars, batchVars, lineVars
  <2>2. Watched' /\ Buffered' /\ Pieced'
    BY <1>1
    DEF ScanBegins, Watched, Buffered, Pieced, Cut, processVars, bufferVars, batchVars, lineVars,
        Lines
  <2> QED
    BY <2>1, <2>2
<1>2. CASE NextPass
  <2>1. /\ monitor = "file" /\ left = {} /\ UNCHANGED <<monitor, changes>>
        /\ UNCHANGED <<content, current, baseline, told, echoed>>
        /\ UNCHANGED processVars /\ UNCHANGED bufferVars
        /\ \/ scan = "digest" /\ scan' = "compare" /\ left' = File /\ UNCHANGED complete
           \/ scan = "compare" /\ scan' = "removed" /\ left' = File /\ UNCHANGED complete
           \/ scan = "removed" /\ scan' = "idle" /\ left' = {} /\ complete' = TRUE
    BY <1>2 DEF NextPass
  <2>2. MonitorsTypeOK'
    BY <2>1 DEF MonitorsTypeOK, processVars, bufferVars, batchVars, lineVars
  <2>3. Scanned'
    <3>1. \A f \in File : current[f] \in 0..MaxContent /\ baseline[f] \in 0..MaxContent
      BY DEF MonitorsTypeOK
    <3>2. (\A f \in File : current[f] = baseline[f]) => baseline = current
      BY DEF MonitorsTypeOK
    <3>3. CASE scan = "digest"
      BY <2>1, <3>3 DEF Scanned
    <3>4. CASE scan = "compare"
      BY <2>1, <3>4 DEF Scanned
    <3>5. CASE scan = "removed"
      <4>1. \A f \in File : current[f] = baseline[f]
        BY <2>1, <3>5 DEF Scanned
      <4> QED
        BY <2>1, <3>2, <3>5, <4>1 DEF Scanned
    <3> QED
      BY <2>1, <3>3, <3>4, <3>5
  <2>4. Watched' /\ Buffered' /\ Pieced'
    BY <2>1 DEF Watched, Buffered, Pieced, Cut, processVars, bufferVars, batchVars, lineVars, Lines
  <2> QED
    BY <2>2, <2>3, <2>4
<1>3. CASE ProcessScan
  <2>1. MonitorsTypeOK' /\ Scanned'
    BY <1>3
    DEF ProcessScan, MonitorsTypeOK, Scanned, fileVars, processVars, bufferVars, batchVars, lineVars
  <2>2. Watched' /\ Buffered' /\ Pieced'
    BY <1>3
    DEF ProcessScan, Watched, Buffered, Pieced, Cut, fileVars, processVars, bufferVars, batchVars,
        lineVars, Lines
  <2> QED
    BY <2>1, <2>2
<1>4. CASE ScanAborts
  <2>1. MonitorsTypeOK' /\ Scanned'
    BY <1>4
    DEF ScanAborts, MonitorsTypeOK, Scanned, fileVars, processVars, bufferVars, batchVars, lineVars
  <2>2. Watched' /\ Buffered' /\ Pieced'
    BY <1>4
    DEF ScanAborts, Watched, Buffered, Pieced, Cut, processVars, bufferVars, batchVars, lineVars,
        Lines
  <2> QED
    BY <2>1, <2>2
<1> QED
  BY <1>1, <1>2, <1>3, <1>4

\* A process gets a number of its own, and is reported under an id that is
\* given up with it.
LEMMA ProcessMonitorSteps ==
    ASSUME MonitorsInv, NEW p \in Pid, ProcessChanges(p) \/ Visit(p) \/ VisitRefused(p)
    PROVE  MonitorsInv'
<1> USE DEF MonitorsInv
<1>1. CASE ProcessChanges(p)
  <2>1. /\ monitor = "process" /\ changes < MaxChange /\ changes' = changes + 1
        /\ running' = [running EXCEPT ![p] = IF running[p] = 0 THEN changes + 1 ELSE 0]
        /\ UNCHANGED <<monitor, scan, left, seenPids, reported, refused>>
        /\ UNCHANGED fileVars /\ UNCHANGED bufferVars
    BY <1>1 DEF ProcessChanges, Changing
  <2>2. changes \in Nat /\ MaxChange \in Nat /\ running \in [Pid -> 0..changes]
    BY MonitorsAssumption DEF MonitorsAssumption, Buffered, Watched
  <2>3. \A q \in Pid : running'[q] = (IF q = p THEN IF running[p] = 0 THEN changes + 1 ELSE 0 ELSE running[q])
    BY <2>1, <2>2
  <2>4. running' \in [Pid -> 0..changes'] /\ running' \in [Pid -> 0..MaxChange]
    BY <2>1, <2>2
  <2>5. \A q \in Pid : running[q] # changes + 1
    BY <2>2
  <2>6. changes + 1 \notin reported /\ 0 \notin reported /\ reported \subseteq 1..changes'
    BY <2>1, <2>2 DEF Watched
  <2>7. MonitorsTypeOK'
    BY <2>1, <2>4 DEF MonitorsTypeOK, fileVars, bufferVars, batchVars, lineVars
  <2>8. Scanned'
    BY <2>1 DEF Scanned, fileVars
  <2>9. \A q, r \in Pid : running'[q] = running'[r] /\ running'[q] # 0 => q = r
    BY <2>3, <2>5 DEF Watched
  <2>10. \A q \in Pid : running'[q] \in reported' => q \in seenPids'
    BY <2>1, <2>3, <2>6 DEF Watched
  <2>11. Watched'
    BY <2>1, <2>4, <2>6, <2>9, <2>10 DEF Watched
  <2>12. Buffered' /\ Pieced'
    <3>1. monitor # "log" /\ ~Lines
      BY <1>1 DEF ProcessChanges, Lines
    <3> QED
      BY <2>1, <2>2, <3>1 DEF Buffered, Pieced, Lines, bufferVars, batchVars, lineVars
  <2> QED
    BY <2>7, <2>8, <2>11, <2>12
<1>2. CASE Visit(p)
  <2>1. MonitorsTypeOK' /\ Scanned' /\ Buffered' /\ Pieced'
    BY <1>2
    DEF Visit, MonitorsTypeOK, Scanned, Buffered, Pieced, Cut, Lines, fileVars, bufferVars,
        batchVars, lineVars
  <2>2. CASE running[p] # 0 /\ p \notin seenPids
    <3>1. /\ seenPids' = seenPids \cup {p} /\ reported' = reported \cup {running[p]}
          /\ left' = left \ {p} /\ UNCHANGED <<monitor, changes, running, refused>>
      BY <1>2, <2>2 DEF Visit
    <3>2. running[p] \notin reported /\ running[p] \in 1..changes
      BY <2>2 DEF Watched, Buffered
    <3>3. /\ IsFiniteSet(reported') /\ Cardinality(reported') = Cardinality(reported) + 1
          /\ IsFiniteSet(seenPids') /\ Cardinality(seenPids') = Cardinality(seenPids) + 1
      BY <2>2, <3>1, <3>2, FS_AddElement DEF Watched
    <3>4. left' \subseteq left /\ reported' \subseteq 1..changes' /\ seenPids' \subseteq Pid
      BY <3>1, <3>2 DEF Watched
    <3>5. \A q \in Pid : running'[q] \in reported' => q \in seenPids'
      BY <2>2, <3>1 DEF Watched
    <3>6. Cardinality(seenPids') = Cardinality(reported') + refused'
      <4>1. Cardinality(reported) \in Nat /\ refused \in Nat
        BY FS_CardinalityType DEF Watched
      <4> QED
        BY <3>1, <3>3, <4>1 DEF Watched
    <3> QED
      BY <2>1, <3>1, <3>3, <3>4, <3>5, <3>6 DEF Watched
  <2>3. CASE ~(running[p] # 0 /\ p \notin seenPids)
    BY <1>2, <2>1, <2>3 DEF Visit, Watched
  <2> QED
    BY <2>2, <2>3
<1>3. CASE VisitRefused(p)
  <2>1. MonitorsTypeOK' /\ Scanned' /\ Buffered' /\ Pieced'
    BY <1>3
    DEF VisitRefused, MonitorsTypeOK, Scanned, Buffered, Pieced, Cut, Lines, fileVars, bufferVars,
        batchVars, lineVars
  <2>2. /\ seenPids' = seenPids \cup {p} /\ refused' = refused + 1 /\ p \notin seenPids
        /\ left' = {} /\ UNCHANGED <<monitor, changes, running, reported>>
    BY <1>3 DEF VisitRefused
  <2>3. IsFiniteSet(seenPids') /\ Cardinality(seenPids') = Cardinality(seenPids) + 1
    BY <2>2, FS_AddElement DEF Watched
  <2>4. Cardinality(reported) \in Nat /\ refused \in Nat
    BY FS_CardinalityType DEF Watched
  <2>5. Cardinality(seenPids') = Cardinality(reported') + refused' /\ refused' \in Nat
    BY <2>2, <2>3, <2>4 DEF Watched
  <2>6. Watched'
    BY <2>2, <2>3, <2>5 DEF Watched
  <2> QED
    BY <2>1, <2>6
<1> QED
  BY <1>1, <1>2, <1>3

\* The first n of the lines kept are handed over: both parts go on as before.
LEMMA Handed ==
    ASSUME NEW h \in Nat, NEW s \in Seq(Nat), \A i \in DOMAIN s : s[i] = h + i,
           NEW n \in 1..Len(s)
    PROVE  /\ SubSeq(s, 1, n) \in Seq(Nat) /\ SubSeq(s, n + 1, Len(s)) \in Seq(Nat)
           /\ Len(SubSeq(s, 1, n)) = n /\ Len(SubSeq(s, n + 1, Len(s))) = Len(s) - n
           /\ \A i \in DOMAIN SubSeq(s, 1, n) : SubSeq(s, 1, n)[i] = s[n] - Len(SubSeq(s, 1, n)) + i
           /\ \A i \in DOMAIN SubSeq(s, n + 1, Len(s)) : SubSeq(s, n + 1, Len(s))[i] = s[n] + i
           /\ s[n] \in Nat /\ s[n] + Len(SubSeq(s, n + 1, Len(s))) = h + Len(s)
<1>1. Len(s) \in Nat /\ DOMAIN s = 1..Len(s) /\ n \in DOMAIN s /\ s[n] = h + n
  BY LenProperties
<1>2. /\ SubSeq(s, 1, n) \in Seq(Nat) /\ Len(SubSeq(s, 1, n)) = n
      /\ \A i \in 1..n : SubSeq(s, 1, n)[i] = s[i]
  <2>1. 1 \in Int /\ n \in Int /\ n >= 1 /\ \A i \in 1..n : s[i] \in Nat
    BY <1>1
  <2>2. /\ SubSeq(s, 1, n) \in Seq(Nat)
        /\ Len(SubSeq(s, 1, n)) = IF 1 <= n THEN n - 1 + 1 ELSE 0
        /\ \A i \in 1..n - 1 + 1 : SubSeq(s, 1, n)[i] = s[1 + i - 1]
    BY <2>1, SubSeqProperties, SMTT(30)
  <2>3. n - 1 + 1 = n /\ \A i \in 1..n : 1 + i - 1 = i
    BY SMTT(30)
  <2> QED
    BY <2>1, <2>2, <2>3
<1>3. /\ SubSeq(s, n + 1, Len(s)) \in Seq(Nat)
      /\ Len(SubSeq(s, n + 1, Len(s))) = Len(s) - n
      /\ \A i \in 1..Len(s) - n : SubSeq(s, n + 1, Len(s))[i] = s[n + i]
  <2>1. n + 1 \in Int /\ Len(s) \in Int /\ \A i \in n + 1..Len(s) : s[i] \in Nat
    BY <1>1
  <2>2. /\ SubSeq(s, n + 1, Len(s)) \in Seq(Nat)
        /\ Len(SubSeq(s, n + 1, Len(s))) = IF n + 1 <= Len(s) THEN Len(s) - (n + 1) + 1 ELSE 0
        /\ \A i \in 1..Len(s) - (n + 1) + 1 : SubSeq(s, n + 1, Len(s))[i] = s[n + 1 + i - 1]
    BY <2>1, SubSeqProperties
  <2>3. /\ n + 1 <= Len(s) \/ Len(s) - n = 0
        /\ Len(s) - (n + 1) + 1 = Len(s) - n
        /\ \A i \in 1..Len(s) - n : n + 1 + i - 1 = n + i
    <3>1. n \in Nat /\ Len(s) \in Nat /\ n <= Len(s)
      BY <1>1
    <3> QED
      BY <3>1
  <2> QED
    BY <2>2, <2>3
<1>4. DOMAIN SubSeq(s, 1, n) = 1..n /\ DOMAIN SubSeq(s, n + 1, Len(s)) = 1..Len(s) - n
  BY <1>2, <1>3, LenProperties
<1>5. \A i \in 1..n : s[i] = s[n] - n + i
  BY <1>1
<1>6. \A i \in 1..Len(s) - n : s[n + i] = s[n] + i
  BY <1>1
<1>7. \A i \in DOMAIN SubSeq(s, 1, n) : SubSeq(s, 1, n)[i] = s[n] - Len(SubSeq(s, 1, n)) + i
  BY <1>2, <1>4, <1>5
<1>8. \A i \in DOMAIN SubSeq(s, n + 1, Len(s)) : SubSeq(s, n + 1, Len(s))[i] = s[n] + i
  BY <1>3, <1>4, <1>6
<1>9. s[n] \in Nat /\ s[n] + Len(SubSeq(s, n + 1, Len(s))) = h + Len(s)
  BY <1>1, <1>3
<1> QED
  BY <1>2, <1>3, <1>7, <1>8, <1>9

\* What is handed over and what is kept stay in order, after n lines of s.
LEMMA HandOver ==
    ASSUME MonitorsInv, NEW h \in Nat, NEW s \in Seq(Nat), \A i \in DOMAIN s : s[i] = h + i,
           NEW n \in 1..Len(s), Lines,
           changes' \in 0..MaxChange, h + Len(s) = changes', UNCHANGED <<monitor, reader>>,
           lastBatch' = SubSeq(s, 1, n), handed' = s[n], buffer' = SubSeq(s, n + 1, Len(s))
    PROVE  Buffered' /\ Len(buffer') = Len(s) - n
<1>1. /\ lastBatch' \in Seq(Nat) /\ buffer' \in Seq(Nat)
      /\ Len(lastBatch') = n /\ Len(buffer') = Len(s) - n
      /\ \A i \in DOMAIN lastBatch' : lastBatch'[i] = handed' - Len(lastBatch') + i
      /\ \A i \in DOMAIN buffer' : buffer'[i] = handed' + i
      /\ handed' \in Nat /\ handed' + Len(buffer') = changes'
  <2> DEFINE a == SubSeq(s, 1, n)
             b == SubSeq(s, n + 1, Len(s))
  <2>1. /\ a \in Seq(Nat) /\ b \in Seq(Nat) /\ Len(a) = n /\ Len(b) = Len(s) - n
        /\ \A i \in DOMAIN a : a[i] = s[n] - Len(a) + i
        /\ \A i \in DOMAIN b : b[i] = s[n] + i
        /\ s[n] \in Nat /\ s[n] + Len(b) = h + Len(s)
    BY Handed, ZenonT(40)
  <2>2. lastBatch' = a /\ buffer' = b /\ handed' = s[n] /\ h + Len(s) = changes'
    OBVIOUS
  <2> HIDE DEF a, b
  <2> QED
    BY <2>1, <2>2
<1> QED
  BY <1>1 DEF Buffered, Lines

\* One more line follows on those kept.
LEMMA OneMore ==
    ASSUME MonitorsInv, Lines, ~Cut, changes < MaxChange, changes' = changes + 1
    PROVE  /\ Append(buffer, changes + 1) \in Seq(Nat)
           /\ Len(Append(buffer, changes + 1)) = Len(buffer) + 1
           /\ \A i \in DOMAIN Append(buffer, changes + 1) : Append(buffer, changes + 1)[i] = handed + i
           /\ handed + Len(Append(buffer, changes + 1)) = changes'
           /\ handed \in Nat /\ changes' \in 0..MaxChange /\ Len(buffer) \in Nat
<1>1. /\ MaxChange \in Nat /\ changes \in 0..MaxChange /\ handed \in Nat /\ buffer \in Seq(Nat)
      /\ \A i \in DOMAIN buffer : buffer[i] = handed + i
      /\ handed + Len(buffer) = changes
  BY MonitorsAssumption DEF MonitorsAssumption, MonitorsInv, Buffered
<1>2. Len(buffer) \in Nat /\ DOMAIN buffer = 1..Len(buffer)
  BY <1>1, LenProperties
<1> DEFINE s == Append(buffer, changes + 1)
<1>3. /\ s \in Seq(Nat) /\ Len(s) = Len(buffer) + 1 /\ s[Len(buffer) + 1] = changes + 1
      /\ \A i \in 1..Len(buffer) : s[i] = buffer[i]
  BY <1>1, <1>2, AppendProperties
<1>4. DOMAIN s = 1..Len(buffer) + 1
  BY <1>3, LenProperties
<1> HIDE DEF s
<1>5. ASSUME NEW i \in DOMAIN s PROVE s[i] = handed + i
  <2>1. CASE i \in 1..Len(buffer)
    <3>1. s[i] = buffer[i]
      BY <1>3, <2>1
    <3>2. buffer[i] = handed + i
      BY <1>1, <1>2, <2>1
    <3> QED
      BY <3>1, <3>2
  <2>2. CASE i = Len(buffer) + 1
    <3>1. s[i] = changes + 1
      BY <1>3, <2>2
    <3>2. handed + i = changes + 1
      BY <1>1, <1>2, <2>2
    <3> QED
      BY <3>1, <3>2
  <2>3. i \in 1..Len(buffer) \/ i = Len(buffer) + 1
    BY <1>2, <1>4
  <2> QED
    BY <2>1, <2>2, <2>3
<1>6. handed + Len(s) = changes'
  BY <1>1, <1>2, <1>3
<1>7. changes' \in 0..MaxChange
  BY <1>1
<1> QED
  BY <1>1, <1>2, <1>3, <1>5, <1>6, <1>7 DEF s

\* One more piece, of the line read last or of the next.
LEMMA PieceStep ==
    ASSUME MonitorsInv, NEW last \in BOOLEAN, NEW kept \in BOOLEAN, ReadLine(last, kept)
    PROVE  Pieced' /\ line' \in 0..MaxChange /\ split' \subseteq 1..line'
<1> DEFINE whole == ~partial /\ last
           n == IF partial THEN line ELSE line + 1
<1>1. /\ monitor = "log" /\ monitor' = monitor /\ n <= MaxChange /\ (whole => kept)
      /\ line' = n /\ partial' = ~last
      /\ split' = IF whole THEN split ELSE split \cup {n}
      /\ IF kept THEN changes' = changes + 1 /\ pieces' = Append(pieces, n)
                 ELSE UNCHANGED <<changes, pieces>>
  BY DEF ReadLine, Changing
<1>2. /\ Pieced /\ line \in Nat /\ pieces \in Seq(Nat) /\ split \subseteq 1..line
      /\ MaxChange \in Nat /\ changes \in Nat
  BY MonitorsAssumption DEF MonitorsAssumption, MonitorsInv, MonitorsTypeOK, Pieced, Buffered
<1>3. n \in Nat /\ n \in 1..n /\ line <= n /\ n <= line + 1
  BY <1>2 DEF Pieced
<1>4. \A m \in 1..n : m \in 1..line \/ m = n
  BY <1>2, <1>3
<1>5. partial => n = line /\ n \in split
  BY <1>2 DEF Pieced
<1>6. ~partial => n = line + 1
  OBVIOUS
<1> HIDE DEF n
<1>7. line' \in 0..MaxChange /\ split' \subseteq 1..line'
  BY <1>1, <1>2, <1>3
<1>8. (partial' => line' \in split') /\ split \subseteq split'
  BY <1>1
<1>9. \A k \in DOMAIN pieces : pieces[k] \in 1..line /\ pieces[k] \in 1..line'
  BY <1>1, <1>2, <1>3 DEF Pieced
<1>10. CASE kept
  <2>1. pieces' = Append(pieces, n) /\ changes' = changes + 1
    BY <1>1, <1>10
  <2>2. /\ pieces' \in Seq(Nat) /\ Len(pieces') = Len(pieces) + 1 /\ Len(pieces) \in Nat
        /\ pieces'[Len(pieces) + 1] = n /\ DOMAIN pieces = 1..Len(pieces)
        /\ \A k \in 1..Len(pieces) : pieces'[k] = pieces[k]
    BY <1>2, <1>3, <2>1, AppendProperties, LenProperties
  <2>3. DOMAIN pieces' = 1..Len(pieces) + 1
    BY <2>2, LenProperties
  <2>4. \A k \in DOMAIN pieces' : (k \in DOMAIN pieces /\ pieces'[k] = pieces[k])
                                  \/ (k = Len(pieces) + 1 /\ pieces'[k] = n)
    BY <2>2, <2>3
  <2>5. \A k \in DOMAIN pieces' : pieces'[k] \in 1..line'
    BY <1>1, <1>3, <1>9, <2>4
  <2>6. ASSUME NEW j \in DOMAIN pieces', NEW k \in DOMAIN pieces', j < k
        PROVE  pieces'[j] < pieces'[k] \/ (pieces'[j] = pieces'[k] /\ pieces'[j] \in split')
    <3>1. CASE k \in DOMAIN pieces
      <4>1. j \in DOMAIN pieces
        BY <2>2, <2>3, <2>6, <3>1
      <4>2. pieces'[j] = pieces[j] /\ pieces'[k] = pieces[k]
        BY <2>2, <3>1, <4>1
      <4> QED
        BY <1>2, <1>8, <2>6, <3>1, <4>1, <4>2 DEF Pieced
    <3>2. CASE k = Len(pieces) + 1
      <4>1. j \in DOMAIN pieces /\ pieces'[j] = pieces[j] /\ pieces'[k] = n
        BY <2>2, <2>3, <2>6, <3>2
      <4>2. pieces[j] \in 1..line
        BY <1>9, <4>1
      <4>3. CASE partial
        BY <1>2, <1>5, <1>8, <4>1, <4>2, <4>3
      <4>4. CASE ~partial
        BY <1>2, <1>6, <4>1, <4>2, <4>4
      <4> QED
        BY <4>3, <4>4
    <3> QED
      BY <2>4, <3>1, <3>2
  <2>7. ASSUME NEW m \in (1..line') \ split' PROVE \E k \in DOMAIN pieces' : pieces'[k] = m
    <3>1. CASE m = n
      BY <2>2, <2>3, <3>1
    <3>2. CASE m \in 1..line
      <4>1. PICK k \in DOMAIN pieces : pieces[k] = m
        BY <1>2, <1>8, <2>7, <3>2 DEF Pieced
      <4> QED
        BY <2>2, <2>3, <4>1
    <3> QED
      BY <1>1, <1>4, <3>1, <3>2
  <2>8. monitor' = "log" => Len(pieces') = changes'
    BY <1>1, <1>2, <2>1, <2>2 DEF Pieced
  <2> QED
    BY <1>1, <1>3, <1>7, <1>8, <2>2, <2>5, <2>6, <2>7, <2>8 DEF Pieced
<1>11. CASE ~kept
  <2>1. pieces' = pieces /\ changes' = changes /\ split' = split \cup {n}
    BY <1>1, <1>11
  <2>2. \A m \in (1..line') \ split' : \E k \in DOMAIN pieces' : pieces'[k] = m
    BY <1>1, <1>2, <1>4, <2>1 DEF Pieced
  <2> QED
    BY <1>1, <1>2, <1>3, <1>8, <1>9, <2>1, <2>2 DEF Pieced
<1> QED
  BY <1>7, <1>10, <1>11

\* Lines and events: kept in order, handed over from the first on.
LEMMA LineSteps ==
    ASSUME MonitorsInv,
           \/ \E last, kept \in BOOLEAN : ReadLine(last, kept)
           \/ Rotate \/ TailEnds \/ Flush
           \/ \E submitted \in BOOLEAN : Flag(submitted)
    PROVE  MonitorsInv'
<1>0. /\ {MaxContent, MaxChange, BatchSize, FlaggedMin, FlaggedMax} \subseteq Nat \ {0}
      /\ MonitorsTypeOK /\ Scanned /\ Watched /\ Buffered /\ Pieced
  BY MonitorsAssumption DEF MonitorsAssumption, MonitorsInv
<1>1. /\ UNCHANGED <<monitor, scan, left>> /\ UNCHANGED fileVars /\ UNCHANGED processVars
      /\ Lines
      /\ changes' = changes \/ (changes < MaxChange /\ changes' = changes + 1)
  <2>1. CASE \E last, kept \in BOOLEAN : ReadLine(last, kept)
    BY <2>1 DEF ReadLine, Changing, Lines
  <2>2. CASE Rotate
    BY <2>2 DEF Rotate, Lines
  <2>3. CASE Flush
    BY <2>3 DEF Flush, Lines
  <2>4. CASE \E submitted \in BOOLEAN : Flag(submitted)
    BY <2>4 DEF Flag, Changing, Lines
  <2>5. CASE TailEnds
    BY <2>5 DEF TailEnds, Lines
  <2> QED
    BY <2>1, <2>2, <2>3, <2>4, <2>5
<1>2. Scanned'
  BY <1>0, <1>1 DEF Scanned, fileVars
<1>3. Watched'
  <2>1. changes \in Nat
    BY <1>0 DEF Buffered
  <2>2. monitor # "process"
    BY <1>1 DEF Lines
  <2> QED
    BY <1>0, <1>1, <2>1, <2>2 DEF Watched, processVars
<1>4. ASSUME Len(buffer') <= (IF monitor = "log" THEN BatchSize ELSE FlaggedMin - 1),
             reader' \in {"on", "rotated", "ended"}, line' \in 0..MaxChange, split' \subseteq 1..line'
      PROVE  MonitorsTypeOK'
  BY <1>0, <1>1, <1>4 DEF MonitorsTypeOK, fileVars, processVars
<1>5. ASSUME NEW last \in BOOLEAN, NEW kept \in BOOLEAN, ReadLine(last, kept)
      PROVE  MonitorsInv'
  <2>1. /\ UNCHANGED <<lastBatch, handed, reader>>
        /\ monitor = "log" /\ reader = "on" /\ Len(buffer) < BatchSize
        /\ IF kept THEN /\ changes < MaxChange /\ changes' = changes + 1
                        /\ buffer' = Append(buffer, changes + 1)
                   ELSE UNCHANGED <<changes, buffer>>
    BY <1>5 DEF ReadLine, Changing
  <2>2. Pieced' /\ line' \in 0..MaxChange /\ split' \subseteq 1..line'
    BY <1>5, PieceStep
  <2>3. Buffered' /\ Len(buffer') <= BatchSize
    <3>1. CASE kept
      <4>1. ~Cut /\ ~Cut'
        BY <1>1, <2>1 DEF Cut
      <4>2. /\ changes < MaxChange /\ changes' = changes + 1 /\ buffer' = Append(buffer, changes + 1)
        BY <2>1, <3>1
      <4>3. Buffered' /\ Len(buffer') = Len(buffer) + 1 /\ Len(buffer) \in Nat
        BY <1>0, <1>1, <2>1, <4>1, <4>2, OneMore DEF Buffered, Lines
      <4> QED
        BY <1>0, <2>1, <4>3
    <3>2. CASE ~kept
      BY <1>0, <1>1, <2>1, <3>2, LenProperties DEF Buffered, Lines, Cut
    <3> QED
      BY <3>1, <3>2
  <2>4. MonitorsTypeOK'
    BY <1>4, <2>1, <2>2, <2>3
  <2> QED
    BY <1>2, <1>3, <2>2, <2>3, <2>4 DEF MonitorsInv
<1>6. CASE Rotate \/ TailEnds
  <2>1. UNCHANGED batchVars /\ UNCHANGED lineVars /\ reader' \in {"rotated", "ended"} /\ monitor = "log" /\ changes' = changes
    BY <1>6 DEF Rotate, TailEnds
  <2>2. MonitorsTypeOK'
    BY <1>0, <1>4, <2>1 DEF MonitorsTypeOK, batchVars, lineVars
  <2>3. Buffered' /\ Pieced'
    BY <1>0, <1>1, <2>1 DEF Buffered, Pieced, Cut, Lines, batchVars, lineVars
  <2> QED
    BY <1>2, <1>3, <2>2, <2>3 DEF MonitorsInv
<1>7. CASE Flush
  <2>1. /\ monitor = "log" /\ buffer # <<>> /\ changes' = changes
        /\ lastBatch' = SubSeq(buffer, 1, Len(buffer)) /\ handed' = buffer[Len(buffer)]
        /\ buffer' = SubSeq(buffer, Len(buffer) + 1, Len(buffer))
        /\ reader' = reader /\ UNCHANGED lineVars /\ ~Cut
    BY <1>7 DEF Flush, Submit, Cut
  <2>2. buffer \in Seq(Nat) /\ Len(buffer) \in 1..Len(buffer) /\ Len(buffer) \in Nat
    BY <1>0, <2>1, LenProperties, EmptySeq DEF Buffered
  <2>3. Buffered' /\ Len(buffer') = Len(buffer) - Len(buffer)
    BY <1>0, <1>1, <2>1, <2>2, HandOver DEF Buffered
  <2>4. MonitorsTypeOK'
    BY <1>0, <1>4, <2>1, <2>2, <2>3 DEF MonitorsTypeOK, lineVars
  <2>5. Pieced'
    BY <1>0, <1>1, <2>1 DEF Pieced, lineVars
  <2> QED
    BY <1>2, <1>3, <2>3, <2>4, <2>5 DEF MonitorsInv
<1>8. ASSUME NEW submitted \in BOOLEAN, Flag(submitted) PROVE MonitorsInv'
  <2> DEFINE flagged == Append(buffer, changes + 1)
             n == IF Len(flagged) < FlaggedMax THEN Len(flagged) ELSE FlaggedMax
  <2>1. /\ monitor = "network" /\ reader = "on" /\ changes < MaxChange /\ changes' = changes + 1
        /\ UNCHANGED lineVars /\ ~Cut
        /\ IF Len(flagged) < FlaggedMin
           THEN buffer' = flagged /\ UNCHANGED <<lastBatch, handed, reader>>
           ELSE /\ buffer' = SubSeq(flagged, n + 1, Len(flagged))
                /\ IF submitted
                   THEN lastBatch' = SubSeq(flagged, 1, n) /\ handed' = flagged[n] /\ UNCHANGED reader
                   ELSE reader' = "ended" /\ UNCHANGED <<lastBatch, handed>>
    BY <1>8 DEF Flag, Changing, Cut
  <2>2. /\ flagged \in Seq(Nat) /\ Len(flagged) = Len(buffer) + 1 /\ Len(buffer) \in Nat
        /\ \A i \in DOMAIN flagged : flagged[i] = handed + i
        /\ handed + Len(flagged) = changes' /\ handed \in Nat /\ changes' \in 0..MaxChange
    BY <1>1, <2>1, OneMore
  <2>3. Len(buffer) <= FlaggedMin - 1
    BY <1>0, <2>1 DEF MonitorsTypeOK
  <2>4. line' \in 0..MaxChange /\ split' \subseteq 1..line' /\ reader' \in {"on", "rotated", "ended"}
    BY <1>0, <2>1 DEF MonitorsTypeOK, lineVars
  <2>5. Pieced'
    BY <1>0, <1>1, <2>1 DEF Pieced, lineVars
  <2>6. CASE Len(flagged) < FlaggedMin
    <3>1. buffer' = flagged /\ UNCHANGED <<lastBatch, handed, reader>>
      BY <2>1, <2>6
    <3>2. Buffered'
      BY <1>0, <1>1, <2>1, <2>2, <3>1 DEF Buffered, Lines, Cut
    <3>3. MonitorsTypeOK'
      BY <1>0, <1>4, <2>1, <2>2, <2>4, <2>6, <3>1
    <3> QED
      BY <1>2, <1>3, <2>5, <3>2, <3>3 DEF MonitorsInv
  <2>7. CASE ~(Len(flagged) < FlaggedMin)
    <3>1. /\ buffer' = SubSeq(flagged, n + 1, Len(flagged))
          /\ IF submitted
             THEN lastBatch' = SubSeq(flagged, 1, n) /\ handed' = flagged[n] /\ UNCHANGED reader
             ELSE reader' = "ended" /\ UNCHANGED <<lastBatch, handed>>
      BY <2>1, <2>7
    <3> HIDE DEF flagged
    <3>2. n \in 1..Len(flagged) /\ n \in Nat
      BY <1>0, <2>2
    <3> HIDE DEF n
    <3>3. buffer' \in Seq(Nat) /\ Len(buffer') = Len(flagged) - n
      BY <2>2, <3>1, <3>2, Handed
    <3>4. Buffered'
      <4>1. CASE submitted
        BY <1>0, <1>1, <2>2, <3>1, <3>2, <4>1, HandOver
      <4>2. CASE ~submitted
        <5>1. Cut' /\ UNCHANGED <<lastBatch, handed>>
          BY <1>1, <2>1, <3>1, <4>2 DEF Cut
        <5> QED
          BY <1>0, <1>1, <2>2, <3>3, <5>1 DEF Buffered, Lines
      <4> QED
        BY <4>1, <4>2
    <3>5. Len(buffer') <= FlaggedMin - 1
      BY <1>0, <2>2, <2>3, <3>2, <3>3
    <3>6. MonitorsTypeOK'
      BY <1>4, <2>1, <2>4, <3>5
    <3> QED
      BY <1>2, <1>3, <2>5, <3>4, <3>6 DEF MonitorsInv
  <2> QED
    BY <2>6, <2>7
<1> QED
  BY <1>5, <1>6, <1>7, <1>8

\* Each step keeps the invariant.
LEMMA MonitorsStep == MonitorsInv /\ [MonitorsNext]_monitorsVars => MonitorsInv'
<1> SUFFICES ASSUME MonitorsInv, [MonitorsNext]_monitorsVars PROVE MonitorsInv'
  OBVIOUS
<1>1. CASE UNCHANGED monitorsVars
  BY <1>1 DEF monitorsVars, fileVars, processVars, bufferVars, batchVars, lineVars, MonitorsInv,
              MonitorsTypeOK, Scanned, Watched, Buffered, Pieced, Cut, Lines
<1> QED
  BY <1>1, FileMonitorSteps, PassSteps, ProcessMonitorSteps, LineSteps DEF MonitorsNext

\* Every piece of a line and every event that is kept is in exactly one batch
\* or still kept, a line read whole in one piece; no process id is given up
\* for a process that was not analysed, but for jobs that were refused; and a scan that is not cut short
\* ends with a job for every difference, also those left by scans that were,
\* none of them twice (file_monitor.py, log_analyzer.py, network_monitor.py).
THEOREM MonitorsReport == MonitorsSpec => []ReportedOnce
<1>1. MonitorsInv => ReportedOnce
  BY DEF MonitorsInv, Scanned, Watched, Buffered, Pieced, Cut, InOneBatch, ReportedOnce
<1> QED
  BY MonitorsStart, MonitorsStep, <1>1, PTL DEF MonitorsSpec

-----------------------------------------------------------------------------
(* Breach.  A caller past the check and before the count has calls nobody  *)
(* counted yet: Promised adds them to the counter.  What a source said is  *)
(* as old as the lookup it belongs to, and an answer in the cache at most  *)
(* as much older than its entry as a lookup may take: SaidRecently and     *)
(* StoredRecently.                                                         *)

LookupStage == {"idle", "quota", "record", "ask"}
Say == {"hit", "clean", "failed"}
Anyone == {"XposedOrNot", "HackMyIP", "breaches", "pastes"}
Lookup == [at : LookupStage, id : Email, age : 0..LookupSecs, said : UNION {[S -> Say] : S \in SUBSET Anyone}]

Types ==
    /\ live \in DOMAIN Sources /\ used \in Nat
    /\ answers \in [Email -> [status : {"none", "clean", "exposed"}, age : 0..Horizon]]
    /\ lookup \in [Caller -> Lookup]
    /\ listed \in [Email -> SUBSET Asked]
    /\ sinceClean \in [Email -> 0..Horizon] /\ sinceExposed \in [Email -> 0..Horizon]

Promise(c) == IF lookup[c].at = "record" THEN Calls ELSE 0
Promised == used + Promise("loop") + Promise("scheduler") < DailyLimit + 2 * Calls

WorldRecent ==
    \A i \in Email : /\ listed[i] # Asked => sinceClean[i] = 0
                     /\ listed[i] # {} => sinceExposed[i] = 0
SaidRecently ==
    \A c \in Caller : \A s \in DOMAIN lookup[c].said :
        /\ lookup[c].said[s] = "clean" => sinceClean[lookup[c].id] <= lookup[c].age
        /\ lookup[c].said[s] = "hit" => sinceExposed[lookup[c].id] <= lookup[c].age
StoredRecently ==
    \A i \in Email : answers[i].age < Horizon =>
        /\ answers[i].status = "clean" => sinceClean[i] <= answers[i].age + LookupSecs
        /\ answers[i].status = "exposed" => sinceExposed[i] <= answers[i].age + LookupSecs

-----------------------------------------------------------------------------
(* Breach: the operators                                                   *)

\* The limits are positive, and an age can tell an answer too old.
LEMMA Numbers == /\ DailyLimit \in Nat \ {0} /\ CacheSecs \in Nat \ {0} /\ LookupSecs \in Nat \ {0}
                 /\ Horizon \in Nat /\ CacheSecs + LookupSecs < Horizon
  BY BreachAssumption DEF BreachAssumption, Horizon

\* Every provider has sources, and a lookup is one call or two.
LEMMA SomeSources == live \in DOMAIN Sources => Asked # {} /\ Asked \subseteq Anyone /\ Calls \in {1, 2}
  BY DEF Asked, Sources, Calls, Anyone

\* A caller at rest has asked nobody.
LEMMA NoLookupType == NoLookup \in Lookup /\ DOMAIN NoLookup.said = {} /\ NoLookup.at = "idle"
<1>1. NotAsked \in UNION {[S -> Say] : S \in SUBSET Anyone}
  <2>1. NotAsked \in [{} -> Say]
    BY DEF NotAsked
  <2> QED
    BY <2>1
<1>2. (CHOOSE i \in Email : TRUE) \in Email
  BY BreachAssumption DEF BreachAssumption
<1>3. DOMAIN NotAsked = {}
  BY DEF NotAsked
<1> QED
  BY <1>1, <1>2, <1>3, Numbers DEF NoLookup, Lookup, LookupStage

\* What a verdict of clean or exposed rests on (check_breach)
LEMMA VerdictSaid ==
    ASSUME live \in DOMAIN Sources, NEW said \in [Asked -> Say]
    PROVE  /\ Verdict(said) \in {"error", "clean", "exposed"}
           /\ Verdict(said) = "clean" => \E s \in Asked : said[s] = "clean"
           /\ Verdict(said) = "exposed" => \E s \in Asked : said[s] = "hit"
<1>1. CASE live = "multi"
  BY <1>1 DEF Verdict, MultiVerdict, ExposedIf, Say
<1>2. CASE live = "xposedornot"
  BY <1>2 DEF Verdict, XonVerdict, ExposedIf, Say, Asked, Sources
<1>3. CASE live = "hibp"
  BY <1>3 DEF Verdict, HibpVerdict, ExposedIf, Say, Asked, Sources
<1> QED
  BY <1>1, <1>2, <1>3 DEF Sources

-----------------------------------------------------------------------------
(* Breach: types                                                           *)

\* The stronger types hold initially, ...
LEMMA BreachInitTypes == BreachInit => Types
<1> SUFFICES ASSUME BreachInit PROVE Types
  OBVIOUS
<1>1. NoAnswer \in [status : {"none", "clean", "exposed"}, age : 0..Horizon]
  BY Numbers DEF NoAnswer
<1> QED
  BY <1>1, NoLookupType, Numbers DEF BreachInit, Types

\* ... and each step of the callers, the world and the clock keeps them.
LEMMA BreachStepTypes == Types /\ [BreachNext]_breachVars => Types'
<1> SUFFICES ASSUME Types, [BreachNext]_breachVars PROVE Types'
  OBVIOUS
<1>1. NoAnswer \in [status : {"none", "clean", "exposed"}, age : 0..Horizon]
  BY Numbers DEF NoAnswer
<1>2. CASE UNCHANGED breachVars
  BY <1>2 DEF breachVars, Types, Asked
<1>3. ASSUME NEW c \in Caller, NEW i \in Email, CacheGet(c, i) PROVE Types'
  <2>1. [NoLookup EXCEPT !.at = "quota", !.id = i] \in Lookup
    BY NoLookupType DEF Lookup, LookupStage
  <2> QED
    BY <1>1, <1>3, <2>1 DEF CacheGet, Types, worldVars, Asked
<1>4. ASSUME NEW c \in Caller, QuotaCheck(c) PROVE Types'
  <2>1. [lookup[c] EXCEPT !.at = "record"] \in Lookup
    BY DEF Types, Lookup, LookupStage
  <2> QED
    BY <1>4, <2>1, NoLookupType DEF QuotaCheck, Types, worldVars, Asked
<1>5. ASSUME NEW c \in Caller, Record(c) PROVE Types'
  <2>1. [lookup[c] EXCEPT !.at = "ask"] \in Lookup
    BY DEF Types, Lookup, LookupStage
  <2>2. lookup' \in [Caller -> Lookup]
    BY <1>5, <2>1 DEF Record, Types
  <2> QED
    BY <1>5, <2>2, SomeSources DEF Record, Types, worldVars, Asked
<1>6. ASSUME NEW c \in Caller, NEW s \in Sources[live], Ask(c, s) PROVE Types'
  <2> DEFINE said == lookup[c].said
  <2>1. PICK a \in {Reported(s, lookup[c].id), "failed"} :
            lookup' = [lookup EXCEPT ![c].said =
                          [t \in DOMAIN said \cup {s} |-> IF t = s THEN a ELSE said[t]]]
    BY <1>6 DEF Ask
  <2> DEFINE new == [t \in DOMAIN said \cup {s} |-> IF t = s THEN a ELSE said[t]]
  <2>2. a \in Say
    BY DEF Reported, Say
  <2>3. lookup[c] \in Lookup
    BY DEF Types
  <2>4. PICK S \in SUBSET Anyone : said \in [S -> Say]
    BY <2>3 DEF Lookup
  <2>5. new \in [S \cup {s} -> Say] /\ S \cup {s} \in SUBSET Anyone
    BY <2>2, <2>4, SomeSources DEF Types, Asked
  <2>6. new \in UNION {[T -> Say] : T \in SUBSET Anyone}
    BY <2>5
  <2> HIDE DEF new
  <2>7. [lookup[c] EXCEPT !.said = new] \in Lookup
    BY <2>3, <2>6 DEF Lookup
  <2>8. lookup' \in [Caller -> Lookup]
    BY <2>1, <2>7 DEF Types, new
  <2> QED
    BY <1>6, <2>8 DEF Ask, Types, worldVars, Asked
<1>7. ASSUME NEW c \in Caller, Answer(c) PROVE Types'
  <2>1. lookup[c].id \in Email
    BY DEF Types, Lookup
  <2>2. lookup' \in [Caller -> Lookup]
    BY <1>7, NoLookupType DEF Answer, Types
  <2>3. lookup[c].said \in [Asked -> Say]
    BY <1>7 DEF Answer, Types, Lookup
  <2>4. Verdict(lookup[c].said) \in {"error", "clean", "exposed"}
    BY <2>3, VerdictSaid DEF Types
  <2>5. answers' \in [Email -> [status : {"none", "clean", "exposed"}, age : 0..Horizon]]
    BY <1>7, <2>1, <2>4, Numbers DEF Answer, Types
  <2> QED
    BY <1>7, <2>2, <2>5 DEF Answer, Types, worldVars, Asked
<1>8. ASSUME NEW i \in Email, NEW s \in Sources[live], Lists(i, s) PROVE Types'
  <2>1. listed' \in [Email -> SUBSET Asked]
    BY <1>8 DEF Lists, Types, Asked
  <2>2. sinceClean' \in [Email -> 0..Horizon] /\ sinceExposed' \in [Email -> 0..Horizon]
    BY <1>8, Numbers DEF Lists, Types
  <2> QED
    BY <1>8, <2>1, <2>2 DEF Lists, Types, Asked
<1>9. CASE SecondGoes
  <2>1. \A n \in 0..Horizon : SecondOlder(n) \in 0..Horizon
    BY Numbers DEF SecondOlder
  <2>2. answers' \in [Email -> [status : {"none", "clean", "exposed"}, age : 0..Horizon]]
    BY <1>1, <1>9, <2>1 DEF SecondGoes, Types
  <2>3. lookup' \in [Caller -> Lookup]
    <3>1. ASSUME NEW c \in Caller PROVE [lookup[c] EXCEPT !.age = @ + 1] \in Lookup
      BY <1>9, Numbers DEF SecondGoes, Types, Lookup
    <3> QED
      BY <1>9, <3>1, NoLookupType DEF SecondGoes
  <2>4. sinceClean' \in [Email -> 0..Horizon] /\ sinceExposed' \in [Email -> 0..Horizon]
    BY <1>9, <2>1, Numbers DEF SecondGoes, Types
  <2> QED
    BY <1>9, <2>2, <2>3, <2>4 DEF SecondGoes, Types, Asked
<1>10. CASE Midnight
  BY <1>10 DEF Midnight, Types, worldVars, Asked
<1> QED
  BY <1>2, <1>3, <1>4, <1>5, <1>6, <1>7, <1>8, <1>9, <1>10 DEF BreachNext

-----------------------------------------------------------------------------
(* Breach: the quota                                                       *)

\* Nothing is promised initially, ...
LEMMA BreachInitPromised == BreachInit => Promised
<1> SUFFICES ASSUME BreachInit PROVE Promised
  OBVIOUS
<1>1. \A c \in Caller : Promise(c) = 0
  BY NoLookupType DEF BreachInit, Promise
<1>2. Calls \in {1, 2} /\ used = 0
  BY SomeSources DEF BreachInit
<1> QED
  BY <1>1, <1>2, Numbers DEF Promised, Caller

\* ... and no step makes more calls than what was used and promised before.
LEMMA BreachStepPromised == Types /\ Promised /\ [BreachNext]_breachVars => Promised'
<1> SUFFICES ASSUME Types, Promised, [BreachNext]_breachVars PROVE Promised'
  OBVIOUS
<1>1. used \in Nat /\ Calls \in {1, 2} /\ live \in DOMAIN Sources
  BY SomeSources, SMTT(30) DEF Types
<1>2. live' = live
  BY
  DEF BreachNext, breachVars, CacheGet, QuotaCheck, Record, Answer, Ask, Lists, SecondGoes,
      Midnight, worldVars
<1>3. Calls' = Calls
  BY <1>2 DEF Calls
<1> DEFINE Same == used' = used /\ \A c \in Caller : lookup'[c].at = "record" => lookup[c].at = "record"
<1>4. Same => Promised'
  BY <1>1, <1>3, Numbers DEF Promised, Promise, Caller
<1>5. CASE UNCHANGED breachVars
  BY <1>5, <1>4 DEF breachVars
<1>6. ASSUME NEW c \in Caller, NEW i \in Email, CacheGet(c, i) PROVE Promised'
  BY <1>4, <1>6 DEF CacheGet, Types, NoLookup
<1>7. ASSUME NEW c \in Caller, QuotaCheck(c) PROVE Promised'
  <2>1. used' = used /\ \A d \in Caller : d # c => lookup'[d] = lookup[d]
    BY <1>7 DEF QuotaCheck, Types
  <2>2. CASE used >= DailyLimit
    BY <1>4, <1>7, <2>2, NoLookupType DEF QuotaCheck, Types
  <2>3. CASE used < DailyLimit
    <3>1. Promise("loop")' \in {0, Calls} /\ Promise("scheduler")' \in {0, Calls}
      BY <1>3 DEF Promise
    <3> QED
      BY <1>1, <1>3, <2>1, <2>3, <3>1, Numbers DEF Promised
  <2> QED
    BY <1>1, <2>2, <2>3, Numbers
<1>8. ASSUME NEW c \in Caller, Record(c) PROVE Promised'
  <2>1. used' = used + Calls /\ Promise(c) = Calls /\ Promise(c)' = 0
    BY <1>8 DEF Record, Promise, Types
  <2>2. \A d \in Caller : d # c => Promise(d)' = Promise(d)
    BY <1>3, <1>8 DEF Record, Promise, Types
  <2>3. \A d \in Caller : Promise(d) \in {0, Calls}
    BY DEF Promise
  <2> QED
    BY <1>1, <1>3, <2>1, <2>2, <2>3, Numbers DEF Promised, Caller
<1>9. ASSUME NEW c \in Caller, NEW s \in Sources[live], Ask(c, s) PROVE Promised'
  BY <1>4, <1>9 DEF Ask, Types
<1>10. ASSUME NEW c \in Caller, Answer(c) PROVE Promised'
  BY <1>4, <1>10, NoLookupType DEF Answer, Types
<1>11. ASSUME NEW i \in Email, NEW s \in Sources[live], Lists(i, s) PROVE Promised'
  BY <1>4, <1>11 DEF Lists
<1>12. CASE SecondGoes
  <2>1. \A c \in Caller : lookup'[c].at = "record" => lookup[c].at = "record"
    BY <1>12, NoLookupType DEF SecondGoes, Types, Lookup
  <2> QED
    BY <1>4, <1>12, <2>1 DEF SecondGoes
<1>13. CASE Midnight
  <2>1. used' = 0 /\ \A c \in Caller : Promise(c)' \in {0, Calls}
    BY <1>3, <1>13 DEF Midnight, Promise
  <2> QED
    BY <1>1, <1>3, <2>1, Numbers DEF Promised, Caller
<1> QED
  BY <1>5, <1>6, <1>7, <1>8, <1>9, <1>10, <1>11, <1>12, <1>13 DEF BreachNext

\* The day's calls stay below the limit plus those of one lookup for each of
\* the two callers, for every limit (_quota_exceeded, _record_api_call).
THEOREM QuotaIsNearlyKept == BreachSpec => []QuotaNearlyKept
<1>1. Types /\ Promised => QuotaNearlyKept
  <2> SUFFICES ASSUME Types, Promised PROVE QuotaNearlyKept
    OBVIOUS
  <2>1. Cardinality(Caller) = 2
    <3>1. IsFiniteSet({"loop"}) /\ Cardinality({"loop"}) = 1
      BY FS_Singleton
    <3>2. Cardinality({"loop"} \cup {"scheduler"}) = 2
      BY <3>1, FS_AddElement
    <3>3. Caller = {"loop"} \cup {"scheduler"}
      BY DEF Caller
    <3> QED
      BY <3>2, <3>3
  <2>2. Calls \in {1, 2} /\ used \in Nat
    BY SomeSources DEF Types
  <2>3. \A c \in Caller : Promise(c) \in {0, Calls}
    BY DEF Promise
  <2> QED
    BY <2>1, <2>2, <2>3, Numbers DEF Promised, QuotaNearlyKept, Caller
<1> QED
  BY BreachInitTypes, BreachStepTypes, BreachInitPromised, BreachStepPromised, <1>1, PTL
  DEF BreachSpec
-----------------------------------------------------------------------------
(* Breach: recent answers                                                  *)

Recent == WorldRecent /\ SaidRecently /\ StoredRecently

\* An empty cache is recent, ...
LEMMA BreachInitRecent == BreachInit => Recent
<1> SUFFICES ASSUME BreachInit PROVE Recent
  OBVIOUS
<1>1. WorldRecent
  BY SomeSources DEF BreachInit, WorldRecent
<1>2. SaidRecently
  BY NoLookupType DEF BreachInit, SaidRecently
<1>3. StoredRecently
  BY DEF BreachInit, StoredRecently, NoAnswer
<1> QED
  BY <1>1, <1>2, <1>3 DEF Recent

\* ... and each step keeps world, lookups and cache recent.
LEMMA BreachStepRecent == Types /\ Recent /\ [BreachNext]_breachVars => Recent'
<1> SUFFICES ASSUME Types, Recent, [BreachNext]_breachVars PROVE Recent'
  OBVIOUS
<1> USE DEF Recent
<1>1. CASE UNCHANGED breachVars
  BY <1>1 DEF breachVars, WorldRecent, SaidRecently, StoredRecently, Asked
<1>2. ASSUME NEW c \in Caller, NEW i \in Email, CacheGet(c, i) PROVE Recent'
  <2>1. WorldRecent'
    BY <1>2 DEF CacheGet, worldVars, WorldRecent, Asked
  <2>2. SaidRecently'
    <3>1. DOMAIN [NoLookup EXCEPT !.at = "quota", !.id = i].said = {}
      BY NoLookupType DEF Lookup
    <3>2. \A d \in Caller : lookup'[d] = lookup[d] \/ DOMAIN lookup'[d].said = {}
      BY <1>2, <3>1 DEF CacheGet, Types
    <3>3. UNCHANGED <<sinceClean, sinceExposed>>
      BY <1>2 DEF CacheGet, worldVars
    <3> QED
      BY <3>2, <3>3 DEF SaidRecently
  <2>3. StoredRecently'
    BY <1>2 DEF CacheGet, worldVars, StoredRecently, Types, NoAnswer
  <2> QED
    BY <2>1, <2>2, <2>3
<1>3. ASSUME NEW c \in Caller, QuotaCheck(c) \/ Record(c) PROVE Recent'
  <2>1. WorldRecent'
    BY <1>3 DEF QuotaCheck, Record, worldVars, WorldRecent, Asked
  <2>2. SaidRecently'
    <3>1. lookup[c] \in Lookup
      BY DEF Types
    <3>2. \A at \in {"record", "ask"} : LET new == [lookup[c] EXCEPT !.at = at] IN
            new.said = lookup[c].said /\ new.id = lookup[c].id /\ new.age = lookup[c].age
      BY <3>1 DEF Lookup
    <3>3. \/ DOMAIN lookup'[c].said = {}
          \/ /\ lookup'[c].said = lookup[c].said /\ lookup'[c].id = lookup[c].id
             /\ lookup'[c].age = lookup[c].age
      BY <1>3, <3>2, NoLookupType DEF QuotaCheck, Record, Types
    <3>4. \A d \in Caller : d # c => lookup'[d] = lookup[d]
      BY <1>3 DEF QuotaCheck, Record, Types
    <3>5. UNCHANGED <<sinceClean, sinceExposed>>
      BY <1>3 DEF QuotaCheck, Record, worldVars
    <3> QED
      BY <3>3, <3>4, <3>5 DEF SaidRecently
  <2>3. StoredRecently'
    BY <1>3 DEF QuotaCheck, Record, worldVars, StoredRecently
  <2> QED
    BY <2>1, <2>2, <2>3
<1>4. ASSUME NEW c \in Caller, NEW s \in Sources[live], Ask(c, s) PROVE Recent'
  <2> DEFINE said == lookup[c].said
             new(a) == [t \in DOMAIN said \cup {s} |-> IF t = s THEN a ELSE said[t]]
  <2>1. PICK a \in {Reported(s, lookup[c].id), "failed"} :
            lookup' = [lookup EXCEPT ![c].said = new(a)]
    BY <1>4 DEF Ask
  <2>2. lookup[c] \in Lookup
    BY DEF Types
  <2>3. lookup'[c].id = lookup[c].id /\ lookup'[c].age = lookup[c].age /\ lookup'[c].said = new(a)
    BY <2>1, <2>2 DEF Types, Lookup
  <2>4. /\ a = "clean" => sinceClean[lookup[c].id] <= lookup[c].age
        /\ a = "hit" => sinceExposed[lookup[c].id] <= lookup[c].age
    BY <2>1, <2>2, Numbers DEF Reported, WorldRecent, Lookup, Asked
  <2>5. SaidRecently'
    <3>1. \A d \in Caller : d # c => lookup'[d] = lookup[d]
      BY <2>1 DEF Types
    <3>2. UNCHANGED <<sinceClean, sinceExposed>>
      BY <1>4 DEF Ask, worldVars
    <3> QED
      BY <2>3, <2>4, <3>1, <3>2 DEF SaidRecently
  <2> QED
    BY <1>4, <2>5 DEF Ask, worldVars, WorldRecent, StoredRecently, Asked
<1>5. ASSUME NEW c \in Caller, Answer(c) PROVE Recent'
  <2> DEFINE i == lookup[c].id
             status == Verdict(lookup[c].said)
  <2>1. i \in Email /\ lookup[c].age \in 0..LookupSecs /\ lookup[c].said \in [Asked -> Say]
    BY <1>5 DEF Answer, Types, Lookup
  <2>2. /\ status = "clean" => sinceClean[i] <= lookup[c].age
        /\ status = "exposed" => sinceExposed[i] <= lookup[c].age
    BY <2>1, VerdictSaid DEF Types, SaidRecently
  <2>3. /\ status = "clean" => sinceClean[i] <= LookupSecs
        /\ status = "exposed" => sinceExposed[i] <= LookupSecs
    BY <2>1, <2>2, Numbers DEF Types
  <2>4. StoredRecently'
    <3>1. CASE status = "error"
      BY <1>5, <3>1 DEF Answer, worldVars, StoredRecently
    <3>2. CASE status # "error"
      <4>1. answers' = [answers EXCEPT ![i] = [status |-> status, age |-> 0]]
        BY <1>5, <3>2 DEF Answer
      <4>2. UNCHANGED <<sinceClean, sinceExposed>>
        BY <1>5 DEF Answer, worldVars
      <4> HIDE DEF status
      <4> QED
        BY <2>1, <2>3, <4>1, <4>2, Numbers DEF StoredRecently, Types
    <3> QED
      BY <3>1, <3>2
  <2>5. SaidRecently'
    BY <1>5, NoLookupType DEF Answer, worldVars, SaidRecently, Types
  <2> QED
    BY <1>5, <2>4, <2>5 DEF Answer, worldVars, WorldRecent, Asked
<1>6. ASSUME NEW i \in Email, NEW s \in Sources[live], Lists(i, s) PROVE Recent'
  <2>1. \A j \in Email : sinceClean'[j] \in {0, sinceClean[j]} /\ sinceExposed'[j] \in {0, sinceExposed[j]}
    BY <1>6 DEF Lists, Types
  <2>2. UNCHANGED <<live, answers, lookup>>
    BY <1>6 DEF Lists
  <2>3. WorldRecent'
    BY <1>6, <2>2 DEF Lists, WorldRecent, Types, Asked
  <2>4. SaidRecently'
    <3>1. \A c \in Caller : lookup[c].id \in Email /\ lookup[c].age \in Nat
      BY Numbers DEF Types, Lookup
    <3> QED
      BY <2>1, <2>2, <3>1 DEF SaidRecently
  <2>5. StoredRecently'
    <3>1. \A j \in Email : answers[j].age \in Nat
      BY Numbers DEF Types
    <3> QED
      BY <2>1, <2>2, <3>1, Numbers DEF StoredRecently
  <2> QED
    BY <2>3, <2>4, <2>5
<1>7. CASE SecondGoes
  <2>1. \A n \in 0..Horizon : SecondOlder(n) <= n + 1 /\ (SecondOlder(n) < Horizon => SecondOlder(n) = n + 1)
    BY Numbers DEF SecondOlder
  <2>2. \A j \in Email : /\ sinceClean'[j] \in {0, SecondOlder(sinceClean[j])}
                        /\ sinceExposed'[j] \in {0, SecondOlder(sinceExposed[j])}
                        /\ sinceClean[j] \in 0..Horizon /\ sinceExposed[j] \in 0..Horizon
    BY <1>7 DEF SecondGoes, Types
  <2>3. \A j \in Email : /\ sinceClean'[j] <= sinceClean[j] + 1
                        /\ sinceExposed'[j] <= sinceExposed[j] + 1
                        /\ {sinceClean[j], sinceExposed[j], sinceClean'[j], sinceExposed'[j]} \subseteq Int
    BY <2>1, <2>2, Numbers DEF SecondOlder
  <2>4. WorldRecent'
    BY <1>7 DEF SecondGoes, WorldRecent, Asked
  <2>5. SaidRecently'
    <3> SUFFICES ASSUME NEW c \in Caller, NEW s \in DOMAIN lookup'[c].said
                 PROVE /\ lookup'[c].said[s] = "clean" => sinceClean'[lookup'[c].id] <= lookup'[c].age
                       /\ lookup'[c].said[s] = "hit" => sinceExposed'[lookup'[c].id] <= lookup'[c].age
      BY DEF SaidRecently
    <3>1. lookup[c] \in Lookup
      BY DEF Types
    <3>2. lookup'[c] = [lookup[c] EXCEPT !.age = @ + 1]
      BY <1>7, NoLookupType DEF SecondGoes
    <3>3. /\ lookup'[c].age = lookup[c].age + 1 /\ lookup'[c].id = lookup[c].id
          /\ lookup'[c].said = lookup[c].said /\ lookup[c].id \in Email /\ lookup[c].age \in Int
      BY <3>1, <3>2, Numbers DEF Lookup
    <3> QED
      BY <2>3, <3>3 DEF SaidRecently
  <2>6. StoredRecently'
    <3> SUFFICES ASSUME NEW i \in Email, answers'[i].age < Horizon
                 PROVE /\ answers'[i].status = "clean" => sinceClean'[i] <= answers'[i].age + LookupSecs
                       /\ answers'[i].status = "exposed" => sinceExposed'[i] <= answers'[i].age + LookupSecs
      BY DEF StoredRecently
    <3>1. CASE answers[i].status = "none"
      BY <1>7, <3>1 DEF SecondGoes, NoAnswer
    <3>2. CASE answers[i].status # "none"
      <4>1. answers[i] \in [status : {"none", "clean", "exposed"}, age : 0..Horizon]
        BY DEF Types
      <4>2. answers'[i] = [answers[i] EXCEPT !.age = SecondOlder(@)]
        BY <1>7, <3>2 DEF SecondGoes
      <4>3. answers'[i].status = answers[i].status /\ answers'[i].age = SecondOlder(answers[i].age)
        BY <4>1, <4>2
      <4>4. answers'[i].age = answers[i].age + 1 /\ answers[i].age < Horizon /\ answers[i].age \in Int
        BY <2>1, <4>1, <4>3, Numbers
      <4> QED
        BY <2>3, <4>3, <4>4, Numbers DEF StoredRecently
    <3> QED
      BY <3>1, <3>2
  <2> QED
    BY <2>4, <2>5, <2>6
<1>8. CASE Midnight
  BY <1>8 DEF Midnight, worldVars, WorldRecent, SaidRecently, StoredRecently, Asked
<1> QED
  BY <1>1, <1>2, <1>3, <1>4, <1>5, <1>6, <1>7, <1>8 DEF BreachNext

\* What the cache answers for an e-mail address was true no longer ago than the
\* life of an answer and the length of a lookup, whatever these are, whatever
\* fails and whichever caller stores last (check_breach, _breach_cache_get).
THEOREM AnswersStayRecent == BreachSpec => []AnswersAreRecent
<1>1. Types /\ Recent => AnswersAreRecent
  <2> SUFFICES ASSUME Types, Recent, NEW i \in Email, Fresh(i)
               PROVE /\ answers[i].status = "clean" => sinceClean[i] <= CacheSecs + LookupSecs
                     /\ answers[i].status = "exposed" => sinceExposed[i] <= CacheSecs + LookupSecs
    BY DEF AnswersAreRecent
  <2>1. answers[i].age \in Nat /\ sinceClean[i] \in Nat /\ sinceExposed[i] \in Nat
    BY Numbers DEF Types
  <2>2. answers[i].age <= CacheSecs /\ answers[i].age < Horizon
    BY <2>1, Numbers DEF Fresh
  <2> QED
    BY <2>1, <2>2, Numbers DEF Recent, StoredRecently
<1> QED
  BY BreachInitTypes, BreachStepTypes, BreachInitRecent, BreachStepRecent, <1>1, PTL DEF BreachSpec

-----------------------------------------------------------------------------
(* GlobalTicker.  A deque of length cap that forgets its first entry once  *)
(* it is full is, but for that entry, a deque of length cap - 1: the       *)
(* ledger beside it, which takes what the ticker takes, never falls behind *)
(* what the ticker remembers (KeysOK, IocsOK), item by item (NotedKeeps,   *)
(* TrackedKeeps) and so over a whole poll (AfterKeeps).  The shares are    *)
(* counted in turns: who has an entry in a later round comes after all     *)
(* that others have in earlier ones (FairlyShared).                        *)

(* The deques                                                              *)

NoTwice(q) == \A i, j \in 1..Len(q) : q[i] = q[j] => i = j
In(x, q) == \E i \in 1..Len(q) : q[i] = x

\* What of a deque is remembered: all, or all but its first entry once it is full
Late(q, cap) == IF Len(q) = cap THEN Tail(q) ELSE q

\* A deque that takes an entry, place by place
LEMMA PushedIs ==
    ASSUME NEW T, NEW q \in Seq(T), NEW cap \in Nat \ {0}, Len(q) <= cap, NEW x \in T,
           NEW p, p = Pushed(q, x, cap)
    PROVE  /\ p \in Seq(T) /\ Len(p) = (IF Len(q) = cap THEN cap ELSE Len(q) + 1) /\ p[Len(p)] = x
           /\ \A i \in 1..Len(p) - 1 : p[i] = IF Len(q) = cap THEN q[i + 1] ELSE q[i]
<1>1. Len(q) \in Nat
  BY LenProperties
<1>2. CASE Len(q) = cap
  <2>1. q # <<>>
    BY <1>2, EmptySeq
  <2>2. /\ Tail(q) \in Seq(T) /\ Len(Tail(q)) = cap - 1
        /\ \A i \in 1..cap - 1 : Tail(q)[i] = q[i + 1]
    BY <1>2, <2>1, HeadTailProperties
  <2>3. p = Append(Tail(q), x)
    BY <1>2 DEF Pushed
  <2>4. /\ Append(Tail(q), x) \in Seq(T) /\ Len(Append(Tail(q), x)) = cap
        /\ Append(Tail(q), x)[cap] = x
        /\ \A i \in 1..cap - 1 : Append(Tail(q), x)[i] = Tail(q)[i]
    BY <2>2, AppendProperties
  <2> QED
    BY <1>2, <2>2, <2>3, <2>4
<1>3. CASE Len(q) # cap
  <2>1. p = Append(q, x)
    BY <1>3 DEF Pushed
  <2>2. /\ Append(q, x) \in Seq(T) /\ Len(Append(q, x)) = Len(q) + 1
        /\ Append(q, x)[Len(q) + 1] = x
        /\ \A i \in 1..Len(q) : Append(q, x)[i] = q[i]
    BY <1>1, AppendProperties
  <2>3. p \in Seq(T) /\ Len(p) = Len(q) + 1 /\ p[Len(p)] = x
    BY <2>1, <2>2
  <2>4. Len(p) - 1 = Len(q)
    BY <1>1, <2>3
  <2>5. \A i \in 1..Len(p) - 1 : p[i] = q[i]
    BY <2>1, <2>2, <2>4
  <2> QED
    BY <1>3, <2>3, <2>5
<1> QED
  BY <1>2, <1>3

LEMMA PushedAt ==
    ASSUME NEW T, NEW q \in Seq(T), NEW cap \in Nat \ {0}, Len(q) <= cap, NEW x \in T,
           NEW p, p = Pushed(q, x, cap), NEW i \in 1..Len(p) - 1
    PROVE  p[i] = IF Len(q) = cap THEN q[i + 1] ELSE q[i]
BY PushedIs

\* What is remembered of a deque, place by place
LEMMA LateIs ==
    ASSUME NEW T, NEW q \in Seq(T), NEW cap \in Nat \ {0, 1}, Len(q) <= cap,
           NEW t, t = Late(q, cap)
    PROVE  /\ t \in Seq(T) /\ Len(t) = (IF Len(q) = cap THEN cap - 1 ELSE Len(q))
           /\ \A i \in 1..Len(t) : t[i] = IF Len(q) = cap THEN q[i + 1] ELSE q[i]
<1>1. Len(q) \in Nat
  BY LenProperties
<1>2. CASE Len(q) = cap
  <2>1. q # <<>>
    BY <1>2, EmptySeq
  <2>2. /\ Tail(q) \in Seq(T) /\ Len(Tail(q)) = cap - 1
        /\ \A i \in 1..cap - 1 : Tail(q)[i] = q[i + 1]
    BY <1>2, <2>1, HeadTailProperties
  <2> QED
    BY <1>2, <2>2 DEF Late
<1>3. CASE Len(q) # cap
  BY <1>3 DEF Late
<1> QED
  BY <1>2, <1>3

LEMMA LateIn ==
    ASSUME NEW T, NEW q \in Seq(T), NEW cap \in Nat \ {0, 1}, Len(q) <= cap, NEW x, In(x, Late(q, cap))
    PROVE  In(x, q)
<1> DEFINE t == Late(q, cap)
<1>1. t = Late(q, cap)
  OBVIOUS
<1>2. Len(q) \in Nat
  BY LenProperties
<1> HIDE DEF t
<1>3. Len(t) = (IF Len(q) = cap THEN cap - 1 ELSE Len(q))
  BY <1>1, LateIs
<1>4. \A i \in 1..Len(t) : t[i] = IF Len(q) = cap THEN q[i + 1] ELSE q[i]
  BY <1>1, LateIs
<1>5. PICK i \in 1..Len(t) : t[i] = x
  BY <1>1 DEF In
<1> QED
  BY <1>2, <1>3, <1>4, <1>5 DEF In

\* A deque with an entry more: beside it, the list of what it remembers turns
\* over in the same way, with a cap that is one less.
TurnedOver(T, p, t, cap, x) ==
    /\ p \in Seq(T) /\ Len(p) <= cap /\ Len(p) = Len(t) + 1 /\ p[Len(p)] = x
    /\ t \in Seq(T) /\ Len(t) \in Nat /\ Len(t) <= cap - 1
    /\ \A i \in 1..Len(t) : p[i] = t[i]
    /\ Late(p, cap) = Pushed(t, x, cap - 1)
    /\ Forgotten(p, cap) = IF Len(t) = cap - 1 THEN {t[1]} ELSE {}

LEMMA TurnsOver ==
    ASSUME NEW T, NEW q \in Seq(T), NEW cap \in Nat \ {0, 1}, Len(q) <= cap, NEW x \in T
    PROVE  TurnedOver(T, Pushed(q, x, cap), Late(q, cap), cap, x)
<1> DEFINE p == Pushed(q, x, cap)
           t == Late(q, cap)
<1>9. p = Pushed(q, x, cap) /\ t = Late(q, cap)
  OBVIOUS
<1> HIDE DEF p, t
<1>1. Len(q) \in Nat /\ cap - 1 \in Nat \ {0}
  BY LenProperties
<1>0. cap \in Nat \ {0}
  OBVIOUS
<1>2. /\ p \in Seq(T) /\ Len(p) = (IF Len(q) = cap THEN cap ELSE Len(q) + 1) /\ p[Len(p)] = x
      /\ \A i \in 1..Len(p) - 1 : p[i] = IF Len(q) = cap THEN q[i + 1] ELSE q[i]
  <2>1. p \in Seq(T) /\ Len(p) = (IF Len(q) = cap THEN cap ELSE Len(q) + 1) /\ p[Len(p)] = x
    BY <1>0, <1>9, PushedIs
  <2>2. \A i \in 1..Len(p) - 1 : p[i] = IF Len(q) = cap THEN q[i + 1] ELSE q[i]
    BY <1>0, <1>9, PushedIs
  <2> QED
    BY <2>1, <2>2
<1>3. /\ t \in Seq(T) /\ Len(t) = (IF Len(q) = cap THEN cap - 1 ELSE Len(q))
      /\ \A i \in 1..Len(t) : t[i] = IF Len(q) = cap THEN q[i + 1] ELSE q[i]
  BY <1>9, LateIs
<1>4. Len(p) <= cap /\ Len(p) = Len(t) + 1 /\ Len(t) \in Nat /\ Len(t) <= cap - 1 /\ Len(p) - 1 = Len(t)
  BY <1>1, <1>2, <1>3
<1>5. \A i \in 1..Len(t) : p[i] = t[i]
  BY <1>2, <1>3, <1>4
<1>6. Late(p, cap) = Pushed(t, x, cap - 1)
  <2> DEFINE a == Late(p, cap)
             c == cap - 1
             b == Pushed(t, x, c)
  <2>0. t \in Seq(T) /\ c \in Nat \ {0} /\ Len(t) <= c
    BY <1>1, <1>3, <1>4
  <2> HIDE DEF c
  <2>10. b = Pushed(t, x, c)
    OBVIOUS
  <2> HIDE DEF b
  <2>1. /\ a \in Seq(T) /\ Len(a) = (IF Len(p) = cap THEN cap - 1 ELSE Len(p))
        /\ \A i \in 1..Len(a) : a[i] = IF Len(p) = cap THEN p[i + 1] ELSE p[i]
    <3>1. a \in Seq(T) /\ Len(a) = (IF Len(p) = cap THEN cap - 1 ELSE Len(p))
      BY <1>2, <1>4, LateIs
    <3>2. \A i \in 1..Len(a) : a[i] = IF Len(p) = cap THEN p[i + 1] ELSE p[i]
      BY <1>2, <1>4, LateIs
    <3> QED
      BY <3>1, <3>2
  <2>2. /\ b \in Seq(T) /\ Len(b) = (IF Len(t) = c THEN c ELSE Len(t) + 1) /\ b[Len(b)] = x
        /\ \A i \in 1..Len(b) - 1 : b[i] = IF Len(t) = c THEN t[i + 1] ELSE t[i]
    <3>1. b \in Seq(T) /\ Len(b) = (IF Len(t) = c THEN c ELSE Len(t) + 1) /\ b[Len(b)] = x
      BY <2>0, <2>10, PushedIs
    <3>2. \A i \in 1..Len(b) - 1 : b[i] = IF Len(t) = c THEN t[i + 1] ELSE t[i]
      BY <2>0, <2>10, PushedAt
    <3> QED
      BY <3>1, <3>2
  <2> HIDE DEF a
  <2> USE DEF c
  <2>3. Len(a) = Len(b) /\ Len(a) \in Nat /\ (Len(p) = cap <=> Len(t) = cap - 1)
    BY <1>4, <2>1, <2>2
  <2>4. ASSUME NEW i \in 1..Len(a) PROVE a[i] = b[i]
    <3>1. CASE Len(p) = cap
      <4>1. Len(t) = cap - 1 /\ Len(a) = cap - 1 /\ a[i] = p[i + 1]
        BY <2>1, <2>3, <3>1
      <4>2. CASE i = Len(a)
        BY <1>2, <2>2, <2>3, <3>1, <4>1, <4>2
      <4>3. CASE i # Len(a)
        <5>1. i \in 1..Len(b) - 1 /\ i + 1 \in 1..Len(t)
          BY <2>3, <4>1, <4>3
        <5> QED
          BY <1>5, <2>2, <4>1, <5>1
      <4> QED
        BY <4>2, <4>3
    <3>2. CASE Len(p) # cap
      <4>1. Len(t) # cap - 1 /\ Len(a) = Len(p) /\ a[i] = p[i]
        BY <2>1, <2>3, <3>2
      <4>2. CASE i = Len(a)
        BY <1>2, <2>2, <2>3, <4>1, <4>2
      <4>3. CASE i # Len(a)
        <5>1. i \in 1..Len(b) - 1 /\ i \in 1..Len(t)
          BY <1>4, <2>3, <4>1, <4>3
        <5> QED
          BY <1>5, <2>2, <4>1, <5>1
      <4> QED
        BY <4>2, <4>3
    <3> QED
      BY <3>1, <3>2
  <2>5. a = b
    BY <2>1, <2>2, <2>3, <2>4, SeqEqual
  <2> QED
    BY <2>5 DEF a, b, c
<1>7. Forgotten(p, cap) = (IF Len(t) = cap - 1 THEN {t[1]} ELSE {})
  <2>1. Forgotten(p, cap) = IF Len(p) = cap THEN {p[1]} ELSE {}
    BY DEF Forgotten
  <2>2. Len(p) = cap <=> Len(t) = cap - 1
    BY <1>4
  <2>3. Len(t) = cap - 1 => 1 \in 1..Len(t)
    BY <1>1
  <2> QED
    BY <1>5, <2>1, <2>2, <2>3
<1>10. TurnedOver(T, p, t, cap, x)
  BY <1>2, <1>3, <1>4, <1>5, <1>6, <1>7 DEF TurnedOver
<1> QED
  BY <1>10 DEF p, t

\* No entry is there twice: then none is remembered twice, nor added twice.
LEMMA LateNoTwice ==
    ASSUME NEW T, NEW q \in Seq(T), NEW cap \in Nat \ {0, 1}, Len(q) <= cap, NoTwice(q),
           NEW t, t = Late(q, cap)
    PROVE  NoTwice(t)
<1>1. Len(q) \in Nat /\ Len(t) = (IF Len(q) = cap THEN cap - 1 ELSE Len(q))
  BY LenProperties, LateIs
<1>2. \A i \in 1..Len(t) : t[i] = IF Len(q) = cap THEN q[i + 1] ELSE q[i]
  BY LateIs, SMTT(30)
<1> SUFFICES ASSUME NEW i \in 1..Len(t), NEW j \in 1..Len(t), t[i] = t[j] PROVE i = j
  BY DEF NoTwice
<1>3. CASE Len(q) = cap
  <2>1. i + 1 \in 1..Len(q) /\ j + 1 \in 1..Len(q) /\ q[i + 1] = q[j + 1]
    BY <1>1, <1>2, <1>3
  <2>2. i + 1 = j + 1
    BY <2>1 DEF NoTwice
  <2> QED
    BY <1>1, <2>2
<1>4. CASE Len(q) # cap
  <2>1. i \in 1..Len(q) /\ j \in 1..Len(q) /\ q[i] = q[j]
    BY <1>1, <1>2, <1>4
  <2> QED
    BY <2>1 DEF NoTwice
<1> QED
  BY <1>3, <1>4

\* The entries after one more is added: it and the others, but for the first
\* of a full list.
LEMMA InPushed ==
    ASSUME NEW T, NEW t \in Seq(T), NEW c \in Nat \ {0}, Len(t) <= c, NEW x \in T,
           NoTwice(t), ~In(x, t), NEW p, p = Pushed(t, x, c)
    PROVE  \A y : In(y, p) <=> (In(y, t) \/ y = x) /\ ~(Len(t) = c /\ y = t[1])
<1>1. p \in Seq(T) /\ Len(p) = (IF Len(t) = c THEN c ELSE Len(t) + 1) /\ p[Len(p)] = x
  BY PushedIs
<1>2. \A i \in 1..Len(p) - 1 : p[i] = IF Len(t) = c THEN t[i + 1] ELSE t[i]
  BY PushedAt
<1>3. Len(t) \in Nat /\ Len(p) \in 1..Len(p) /\ Len(p) \in Nat
  BY <1>1, LenProperties
<1> SUFFICES ASSUME NEW y PROVE In(y, p) <=> (In(y, t) \/ y = x) /\ ~(Len(t) = c /\ y = t[1])
  OBVIOUS
<1>4. In(x, p)
  BY <1>1, <1>3 DEF In
<1>5. Len(t) = c => 1 \in 1..Len(t)
  OBVIOUS
<1>6. ASSUME In(y, p), y # x PROVE In(y, t) /\ ~(Len(t) = c /\ y = t[1])
  <2>1. PICK i \in 1..Len(p) : p[i] = y
    BY <1>6 DEF In
  <2>2. i \in 1..Len(p) - 1
    BY <1>1, <1>3, <1>6, <2>1
  <2>3. CASE Len(t) = c
    <3>1. t[i + 1] = y /\ i + 1 \in 1..Len(t) /\ i + 1 # 1
      BY <1>1, <1>2, <2>1, <2>2, <2>3
    <3> QED
      BY <1>5, <3>1 DEF In, NoTwice
  <2>4. CASE Len(t) # c
    <3>1. t[i] = y /\ i \in 1..Len(t)
      BY <1>1, <1>2, <1>3, <2>1, <2>2, <2>4
    <3> QED
      BY <2>4, <3>1 DEF In
  <2> QED
    BY <2>3, <2>4
<1>7. ASSUME In(y, t), ~(Len(t) = c /\ y = t[1]) PROVE In(y, p)
  <2>1. PICK i \in 1..Len(t) : t[i] = y
    BY <1>7 DEF In
  <2>2. CASE Len(t) = c
    <3>1. i # 1
      BY <1>7, <2>1, <2>2
    <3>2. i - 1 \in 1..Len(p) - 1 /\ i - 1 \in 1..Len(p) /\ (i - 1) + 1 = i
      BY <1>1, <1>3, <2>2, <3>1
    <3>3. p[i - 1] = t[(i - 1) + 1]
      BY <1>2, <2>2, <3>2
    <3> QED
      BY <2>1, <3>2, <3>3 DEF In
  <2>3. CASE Len(t) # c
    <3>1. i \in 1..Len(p) - 1 /\ i \in 1..Len(p)
      BY <1>1, <1>3, <2>3
    <3>2. p[i] = t[i]
      BY <1>2, <2>3, <3>1
    <3> QED
      BY <2>1, <3>1, <3>2 DEF In
  <2> QED
    BY <2>2, <2>3
<1>8. ~(Len(t) = c /\ x = t[1])
  BY <1>5 DEF In
<1> QED
  BY <1>4, <1>6, <1>7, <1>8

-----------------------------------------------------------------------------
(* Keys and indicators                                                     *)

KeyType == Provider \X Nat

\* The keys taken last are remembered; only a doubled one may be among them twice.
KeysOK(seen, order, taken, doubled) ==
    /\ seen \subseteq KeyType /\ order \in Seq(KeyType) /\ Len(order) <= SeenCap /\ doubled \subseteq KeyType
    /\ taken = Late(order, SeenCap)
    /\ \A i, j \in 1..Len(taken) : taken[i] = taken[j] /\ taken[i] \notin doubled => i = j
    /\ \A x : In(x, taken) /\ x \notin doubled => x \in seen

\* Who owns an indicator took it last; it is in the ledger, once.
IocsOK(owner, iocOrder, credited) ==
    /\ owner \in [Ioc -> Provider \cup {Nobody}]
    /\ iocOrder \in Seq(Ioc) /\ Len(iocOrder) <= IocCap /\ NoTwice(iocOrder)
    /\ credited \in Seq(Item) /\ Len(credited) = Len(Late(iocOrder, IocCap))
    /\ \A j \in 1..Len(credited) : /\ Late(iocOrder, IocCap)[j] = credited[j].ioc
                                   /\ owner[credited[j].ioc] = credited[j].source
    /\ \A i \in Ioc : owner[i] # Nobody => In(i, Late(iocOrder, IocCap))

LEMMA CapsAre == {SeenCap, IocCap} \subseteq Nat \ {0, 1} /\ {Quota, MaxPerPoll} \subseteq Nat \ {0}
BY TickerAssumption DEF TickerAssumption

\* A key is taken that is not remembered, or doubled.
LEMMA KeyTaken ==
    ASSUME NEW seen, NEW order, NEW taken, NEW doubled, KeysOK(seen, order, taken, doubled),
           NEW x \in KeyType, In(x, taken) => x \in doubled,
           NEW o, o = Pushed(order, x, SeenCap), NEW t, t = Pushed(taken, x, SeenCap - 1),
           NEW s \in SUBSET KeyType, (seen \cup {x}) \ Forgotten(o, SeenCap) \subseteq s
    PROVE  KeysOK(s, o, t, doubled)
<1> DEFINE cap == SeenCap
           c == SeenCap - 1
<1>1. cap \in Nat \ {0, 1} /\ c \in Nat \ {0}
  BY CapsAre
<1>2. /\ order \in Seq(KeyType) /\ Len(order) <= cap /\ taken = Late(order, cap)
      /\ \A i, j \in 1..Len(taken) : taken[i] = taken[j] /\ taken[i] \notin doubled => i = j
      /\ doubled \subseteq KeyType /\ \A y : In(y, taken) /\ y \notin doubled => y \in seen
  BY DEF KeysOK
<1>3. /\ o \in Seq(KeyType) /\ Len(o) <= cap
      /\ taken \in Seq(KeyType) /\ Len(taken) \in Nat /\ Len(taken) <= c
      /\ Late(o, cap) = t
      /\ Forgotten(o, cap) = (IF Len(taken) = c THEN {taken[1]} ELSE {})
  <2>1. TurnedOver(KeyType, o, taken, cap, x)
    BY <1>1, <1>2, TurnsOver
  <2> QED
    BY <2>1 DEF TurnedOver
<1> HIDE DEF c
<1>4. t = Pushed(taken, x, c)
  BY DEF c
<1>5. t \in Seq(KeyType) /\ Len(t) = (IF Len(taken) = c THEN c ELSE Len(taken) + 1) /\ t[Len(t)] = x
  <2>1. taken \in Seq(KeyType) /\ c \in Nat \ {0} /\ Len(taken) <= c /\ x \in KeyType
    BY <1>1, <1>3
  <2> QED
    BY <1>4, <2>1, PushedIs
<1>6. \A i \in 1..Len(t) - 1 : t[i] = IF Len(taken) = c THEN taken[i + 1] ELSE taken[i]
  BY <1>1, <1>3, <1>4, PushedAt
<1> DEFINE From(i) == IF Len(taken) = c THEN i + 1 ELSE i
<1>7. ASSUME NEW i \in 1..Len(t), i # Len(t)
      PROVE  From(i) \in 1..Len(taken) /\ t[i] = taken[From(i)] /\ (Len(taken) = c => From(i) # 1)
  <2>1. i \in 1..Len(t) - 1
    BY <1>1, <1>3, <1>5, <1>7
  <2>2. From(i) \in 1..Len(taken) /\ (Len(taken) = c => From(i) # 1)
    BY <1>1, <1>3, <1>5, <2>1
  <2> QED
    BY <1>6, <2>1, <2>2
<1>8. \A i, j \in 1..Len(t) : From(i) = From(j) => i = j
  BY <1>1, <1>3, <1>5
<1> HIDE DEF From
<1>9. ASSUME NEW i \in 1..Len(t), i # Len(t), t[i] \notin doubled PROVE t[i] # x
  BY <1>7, <1>9 DEF In
<1>10. ASSUME NEW i \in 1..Len(t), NEW j \in 1..Len(t), t[i] = t[j], t[i] \notin doubled PROVE i = j
  <2>1. CASE i = Len(t) \/ j = Len(t)
    BY <1>5, <1>9, <1>10, <2>1
  <2>2. CASE i # Len(t) /\ j # Len(t)
    BY <1>2, <1>7, <1>8, <1>10, <2>2, SMTT(30)
  <2> QED
    BY <2>1, <2>2
<1>11. ASSUME NEW y, In(y, t), y \notin doubled PROVE y \in s
  <2>1. PICK i \in 1..Len(t) : t[i] = y
    BY <1>11 DEF In
  <2>2. Len(taken) = c => 1 \in 1..Len(taken)
    BY <1>1
  <2>3. CASE i = Len(t)
    <3>1. y = x /\ ~In(x, taken)
      BY <1>5, <1>11, <2>1, <2>3
    <3>2. Len(taken) = c => taken[1] # x
      BY <2>2, <3>1 DEF In
    <3> QED
      BY <1>3, <3>1, <3>2
  <2>4. CASE i # Len(t)
    <3>1. From(i) \in 1..Len(taken) /\ y = taken[From(i)] /\ (Len(taken) = c => From(i) # 1)
      BY <1>7, <2>1, <2>4
    <3>2. Len(taken) = c => taken[1] # y
      BY <1>2, <1>11, <2>2, <3>1
    <3>3. y \in seen
      BY <1>2, <1>11, <3>1 DEF In
    <3> QED
      BY <1>3, <3>2, <3>3
  <2> QED
    BY <2>3, <2>4
<1>12. t = Late(o, SeenCap) /\ Len(o) <= SeenCap
  BY <1>3
<1> QED
  BY <1>2, <1>3, <1>10, <1>11, <1>12 DEF KeysOK

\* The twelve providers
LEMMA Providers ==
    Provider = {"ThreatFox", "URLhaus", "MalwareBazaar", "CISA-KEV", "OpenPhish", "Feodo Tracker",
                "PhishTank", "Spamhaus DROP", "URLhaus-Hosts", "SSLBL", "blocklist.de", "Tor Exit Nodes"}
<1>1. DOMAIN SourceOrder = 1..12
  BY DEF SourceOrder
<1>2. 1..12 = {1, 2, 3, 4, 5, 6, 7, 8, 9, 10, 11, 12}
  OBVIOUS
<1>3. Provider = {SourceOrder[i] : i \in {1, 2, 3, 4, 5, 6, 7, 8, 9, 10, 11, 12}}
  BY <1>1, <1>2 DEF Provider, ToSet
<1>4. /\ SourceOrder[1] = "ThreatFox" /\ SourceOrder[2] = "URLhaus" /\ SourceOrder[3] = "MalwareBazaar"
      /\ SourceOrder[4] = "CISA-KEV" /\ SourceOrder[5] = "OpenPhish" /\ SourceOrder[6] = "Feodo Tracker"
      /\ SourceOrder[7] = "PhishTank" /\ SourceOrder[8] = "Spamhaus DROP" /\ SourceOrder[9] = "URLhaus-Hosts"
      /\ SourceOrder[10] = "SSLBL" /\ SourceOrder[11] = "blocklist.de" /\ SourceOrder[12] = "Tor Exit Nodes"
  BY DEF SourceOrder
<1> QED
  BY <1>3, <1>4, ZenonT(40)

\* An indicator that nobody owns is taken.
LEMMA IocTaken ==
    ASSUME NEW owner, NEW order, NEW credited, IocsOK(owner, order, credited),
           NEW item \in Item, owner[item.ioc] = Nobody,
           NEW o, o = Pushed(order, item.ioc, IocCap), NEW cr, cr = Pushed(credited, item, IocCap - 1),
           NEW w, w = [i \in Ioc |-> IF i \in Forgotten(o, IocCap) THEN Nobody
                                     ELSE IF i = item.ioc THEN item.source ELSE owner[i]]
    PROVE  IocsOK(w, o, cr)
<1> DEFINE cap == IocCap
           c == IocCap - 1
           x == item.ioc
           t == Late(order, cap)
           n == Late(o, cap)
<1>1. cap \in Nat \ {0, 1} /\ c \in Nat \ {0}
  BY CapsAre
<1>2. x \in Ioc /\ item.source \in Provider /\ \A p \in Provider : p # Nobody
  <2>1. \A p \in Provider : p # Nobody
    BY Providers DEF Nobody
  <2> QED
    BY <2>1 DEF Item
<1>3. /\ owner \in [Ioc -> Provider \cup {Nobody}]
      /\ order \in Seq(Ioc) /\ Len(order) <= cap /\ NoTwice(order)
      /\ credited \in Seq(Item) /\ Len(credited) = Len(t)
      /\ \A j \in 1..Len(credited) : t[j] = credited[j].ioc /\ owner[credited[j].ioc] = credited[j].source
      /\ \A i \in Ioc : owner[i] # Nobody => In(i, t)
  BY DEF IocsOK
<1>4. t = Late(order, cap)
  OBVIOUS
<1>5. n = Late(o, cap)
  OBVIOUS
<1> HIDE DEF t, n
<1>6. /\ o \in Seq(Ioc) /\ Len(o) <= cap /\ Len(o) = Len(t) + 1 /\ o[Len(o)] = x
      /\ t \in Seq(Ioc) /\ Len(t) \in Nat /\ Len(t) <= c
      /\ \A i \in 1..Len(t) : o[i] = t[i]
      /\ n = Pushed(t, x, c)
      /\ Forgotten(o, cap) = (IF Len(t) = c THEN {t[1]} ELSE {})
  <2>1. TurnedOver(Ioc, o, t, cap, x)
    BY <1>1, <1>2, <1>3, <1>4, TurnsOver
  <2> QED
    BY <1>5, <2>1 DEF TurnedOver
<1>7. NoTwice(t)
  BY <1>1, <1>3, <1>4, LateNoTwice
<1>8. ~In(x, t)
  <2> SUFFICES ASSUME In(x, t) PROVE FALSE
    OBVIOUS
  <2>1. PICK j \in 1..Len(t) : t[j] = x
    BY DEF In
  <2>2. j \in 1..Len(credited) /\ credited[j] \in Item /\ owner[x] = credited[j].source
    BY <1>3, <2>1, ElementOfSeq
  <2> QED
    BY <1>2, <2>2 DEF Item
<1>9. NoTwice(o)
  <2> SUFFICES ASSUME NEW i \in 1..Len(o), NEW j \in 1..Len(o), o[i] = o[j] PROVE i = j
    BY DEF NoTwice
  <2>1. \A k \in 1..Len(o) : k = Len(o) \/ k \in 1..Len(t)
    BY <1>6
  <2>2. \A k \in 1..Len(t) : o[k] = t[k] /\ t[k] # x
    BY <1>6, <1>8 DEF In
  <2> QED
    BY <1>6, <1>7, <2>1, <2>2 DEF NoTwice
<1>10. \A y : In(y, n) <=> (In(y, t) \/ y = x) /\ ~(Len(t) = c /\ y = t[1])
  <2> HIDE DEF x, c
  <2> QED
    BY <1>1, <1>2, <1>6, <1>7, <1>8, InPushed
<1>11. w \in [Ioc -> Provider \cup {Nobody}]
  BY <1>2, <1>3
<1>12. \A i \in Ioc : w[i] = IF Len(t) = c /\ i = t[1] THEN Nobody ELSE IF i = x THEN item.source ELSE owner[i]
  BY <1>6
<1>13. \A i \in Ioc : w[i] # Nobody => In(i, n)
  BY <1>3, <1>10, <1>12
<1>14. cr = Pushed(credited, item, c)
  OBVIOUS
<1> HIDE DEF c, x
<1>21. credited \in Seq(Item) /\ Len(credited) <= c /\ c \in Nat \ {0}
  BY <1>1, <1>3, <1>6
<1>22. t \in Seq(Ioc) /\ Len(t) <= c /\ c \in Nat \ {0} /\ x \in Ioc
  BY <1>1, <1>2, <1>6
<1>23. n = Pushed(t, x, c)
  BY <1>6
<1>15. /\ cr \in Seq(Item) /\ Len(cr) = (IF Len(t) = c THEN c ELSE Len(t) + 1) /\ cr[Len(cr)] = item
  <2>1. cr \in Seq(Item) /\ Len(cr) = (IF Len(credited) = c THEN c ELSE Len(credited) + 1) /\ cr[Len(cr)] = item
    BY <1>14, <1>21, PushedIs
  <2> QED
    BY <1>3, <2>1
<1>16. \A j \in 1..Len(cr) - 1 : cr[j] = IF Len(t) = c THEN credited[j + 1] ELSE credited[j]
  BY <1>1, <1>3, <1>6, <1>14, PushedAt
<1>17. Len(n) = Len(cr) /\ n[Len(n)] = x
  <2>1. Len(n) = (IF Len(t) = c THEN c ELSE Len(t) + 1) /\ n[Len(n)] = x
    BY <1>22, <1>23, PushedIs
  <2> QED
    BY <1>15, <2>1
<1>18. \A j \in 1..Len(n) - 1 : n[j] = IF Len(t) = c THEN t[j + 1] ELSE t[j]
  BY <1>1, <1>2, <1>6, PushedAt
<1>19. Len(cr) \in Nat \ {0}
  BY <1>1, <1>6, <1>15
<1>20. ASSUME NEW j \in 1..Len(cr) PROVE n[j] = cr[j].ioc /\ w[cr[j].ioc] = cr[j].source
  <2>1. CASE j = Len(cr)
    <3>1. n[j] = x /\ cr[j] = item
      BY <1>15, <1>17, <2>1
    <3>2. w[x] = item.source
      <4>1. ~(Len(t) = c /\ x = t[1])
        BY <1>1, <1>8 DEF In
      <4> QED
        BY <1>2, <1>12, <4>1
    <3> QED
      BY <3>1, <3>2 DEF x
  <2>2. CASE j # Len(cr)
    <3>1. PICK k \in 1..Len(t) : /\ cr[j] = credited[k] /\ n[j] = t[k]
                                 /\ Len(t) = c => k # 1
      <4>1. j \in 1..Len(cr) - 1 /\ j \in 1..Len(n) - 1
        BY <1>17, <1>19, <2>2
      <4>2. CASE Len(t) = c
        <5>1. j + 1 \in 1..Len(t) /\ j + 1 # 1
          BY <1>1, <1>15, <4>1, <4>2
        <5> QED
          BY <1>16, <1>18, <4>1, <4>2, <5>1
      <4>3. CASE Len(t) # c
        <5>1. j \in 1..Len(t)
          BY <1>6, <1>15, <4>1, <4>3
        <5> QED
          BY <1>16, <1>18, <4>1, <4>3, <5>1
      <4> QED
        BY <4>2, <4>3
    <3>2. t[k] = credited[k].ioc /\ owner[credited[k].ioc] = credited[k].source /\ t[k] \in Ioc /\ t[k] # x
      BY <1>3, <1>6, <1>8, ElementOfSeq DEF In
    <3>3. Len(t) = c => t[k] # t[1]
      BY <1>1, <1>7, <3>1 DEF NoTwice
    <3> QED
      BY <1>12, <3>1, <3>2, <3>3
  <2> QED
    BY <2>1, <2>2
<1> QED
  BY <1>5, <1>6, <1>9, <1>11, <1>13, <1>15, <1>17, <1>20 DEF IocsOK

-----------------------------------------------------------------------------
(* One item                                                                *)

Memory == [seen : SUBSET KeyType, order : Seq(KeyType),
           owner : [Ioc -> Provider \cup {Nobody}], iocOrder : Seq(Ioc)]
Ledger == [taken : Seq(KeyType), doubled : SUBSET KeyType, credited : Seq(Item),
           repeats : BOOLEAN, clashes : BOOLEAN, unfair : BOOLEAN]

MemoryOK(m, l) ==
    /\ m \in Memory /\ l \in Ledger
    /\ KeysOK(m.seen, m.order, l.taken, l.doubled)
    /\ IocsOK(m.owner, m.iocOrder, l.credited)
    /\ ~l.repeats /\ ~l.clashes

\* Who owns an indicator is in the ledger.
LEMMA CreditedIs ==
    ASSUME NEW m, NEW l, IocsOK(m.owner, m.iocOrder, l.credited), NEW item \in Item
    PROVE  /\ Credited(l, item, FALSE) <=> m.owner[item.ioc] # Nobody
           /\ Credited(l, item, TRUE) => OwnedByOther(m, item)
<1>1. /\ l.credited \in Seq(Item) /\ DOMAIN l.credited = 1..Len(l.credited)
      /\ \A j \in 1..Len(l.credited) : l.credited[j] \in Item
      /\ Len(l.credited) = Len(Late(m.iocOrder, IocCap))
      /\ \A j \in 1..Len(l.credited) : /\ Late(m.iocOrder, IocCap)[j] = l.credited[j].ioc
                                       /\ m.owner[l.credited[j].ioc] = l.credited[j].source
      /\ \A i \in Ioc : m.owner[i] # Nobody => In(i, Late(m.iocOrder, IocCap))
  <2>1. l.credited \in Seq(Item)
    BY DEF IocsOK
  <2> QED
    BY <2>1, LenProperties, ElementOfSeq DEF IocsOK
<1>2. \A i \in Item : i.source # Nobody /\ i.ioc \in Ioc
  BY Providers DEF Item, Nobody
<1>3. ASSUME Credited(l, item, FALSE) PROVE m.owner[item.ioc] # Nobody
  <2>1. PICK j \in 1..Len(l.credited) : l.credited[j].ioc = item.ioc
    BY <1>1, <1>3 DEF Credited
  <2> QED
    BY <1>1, <1>2, <2>1
<1>4. ASSUME m.owner[item.ioc] # Nobody PROVE Credited(l, item, FALSE)
  <2>1. PICK j \in 1..Len(l.credited) : Late(m.iocOrder, IocCap)[j] = item.ioc
    BY <1>1, <1>2, <1>4 DEF In
  <2> QED
    BY <1>1, <2>1 DEF Credited
<1>5. ASSUME Credited(l, item, TRUE) PROVE OwnedByOther(m, item)
  <2>1. PICK j \in 1..Len(l.credited) : l.credited[j].ioc = item.ioc /\ l.credited[j].source # item.source
    BY <1>1, <1>5 DEF Credited
  <2> QED
    BY <1>1, <1>2, <2>1 DEF OwnedByOther
<1> QED
  BY <1>3, <1>4, <1>5

\* An indicator is taken if nobody owns it, in memory and ledger alike.
CreditedAfter(l, item) ==
    IF Credited(l, item, FALSE) THEN l.credited ELSE Pushed(l.credited, item, IocCap - 1)

LEMMA TriedKeeps ==
    ASSUME NEW m \in Memory, NEW l, IocsOK(m.owner, m.iocOrder, l.credited), NEW item \in Item,
           NEW n, n = Tried(m, item)
    PROVE  /\ n \in Memory /\ n.seen = m.seen /\ n.order = m.order
           /\ IocsOK(n.owner, n.iocOrder, CreditedAfter(l, item))
<1>1. Credited(l, item, FALSE) <=> m.owner[item.ioc] # Nobody
  BY CreditedIs
<1>2. CASE m.owner[item.ioc] # Nobody
  <2>1. n = m
    BY <1>2 DEF Tried, Own
  <2>2. CreditedAfter(l, item) = l.credited
    BY <1>1, <1>2 DEF CreditedAfter
  <2> QED
    BY <2>1, <2>2
<1>3. CASE m.owner[item.ioc] = Nobody
  <2> DEFINE o == Pushed(m.iocOrder, item.ioc, IocCap)
             w == [i \in Ioc |-> IF i \in Forgotten(o, IocCap) THEN Nobody
                                 ELSE IF i = item.ioc THEN item.source ELSE m.owner[i]]
             cr == Pushed(l.credited, item, IocCap - 1)
  <2>1. n = [m EXCEPT !.iocOrder = o, !.owner = w]
    BY <1>3 DEF Tried, Own, OwnedByOther
  <2>2. CreditedAfter(l, item) = cr
    BY <1>1, <1>3 DEF CreditedAfter
  <2>3. o = Pushed(m.iocOrder, item.ioc, IocCap) /\ cr = Pushed(l.credited, item, IocCap - 1)
    OBVIOUS
  <2>4. w = [i \in Ioc |-> IF i \in Forgotten(o, IocCap) THEN Nobody
                           ELSE IF i = item.ioc THEN item.source ELSE m.owner[i]]
    OBVIOUS
  <2> HIDE DEF o, w, cr
  <2>5. IocsOK(w, o, cr)
    BY <1>3, <2>3, <2>4, IocTaken
  <2>6. w \in [Ioc -> Provider \cup {Nobody}] /\ o \in Seq(Ioc)
    BY <2>5 DEF IocsOK
  <2>7. n \in Memory /\ n.seen = m.seen /\ n.order = m.order /\ n.owner = w /\ n.iocOrder = o
    BY <2>1, <2>6 DEF Memory
  <2> QED
    BY <2>2, <2>5, <2>7
<1> QED
  BY <1>2, <1>3

Work == [m : Memory, new : Seq(Item), l : Ledger]
WorkOK(a) == a \in Work /\ MemoryOK(a.m, a.l)

LEMMA KeyIs == \A item \in Item : Key(item) \in KeyType
BY DEF Key, Item, KeyType

\* A key and its indicator are taken.
LEMMA TakenKeeps ==
    ASSUME NEW m, NEW l, MemoryOK(m, l), NEW item \in Item, In(Key(item), l.taken) => Key(item) \in l.doubled,
           NEW n \in Memory, n.owner = m.owner, n.iocOrder = m.iocOrder,
           n.order = Pushed(m.order, Key(item), SeenCap),
           (m.seen \cup {Key(item)}) \ Forgotten(n.order, SeenCap) \subseteq n.seen
    PROVE  MemoryOK(Tried(n, item), Recorded(l, item)) /\ Recorded(l, item).unfair = l.unfair
<1> DEFINE key == Key(item)
           t == Pushed(l.taken, key, SeenCap - 1)
           n2 == Tried(n, item)
           r == Recorded(l, item)
<1>1. /\ l \in Ledger /\ KeysOK(m.seen, m.order, l.taken, l.doubled)
      /\ IocsOK(n.owner, n.iocOrder, l.credited) /\ ~l.repeats /\ ~l.clashes
  BY DEF MemoryOK
<1>2. key \in KeyType /\ n.seen \in SUBSET KeyType
  BY KeyIs DEF Memory
<1>3. r = [l EXCEPT !.taken = t, !.credited = CreditedAfter(l, item)]
  BY <1>1 DEF Recorded, CreditedAfter, Ledger
<1>4. n2 \in Memory /\ n2.seen = n.seen /\ n2.order = n.order
  BY <1>1, TriedKeeps
<1>5. IocsOK(n2.owner, n2.iocOrder, CreditedAfter(l, item))
  BY <1>1, TriedKeeps
<1>6. t = Pushed(l.taken, key, SeenCap - 1)
  OBVIOUS
<1>7. /\ In(key, l.taken) => key \in l.doubled
      /\ n.order = Pushed(m.order, key, SeenCap)
      /\ (m.seen \cup {key}) \ Forgotten(n.order, SeenCap) \subseteq n.seen
  OBVIOUS
<1> HIDE DEF key, t, n2, r
<1>8. KeysOK(n.seen, n.order, t, l.doubled)
  BY <1>1, <1>2, <1>6, <1>7, KeyTaken
<1>9. t \in Seq(KeyType)
  <2>1. t = Late(n.order, SeenCap) /\ n.order \in Seq(KeyType) /\ Len(n.order) <= SeenCap
    BY <1>8 DEF KeysOK
  <2> QED
    BY <2>1, CapsAre, LateIs
<1>10. CreditedAfter(l, item) \in Seq(Item)
  BY <1>5 DEF IocsOK
<1>11. /\ r \in Ledger /\ r.taken = t /\ r.doubled = l.doubled /\ r.credited = CreditedAfter(l, item)
       /\ r.repeats = l.repeats /\ r.clashes = l.clashes /\ r.unfair = l.unfair
  BY <1>1, <1>3, <1>9, <1>10 DEF Ledger
<1>12. MemoryOK(n2, r)
  BY <1>1, <1>4, <1>5, <1>8, <1>11 DEF MemoryOK
<1> QED
  BY <1>11, <1>12 DEF n2, r

\* An item of a later poll: it is new, or known, or somebody else's.
LEMMA NotedKeeps ==
    ASSUME NEW a, WorkOK(a), NEW item \in Item, NEW b, b = Noted(a, item)
    PROVE  WorkOK(b) /\ b.l.unfair = a.l.unfair
<1> DEFINE key == Key(item)
           o == Pushed(a.m.order, key, SeenCap)
           n == [a.m EXCEPT !.order = o, !.seen = (a.m.seen \cup {key}) \ Forgotten(o, SeenCap)]
<1>1. /\ a \in Work /\ MemoryOK(a.m, a.l) /\ a.m \in Memory /\ a.l \in Ledger /\ a.new \in Seq(Item)
      /\ KeysOK(a.m.seen, a.m.order, a.l.taken, a.l.doubled) /\ ~a.l.repeats /\ ~a.l.clashes
      /\ IocsOK(a.m.owner, a.m.iocOrder, a.l.credited)
  BY DEF WorkOK, Work, MemoryOK
<1>2. key \in KeyType
  BY KeyIs
<1>3. CASE key \in a.m.seen
  BY <1>3 DEF Noted
<1>4. CASE key \notin a.m.seen
  <2>0. In(key, a.l.taken) => key \in a.l.doubled
    BY <1>1, <1>4 DEF KeysOK
  <2>1. n = Remember(a.m, key)
    BY DEF Remember
  <2>2. /\ n \in Memory /\ n.owner = a.m.owner /\ n.iocOrder = a.m.iocOrder
        /\ n.order = o /\ n.seen = (a.m.seen \cup {key}) \ Forgotten(n.order, SeenCap)
    <3>1. o \in Seq(KeyType)
      <4>1. a.m.order \in Seq(KeyType) /\ Len(a.m.order) <= SeenCap /\ SeenCap \in Nat \ {0}
        BY <1>1, CapsAre DEF KeysOK
      <4>2. o = Pushed(a.m.order, key, SeenCap)
        OBVIOUS
      <4> HIDE DEF o, key
      <4> QED
        BY <1>2, <4>1, <4>2, PushedIs
    <3> HIDE DEF o, key
    <3> QED
      BY <1>1, <1>2, <3>1 DEF Memory
  <2> HIDE DEF n
  <2>3. MemoryOK(Tried(n, item), Recorded(a.l, item)) /\ Recorded(a.l, item).unfair = a.l.unfair
    BY <1>1, <2>0, <2>2, TakenKeeps
  <2>4. OwnedByOther(n, item) <=> OwnedByOther(a.m, item)
    BY <2>2 DEF OwnedByOther
  <2>5. Recorded(a.l, item) \in Ledger
    BY <2>3 DEF MemoryOK
  <2>6. CASE OwnedByOther(n, item)
    <3>1. b = [a EXCEPT !.m = n, !.l = Recorded(a.l, item)]
      BY <1>4, <2>1, <2>4, <2>6 DEF Noted
    <3>2. Tried(n, item) = n
      BY <2>6 DEF Tried
    <3>3. b \in Work /\ b.m = n /\ b.l = Recorded(a.l, item) /\ b.new = a.new
      BY <1>1, <2>2, <2>5, <3>1 DEF Work
    <3> QED
      BY <2>3, <3>2, <3>3 DEF WorkOK
  <2>7. CASE ~OwnedByOther(n, item)
    <3>1. b = [m |-> Own(n, item), new |-> Append(a.new, item), l |-> Recorded(Judged(a.l, item), item)]
      BY <1>4, <2>1, <2>4, <2>7 DEF Noted
    <3>2. Judged(a.l, item) = a.l
      <4>1. ~(Contains(a.l.taken, key) /\ key \notin a.l.doubled) /\ ~Credited(a.l, item, TRUE)
        BY <1>1, <2>0, <2>4, <2>7, CreditedIs DEF Contains, In
      <4>2. Judged(a.l, item) = [a.l EXCEPT !.repeats = FALSE, !.clashes = FALSE]
        BY <1>1, <4>1 DEF Judged
      <4> QED
        BY <1>1, <4>2 DEF Ledger
    <3>3. Own(n, item) = Tried(n, item) /\ Tried(n, item) \in Memory
      BY <2>3, <2>7 DEF Tried, MemoryOK
    <3>4. Append(a.new, item) \in Seq(Item)
      BY <1>1, AppendProperties
    <3>5. b \in Work /\ b.m = Tried(n, item) /\ b.l = Recorded(a.l, item) /\ b.new = Append(a.new, item)
      BY <2>5, <3>1, <3>2, <3>3, <3>4 DEF Work
    <3> QED
      BY <2>3, <3>5 DEF WorkOK
  <2> QED
    BY <2>6, <2>7
<1> QED
  BY <1>3, <1>4

\* An item of the first poll is taken, be it listed before or not.
LEMMA TrackedKeeps ==
    ASSUME NEW a, WorkOK(a), NEW item \in Item, NEW b, b = Tracked(a, item)
    PROVE  WorkOK(b) /\ b.l.unfair = a.l.unfair
<1> DEFINE key == Key(item)
           o == Pushed(a.m.order, key, SeenCap)
           n == [a.m EXCEPT !.seen = a.m.seen \cup {key}, !.order = o]
           l == Listed(a.l, item)
<1>1. /\ a \in Work /\ MemoryOK(a.m, a.l) /\ a.m \in Memory /\ a.l \in Ledger
      /\ KeysOK(a.m.seen, a.m.order, a.l.taken, a.l.doubled)
  BY DEF WorkOK, Work, MemoryOK
<1>2. key \in KeyType
  BY KeyIs
<1>3. b = [a EXCEPT !.m = Tried(n, item), !.l = Recorded(l, item)]
  BY DEF Tracked
<1>4. /\ n \in Memory /\ n.owner = a.m.owner /\ n.iocOrder = a.m.iocOrder
      /\ n.order = o /\ n.seen = a.m.seen \cup {key}
  <2>1. o \in Seq(KeyType)
    <3>1. a.m.order \in Seq(KeyType) /\ Len(a.m.order) <= SeenCap /\ SeenCap \in Nat \ {0}
      BY <1>1, CapsAre DEF KeysOK
    <3>2. o = Pushed(a.m.order, key, SeenCap)
      OBVIOUS
    <3> HIDE DEF o, key
    <3> QED
      BY <1>2, <3>1, <3>2, PushedIs
  <2> HIDE DEF o, key
  <2> QED
    BY <1>1, <1>2, <2>1 DEF Memory
<1>5. MemoryOK(a.m, l) /\ (In(key, l.taken) => key \in l.doubled) /\ l.unfair = a.l.unfair
  <2> DEFINE d == IF Contains(a.l.taken, key) THEN a.l.doubled \cup {key} ELSE a.l.doubled
  <2>1. l = [a.l EXCEPT !.doubled = d]
    BY <1>1 DEF Listed, Ledger
  <2>2. d \subseteq KeyType /\ a.l.doubled \subseteq d /\ (In(key, a.l.taken) => key \in d)
    BY <1>1, <1>2 DEF Contains, In, Ledger
  <2> HIDE DEF d
  <2>3. /\ l \in Ledger /\ l.taken = a.l.taken /\ l.credited = a.l.credited /\ l.doubled = d
        /\ l.repeats = a.l.repeats /\ l.clashes = a.l.clashes /\ l.unfair = a.l.unfair
    BY <1>1, <2>1, <2>2 DEF Ledger
  <2>4. KeysOK(a.m.seen, a.m.order, a.l.taken, d)
    BY <1>1, <2>2 DEF KeysOK
  <2> HIDE DEF l
  <2> QED
    BY <1>1, <2>2, <2>3, <2>4 DEF MemoryOK
<1> HIDE DEF n, l
<1>6. MemoryOK(Tried(n, item), Recorded(l, item)) /\ Recorded(l, item).unfair = l.unfair
  BY <1>4, <1>5, TakenKeeps
<1>7. b \in Work /\ b.m = Tried(n, item) /\ b.l = Recorded(l, item)
  BY <1>1, <1>3, <1>6 DEF Work, MemoryOK
<1> QED
  BY <1>5, <1>6, <1>7 DEF WorkOK

-----------------------------------------------------------------------------
(* What is remembered is in the deque, or it would never be forgotten; the *)
(* first entry of a full deque is not remembered any more, so that nothing *)
(* is lost with it.  Only a deque that nothing was put in remembers        *)
(* nothing, and the first poll does not fill it.                           *)

Queued(m) ==
    /\ \A x \in m.seen : In(x, m.order)
    /\ Len(m.order) = SeenCap => m.order[1] \notin m.seen
    /\ m.seen = {} => m.order = <<>>

\* Who owns an indicator says nothing of the keys.
LEMMA OwnersApart ==
    ASSUME NEW m \in Memory, NEW item
    PROVE  /\ Own(m, item).seen = m.seen /\ Own(m, item).order = m.order
           /\ Tried(m, item).seen = m.seen /\ Tried(m, item).order = m.order
<1>1. Own(m, item).seen = m.seen /\ Own(m, item).order = m.order
  <2>1. ASSUME NEW o, NEW w
        PROVE  [m EXCEPT !.iocOrder = o, !.owner = w].seen = m.seen
               /\ [m EXCEPT !.iocOrder = o, !.owner = w].order = m.order
    BY DEF Memory
  <2> QED
    BY <2>1 DEF Own
<1> QED
  BY <1>1 DEF Tried

LEMMA QueuedAsOf ==
    ASSUME NEW m, NEW n, Queued(m), n.seen = m.seen, n.order = m.order
    PROVE  Queued(n)
BY DEF Queued

\* A key more is remembered, and at most one that is not the last is forgotten.
LEMMA RememberQueues ==
    ASSUME NEW m \in Memory, Len(m.order) <= SeenCap, Queued(m), m.seen # {},
           NEW key \in KeyType, key \notin m.seen, NEW n, n = Remember(m, key)
    PROVE  Queued(n) /\ n.seen # {}
<1> DEFINE o == Pushed(m.order, key, SeenCap)
<1>1. SeenCap \in Nat \ {0, 1} /\ m.order \in Seq(KeyType) /\ Len(m.order) \in Nat
  BY CapsAre, LenProperties DEF Memory
<1>2. o = Pushed(m.order, key, SeenCap)
  OBVIOUS
<1>3. n.order = o /\ n.seen = (m.seen \cup {key}) \ Forgotten(o, SeenCap)
  BY DEF Remember, Memory
<1> HIDE DEF o
<1>4. /\ o \in Seq(KeyType) /\ Len(o) = (IF Len(m.order) = SeenCap THEN SeenCap ELSE Len(m.order) + 1)
      /\ o[Len(o)] = key
  BY <1>1, <1>2, PushedIs
<1>5. \A i \in 1..Len(o) - 1 : o[i] = IF Len(m.order) = SeenCap THEN m.order[i + 1] ELSE m.order[i]
  BY <1>1, <1>2, PushedAt
<1>6. ASSUME NEW x \in n.seen PROVE In(x, o)
  <2>1. CASE x = key
    BY <1>1, <1>4, <2>1 DEF In
  <2>2. CASE x # key
    <3>1. x \in m.seen
      BY <1>3, <2>2
    <3>2. PICK i \in 1..Len(m.order) : m.order[i] = x
      BY <3>1 DEF Queued, In
    <3>3. CASE Len(m.order) = SeenCap
      <4>1. i # 1
        BY <3>1, <3>2, <3>3 DEF Queued
      <4>2. i - 1 \in 1..Len(o) - 1 /\ i - 1 \in 1..Len(o) /\ (i - 1) + 1 = i
        BY <1>1, <1>4, <3>3, <4>1
      <4>3. o[i - 1] = m.order[(i - 1) + 1]
        BY <1>5, <3>3, <4>2
      <4> QED
        BY <3>2, <4>2, <4>3 DEF In
    <3>4. CASE Len(m.order) # SeenCap
      <4>1. i \in 1..Len(o) - 1 /\ i \in 1..Len(o)
        BY <1>1, <1>4, <3>4
      <4> QED
        BY <1>5, <3>2, <3>4, <4>1 DEF In
    <3> QED
      BY <3>3, <3>4
  <2> QED
    BY <2>1, <2>2
<1>7. Len(o) = SeenCap => o[1] \notin n.seen
  BY <1>3 DEF Forgotten
<1>8. n.seen # {}
  <2>1. PICK x \in m.seen : TRUE
    OBVIOUS
  <2>2. x # key
    BY <2>1
  <2>3. x \in Forgotten(o, SeenCap) => key \notin Forgotten(o, SeenCap)
    BY <2>2 DEF Forgotten
  <2> QED
    BY <1>3, <2>1, <2>3
<1> QED
  BY <1>3, <1>6, <1>7, <1>8 DEF Queued

LEMMA NotedQueues ==
    ASSUME NEW a, WorkOK(a), Queued(a.m), a.m.seen # {}, NEW item \in Item, NEW b, b = Noted(a, item)
    PROVE  Queued(b.m) /\ b.m.seen # {}
<1> DEFINE key == Key(item)
           n == Remember(a.m, key)
<1>1. a \in Work /\ a.m \in Memory /\ Len(a.m.order) <= SeenCap /\ key \in KeyType
  BY KeyIs DEF WorkOK, Work, MemoryOK, KeysOK
<1>2. CASE key \in a.m.seen
  BY <1>2 DEF Noted
<1>3. CASE key \notin a.m.seen
  <2>1. Queued(n) /\ n.seen # {}
    BY <1>1, <1>3, RememberQueues
  <2>2. n \in Memory
    <3> DEFINE o == Pushed(a.m.order, key, SeenCap)
    <3>1. o \in Seq(KeyType)
      <4>1. a.m.order \in Seq(KeyType) /\ SeenCap \in Nat \ {0}
        BY <1>1, CapsAre DEF Memory
      <4> HIDE DEF key
      <4> QED
        BY <1>1, <4>1, PushedIs
    <3> HIDE DEF o, key
    <3> QED
      BY <1>1, <3>1 DEF Remember, Memory, o
  <2>3. b.m = n \/ b.m = Own(n, item)
    BY <1>1, <1>3 DEF Noted, Work
  <2>4. b.m.seen = n.seen /\ b.m.order = n.order
    BY <2>2, <2>3, OwnersApart
  <2> QED
    BY <2>1, <2>4, QueuedAsOf
<1> QED
  BY <1>2, <1>3

LEMMA TrackedQueues ==
    ASSUME NEW a, WorkOK(a), Queued(a.m), Len(a.m.order) + 1 < SeenCap, NEW item \in Item,
           NEW b, b = Tracked(a, item)
    PROVE  Queued(b.m) /\ Len(b.m.order) = Len(a.m.order) + 1
<1> DEFINE key == Key(item)
           o == Pushed(a.m.order, key, SeenCap)
           n == [a.m EXCEPT !.seen = a.m.seen \cup {key}, !.order = o]
<1>1. /\ a \in Work /\ a.m \in Memory /\ key \in KeyType /\ SeenCap \in Nat \ {0}
      /\ a.m.order \in Seq(KeyType) /\ Len(a.m.order) \in Nat
  <2>1. a \in Work /\ a.m \in Memory /\ a.m.order \in Seq(KeyType)
    BY DEF WorkOK, Work, Memory
  <2> QED
    BY <2>1, KeyIs, CapsAre, LenProperties
<1>2. b.m = Tried(n, item)
  BY <1>1 DEF Tracked, Work
<1>3. o = Pushed(a.m.order, key, SeenCap)
  OBVIOUS
<1> HIDE DEF o, key
<1>4. /\ o \in Seq(KeyType) /\ Len(o) = Len(a.m.order) + 1 /\ o[Len(o)] = key
  <2>1. Len(a.m.order) <= SeenCap /\ Len(a.m.order) # SeenCap
    BY <1>1
  <2>2. /\ o \in Seq(KeyType) /\ o[Len(o)] = key
        /\ Len(o) = IF Len(a.m.order) = SeenCap THEN SeenCap ELSE Len(a.m.order) + 1
    BY <1>1, <1>3, <2>1, PushedIs
  <2> QED
    BY <2>1, <2>2
<1>5. \A i \in 1..Len(o) - 1 : o[i] = a.m.order[i]
  BY <1>1, <1>3, PushedAt
<1>6. n \in Memory /\ n.seen = a.m.seen \cup {key} /\ n.order = o
  BY <1>1, <1>4 DEF Memory
<1> HIDE DEF n
<1>7. b.m.seen = a.m.seen \cup {key} /\ b.m.order = o
  BY <1>2, <1>6, OwnersApart
<1>8. ASSUME NEW x \in a.m.seen \cup {key} PROVE In(x, o)
  <2>1. CASE x = key
    BY <1>1, <1>4, <2>1 DEF In
  <2>2. CASE x \in a.m.seen
    <3>1. PICK i \in 1..Len(a.m.order) : a.m.order[i] = x
      BY <2>2 DEF Queued, In
    <3>2. i \in 1..Len(o) - 1 /\ i \in 1..Len(o)
      BY <1>1, <1>4
    <3> QED
      BY <1>5, <3>1, <3>2 DEF In
  <2> QED
    BY <2>1, <2>2
<1>9. Len(o) # SeenCap
  BY <1>1, <1>4
<1> QED
  BY <1>4, <1>7, <1>8, <1>9 DEF Queued

-----------------------------------------------------------------------------
(* All items                                                               *)

\* After's function: what has become of the first m items
TakenBy(first, a, item) == IF first THEN Tracked(a, item) ELSE Noted(a, item)
Folded(first, start, items, m, f) ==
    f = [i \in 0..m |-> IF i = 0 THEN start
                        ELSE IF first THEN Tracked(f[i - 1], items[i]) ELSE Noted(f[i - 1], items[i])]

\* There is one, for any number of items.
LEMMA FoldedExists ==
    ASSUME NEW first, NEW start, NEW items, NEW n \in Nat
    PROVE  \E f : Folded(first, start, items, n, f)
<1> DEFINE Bad == {m \in Nat : ~\E f : Folded(first, start, items, m, f)}
<1> SUFFICES ASSUME Bad # {} PROVE FALSE
  OBVIOUS
<1>1. Bad \subseteq Nat
  OBVIOUS
<1>2. PICK m \in Bad : \A l \in Bad : m <= l
  <2> HIDE DEF Bad
  <2> QED
    BY <1>1, FirstIs
<1>3. m \in Nat /\ ~\E f : Folded(first, start, items, m, f)
  OBVIOUS
<1>4. CASE m = 0
  <2> DEFINE e == [i \in 0..0 |-> start]
  <2>1. e = [i \in 0..0 |-> IF i = 0 THEN start
                            ELSE IF first THEN Tracked(e[i - 1], items[i]) ELSE Noted(e[i - 1], items[i])]
    <3>1. \A i \in 0..0 : i = 0
      OBVIOUS
    <3> QED
      BY <3>1
  <2>2. Folded(first, start, items, m, e)
    BY <1>4, <2>1 DEF Folded
  <2> QED
    BY <1>3, <2>2
<1>5. CASE m # 0
  <2>1. m - 1 \in Nat /\ ~(m <= m - 1)
    BY <1>3, <1>5
  <2>2. m - 1 \notin Bad
    BY <1>2, <2>1
  <2>3. PICK f : Folded(first, start, items, m - 1, f)
    BY <2>1, <2>2
  <2> DEFINE g == [i \in 0..m |-> IF i = m THEN TakenBy(first, f[m - 1], items[m]) ELSE f[i]]
  <2>4. \A i \in 0..m - 1 : f[i] = IF i = 0 THEN start ELSE TakenBy(first, f[i - 1], items[i])
    BY <2>3 DEF Folded, TakenBy
  <2>5. \A i \in 0..m : g[i] = IF i = 0 THEN start ELSE TakenBy(first, g[i - 1], items[i])
    <3> TAKE i \in 0..m
    <3>1. i # 0 => i - 1 \in 0..m /\ i - 1 # m
      BY <1>3
    <3>2. i # 0 => g[i - 1] = f[i - 1]
      BY <3>1
    <3>3. CASE i = m
      BY <1>5, <3>2, <3>3
    <3>4. CASE i # m
      <4>1. i \in 0..m - 1
        BY <1>3, <3>4
      <4> QED
        BY <2>4, <3>2, <3>4, <4>1
    <3> QED
      BY <3>3, <3>4
  <2>6. Folded(first, start, items, m, g)
    <3>1. g = [i \in 0..m |-> g[i]]
      OBVIOUS
    <3> HIDE DEF g
    <3> QED
      BY <2>5, <3>1 DEF Folded, TakenBy
  <2> QED
    BY <1>3, <2>6
<1> QED
  BY <1>4, <1>5

\* After, item by item
StepByStep(first, start, items, f) ==
    /\ After(first, start, items) = f[Len(items)] /\ f[0] = start
    /\ \A i \in 1..Len(items) : f[i] = TakenBy(first, f[i - 1], items[i])

LEMMA AfterIs ==
    ASSUME NEW first, NEW start, NEW T, NEW items \in Seq(T)
    PROVE  \E f : StepByStep(first, start, items, f)
<1> DEFINE n == Len(items)
           f == CHOOSE f : Folded(first, start, items, n, f)
<1>1. n \in Nat
  BY LenProperties
<1>2. Folded(first, start, items, n, f)
  BY <1>1, FoldedExists
<1>3. After(first, start, items) = f[n]
  BY DEF After, Folded
<1> HIDE DEF f, n
<1>4. \A i \in 0..n : f[i] = IF i = 0 THEN start ELSE TakenBy(first, f[i - 1], items[i])
  BY <1>2 DEF Folded, TakenBy
<1>5. f[0] = start /\ \A i \in 1..n : f[i] = TakenBy(first, f[i - 1], items[i])
  BY <1>1, <1>4
<1>6. StepByStep(first, start, items, f)
  BY <1>3, <1>5 DEF n, StepByStep
<1> QED
  BY <1>6

\* After the items of a poll, the first of which finds nothing in the deque
\* and does not fill it
LEMMA AfterKeeps ==
    ASSUME NEW first \in BOOLEAN, NEW start, WorkOK(start), Queued(start.m), NEW items \in Seq(Item),
           first => start.m.order = <<>> /\ Len(items) < SeenCap, ~first => start.m.seen # {}
    PROVE  WorkOK(After(first, start, items)) /\ Queued(After(first, start, items).m)
<1> DEFINE Good(i, a) == /\ WorkOK(a) /\ Queued(a.m)
                         /\ first => Len(a.m.order) = i
                         /\ ~first => a.m.seen # {}
<1>1. PICK f : StepByStep(first, start, items, f)
  BY AfterIs
<1>2. /\ After(first, start, items) = f[Len(items)] /\ f[0] = start
      /\ \A i \in 1..Len(items) : f[i] = TakenBy(first, f[i - 1], items[i])
  BY <1>1 DEF StepByStep
<1>3. /\ Len(items) \in Nat /\ \A i \in 1..Len(items) : items[i] \in Item
      /\ SeenCap \in Nat
  BY LenProperties, ElementOfSeq, CapsAre
<1>4. Good(0, start)
  BY EmptySeq
<1> DEFINE Bad == {i \in 0..Len(items) : ~Good(i, f[i])}
<1>5. Bad = {}
  <2> SUFFICES ASSUME Bad # {} PROVE FALSE
    OBVIOUS
  <2>1. Bad \subseteq Nat
    BY <1>3
  <2>2. PICK i \in Bad : \A j \in Bad : i <= j
    <3> HIDE DEF Bad
    <3> QED
      BY <2>1, FirstIs
  <2>3. i \in 0..Len(items) /\ ~Good(i, f[i])
    OBVIOUS
  <2> HIDE DEF Good
  <2>4. i # 0
    BY <1>2, <1>4, <2>3
  <2>5. i \in 1..Len(items) /\ i - 1 \in 0..Len(items) /\ ~(i <= i - 1) /\ (i - 1) + 1 = i /\ i <= Len(items)
    BY <1>3, <2>3, <2>4
  <2>6. Good(i - 1, f[i - 1]) /\ items[i] \in Item
    BY <1>3, <2>2, <2>5
  <2>7. CASE first
    <3>1. f[i] = Tracked(f[i - 1], items[i])
      BY <1>2, <2>5, <2>7 DEF TakenBy
    <3>2. Len(f[i - 1].m.order) = i - 1 /\ Len(items) < SeenCap
      BY <2>6, <2>7 DEF Good
    <3>3. Len(f[i - 1].m.order) + 1 < SeenCap /\ Len(f[i - 1].m.order) + 1 = i
      BY <1>3, <2>5, <3>2
    <3>4. WorkOK(f[i])
      BY <2>6, <3>1, TrackedKeeps DEF Good
    <3>5. Queued(f[i].m) /\ Len(f[i].m.order) = i
      BY <2>6, <3>1, <3>3, TrackedQueues DEF Good
    <3> QED
      BY <2>3, <2>7, <3>4, <3>5 DEF Good
  <2>8. CASE ~first
    <3>1. f[i] = Noted(f[i - 1], items[i])
      BY <1>2, <2>5, <2>8 DEF TakenBy
    <3>2. WorkOK(f[i])
      BY <2>6, <3>1, NotedKeeps DEF Good
    <3>3. Queued(f[i].m) /\ f[i].m.seen # {}
      BY <2>6, <2>8, <3>1, NotedQueues DEF Good
    <3> QED
      BY <2>3, <2>8, <3>2, <3>3 DEF Good
  <2> QED
    BY <2>7, <2>8
<1>6. Len(items) \in 0..Len(items)
  BY <1>3
<1>7. Good(Len(items), f[Len(items)])
  <2> HIDE DEF Good
  <2> QED
    BY <1>5, <1>6
<1> QED
  BY <1>2, <1>7

-----------------------------------------------------------------------------
(* Round robin                                                             *)

Round(k) == 1 + (k - 1) \div 12
Who(order, k) == order[1 + ((k - 1) % 12)]
Turns(bucket, order) == {k \in 1..12 * Quota : Round(k) <= Len(bucket[Who(order, k)])}

OrderOK(order) ==
    /\ order \in Seq(Provider) /\ Len(order) = 12 /\ NoTwice(order)
    /\ \A p \in Provider : \E q \in 1..12 : order[q] = p

\* Both orders name every provider once.
LEMMA SourceOrderOK == OrderOK(SourceOrder)
<1>1. 1..12 = {1, 2, 3, 4, 5, 6, 7, 8, 9, 10, 11, 12}
  OBVIOUS
<1>2. Len(SourceOrder) = 12 /\ DOMAIN SourceOrder = 1..12
  BY DEF SourceOrder
<1>3. /\ SourceOrder[1] = "ThreatFox" /\ SourceOrder[2] = "URLhaus" /\ SourceOrder[3] = "MalwareBazaar"
      /\ SourceOrder[4] = "CISA-KEV" /\ SourceOrder[5] = "OpenPhish" /\ SourceOrder[6] = "Feodo Tracker"
      /\ SourceOrder[7] = "PhishTank" /\ SourceOrder[8] = "Spamhaus DROP" /\ SourceOrder[9] = "URLhaus-Hosts"
      /\ SourceOrder[10] = "SSLBL" /\ SourceOrder[11] = "blocklist.de" /\ SourceOrder[12] = "Tor Exit Nodes"
  BY DEF SourceOrder
<1>4. SourceOrder = [i \in 1..12 |-> SourceOrder[i]]
  BY DEF SourceOrder
<1>5. \A i \in 1..12 : SourceOrder[i] \in Provider
  BY <1>1, <1>3, Providers
<1>6. SourceOrder \in Seq(Provider)
  <2>1. SourceOrder \in [1..12 -> Provider]
    BY <1>4, <1>5
  <2> QED
    BY <2>1, FunctionIsSeq
<1> DEFINE Pos(p) == IF p = "ThreatFox" THEN 1 ELSE IF p = "URLhaus" THEN 2 ELSE IF p = "MalwareBazaar" THEN 3 ELSE 
                  IF p = "CISA-KEV" THEN 4 ELSE IF p = "OpenPhish" THEN 5 ELSE IF p = "Feodo Tracker" THEN 6 ELSE 
                  IF p = "PhishTank" THEN 7 ELSE IF p = "Spamhaus DROP" THEN 8 ELSE IF p = "URLhaus-Hosts" THEN 9 ELSE 
                  IF p = "SSLBL" THEN 10 ELSE IF p = "blocklist.de" THEN 11 ELSE 12
<1>7. \A i \in {1, 2, 3, 4, 5, 6, 7, 8, 9, 10, 11, 12} : Pos(SourceOrder[i]) = i
  BY <1>3
<1> HIDE DEF Pos
<1>8. NoTwice(SourceOrder)
  BY <1>1, <1>2, <1>7 DEF NoTwice
<1>9. ASSUME NEW p \in Provider PROVE \E q \in {1, 2, 3, 4, 5, 6, 7, 8, 9, 10, 11, 12} : SourceOrder[q] = p
  BY <1>3, Providers
<1> QED
  BY <1>1, <1>2, <1>6, <1>8, <1>9 DEF OrderOK

LEMMA ByNameOK == OrderOK(ByName)
<1>1. 1..12 = {1, 2, 3, 4, 5, 6, 7, 8, 9, 10, 11, 12}
  OBVIOUS
<1>2. Len(ByName) = 12 /\ DOMAIN ByName = 1..12
  BY DEF ByName
<1>3. /\ ByName[1] = "CISA-KEV" /\ ByName[2] = "Feodo Tracker" /\ ByName[3] = "MalwareBazaar"
      /\ ByName[4] = "OpenPhish" /\ ByName[5] = "PhishTank" /\ ByName[6] = "SSLBL"
      /\ ByName[7] = "Spamhaus DROP" /\ ByName[8] = "ThreatFox" /\ ByName[9] = "Tor Exit Nodes"
      /\ ByName[10] = "URLhaus" /\ ByName[11] = "URLhaus-Hosts" /\ ByName[12] = "blocklist.de"
  BY DEF ByName
<1>4. ByName = [i \in 1..12 |-> ByName[i]]
  BY DEF ByName
<1>5. \A i \in 1..12 : ByName[i] \in Provider
  BY <1>1, <1>3, Providers
<1>6. ByName \in Seq(Provider)
  <2>1. ByName \in [1..12 -> Provider]
    BY <1>4, <1>5
  <2> QED
    BY <2>1, FunctionIsSeq
<1> DEFINE Pos(p) == IF p = "CISA-KEV" THEN 1 ELSE IF p = "Feodo Tracker" THEN 2 ELSE IF p = "MalwareBazaar" THEN 3 ELSE 
                  IF p = "OpenPhish" THEN 4 ELSE IF p = "PhishTank" THEN 5 ELSE IF p = "SSLBL" THEN 6 ELSE 
                  IF p = "Spamhaus DROP" THEN 7 ELSE IF p = "ThreatFox" THEN 8 ELSE IF p = "Tor Exit Nodes" THEN 9 ELSE 
                  IF p = "URLhaus" THEN 10 ELSE IF p = "URLhaus-Hosts" THEN 11 ELSE 12
<1>7. \A i \in {1, 2, 3, 4, 5, 6, 7, 8, 9, 10, 11, 12} : Pos(ByName[i]) = i
  BY <1>3
<1> HIDE DEF Pos
<1>8. NoTwice(ByName)
  BY <1>1, <1>2, <1>7 DEF NoTwice
<1>9. ASSUME NEW p \in Provider PROVE \E q \in {1, 2, 3, 4, 5, 6, 7, 8, 9, 10, 11, 12} : ByName[q] = p
  BY <1>3, Providers
<1> QED
  BY <1>1, <1>2, <1>6, <1>8, <1>9 DEF OrderOK

\* Turns count through the rounds and, within one, through the providers.
LEMMA TurnsCount ==
    /\ \A k \in Nat \ {0} : /\ Round(k) \in Nat \ {0} /\ (k - 1) % 12 \in 0..11
                            /\ k = 12 * (Round(k) - 1) + ((k - 1) % 12) + 1
    /\ \A r \in Nat \ {0}, q \in 1..12 : /\ 12 * (r - 1) + q \in Nat \ {0}
                                         /\ Round(12 * (r - 1) + q) = r
                                         /\ (12 * (r - 1) + q - 1) % 12 = q - 1
BY DEF Round

\* Whose turn it is, in which round
LEMMA TurnIs ==
    ASSUME NEW order, OrderOK(order), NEW k \in Nat \ {0}
    PROVE  Round(k) \in Nat \ {0} /\ Who(order, k) \in Provider
<1>1. Round(k) \in Nat \ {0} /\ 1 + ((k - 1) % 12) \in 1..12
  BY TurnsCount
<1> QED
  BY <1>1, ElementOfSeq DEF OrderOK, Who

LEMMA ProvidersFinite == IsFiniteSet(Provider)
<1>1. SourceOrder \in [1..12 -> Provider] /\ \A p \in Provider : \E q \in 1..12 : SourceOrder[q] = p
  BY SourceOrderOK, LenProperties, ElementOfSeq DEF OrderOK
<1>2. SourceOrder \in Surjection(1..12, Provider)
  BY <1>1 DEF Surjection
<1>3. IsFiniteSet(1..12)
  <2>1. 1 \in Int /\ 12 \in Int
    OBVIOUS
  <2> QED
    BY <2>1, FS_Interval
<1> QED
  BY <1>2, <1>3, FS_Surjection

\* No more turns are taken than those with something in their batches may take.
LEMMA TurnsWithin ==
    ASSUME NEW order, OrderOK(order), NEW bucket \in [Provider -> Seq(Item)], NEW U \in SUBSET Provider,
           \A s \in Provider : Len(bucket[s]) <= Quota /\ (s \notin U => bucket[s] = <<>>)
    PROVE  Cardinality(Turns(bucket, order)) <= Cardinality(U) * Quota
<1> DEFINE T == Turns(bucket, order)
           f == [k \in T |-> <<Who(order, k), Round(k)>>]
<1>1. Quota \in Nat \ {0}
  BY CapsAre
<1>2. IsFiniteSet(U)
  BY ProvidersFinite, FS_Subset
<1>3. ASSUME NEW k \in T PROVE k \in Nat \ {0} /\ Who(order, k) \in U /\ Round(k) \in 1..Quota
  <2>1. k \in Nat \ {0} /\ Round(k) <= Len(bucket[Who(order, k)])
    BY <1>1 DEF Turns
  <2>2. Round(k) \in Nat \ {0} /\ Who(order, k) \in Provider
    BY <2>1, TurnIs
  <2>3. bucket[Who(order, k)] \in Seq(Item) /\ Len(bucket[Who(order, k)]) <= Quota
    BY <2>2
  <2>4. Len(bucket[Who(order, k)]) \in Nat /\ Len(<<>>) = 0
    BY <2>3, LenProperties, EmptySeq
  <2>5. bucket[Who(order, k)] # <<>>
    BY <2>1, <2>2, <2>4
  <2> QED
    BY <1>1, <2>1, <2>2, <2>3, <2>4, <2>5
<1>4. ASSUME NEW j \in T, NEW k \in T, Who(order, j) = Who(order, k), Round(j) = Round(k) PROVE j = k
  <2>1. /\ j \in Nat \ {0} /\ k \in Nat \ {0}
        /\ Round(j) \in Nat /\ (j - 1) % 12 \in 0..11 /\ j = 12 * (Round(j) - 1) + ((j - 1) % 12) + 1
        /\ Round(k) \in Nat /\ (k - 1) % 12 \in 0..11 /\ k = 12 * (Round(k) - 1) + ((k - 1) % 12) + 1
    BY <1>3, TurnsCount
  <2>2. 1 + ((j - 1) % 12) \in 1..12 /\ 1 + ((k - 1) % 12) \in 1..12
    BY <2>1
  <2>3. 1 + ((j - 1) % 12) = 1 + ((k - 1) % 12)
    BY <1>4, <2>2 DEF Who, OrderOK, NoTwice
  <2>4. (j - 1) % 12 = (k - 1) % 12
    BY <2>1, <2>3
  <2> QED
    BY <1>4, <2>1, <2>4
<1>5. f \in Injection(T, U \X (1..Quota))
  <2> HIDE DEF T
  <2>1. f \in [T -> U \X (1..Quota)]
    BY <1>3
  <2>2. \A j, k \in T : f[j] = f[k] => j = k
    BY <1>4
  <2> QED
    BY <2>1, <2>2 DEF Injection, IsInjective
<1>6. IsFiniteSet(1..Quota) /\ Cardinality(1..Quota) = Quota
  <2>1. IsFiniteSet(1..Quota) /\ Cardinality(1..Quota) = IF 1 > Quota THEN 0 ELSE Quota - 1 + 1
    BY <1>1, FS_Interval
  <2> QED
    BY <1>1, <2>1
<1>7. IsFiniteSet(U \X (1..Quota)) /\ Cardinality(U \X (1..Quota)) = Cardinality(U) * Quota
  BY <1>2, <1>6, FS_Product
<1> HIDE DEF f
<1> QED
  BY <1>5, <1>7, FS_Injection

\* The list that takes turns has the entry of every turn, in the order of the turns.
Woven(T, bucket, order, F) ==
    /\ F \in Seq(T) /\ Len(F) = Cardinality(Turns(bucket, order))
    /\ \A k \in Turns(bucket, order) :
          /\ Place(Turns(bucket, order), k) \in 1..Len(F)
          /\ F[Place(Turns(bucket, order), k)] = bucket[Who(order, k)][Round(k)]
    /\ \A i \in 1..Len(F) : \E k \in Turns(bucket, order) :
          Place(Turns(bucket, order), k) = i /\ F[i] = bucket[Who(order, k)][Round(k)]

\* Every entry of the filtered list is that of a place of I.
Traced(s, I, F) == \A k \in 1..Len(F) : \E i \in I : Place(I, i) = k /\ F[k] = s[i]
LEMMA KeptTraced ==
    ASSUME NEW T, NEW s \in Seq(T), NEW I \in SUBSET (1..Len(s)),
           NEW F, F = KeepAt(s, I)
    PROVE  Traced(s, I, F)
BY KeptFrom DEF Traced

LEMMA InterleavedIs ==
    ASSUME NEW order, OrderOK(order), NEW T, NEW bucket \in [Provider -> Seq(T)]
    PROVE  Woven(T, bucket, order, Interleaved(bucket, order))
<1> DEFINE n == 12 * Quota
           s == [k \in 1..n |-> k]
           I == Turns(bucket, order)
           turns == KeepAt(s, I)
           F == [i \in DOMAIN turns |-> bucket[Who(order, turns[i])][Round(turns[i])]]
<1>1. n \in Nat /\ Len(order) = 12
  BY CapsAre DEF OrderOK
<1>2. I = {k \in 1..n : Round(k) <= Len(bucket[Who(order, k)])}
  BY DEF Turns
<1>3. Interleaved(bucket, order) = F
  BY <1>1 DEF Interleaved, Turns, Round, Who
<1>4. turns = KeepAt(s, I)
  OBVIOUS
<1>5. s = [k \in 1..n |-> k]
  OBVIOUS
<1> HIDE DEF n, s, I, turns
<1>6. s \in Seq(Nat) /\ Len(s) = n
  <2>1. s \in [1..n -> Nat]
    BY <1>1, <1>5
  <2> QED
    BY <1>1, <2>1, FunctionIsSeq
<1>7. I \in SUBSET (1..Len(s))
  BY <1>2, <1>6
<1>8. turns \in Seq(Nat) /\ Len(turns) = Cardinality(I)
  BY <1>4, <1>6, <1>7, KeptIs
<1>9. \A k \in I : Place(I, k) \in 1..Len(turns) /\ turns[Place(I, k)] = s[k]
  BY <1>4, <1>6, <1>7, KeptAt
<1>10. \A i \in 1..Len(turns) : \E k \in I : Place(I, k) = i /\ turns[i] = s[k]
  <2>1. Traced(s, I, turns)
    BY <1>4, <1>6, <1>7, KeptTraced
  <2> QED
    BY <2>1 DEF Traced
<1>11. \A k \in I : s[k] = k /\ k \in Nat \ {0}
  BY <1>2, <1>5, <1>1
<1>12. DOMAIN turns = 1..Len(turns) /\ Len(turns) \in Nat
  BY <1>8, LenProperties
<1>13. \A k \in I : bucket[Who(order, k)][Round(k)] \in T
  <2> TAKE k \in I
  <2>1. Round(k) \in Nat \ {0} /\ Who(order, k) \in Provider
    BY <1>11, TurnIs
  <2>2. Round(k) <= Len(bucket[Who(order, k)])
    BY <1>2
  <2>3. bucket[Who(order, k)] \in Seq(T)
    BY <2>1
  <2>4. Round(k) \in 1..Len(bucket[Who(order, k)])
    BY <2>1, <2>2, <2>3, LenProperties
  <2> QED
    BY <2>3, <2>4, ElementOfSeq
<1>14. \A i \in 1..Len(turns) : F[i] = bucket[Who(order, turns[i])][Round(turns[i])]
  BY <1>12
<1>15. F \in [1..Len(turns) -> T]
  <2>1. \A i \in 1..Len(turns) : bucket[Who(order, turns[i])][Round(turns[i])] \in T
    BY <1>10, <1>11, <1>13
  <2> QED
    BY <1>12, <2>1
<1> HIDE DEF F
<1>16. F \in Seq(T) /\ Len(F) = Len(turns)
  BY <1>12, <1>15, FunctionIsSeq
<1>17. \A k \in I : Place(I, k) \in 1..Len(F) /\ F[Place(I, k)] = bucket[Who(order, k)][Round(k)]
  BY <1>9, <1>11, <1>14, <1>16
<1>18. \A i \in 1..Len(F) : \E k \in I : Place(I, k) = i /\ F[i] = bucket[Who(order, k)][Round(k)]
  BY <1>10, <1>11, <1>14, <1>16
<1>19. Woven(T, bucket, order, F)
  BY <1>8, <1>16, <1>17, <1>18 DEF Woven, I
<1> QED
  BY <1>3, <1>19

-----------------------------------------------------------------------------
(* What a poll brings                                                      *)

\* The first n entries of a list, or all of it
Lower(a, b) == IF a < b THEN a ELSE b
LEMMA AtMostIs ==
    ASSUME NEW T, NEW q \in Seq(T), NEW n \in Nat, NEW a, a = AtMost(n, q)
    PROVE  /\ a \in Seq(T) /\ Len(a) = Lower(Len(q), n)
           /\ \A i \in 1..Len(a) : a[i] = q[i]
<1>1. Len(q) \in Nat /\ \A i \in 1..Len(q) : q[i] \in T
  BY LenProperties, ElementOfSeq
<1> DEFINE m == Lower(Len(q), n)
<1>2. m \in Nat /\ m <= Len(q)
  BY <1>1 DEF Lower
<1>3. a = SubSeq(q, 1, m)
  BY DEF AtMost, Lower
<1> HIDE DEF m
<1>4. \A i \in 1..m : q[i] \in T
  BY <1>1, <1>2
<1>5. /\ SubSeq(q, 1, m) \in Seq(T) /\ Len(SubSeq(q, 1, m)) = (IF 1 <= m THEN m - 1 + 1 ELSE 0)
      /\ \A i \in 1..m - 1 + 1 : SubSeq(q, 1, m)[i] = q[1 + i - 1]
  BY <1>2, <1>4, SubSeqProperties
<1>6. Len(a) = m
  BY <1>2, <1>3, <1>5
<1>7. \A i \in 1..Len(a) : a[i] = q[i]
  BY <1>2, <1>3, <1>5, <1>6
<1> QED
  BY <1>3, <1>5, <1>6, <1>7 DEF m

\* What a provider may list
RowsOK(s, rows) ==
    /\ rows \in Seq(Row)
    /\ s \in AddressList => \A i, j \in 1..Len(rows) : rows[i].id = rows[j].id => i = j

LEMMA KeptOK ==
    ASSUME NEW s \in Provider, NEW rows \in Seq(Row)
    PROVE  Kept(s, rows) \in Seq(Item) /\ Len(Kept(s, rows)) <= Quota
<1> DEFINE I == {i \in DOMAIN rows : rows[i].usable}
           usable == KeepAt(rows, I)
           few == AtMost(Quota, usable)
           F == [i \in DOMAIN few |-> [source |-> s, id |-> usable[i].id, ioc |-> usable[i].ioc]]
<1>1. I \in SUBSET (1..Len(rows))
  BY LenProperties
<1>2. usable = KeepAt(rows, I) /\ few = AtMost(Quota, usable) /\ Quota \in Nat
  BY CapsAre
<1>3. Kept(s, rows) = F
  BY DEF Kept
<1> HIDE DEF I, usable, few
<1>4. usable \in Seq(Row)
  BY <1>1, <1>2, KeptIs
<1>5. few \in Seq(Row) /\ Len(few) = Lower(Len(usable), Quota)
  BY <1>2, <1>4, AtMostIs
<1>6. DOMAIN few = 1..Len(few) /\ Len(few) \in Nat /\ Len(usable) \in Nat /\ Len(few) <= Len(usable)
  BY <1>2, <1>4, <1>5, LenProperties DEF Lower
<1>7. \A i \in 1..Len(few) : usable[i] \in Row
  BY <1>4, <1>6, ElementOfSeq
<1>8. \A i \in 1..Len(few) : [source |-> s, id |-> usable[i].id, ioc |-> usable[i].ioc] \in Item
  BY <1>7 DEF Row, Item
<1>9. F \in [1..Len(few) -> Item]
  BY <1>6, <1>8
<1>10. Len(few) <= Quota
  BY <1>2, <1>5, <1>6 DEF Lower
<1> HIDE DEF F
<1> QED
  BY <1>3, <1>6, <1>9, <1>10, FunctionIsSeq

LEMMA ReverseOK ==
    ASSUME NEW T, NEW q \in Seq(T)
    PROVE  Reverse(q) \in Seq(T)
<1>1. Len(q) \in Nat /\ \A i \in 1..Len(q) : q[i] \in T
  BY LenProperties, ElementOfSeq
<1>2. \A i \in 1..Len(q) : (Len(q) - i) + 1 \in 1..Len(q)
  BY <1>1
<1>3. Reverse(q) \in [1..Len(q) -> T]
  BY <1>1, <1>2 DEF Reverse
<1> QED
  BY <1>1, <1>3, FunctionIsSeq

\* Every rank is that of some row.
LEMMA SortedOK ==
    ASSUME NEW rows \in Seq(Row), \A i, j \in 1..Len(rows) : rows[i].id = rows[j].id => i = j
    PROVE  Sorted(rows) \in Seq(Row)
<1> DEFINE n == Len(rows)
           D == 1..n
           R == 0..n - 1
           Below(i) == {j \in D : rows[j].id < rows[i].id}
           rank == [i \in D |-> Cardinality(Below(i))]
<1>1. n \in Nat /\ DOMAIN rows = D /\ \A i \in D : rows[i] \in Row
  BY LenProperties, ElementOfSeq
<1>2. IsFiniteSet(D) /\ Cardinality(D) = n /\ IsFiniteSet(R) /\ Cardinality(R) = n
  <2>1. 1 \in Int /\ n \in Int /\ 0 \in Int /\ n - 1 \in Int
    BY <1>1
  <2>2. IsFiniteSet(1..n) /\ Cardinality(1..n) = (IF 1 > n THEN 0 ELSE n - 1 + 1)
    BY <2>1, FS_Interval
  <2>3. IsFiniteSet(0..n - 1) /\ Cardinality(0..n - 1) = (IF 0 > n - 1 THEN 0 ELSE n - 1 - 0 + 1)
    BY <2>1, FS_Interval
  <2> QED
    BY <1>1, <2>2, <2>3
<1>3. \A i \in D : Smaller(rows, i) = rank[i]
  BY <1>1 DEF Smaller
<1>4. \A i \in D : rows[i].id \in Nat
  BY <1>1 DEF Row
<1>5. \A i \in D : IsFiniteSet(Below(i)) /\ Cardinality(Below(i)) \in Nat
  BY <1>2, FS_Subset, FS_CardinalityType
<1>6. \A i \in D : rank[i] = Cardinality(Below(i)) /\ rank[i] \in Nat
  BY <1>5
<1>7. rank \in [D -> Nat]
  BY <1>5
<1> HIDE DEF rank
<1>8. ASSUME NEW i \in D, NEW j \in D, rows[i].id < rows[j].id PROVE rank[i] < rank[j]
  <2>1. Below(i) \cup {i} \subseteq Below(j) /\ i \notin Below(i)
    BY <1>4, <1>8
  <2>2. Cardinality(Below(i) \cup {i}) = Cardinality(Below(i)) + 1
    BY <1>5, <2>1, FS_AddElement
  <2>3. Cardinality(Below(i) \cup {i}) <= Cardinality(Below(j))
    BY <1>5, <2>1, FS_Subset
  <2>4. /\ rank[i] = Cardinality(Below(i)) /\ rank[i] \in Nat
        /\ rank[j] = Cardinality(Below(j)) /\ rank[j] \in Nat
    BY <1>6
  <2> HIDE DEF Below
  <2> QED
    BY <2>2, <2>3, <2>4
<1>9. ASSUME NEW i \in D PROVE rank[i] \in R
  <2>1. Below(i) \cup {i} \subseteq D /\ i \notin Below(i)
    BY <1>4
  <2>2. Cardinality(Below(i) \cup {i}) = Cardinality(Below(i)) + 1
    BY <1>5, <2>1, FS_AddElement
  <2>3. Cardinality(Below(i) \cup {i}) <= n
    BY <1>2, <2>1, FS_Subset
  <2>4. rank[i] = Cardinality(Below(i)) /\ rank[i] \in Nat
    BY <1>6
  <2> HIDE DEF Below
  <2> QED
    BY <1>1, <2>2, <2>3, <2>4
<1>10. ASSUME NEW i \in D, NEW j \in D, rank[i] = rank[j] PROVE i = j
  <2>1. rank[i] \in Nat /\ rank[j] \in Nat
    BY <1>6
  <2>2. ~(rows[i].id < rows[j].id) /\ ~(rows[j].id < rows[i].id)
    BY <1>8, <1>10, <2>1
  <2>3. rows[i].id = rows[j].id
    BY <1>4, <2>2
  <2> QED
    BY <2>3
<1>11. rank \in Injection(D, R)
  <2>1. rank \in [D -> R]
    BY <1>9, <1>7
  <2> QED
    BY <1>10, <2>1 DEF Injection, IsInjective
<1> HIDE DEF R
<1>12. rank \in Surjection(D, R)
  BY <1>2, <1>11, FS_Injection
<1>13. \A k \in D : \E i \in D : rank[i] = k - 1
  <2> TAKE k \in D
  <2>1. k - 1 \in R
    BY <1>1 DEF R
  <2> QED
    BY <1>12, <2>1 DEF Surjection
<1>14. \A k \in D : rows[CHOOSE i \in D : Smaller(rows, i) = k - 1] \in Row
  BY <1>1, <1>3, <1>13
<1>15. Sorted(rows) \in [D -> Row]
  BY <1>1, <1>14 DEF Sorted
<1> QED
  BY <1>1, <1>15, FunctionIsSeq

LEMMA ItemsOK ==
    ASSUME NEW s \in Provider, NEW rows, RowsOK(s, rows)
    PROVE  Items(s, rows) \in Seq(Item) /\ Len(Items(s, rows)) <= Quota
<1>1. rows \in Seq(Row) /\ (s \in AddressList => Sorted(rows) \in Seq(Row)) /\ Reverse(rows) \in Seq(Row)
  BY SortedOK, ReverseOK DEF RowsOK
<1>2. "ThreatFox" \in Provider
  BY Zenon, Providers
<1>3. ThreatFoxItems(rows) \in Seq(Item) /\ Len(ThreatFoxItems(rows)) <= Quota
  BY <1>1, <1>2, KeptOK DEF ThreatFoxItems
<1>4. AbuseItems(s, rows) \in Seq(Item) /\ Len(AbuseItems(s, rows)) <= Quota
  BY <1>1, KeptOK DEF AbuseItems
<1>5. PhishItems(s, rows) \in Seq(Item) /\ Len(PhishItems(s, rows)) <= Quota
  BY <1>1, KeptOK DEF PhishItems
<1>6. HostItems(s, rows) \in Seq(Item) /\ Len(HostItems(s, rows)) <= Quota
  BY <1>1, KeptOK DEF HostItems
<1>7. \/ Items(s, rows) = ThreatFoxItems(rows) \/ Items(s, rows) = AbuseItems(s, rows)
      \/ Items(s, rows) = PhishItems(s, rows) \/ Items(s, rows) = HostItems(s, rows)
  BY DEF Items
<1> QED
  BY <1>3, <1>4, <1>5, <1>6, <1>7

-----------------------------------------------------------------------------
(* Fair shares                                                             *)

\* The same provider in the same round is the same turn.
LEMMA TurnsApart ==
    ASSUME NEW order, OrderOK(order), NEW k \in Nat \ {0}, NEW l \in Nat \ {0},
           Round(k) = Round(l), Who(order, k) = Who(order, l)
    PROVE  k = l
<1>1. /\ (k - 1) % 12 \in 0..11 /\ k = 12 * (Round(k) - 1) + ((k - 1) % 12) + 1
      /\ (l - 1) % 12 \in 0..11 /\ l = 12 * (Round(l) - 1) + ((l - 1) % 12) + 1
  BY TurnsCount
<1>2. 1 + ((k - 1) % 12) \in 1..12 /\ 1 + ((l - 1) % 12) \in 1..12
  BY <1>1
<1>3. 1 + ((k - 1) % 12) = 1 + ((l - 1) % 12)
  BY <1>2, SMTT(30) DEF OrderOK, NoTwice, Who
<1>4. (k - 1) % 12 = (l - 1) % 12
  BY <1>1, <1>3
<1> QED
  BY <1>1, <1>4

\* An earlier round has earlier turns.
LEMMA EarlierTurn ==
    ASSUME NEW k \in Nat \ {0}, NEW r \in Nat \ {0}, r < Round(k), NEW q \in 1..12
    PROVE  12 * (r - 1) + q \in 1..k - 1
<1>1. Round(k) \in Nat \ {0} /\ (k - 1) % 12 \in 0..11 /\ k = 12 * (Round(k) - 1) + ((k - 1) % 12) + 1
  BY TurnsCount
<1> DEFINE R == Round(k)
           d == (k - 1) % 12
<1>2. R \in Nat /\ r <= R - 1 /\ d \in 0..11 /\ k = 12 * (R - 1) + d + 1
  BY <1>1
<1> HIDE DEF R, d
<1> QED
  BY <1>2

\* What is selected of a poll's new items
LEMMA FairlyShared ==
    ASSUME NEW new \in Seq(Item), NEW given, given = Selected(new), NEW s \in Provider, NEW t \in Provider,
           Share(s, given) > Share(t, given) + 1, Share(t, given) < Share(t, new)
    PROVE  FALSE
<1> DEFINE J(p) == {i \in DOMAIN new : new[i].source = p}
           bucket == [p \in Provider |-> KeepAt(new, J(p))]
           F == Interleaved(bucket, ByName)
           I == Turns(bucket, ByName)
           m == Len(given)
           Theirs(p) == {i \in 1..m : given[i].source = p}
           TurnAt(i) == CHOOSE k \in I : Place(I, k) = i
           c == Cardinality(Theirs(t))
<1>1. DOMAIN new = 1..Len(new) /\ Len(new) \in Nat
  BY LenProperties
<1>2. ASSUME NEW p \in Provider
      PROVE  /\ bucket[p] \in Seq(Item) /\ Len(bucket[p]) = Share(p, new)
             /\ \A r \in 1..Len(bucket[p]) : bucket[p][r].source = p
  <2>1. J(p) \in SUBSET (1..Len(new)) /\ bucket[p] = KeepAt(new, J(p))
    BY <1>1
  <2>2. \A i \in J(p) : new[i].source = p
    OBVIOUS
  <2>3. Share(p, new) = Cardinality(J(p))
    BY DEF Share
  <2> HIDE DEF J, bucket
  <2>4. bucket[p] \in Seq(Item) /\ Len(bucket[p]) = Cardinality(J(p))
    BY <2>1, KeptIs
  <2>5. \A r \in 1..Len(bucket[p]) : \E i \in J(p) : Place(J(p), i) = r /\ bucket[p][r] = new[i]
    BY <2>1, KeptFrom
  <2> QED
    BY <2>2, <2>3, <2>4, <2>5
<1>3. bucket \in [Provider -> Seq(Item)]
  BY <1>2
<1>4. given = AtMost(MaxPerPoll, F)
  BY DEF Selected
<1> HIDE DEF J, bucket
<1>5. Woven(Item, bucket, ByName, F)
  BY <1>3, ByNameOK, InterleavedIs
<1>6. /\ F \in Seq(Item) /\ Len(F) = Cardinality(I)
      /\ \A k \in I : Place(I, k) \in 1..Len(F) /\ F[Place(I, k)] = bucket[Who(ByName, k)][Round(k)]
      /\ \A i \in 1..Len(F) : \E k \in I : Place(I, k) = i /\ F[i] = bucket[Who(ByName, k)][Round(k)]
  BY <1>5 DEF Woven
<1> HIDE DEF F
<1>7. /\ given \in Seq(Item) /\ m = Lower(Len(F), MaxPerPoll) /\ \A i \in 1..m : given[i] = F[i]
  BY <1>4, <1>6, CapsAre, AtMostIs
<1>8. m \in Nat /\ m <= Len(F) /\ DOMAIN given = 1..m /\ Len(F) \in Nat
  BY <1>6, <1>7, LenProperties, CapsAre DEF Lower
<1>9. \A p : Share(p, given) = Cardinality(Theirs(p))
  BY <1>8 DEF Share
<1>10. \A p : IsFiniteSet(Theirs(p)) /\ Cardinality(Theirs(p)) \in Nat
  <2>1. IsFiniteSet(1..m)
    BY <1>8, FS_Interval
  <2> QED
    BY <2>1, FS_Subset, FS_CardinalityType
<1>11. Cardinality(Theirs(s)) > c + 1 /\ c < Len(bucket[t]) /\ c \in Nat
  BY <1>2, <1>9, <1>10
<1>12. 12 * Quota \in Nat /\ Quota \in Nat
  BY CapsAre
<1>13. I = {k \in 1..12 * Quota : Round(k) <= Len(bucket[Who(ByName, k)])}
  BY DEF Turns
<1> HIDE DEF I, m
<1>14. I \in SUBSET (1..12 * Quota)
  BY <1>13
<1>15. ASSUME NEW k \in I
       PROVE  /\ k \in Nat \ {0} /\ Round(k) \in Nat \ {0} /\ Round(k) <= Quota
              /\ F[Place(I, k)].source = Who(ByName, k)
  <2>1. k \in Nat \ {0} /\ k <= 12 * Quota /\ Round(k) <= Len(bucket[Who(ByName, k)])
    BY <1>12, <1>13
  <2>2. Round(k) \in Nat \ {0} /\ Who(ByName, k) \in Provider
    BY <2>1, ByNameOK, TurnIs
  <2>3. Round(k) \in 1..Len(bucket[Who(ByName, k)])
    <3>1. Len(bucket[Who(ByName, k)]) \in Nat
      BY <1>3, <2>2, LenProperties
    <3> QED
      BY <2>1, <2>2, <3>1
  <2>4. Round(k) <= Quota
    <3>1. (k - 1) % 12 \in 0..11 /\ k = 12 * (Round(k) - 1) + ((k - 1) % 12) + 1
      BY <2>1, TurnsCount
    <3> DEFINE R == Round(k)
               d == (k - 1) % 12
    <3>2. R \in Nat /\ d \in 0..11 /\ k = 12 * (R - 1) + d + 1
      BY <2>2, <3>1
    <3> HIDE DEF R, d
    <3>3. R <= Quota
      BY <1>12, <2>1, <3>2
    <3> QED
      BY <3>3 DEF R
  <2> QED
    BY <1>2, <1>6, <2>1, <2>2, <2>3, <2>4
<1>16. ASSUME NEW i \in 1..m
       PROVE  TurnAt(i) \in I /\ Place(I, TurnAt(i)) = i /\ Who(ByName, TurnAt(i)) = given[i].source
  <2>1. i \in 1..Len(F)
    BY <1>8
  <2>2. TurnAt(i) \in I /\ Place(I, TurnAt(i)) = i
    BY <1>6, <2>1
  <2> HIDE DEF TurnAt
  <2>3. F[Place(I, TurnAt(i))].source = Who(ByName, TurnAt(i))
    BY <1>15, <2>2
  <2> QED
    BY <1>7, <2>2, <2>3
<1> HIDE DEF TurnAt
<1>17. \E i \in Theirs(s) : Round(TurnAt(i)) > c + 1
  <2> SUFFICES ASSUME \A i \in Theirs(s) : ~(Round(TurnAt(i)) > c + 1) PROVE FALSE
    OBVIOUS
  <2> DEFINE f == [i \in Theirs(s) |-> Round(TurnAt(i))]
  <2>1. \A i \in Theirs(s) : i \in 1..m /\ given[i].source = s
    OBVIOUS
  <2>2. \A i \in Theirs(s) : Round(TurnAt(i)) \in 1..c + 1
    <3> TAKE i \in Theirs(s)
    <3>1. Round(TurnAt(i)) \in Nat \ {0}
      BY <1>15, <1>16, <2>1
    <3>2. ~(Round(TurnAt(i)) > c + 1)
      OBVIOUS
    <3> HIDE DEF c
    <3> QED
      BY <1>11, <3>1, <3>2
  <2>3. ASSUME NEW i \in Theirs(s), NEW j \in Theirs(s), Round(TurnAt(i)) = Round(TurnAt(j)) PROVE i = j
    <3>1. TurnAt(i) \in I /\ TurnAt(j) \in I /\ Who(ByName, TurnAt(i)) = Who(ByName, TurnAt(j))
      BY <1>16, <2>1
    <3>2. TurnAt(i) \in Nat \ {0} /\ TurnAt(j) \in Nat \ {0}
      BY <1>15, <3>1
    <3>3. TurnAt(i) = TurnAt(j)
      BY <2>3, <3>1, <3>2, ByNameOK, TurnsApart
    <3> QED
      BY <1>16, <2>1, <3>3
  <2> HIDE DEF Theirs
  <2>4. f \in Injection(Theirs(s), 1..c + 1)
    BY <2>2, <2>3 DEF Injection, IsInjective
  <2> HIDE DEF f, c
  <2>5. IsFiniteSet(1..c + 1) /\ Cardinality(1..c + 1) = c + 1
    BY <1>11, FS_Interval
  <2>6. Cardinality(Theirs(s)) <= c + 1
    BY <2>4, <2>5, FS_Injection
  <2> QED
    BY <1>10, <1>11, <2>6
<1>18. PICK i \in Theirs(s) : Round(TurnAt(i)) > c + 1
  BY <1>17
<1>19. i \in 1..m /\ TurnAt(i) \in I /\ Place(I, TurnAt(i)) = i
  BY <1>16
<1>20. PICK q \in 1..12 : ByName[q] = t
  BY ByNameOK DEF OrderOK
<1> DEFINE K(j) == 12 * (j - 1) + q
<1> HIDE DEF c, Theirs
<1>21. ASSUME NEW j \in 1..c + 1
       PROVE  /\ K(j) \in I /\ Round(K(j)) = j /\ Place(I, K(j)) \in Theirs(t)
  <2>1. j \in Nat \ {0} /\ j < Round(TurnAt(i)) /\ j <= Quota /\ j <= Len(bucket[t])
    <3>1. TurnAt(i) \in I /\ Round(TurnAt(i)) \in Nat /\ Round(TurnAt(i)) <= Quota
      BY <1>15, <1>19
    <3>2. Len(bucket[t]) \in Nat
      BY <1>3, LenProperties
    <3> QED
      BY <1>11, <1>12, <1>18, <3>1, <3>2
  <2>2. K(j) \in 1..TurnAt(i) - 1
    BY <1>15, <1>19, <2>1, EarlierTurn
  <2>3. K(j) \in Nat \ {0} /\ Round(K(j)) = j /\ (K(j) - 1) % 12 = q - 1
    <3>1. j \in Nat \ {0} /\ q \in 1..12
      BY <2>1
    <3>2. /\ 12 * (j - 1) + q \in Nat \ {0} /\ Round(12 * (j - 1) + q) = j
          /\ (12 * (j - 1) + q - 1) % 12 = q - 1
      BY <3>1, TurnsCount
    <3> QED
      BY <3>2
  <2> HIDE DEF K
  <2>4. Who(ByName, K(j)) = t
    <3>1. 1 + ((K(j) - 1) % 12) = q
      BY <2>3
    <3> QED
      BY <1>20, <3>1 DEF Who
  <2>5. TurnAt(i) \in 1..12 * Quota
    BY <1>14, <1>19
  <2>6. K(j) \in 1..12 * Quota /\ K(j) < TurnAt(i)
    BY <1>12, <2>2, <2>5
  <2>7. K(j) \in I
    BY <1>13, <2>1, <2>3, <2>4, <2>6
  <2>8. Place(I, K(j)) < Place(I, TurnAt(i))
    BY <1>12, <1>14, <1>19, <2>6, <2>7, PlaceIs
  <2>9. Place(I, K(j)) \in 1..Len(F) /\ F[Place(I, K(j))].source = t
    BY <1>6, <1>15, <2>4, <2>7
  <2>10. Place(I, K(j)) \in 1..m
    BY <1>8, <1>19, <2>8, <2>9
  <2> QED
    BY <1>7, <2>3, <2>7, <2>9, <2>10 DEF Theirs
<1> DEFINE g == [j \in 1..c + 1 |-> Place(I, K(j))]
<1>22. ASSUME NEW j \in 1..c + 1, NEW l \in 1..c + 1, Place(I, K(j)) = Place(I, K(l)) PROVE j = l
  <2>1. K(j) \in I /\ K(l) \in I /\ Round(K(j)) = j /\ Round(K(l)) = l
    BY <1>21
  <2> HIDE DEF K
  <2>2. K(j) \in Nat /\ K(l) \in Nat /\ ~(K(j) < K(l)) /\ ~(K(l) < K(j))
    <3>1. \A a, b \in I : a < b => Place(I, a) < Place(I, b)
      BY <1>12, <1>14, PlaceIs
    <3>2. Place(I, K(j)) \in Nat /\ Place(I, K(l)) \in Nat
      BY <1>6, <2>1
    <3> QED
      BY <1>15, <1>22, <2>1, <3>1, <3>2
  <2>3. K(j) = K(l)
    BY <2>2
  <2> QED
    BY <2>1, <2>3
<1> HIDE DEF K
<1>23. g \in Injection(1..c + 1, Theirs(t))
  BY <1>21, <1>22 DEF Injection, IsInjective
<1>24. Cardinality(1..c + 1) = c + 1
  BY <1>11, FS_Interval
<1>25. Cardinality(1..c + 1) <= Cardinality(Theirs(t))
  <2> HIDE DEF g
  <2> QED
    BY <1>10, <1>23, FS_Injection
<1>26. c + 1 <= c
  BY <1>24, <1>25 DEF c
<1> QED
  BY <1>11, <1>26

-----------------------------------------------------------------------------
(* The ticker                                                              *)

CacheOK(copies) ==
    /\ copies \in [Cached -> [fresh : BOOLEAN, held : BOOLEAN, rows : Seq(Row)]]
    /\ \A s \in Cached : RowsOK(s, copies[s].rows)

\* What is still to be handed over
BatchOK == phase \in {"wait", "emit"} /\ batch \in Seq(Item) /\ Len(batch) <= MaxPerPoll

TickerInv ==
    /\ up \in Answering /\ CacheOK(cache)
    /\ MemoryOK(memory, ledger) /\ Queued(memory) /\ ~ledger.unfair
    /\ BatchOK

\* What a provider serves
LEMMA TextsOK ==
    ASSUME up \in Answering, NEW s \in up
    PROVE  s \in Provider /\ \A rows \in Texts[s] : RowsOK(s, rows)
<1>1. s \in Provider /\ s \in UNION Answering
  BY TickerAssumption DEF TickerAssumption
<1>2. DOMAIN Texts = UNION Answering /\ Texts[s] \subseteq Seq(Row)
  BY <1>1, TickerAssumption DEF TickerAssumption
<1>3. ASSUME NEW rows \in Texts[s] PROVE RowsOK(s, rows)
  <2>1. rows \in Seq(Row) /\ DOMAIN rows = 1..Len(rows)
    BY <1>2, LenProperties
  <2>2. s \in AddressList => \A i, j \in DOMAIN rows : rows[i].id = rows[j].id => i = j
    BY <1>1, <1>2, TickerAssumption DEF TickerAssumption
  <2> QED
    BY <2>1, <2>2 DEF RowsOK
<1> QED
  BY <1>1, <1>3

\* An answer to a provider's fetch
LEMMA AnswersAre ==
    ASSUME up \in Answering, NEW s \in up, NEW a \in Answers(s), a.kind = "ok", ~Unasked(s)
    PROVE  RowsOK(s, a.rows)
<1>1. a \in [kind : {"ok"}, rows : Texts[s]] \cup {Failure("down"), Failure("throttled")}
  BY DEF Answers
<1>2. Failure("down").kind # "ok" /\ Failure("throttled").kind # "ok"
  BY DEF Failure
<1>3. a.rows \in Texts[s]
  BY <1>1, <1>2
<1> QED
  BY <1>3, TextsOK

\* What the providers list in one poll does not fill the deque.
LEMMA ThreatsOK ==
    ASSUME up \in Answering, CacheOK(cache), NEW answer \in PollAnswers
    PROVE  AllThreats(answer) \in Seq(Item) /\ Len(AllThreats(answer)) < SeenCap
<1> DEFINE bucket == [s \in Provider |-> IF s \in up THEN Bucket(s, answer[s]) ELSE <<>>]
<1>1. ASSUME NEW s \in Provider, s \in up PROVE Bucket(s, answer[s]) \in Seq(Item) /\ Len(Bucket(s, answer[s])) <= Quota
  <2>1. answer[s] \in Answers(s)
    BY <1>1 DEF PollAnswers
  <2>2. CASE answer[s].kind = "ok" /\ ~Unasked(s)
    <3>1. RowsOK(s, Served(s, answer[s]))
      BY <1>1, <2>1, <2>2, AnswersAre DEF Served
    <3>2. Items(s, Served(s, answer[s])) \in Seq(Item) /\ Len(Items(s, Served(s, answer[s]))) <= Quota
      BY <1>1, <3>1, ItemsOK
    <3> QED
      BY <2>2, <3>2 DEF Bucket, Fetched
  <2>3. CASE ~(answer[s].kind = "ok" /\ ~Unasked(s))
    <3>1. CASE Fetched(s, answer[s])
      <4>1. s \in Cached
        BY <2>3, <3>1 DEF Fetched, Unasked, Stale
      <4>2. RowsOK(s, Served(s, answer[s]))
        BY <2>3, <4>1 DEF Served, CacheOK
      <4>3. Items(s, Served(s, answer[s])) \in Seq(Item) /\ Len(Items(s, Served(s, answer[s]))) <= Quota
        BY <1>1, <4>2, ItemsOK
      <4> QED
        BY <3>1, <4>3 DEF Bucket
    <3>2. CASE ~Fetched(s, answer[s])
      BY <3>2, EmptySeq, CapsAre DEF Bucket
    <3> QED
      BY <3>1, <3>2
  <2> QED
    BY <2>2, <2>3
<1>2. bucket \in [Provider -> Seq(Item)]
  BY <1>1, EmptySeq
<1>5. \A s \in Provider : Len(bucket[s]) <= Quota /\ (s \notin up => bucket[s] = <<>>)
  BY <1>1, EmptySeq, CapsAre
<1>3. AllThreats(answer) = Interleaved(bucket, SourceOrder)
  BY DEF AllThreats
<1> HIDE DEF bucket
<1>4. Woven(Item, bucket, SourceOrder, Interleaved(bucket, SourceOrder))
  BY <1>2, SourceOrderOK, InterleavedIs
<1>6. up \subseteq Provider /\ Cardinality(up) * Quota < SeenCap
  BY TickerAssumption DEF TickerAssumption
<1>7. Cardinality(Turns(bucket, SourceOrder)) <= Cardinality(up) * Quota
  BY <1>2, <1>5, <1>6, SourceOrderOK, TurnsWithin
<1>8. Len(AllThreats(answer)) < SeenCap
  <2>1. Len(AllThreats(answer)) = Cardinality(Turns(bucket, SourceOrder)) /\ Len(AllThreats(answer)) \in Nat
    BY <1>3, <1>4, LenProperties DEF Woven
  <2>2. Cardinality(up) * Quota \in Int
    <3>1. up \subseteq Provider /\ IsFiniteSet(Provider)
      BY <1>6, ProvidersFinite
    <3>2. Cardinality(up) \in Nat
      BY <3>1, FS_Subset, FS_CardinalityType
    <3> QED
      BY <3>2, CapsAre
  <2> QED
    BY <1>6, <1>7, <2>1, <2>2, CapsAre
<1> QED
  BY <1>3, <1>4, <1>8 DEF Woven

LEMMA TickerInvInit == TickerInit => TickerInv
<1> SUFFICES ASSUME TickerInit PROVE TickerInv
  OBVIOUS
<1>1. up \in Answering
  BY DEF TickerInit
<1>2. CacheOK(cache)
  <2>1. /\ <<>> \in Seq(Row) /\ Len(<<>>) = 0 /\ \A s \in Cached : cache[s] = NoRows
        /\ cache = [s \in Cached |-> NoRows]
    BY EmptySeq DEF TickerInit
  <2>2. NoRows \in [fresh : BOOLEAN, held : BOOLEAN, rows : Seq(Row)] /\ NoRows.rows = <<>>
    BY <2>1 DEF NoRows
  <2>3. \A s \in Cached : RowsOK(s, <<>>)
    BY <2>1 DEF RowsOK
  <2> QED
    BY <2>1, <2>2, <2>3 DEF CacheOK
<1>3. MemoryOK(memory, ledger) /\ ~ledger.unfair
  <2>1. /\ memory = [seen |-> {}, order |-> <<>>, owner |-> [i \in Ioc |-> Nobody], iocOrder |-> <<>>]
        /\ ledger = [taken |-> <<>>, doubled |-> {}, credited |-> <<>>,
                     repeats |-> FALSE, clashes |-> FALSE, unfair |-> FALSE]
    BY DEF TickerInit
  <2>2. <<>> \in Seq(KeyType) /\ <<>> \in Seq(Ioc) /\ <<>> \in Seq(Item) /\ Len(<<>>) = 0
    BY EmptySeq
  <2>3. memory \in Memory /\ ledger \in Ledger /\ ~ledger.repeats /\ ~ledger.clashes /\ ~ledger.unfair
    BY <2>1, <2>2 DEF Memory, Ledger
  <2>4. \A x : ~In(x, <<>>)
    BY <2>2 DEF In
  <2>5. Late(<<>>, SeenCap) = <<>> /\ Late(<<>>, IocCap) = <<>> /\ 0 <= SeenCap /\ 0 <= IocCap
    BY <2>2, CapsAre DEF Late
  <2>6. KeysOK({}, <<>>, <<>>, {})
    BY <2>2, <2>4, <2>5 DEF KeysOK
  <2>7. IocsOK([i \in Ioc |-> Nobody], <<>>, <<>>)
    BY <2>2, <2>4, <2>5 DEF IocsOK, NoTwice
  <2> QED
    BY <2>1, <2>3, <2>6, <2>7 DEF MemoryOK
<1>4. Queued(memory) /\ BatchOK
  <2>1. /\ memory.seen = {} /\ memory.order = <<>> /\ phase = "wait" /\ batch = <<>>
        /\ Len(<<>>) = 0 /\ <<>> \in Seq(Item) /\ 0 # SeenCap /\ 0 <= MaxPerPoll
    BY EmptySeq, CapsAre DEF TickerInit
  <2> QED
    BY <2>1 DEF Queued, BatchOK
<1> QED
  BY <1>1, <1>2, <1>3, <1>4 DEF TickerInv

\* What a poll hands over is within the cap.
LEMMA FewAreShown ==
    ASSUME NEW q \in Seq(Item)
    PROVE  AtMost(MaxPerPoll, q) \in Seq(Item) /\ Len(AtMost(MaxPerPoll, q)) <= MaxPerPoll
<1>1. MaxPerPoll \in Nat /\ Len(q) \in Nat
  BY CapsAre, LenProperties
<1>2. /\ AtMost(MaxPerPoll, q) \in Seq(Item)
      /\ Len(AtMost(MaxPerPoll, q)) = Lower(Len(q), MaxPerPoll)
  BY <1>1, AtMostIs
<1> QED
  BY <1>1, <1>2 DEF Lower

LEMMA FirstShownOK ==
    ASSUME NEW items \in Seq(Item)
    PROVE  FirstShown(items) \in Seq(Item) /\ Len(FirstShown(items)) <= MaxPerPoll
<1> DEFINE I == {i \in DOMAIN items : \A j \in 1..i - 1 : items[j].ioc # items[i].ioc}
           q == KeepAt(items, I)
<1>1. I \in SUBSET (1..Len(items))
  BY LenProperties
<1>2. FirstShown(items) = AtMost(MaxPerPoll, q) /\ q = KeepAt(items, I)
  BY DEF FirstShown
<1> HIDE DEF I, q
<1>3. q \in Seq(Item)
  BY <1>1, <1>2, KeptIs
<1> QED
  BY <1>2, <1>3, FewAreShown

LEMMA SelectedOK ==
    ASSUME NEW new \in Seq(Item)
    PROVE  Selected(new) \in Seq(Item) /\ Len(Selected(new)) <= MaxPerPoll
<1> DEFINE I(s) == {i \in DOMAIN new : new[i].source = s}
           bucket == [s \in Provider |-> KeepAt(new, I(s))]
           q == Interleaved(bucket, ByName)
<1>1. ASSUME NEW s \in Provider PROVE KeepAt(new, I(s)) \in Seq(Item)
  <2>1. I(s) \in SUBSET (1..Len(new))
    BY LenProperties
  <2> HIDE DEF I
  <2> QED
    BY <2>1, KeptIs
<1>2. bucket \in [Provider -> Seq(Item)]
  <2> HIDE DEF I
  <2> QED
    BY <1>1
<1>3. Selected(new) = AtMost(MaxPerPoll, q)
  BY DEF Selected
<1> HIDE DEF bucket
<1>4. Woven(Item, bucket, ByName, q)
  BY <1>2, ByNameOK, InterleavedIs
<1> HIDE DEF q
<1> QED
  BY <1>3, <1>4, FewAreShown DEF Woven

\* A poll
LEMMA PollKeeps ==
    ASSUME TickerInv, NEW answer \in PollAnswers, Poll(answer)
    PROVE  TickerInv'
<1> DEFINE items == AllThreats(answer)
           start == [m |-> memory, new |-> <<>>, l |-> ledger]
           first == memory.seen = {}
           after == After(first, start, items)
           given == IF first THEN FirstShown(items) ELSE Selected(after.new)
           bad == ~first /\ Unfair(given, after.new)
<1>1. up \in Answering /\ CacheOK(cache) /\ MemoryOK(memory, ledger) /\ Queued(memory)
  BY DEF TickerInv
<1>2. /\ cache' = [s \in Cached |-> IF s \in up THEN CacheAfter(s, answer[s]) ELSE cache[s]]
      /\ memory' = after.m /\ ledger' = [after.l EXCEPT !.unfair = bad] /\ up' = up
      /\ batch' = given /\ phase' = "emit"
  BY DEF Poll
<1>3. items \in Seq(Item) /\ Len(items) < SeenCap
  BY <1>1, ThreatsOK
<1>4. WorkOK(start)
  BY <1>1, EmptySeq DEF WorkOK, Work, MemoryOK
<1>5. /\ first \in BOOLEAN /\ start.m = memory
      /\ first => start.m.order = <<>>
      /\ ~first => start.m.seen # {}
  BY <1>1 DEF Queued
<1>6. after = After(first, start, items)
  OBVIOUS
<1>7. given = IF first THEN FirstShown(items) ELSE Selected(after.new)
  OBVIOUS
<1>8. bad \in BOOLEAN /\ (bad <=> ~first /\ Unfair(given, after.new))
  OBVIOUS
<1> HIDE DEF items, start, first, after, given, bad
<1>9. WorkOK(after) /\ Queued(after.m)
  <2>1. Queued(start.m) /\ (first => start.m.order = <<>> /\ Len(items) < SeenCap)
    BY <1>1, <1>3, <1>5
  <2> QED
    BY <1>3, <1>4, <1>5, <1>6, <2>1, AfterKeeps
<1>10. ~bad
  <2> SUFFICES ASSUME ~first, Unfair(given, after.new) PROVE FALSE
    BY <1>8
  <2>1. PICK s \in up, t \in up : /\ Share(s, given) > Share(t, given) + 1
                                  /\ Share(t, given) < Share(t, after.new)
    BY DEF Unfair
  <2>2. s \in Provider /\ t \in Provider
    BY <1>1, TextsOK
  <2>3. after.new \in Seq(Item) /\ given = Selected(after.new)
    BY <1>7, <1>9 DEF WorkOK, Work
  <2> QED
    BY <2>1, <2>2, <2>3, FairlyShared
<1>11. MemoryOK(memory', ledger') /\ ~ledger'.unfair
  <2>1. MemoryOK(after.m, after.l) /\ after.l \in Ledger
    BY <1>9 DEF WorkOK, Work
  <2>2. /\ ledger' \in Ledger /\ ledger'.taken = after.l.taken /\ ledger'.doubled = after.l.doubled
        /\ ledger'.credited = after.l.credited /\ ledger'.repeats = after.l.repeats
        /\ ledger'.clashes = after.l.clashes /\ ledger'.unfair = FALSE
    <3>1. bad = FALSE
      BY <1>8, <1>10
    <3> QED
      BY <1>2, <2>1, <3>1 DEF Ledger
  <2> QED
    BY <1>2, <2>1, <2>2 DEF MemoryOK
<1>12. CacheOK(cache')
  <2>1. ASSUME NEW s \in Cached
        PROVE  /\ cache'[s] \in [fresh : BOOLEAN, held : BOOLEAN, rows : Seq(Row)]
               /\ RowsOK(s, cache'[s].rows)
    <3>1. cache[s] \in [fresh : BOOLEAN, held : BOOLEAN, rows : Seq(Row)] /\ RowsOK(s, cache[s].rows)
      BY <1>1 DEF CacheOK
    <3>2. CASE s \in up /\ answer[s].kind = "ok" /\ ~Unasked(s)
      <4>1. answer[s] \in Answers(s)
        BY <3>2 DEF PollAnswers
      <4>2. RowsOK(s, answer[s].rows)
        BY <1>1, <3>2, <4>1, AnswersAre
      <4>3. cache'[s] = [fresh |-> TRUE, held |-> TRUE, rows |-> answer[s].rows]
        BY <1>2, <3>2 DEF CacheAfter
      <4> QED
        BY <4>2, <4>3 DEF RowsOK
    <3>3. CASE ~(s \in up /\ answer[s].kind = "ok" /\ ~Unasked(s))
      <4>1. cache'[s] = cache[s]
        BY <1>2, <3>3 DEF CacheAfter
      <4> QED
        BY <3>1, <4>1
    <3> QED
      BY <3>2, <3>3
  <2>2. cache' \in [Cached -> [fresh : BOOLEAN, held : BOOLEAN, rows : Seq(Row)]]
    BY <1>2, <2>1
  <2> QED
    BY <2>1, <2>2 DEF CacheOK
<1>13. Queued(memory') /\ BatchOK'
  <2>1. given \in Seq(Item) /\ Len(given) <= MaxPerPoll
    BY <1>3, <1>7, <1>9, FirstShownOK, SelectedOK DEF WorkOK, Work
  <2> QED
    BY <1>2, <1>9, <2>1 DEF BatchOK
<1> QED
  BY <1>1, <1>2, <1>11, <1>12, <1>13 DEF TickerInv

\* A provider's copy that is put in place, or whose time is up
LEMMA CopyKeeps ==
    ASSUME CacheOK(cache), NEW s \in Cached, NEW copy \in [fresh : BOOLEAN, held : BOOLEAN, rows : Seq(Row)],
           RowsOK(s, copy.rows), cache' = [cache EXCEPT ![s] = copy]
    PROVE  CacheOK(cache')
BY DEF CacheOK

LEMMA TickerInvNext == TickerInv /\ [TickerNext]_tickerVars => TickerInv'
<1> SUFFICES ASSUME TickerInv, [TickerNext]_tickerVars PROVE TickerInv'
  OBVIOUS
<1>1. ASSUME NEW answer \in PollAnswers, Poll(answer) PROVE TickerInv'
  BY <1>1, PollKeeps
<1>2. CASE Emit \/ EmitRaises \/ PollDone
  <2>1. BatchOK /\ MaxPerPoll \in Nat
    BY CapsAre DEF TickerInv
  <2>2. batch # <<>> => Tail(batch) \in Seq(Item) /\ Len(Tail(batch)) <= MaxPerPoll
    <3> SUFFICES ASSUME batch # <<>> PROVE Tail(batch) \in Seq(Item) /\ Len(Tail(batch)) <= MaxPerPoll
      OBVIOUS
    <3>1. batch \in Seq(Item) /\ Len(batch) <= MaxPerPoll
      BY <2>1 DEF BatchOK
    <3>2. Tail(batch) \in Seq(Item) /\ Len(Tail(batch)) = Len(batch) - 1 /\ Len(batch) \in Nat
      BY <3>1, HeadTailProperties, LenProperties
    <3> QED
      BY <2>1, <3>1, <3>2
  <2>3. BatchOK'
    <3>1. <<>> \in Seq(Item) /\ Len(<<>>) <= MaxPerPoll
      BY <2>1, EmptySeq
    <3>2. CASE Emit
      BY <2>1, <2>2, <3>2 DEF Emit, BatchOK
    <3>3. CASE EmitRaises
      BY <3>1, <3>3 DEF EmitRaises, BatchOK
    <3>4. CASE PollDone
      BY <2>1, <3>4 DEF PollDone, BatchOK
    <3> QED
      BY <1>2, <3>2, <3>3, <3>4
  <2> QED
    BY <1>2, <2>3 DEF Emit, EmitRaises, PollDone, TickerInv
<1>3. ASSUME NEW s \in Cached \cap up, CacheExpires(s) PROVE TickerInv'
  <2>1. CacheOK(cache) /\ s \in Cached /\ RowsOK(s, cache[s].rows)
        /\ cache[s] \in [fresh : BOOLEAN, held : BOOLEAN, rows : Seq(Row)]
    BY DEF TickerInv, CacheOK
  <2> DEFINE copy == [cache[s] EXCEPT !.fresh = FALSE]
  <2>2. cache' = [cache EXCEPT ![s] = copy]
    BY <1>3 DEF CacheExpires
  <2>3. copy \in [fresh : BOOLEAN, held : BOOLEAN, rows : Seq(Row)] /\ copy.rows = cache[s].rows
    BY <2>1
  <2> HIDE DEF copy
  <2>4. CacheOK(cache')
    BY <2>1, <2>2, <2>3, CopyKeeps
  <2> QED
    BY <1>3, <2>4 DEF CacheExpires, TickerInv, BatchOK
<1>4. ASSUME NEW s \in Cached \cap up, NEW rows \in Texts[s], LateFetch(s, rows) PROVE TickerInv'
  <2>1. CacheOK(cache) /\ s \in Cached /\ up \in Answering /\ s \in up
    BY DEF TickerInv
  <2>2. RowsOK(s, rows)
    BY <2>1, TextsOK
  <2> DEFINE copy == [fresh |-> TRUE, held |-> TRUE, rows |-> rows]
  <2>3. copy \in [fresh : BOOLEAN, held : BOOLEAN, rows : Seq(Row)] /\ copy.rows = rows
    BY <2>2 DEF RowsOK
  <2>4. cache' = [cache EXCEPT ![s] = copy]
    BY <1>4 DEF LateFetch
  <2> HIDE DEF copy
  <2>5. CacheOK(cache')
    BY <2>1, <2>2, <2>3, <2>4, CopyKeeps
  <2> QED
    BY <1>4, <2>5 DEF LateFetch, TickerInv, BatchOK
<1>5. CASE UNCHANGED tickerVars
  BY <1>5 DEF tickerVars, TickerInv, BatchOK
<1> QED
  BY <1>1, <1>2, <1>3, <1>4, <1>5 DEF TickerNext

LEMMA TickerInvariant == TickerSpec => []TickerInv
BY TickerInvInit, TickerInvNext, PTL DEF TickerSpec

\* Whatever the providers list, and in whichever order, a poll surfaces no
\* entry of which one of the last SeenCap - 1 keys taken is the key, unless
\* the first poll listed it twice (_seen and _seen_order).
THEOREM NothingSurfacesTwice == TickerSpec => []SurfacedOnce
<1>1. TickerInv => SurfacedOnce
  BY DEF TickerInv, MemoryOK, SurfacedOnce
<1> QED
  BY <1>1, TickerInvariant, PTL

\* Whatever the providers list, one of the last IocCap - 1 indicators taken is
\* surfaced for no other provider than the one that took it (_remember_ioc).
THEOREM OneProviderSurfaces == TickerSpec => []OneProvider
<1>1. TickerInv => OneProvider
  BY DEF TickerInv, MemoryOK, OneProvider
<1> QED
  BY <1>1, TickerInvariant, PTL

\* However many new items each provider has, and wherever the cap cuts, no
\* provider gets two items more in a poll than one that still has some
\* (the round robin of _poll_once).
THEOREM SharesAreFair == TickerSpec => []FairShare
<1>1. TickerInv => FairShare
  BY DEF TickerInv, FairShare
<1> QED
  BY <1>1, TickerInvariant, PTL

\* Whatever the providers list, the deques stay within their lengths, what is
\* remembered is in its deque and so will be forgotten, and no poll hands over
\* more than the cap (_remember, _remember_ioc, _poll_once).
THEOREM TickerWellFormed == TickerSpec => []TickerTypeOK
<1>1. TickerInv => TickerTypeOK
  <2> SUFFICES ASSUME TickerInv PROVE TickerTypeOK
    OBVIOUS
  <2>1. /\ up \in Answering /\ CacheOK(cache) /\ BatchOK /\ Queued(memory)
        /\ KeysOK(memory.seen, memory.order, ledger.taken, ledger.doubled)
        /\ IocsOK(memory.owner, memory.iocOrder, ledger.credited)
    BY DEF TickerInv, MemoryOK
  <2>2. memory.order \in Seq(KeyType) /\ memory.iocOrder \in Seq(Ioc)
    BY <2>1 DEF KeysOK, IocsOK
  <2>3. DOMAIN memory.order = 1..Len(memory.order) /\ DOMAIN memory.iocOrder = 1..Len(memory.iocOrder)
    BY <2>2, LenProperties
  <2>4. memory.seen \subseteq ToSet(memory.order)
    BY <2>1, <2>3 DEF Queued, In, ToSet
  <2>5. \A i \in Ioc : memory.owner[i] # Nobody => Contains(memory.iocOrder, i)
    <3> SUFFICES ASSUME NEW i \in Ioc, memory.owner[i] # Nobody PROVE Contains(memory.iocOrder, i)
      OBVIOUS
    <3>1. In(i, Late(memory.iocOrder, IocCap))
      BY <2>1 DEF IocsOK
    <3>2. In(i, memory.iocOrder)
      <4>1. Len(memory.iocOrder) <= IocCap /\ IocCap \in Nat \ {0, 1}
        BY <2>1, CapsAre DEF IocsOK
      <4> QED
        BY <2>2, <3>1, <4>1, LateIn
    <3> QED
      BY <2>3, <3>2 DEF In, Contains
  <2> QED
    BY <2>1, <2>4, <2>5 DEF TickerTypeOK, CacheOK, BatchOK, KeysOK, IocsOK
<1> QED
  BY <1>1, TickerInvariant, PTL

-----------------------------------------------------------------------------
(* The instance that is checked (MCServices): each part goes its own way,  *)
(* so that whatever is proved of one holds beside the others.              *)

\* The parts share no state and have no step in common: each behaves as it
\* does on its own.
THEOREM PartsBehave ==
    ServicesSpec => /\ Spec /\ TickerSpec /\ PipelineSpec /\ MonitorsSpec
                    /\ FeedsSpec /\ BreachSpec /\ VerdictsSpec
<1>1. ServicesInit => /\ Init /\ TickerInit /\ PipelineInit /\ MonitorsInit
                      /\ FeedsInit /\ BreachInit /\ VerdictsInit
  BY DEF ServicesInit
<1>2. [ServicesNext]_services => /\ [Next]_vars
                                 /\ [TickerNext]_tickerVars /\ [PipelineNext]_pipelineVars
                                 /\ [MonitorsNext]_monitorsVars /\ [FeedsNext]_feedsVars
                                 /\ [BreachNext]_breachVars /\ [VerdictsNext]_verdictsVars
  BY DEF ServicesNext, OthersWait, services
<1> QED
  BY <1>1, <1>2, PTL
  DEF ServicesSpec, Spec, TickerSpec, PipelineSpec, MonitorsSpec, FeedsSpec, BreachSpec,
      VerdictsSpec

LEMMA FeedsAreTyped == FeedsSpec => []FeedsTypeOK
BY FeedsInitTypes, FeedsStepTypes, PTL DEF FeedsSpec

LEMMA BreachIsTyped == BreachSpec => []BreachTypeOK
<1>1. Types => BreachTypeOK
  BY DEF Types, BreachTypeOK, Lookup, LookupStage
<1> QED
  BY BreachInitTypes, BreachStepTypes, <1>1, PTL DEF BreachSpec

LEMMA MonitorsAreTyped == MonitorsSpec => []MonitorsTypeOK
<1>1. MonitorsInv => MonitorsTypeOK
  BY DEF MonitorsInv
<1> QED
  BY MonitorsStart, MonitorsStep, <1>1, PTL DEF MonitorsSpec

\* Every variable of every part beside the correlator (CampaignsWellFormed
\* in CorrelatorProofs) has its type: the deques and buffers keep
\* their lengths, no rule is for an address that must stay reachable, and a
\* dry run changes nothing.
THEOREM ServicesAreTyped == ServicesSpec => []ServicesTypeOK
<1>1. /\ TickerTypeOK /\ PipelineTypeOK /\ MonitorsTypeOK
      /\ FeedsTypeOK /\ BreachTypeOK /\ VerdictsTypeOK
      => ServicesTypeOK
  BY DEF ServicesTypeOK
<1> QED
  BY PartsBehave, TickerWellFormed, PipelineIsTyped, MonitorsAreTyped, FeedsAreTyped,
     BreachIsTyped, VerdictsAreTyped, <1>1, PTL

=============================================================================
