----------------------------- MODULE Correlator -----------------------------
(***************************************************************************)
(* guardian/engine/correlator.py: alerts from all monitor threads are      *)
(* grouped into campaigns.  Grouping happens under the correlator's lock;  *)
(* the baseline narrative, the on_campaign callback and the decision to    *)
(* ask the language model happen after it is released, on the live         *)
(* Campaign object, which they share with whoever has the lock.  The       *)
(* analysis worker synthesizes campaigns one at a time; the prune thread   *)
(* expires them.                                                           *)
(*                                                                         *)
(* An alert is its severity and the set of entities extracted from it; a   *)
(* narrative is where it came from, and "none" one that the model left     *)
(* out: the same empty text to the code as "", which none has written.     *)
(* Campaign ids are positions in _campaigns, whose iteration order is      *)
(* creation order.  The techniques, titles and texts of a campaign are     *)
(* left out.  Bounds: MaxAlerts alerts, a clock that stops at MaxTime.     *)
(***************************************************************************)
EXTENDS Integers, Sequences, FiniteSets, FiniteSetsExt, SequencesExt

CONSTANTS Thread,         \* monitor threads that call ingest()
          EntitySets,     \* the entity sets an alert may carry
          Levels,         \* number of severities
          MinAlerts,      \* CAMPAIGN_MIN_ALERTS
          SlmThreshold,   \* CAMPAIGN_SLM_THRESHOLD
          Window,         \* CAMPAIGN_WINDOW_SECS
          MaxCampaigns,   \* MAX_CAMPAIGNS
          MaxPendingJobs, \* capacity of the analysis queue
          MaxAlerts, MaxTime

ASSUME CorrelatorAssumption ==
    /\ Levels \in Nat \ {0}
    /\ MinAlerts \in Nat \ {0, 1} /\ SlmThreshold \in Nat
    /\ Window \in Nat /\ MaxCampaigns \in Nat \ {0}
    /\ MaxPendingJobs \in Nat \ {0} /\ {MaxAlerts, MaxTime} \subseteq Nat

VARIABLES now,        \* the clock
          campaigns,  \* _campaigns: the sequence of Campaign objects
          handler,    \* _on_campaign is set
          pc,         \* where each thread is in ingest()
          held,       \* the campaign each thread's ingest() returned, or 0
          sevRead,    \* the severity each thread's baseline narrative read
          jobs,       \* campaigns whose synthesis waits in the analysis queue
          workerPc,   \* where the worker is in _synthesize
          job, jobCount,         \* its campaign and count_at_synthesis
          jobSev,     \* the severity its rule-based synthesis read
          alertOf,    \* _alert_to_campaign, alerts numbered as ingested
          asked,      \* campaigns submitted for synthesis (history)
          judged,     \* campaigns the model has answered for (history)
          blanked,    \* threads about to call on_campaign from whose campaign
                      \* the model has taken the narrative (history)
          heard       \* alert count the last on_campaign call saw, or would
                      \* have seen had there been a handler (history)

threadVars == <<pc, held, sevRead>>
workerVars == <<workerPc, job, jobCount, jobSev>>
history == <<asked, judged, blanked, heard>>
vars == <<now, campaigns, handler, threadVars, jobs, workerVars, alertOf, history>>

\* The worst severity is the greatest.
Severities == 1..Levels
Status == {"ACTIVE", "SYNTHESIZED", "EXPIRED"}
Campaign == [alerts : Seq(Severities) \ {<<>>}, entities : SUBSET UNION EntitySets,
             last : Nat, status : Status, severity : Severities,
             synthesis : {"", "rules", "model", "none"}, synthesizedAt : Nat]

Init ==
    /\ now = 0
    /\ campaigns = <<>>
    /\ handler \in BOOLEAN
    /\ pc = [t \in Thread |-> "idle"]
    /\ held = [t \in Thread |-> 0]
    /\ sevRead = [t \in Thread |-> 0]
    /\ jobs = <<>>
    /\ workerPc = "idle" /\ job = 0 /\ jobCount = 0 /\ jobSev = 0
    /\ alertOf = <<>>
    /\ asked = {} /\ judged = {} /\ blanked = {} /\ heard = <<>>

-----------------------------------------------------------------------------
(* ingest(): the section under the lock                                    *)

\* The lock is kept from the append to the recomputed severity, and while a
\* synthesis is applied.
Free ==
    /\ \A t \in Thread : pc[t] # "recompute"
    /\ workerPc \notin {"answered", "status", "rules", "rulesText", "rulesStatus"}

\* Campaign._recompute_severity
Worst(alerts) == Max(ToSet(alerts))

Open(c) == c.status # "EXPIRED" /\ now - c.last <= Window
\* _alerts_are_related: each of its clauses needs a shared entity.
Related(entities, c) == entities \cap c.entities # {}
Joinable(entities) ==
    {i \in DOMAIN campaigns : Open(campaigns[i]) /\ Related(entities, campaigns[i])}

\* The alert is there before the severity says so.
JoinCampaign(i, sev, entities) ==
    campaigns' = [campaigns EXCEPT ![i].alerts = Append(@, sev), ![i].last = now,
                                   ![i].entities = @ \cup entities]

NewCampaign(sev, entities) ==
    [alerts |-> <<sev>>, entities |-> entities, last |-> now, status |-> "ACTIVE",
     severity |-> sev, synthesis |-> "", synthesizedAt |-> 0]

Ingest(t, sev, entities) ==
    /\ pc[t] = "idle"
    /\ Free
    /\ Len(alertOf) < MaxAlerts
    /\ LET joinable == Joinable(entities)
           i == IF joinable = {} THEN Len(campaigns) + 1 ELSE Min(joinable)
       IN /\ IF joinable = {}
             THEN /\ campaigns' = Append(campaigns, NewCampaign(sev, entities))
                  /\ heard' = Append(heard, 0)
                  /\ pc' = [pc EXCEPT ![t] = "mature"]
             ELSE /\ JoinCampaign(i, sev, entities)
                  /\ pc' = [pc EXCEPT ![t] = "recompute"]
                  /\ UNCHANGED heard
          /\ alertOf' = Append(alertOf, i)
          /\ held' = [held EXCEPT ![t] = i]
    /\ UNCHANGED <<now, handler, sevRead, jobs, workerVars, asked, judged, blanked>>

\* The severity of the latest alert.
RecomputeLatest(t) ==
    /\ pc[t] = "recompute"
    /\ campaigns' = [campaigns EXCEPT ![held[t]].severity = Last(campaigns[held[t]].alerts)]
    /\ pc' = [pc EXCEPT ![t] = "mature"]
    /\ UNCHANGED <<now, handler, held, sevRead, jobs, workerVars, alertOf, history>>

Recompute(t) ==
    /\ pc[t] = "recompute"
    /\ campaigns' = [campaigns EXCEPT ![held[t]].severity = Worst(campaigns[held[t]].alerts)]
    /\ pc' = [pc EXCEPT ![t] = "mature"]
    /\ UNCHANGED <<now, handler, held, sevRead, jobs, workerVars, alertOf, history>>

-----------------------------------------------------------------------------
(* ingest(): after the lock is released                                    *)

Goto(t, label) == pc' = [pc EXCEPT ![t] = label]
Return(t) == /\ Goto(t, "idle")
             /\ held' = [held EXCEPT ![t] = 0]
             /\ sevRead' = [sevRead EXCEPT ![t] = 0]

Mature(c) == Len(c.alerts) >= MinAlerts

\* mature is read once; `if mature and self._on_campaign`.
CheckMature(t) ==
    /\ pc[t] = "mature"
    /\ LET c == campaigns[held[t]]
       IN /\ IF Mature(c)
             THEN Goto(t, IF handler THEN "narrative" ELSE "submit")
                  /\ UNCHANGED <<held, sevRead>>
             ELSE Return(t)
          /\ heard' = IF handler THEN heard ELSE [heard EXCEPT ![held[t]] = Len(c.alerts)]
    /\ UNCHANGED <<now, campaigns, handler, jobs, workerVars, alertOf,
                   asked, judged, blanked>>

\* The narrative is left to the model.
NarrativeSkipped(t) ==
    /\ pc[t] = "narrative"
    /\ Goto(t, "callback")
    /\ UNCHANGED <<now, campaigns, handler, held, sevRead, jobs, workerVars,
                   alertOf, history>>

HasText(c) == c.synthesis \in {"rules", "model"}

\* _ensure_baseline_narrative: `if campaign.synthesis: return`.
CheckNarrative(t) ==
    /\ pc[t] = "narrative"
    /\ Goto(t, IF HasText(campaigns[held[t]]) THEN "callback" ELSE "rules")
    /\ UNCHANGED <<now, campaigns, handler, held, sevRead, jobs, workerVars,
                   alertOf, history>>

\* _rule_based_synthesis reads the campaign's severity.
ReadSeverity(t) ==
    /\ pc[t] = "rules"
    /\ sevRead' = [sevRead EXCEPT ![t] = campaigns[held[t]].severity]
    /\ Goto(t, "applyText")
    /\ UNCHANGED <<now, campaigns, handler, held, jobs, workerVars, alertOf, history>>

\* _apply_synthesis_data, field by field and without the lock.
ApplyText(t) ==
    /\ pc[t] = "applyText"
    /\ campaigns' = [campaigns EXCEPT ![held[t]].synthesis = "rules"]
    /\ Goto(t, "applySeverity")
    /\ UNCHANGED <<now, handler, held, sevRead, jobs, workerVars, alertOf, history>>

ApplySeverity(t) ==
    /\ pc[t] = "applySeverity"
    /\ campaigns' = [campaigns EXCEPT ![held[t]].severity = sevRead[t]]
    /\ Goto(t, "applyStatus")
    /\ UNCHANGED <<now, handler, held, sevRead, jobs, workerVars, alertOf, history>>

ApplyStatus(t) ==
    /\ pc[t] = "applyStatus"
    /\ campaigns' = [campaigns EXCEPT ![held[t]].status = "SYNTHESIZED"]
    /\ Goto(t, "callback")
    /\ UNCHANGED <<now, handler, held, sevRead, jobs, workerVars, alertOf, history>>

\* The handler is called when a campaign matures, and not again.
CallbackAtThreshold(t) ==
    /\ pc[t] = "callback"
    /\ heard' = IF Len(campaigns[held[t]].alerts) = MinAlerts
                   THEN [heard EXCEPT ![held[t]] = MinAlerts] ELSE heard
    /\ blanked' = blanked \ {t}
    /\ Goto(t, "submit")
    /\ UNCHANGED <<now, campaigns, handler, held, sevRead, jobs, workerVars,
                   alertOf, asked, judged>>

\* self._on_campaign(campaign) reads the live campaign.
Callback(t) ==
    /\ pc[t] = "callback"
    /\ heard' = [heard EXCEPT ![held[t]] = Len(campaigns[held[t]].alerts)]
    /\ blanked' = blanked \ {t}
    /\ Goto(t, "submit")
    /\ UNCHANGED <<now, campaigns, handler, held, sevRead, jobs, workerVars,
                   alertOf, asked, judged>>

\* The conditions on use_slm (on by default), alert count and status.
WantsSynthesis(c) == Len(c.alerts) >= SlmThreshold /\ c.status = "ACTIVE"

JobsUnbounded(i) == Append(jobs, i)
\* submit_analysis: the analysis queue drops its oldest job when it is full.
JobsWith(i) == Append(IF Len(jobs) < MaxPendingJobs THEN jobs ELSE Tail(jobs), i)

SubmitSynthesis(t) ==
    /\ pc[t] = "submit"
    /\ IF WantsSynthesis(campaigns[held[t]])
       THEN /\ jobs' = JobsWith(held[t])
            /\ asked' = asked \cup {held[t]}
       ELSE UNCHANGED <<jobs, asked>>
    /\ Return(t)
    /\ UNCHANGED <<now, campaigns, handler, workerVars, alertOf, judged, blanked, heard>>

-----------------------------------------------------------------------------
(* _synthesize() on the analysis worker                                    *)

GrownEnough(c) == 2 * Len(c.alerts) >= 3 * c.synthesizedAt

SynthesisStart ==
    /\ workerPc = "idle"
    /\ jobs # <<>>
    /\ jobs' = Tail(jobs)
    /\ LET c == campaigns[Head(jobs)]
       IN IF c.status = "SYNTHESIZED" /\ ~GrownEnough(c)
          THEN UNCHANGED workerVars
          ELSE /\ job' = Head(jobs)
               /\ jobCount' = Len(c.alerts)
               /\ workerPc' = "infer"
               /\ UNCHANGED jobSev
    /\ UNCHANGED <<now, campaigns, handler, threadVars, alertOf, history>>

\* The model answered with JSON, in which the narrative may be missing or
\* empty.  It is applied under the lock, field by field as in a baseline
\* narrative, which other threads may be writing.
Overtaken ==
    {t \in Thread : held[t] = job /\ pc[t] \in {"applySeverity", "applyStatus", "callback"}}
SynthesisFromModel ==
    /\ workerPc = "infer"
    /\ Free
    /\ \E text \in {"model", "none"} :
          /\ campaigns' = [campaigns EXCEPT ![job].synthesis = text]
          /\ blanked' = IF text = "none" THEN blanked \cup Overtaken ELSE blanked
    /\ judged' = judged \cup {job}
    /\ workerPc' = "answered"
    /\ UNCHANGED <<now, handler, threadVars, jobs, job, jobCount, jobSev, alertOf,
                   asked, heard>>

\* Any severity answered; the campaign's own stands for one that is missing or
\* unknown.
AnsweredSeverity ==
    /\ workerPc = "answered"
    /\ \E sev \in Severities : campaigns' = [campaigns EXCEPT ![job].severity = sev]
    /\ workerPc' = "status"
    /\ UNCHANGED <<now, handler, threadVars, jobs, job, jobCount, jobSev, alertOf, history>>

\* The model, or the callback after it, raised: the rule-based narrative.
SynthesisFromRules ==
    /\ workerPc \in {"infer", "raised"}
    /\ Free
    /\ jobSev' = campaigns[job].severity
    /\ workerPc' = "rules"
    /\ UNCHANGED <<now, campaigns, handler, threadVars, jobs, job, jobCount, alertOf, history>>

RulesText ==
    /\ workerPc = "rules"
    /\ campaigns' = [campaigns EXCEPT ![job].synthesis = "rules"]
    /\ workerPc' = "rulesText"
    /\ UNCHANGED <<now, handler, threadVars, jobs, job, jobCount, jobSev, alertOf, history>>

RulesSeverity ==
    /\ workerPc = "rulesText"
    /\ campaigns' = [campaigns EXCEPT ![job].severity = jobSev]
    /\ jobSev' = 0
    /\ workerPc' = "rulesStatus"
    /\ UNCHANGED <<now, handler, threadVars, jobs, job, jobCount, alertOf, history>>

SynthesisStatus ==
    /\ workerPc \in {"status", "rulesStatus"}
    /\ campaigns' = [campaigns EXCEPT ![job].status = "SYNTHESIZED",
                                      ![job].synthesizedAt = jobCount]
    /\ workerPc' = IF workerPc = "status" THEN "notify" ELSE "notifyRules"
    /\ UNCHANGED <<now, handler, threadVars, jobs, job, jobCount, jobSev, alertOf, history>>

SynthesisNotify ==
    /\ workerPc \in {"notify", "notifyRules"}
    /\ heard' = IF handler THEN [heard EXCEPT ![job] = Len(campaigns[job].alerts)]
                   ELSE heard
    /\ workerPc' = "idle" /\ job' = 0 /\ jobCount' = 0
    /\ UNCHANGED <<now, campaigns, handler, threadVars, jobs, jobSev, alertOf,
                   asked, judged, blanked>>

\* on_campaign raised inside the try block.
SynthesisNotifyRaises ==
    /\ workerPc = "notify"
    /\ handler
    /\ workerPc' = "raised"
    /\ UNCHANGED <<now, campaigns, handler, threadVars, jobs, job, jobCount, jobSev,
                   alertOf, history>>

-----------------------------------------------------------------------------
(* The prune thread, the singleton's late handler, the clock               *)

Old(c) == now - c.last > 2 * Window

\* The oldest campaigns beyond the cap, oldest first as sorted() is stable.
Older(i, j) == \/ campaigns[i].last < campaigns[j].last
               \/ campaigns[i].last = campaigns[j].last /\ i < j
Newer(i, j) == Older(j, i)

OverCapNewest ==
    {i \in DOMAIN campaigns :
        Cardinality({j \in DOMAIN campaigns : Newer(j, i)})
            < Len(campaigns) - MaxCampaigns}
OverCap ==
    {i \in DOMAIN campaigns :
        Cardinality({j \in DOMAIN campaigns : Older(j, i)})
            < Len(campaigns) - MaxCampaigns}

Prune ==
    /\ Free
    /\ campaigns' = [i \in DOMAIN campaigns |->
                       IF Old(campaigns[i]) \/ i \in OverCap
                       THEN [campaigns[i] EXCEPT !.status = "EXPIRED"]
                       ELSE campaigns[i]]
    /\ UNCHANGED <<now, handler, threadVars, jobs, workerVars, alertOf, history>>

\* get_correlator(on_campaign=...) on a correlator created without one.
SetHandler ==
    /\ ~handler
    /\ handler' = TRUE
    /\ UNCHANGED <<now, campaigns, threadVars, jobs, workerVars, alertOf, history>>

Tick ==
    /\ now < MaxTime
    /\ now' = now + 1
    /\ UNCHANGED <<campaigns, handler, threadVars, jobs, workerVars, alertOf, history>>

-----------------------------------------------------------------------------
IngestStep(t) ==
    \/ Recompute(t) \/ CheckMature(t) \/ CheckNarrative(t) \/ ReadSeverity(t)
    \/ ApplyText(t) \/ ApplySeverity(t) \/ ApplyStatus(t)
    \/ Callback(t) \/ SubmitSynthesis(t)

Worker ==
    \/ SynthesisStart \/ SynthesisFromModel \/ AnsweredSeverity
    \/ SynthesisFromRules \/ RulesText \/ RulesSeverity \/ SynthesisStatus
    \/ SynthesisNotify \/ SynthesisNotifyRaises

Next ==
    \/ \E t \in Thread, sev \in Severities, entities \in EntitySets :
          Ingest(t, sev, entities)
    \/ \E t \in Thread : IngestStep(t)
    \/ Worker \/ Prune \/ SetHandler \/ Tick

Spec == Init /\ [][Next]_vars

-----------------------------------------------------------------------------
(* Properties                                                              *)

Quiescent == \A t \in Thread : pc[t] = "idle"

\* The shape of the correlator's state; a campaign always has alerts.
TypeOK ==
    /\ now \in 0..MaxTime
    /\ campaigns \in Seq(Campaign)
    /\ handler \in BOOLEAN
    /\ pc \in [Thread -> {"idle", "recompute", "mature", "narrative", "rules", "applyText",
                          "applySeverity", "applyStatus", "callback", "submit"}]
    /\ held \in [Thread -> 0..Len(campaigns)]
    /\ \A t \in Thread : held[t] = 0 <=> pc[t] = "idle"
    /\ sevRead \in [Thread -> Severities \cup {0}]
    /\ jobs \in Seq(DOMAIN campaigns) /\ Len(jobs) <= MaxPendingJobs
    /\ workerPc \in {"idle", "infer", "raised", "answered", "status", "rules", "rulesText",
                     "rulesStatus", "notify", "notifyRules"}
    /\ job \in 0..Len(campaigns) /\ (job = 0 <=> workerPc = "idle")
    /\ jobCount \in Nat /\ jobSev \in Severities \cup {0}
    /\ blanked \subseteq Thread
    /\ alertOf \in Seq(DOMAIN campaigns) /\ Len(alertOf) <= MaxAlerts
    /\ asked \subseteq DOMAIN campaigns /\ judged \subseteq DOMAIN campaigns
    /\ heard \in [DOMAIN campaigns -> Nat]

\* An ingest() only ever calls on_campaign for a campaign with
\* CAMPAIGN_MIN_ALERTS alerts and with a narrative, although another thread may
\* be half way through writing that narrative, unless an answer of the model
\* without one has replaced it between the check and the call.  A campaign
\* marked SYNTHESIZED has a narrative, or the model gave it an empty one.
NarrativeBeforeCallback ==
    /\ \A t \in Thread : pc[t] = "callback" =>
          /\ Mature(campaigns[held[t]])
          /\ HasText(campaigns[held[t]]) \/ t \in blanked
    /\ \A i \in DOMAIN campaigns :
          campaigns[i].status = "SYNTHESIZED" => campaigns[i].synthesis # ""

\* When every ingest() has returned, the handler has been told of every alert
\* of every mature campaign: interleaved updates of one campaign lose none.
EveryUpdateHeard ==
    Quiescent =>
        \A i \in DOMAIN campaigns :
            Mature(campaigns[i]) => heard[i] = Len(campaigns[i].alerts)

\* How many alerts the campaign's severity has taken up, and of those alerts
\* the ones before that which may make it mature.
Recomputing(i) == \E t \in Thread : held[t] = i /\ pc[t] = "recompute"
Taken(i) ==
    IF Recomputing(i) THEN Len(campaigns[i].alerts) - 1 ELSE Len(campaigns[i].alerts)
Early(i) == SubSeq(campaigns[i].alerts, 1, Min({MinAlerts - 1, Taken(i)}))

\* Writing a narrative reads the severity and writes it back, while an alert
\* has joined and its severity has not been taken up yet, or is taken up
\* meanwhile.  That may lose the severity of any alert from the one that makes
\* the campaign mature, but a campaign the model has not judged is never rated
\* below those before it, nor above its worst alert.
SeverityBounded ==
    \A i \in DOMAIN campaigns \ judged :
        /\ campaigns[i].severity <= Worst(campaigns[i].alerts)
        /\ campaigns[i].severity >= Worst(Early(i))

\* A prune leaves at most MAX_CAMPAIGNS campaigns unexpired, and gives up no
\* campaign inside its time window while it keeps one that was quiet longer.
PruneKeepsNewest ==
    [][Prune =>
        LET kept == {i \in DOMAIN campaigns : campaigns'[i].status # "EXPIRED"}
            given == {i \in DOMAIN campaigns \ kept :
                        campaigns[i].status # "EXPIRED" /\ ~Old(campaigns[i])}
        IN /\ Cardinality(kept) <= MaxCampaigns
           /\ \A i \in given, j \in kept : campaigns[i].last <= campaigns[j].last]_vars

\* "SLM is called once per campaign, lazily, only when a campaign is 'mature'":
\* an ingest() that has seen SlmThreshold alerts has submitted the synthesis.
MatureIsSubmitted ==
    Quiescent => \A i \in DOMAIN campaigns :
                    Len(campaigns[i].alerts) >= SlmThreshold => i \in asked

\* "Thread-safe: all public methods can be called from multiple module threads
\* simultaneously": at rest, a campaign the model has not judged is as severe
\* as its worst alert.
SeverityIsWorst ==
    Quiescent => \A i \in DOMAIN campaigns \ judged :
                    campaigns[i].severity = Worst(campaigns[i].alerts)
=============================================================================
