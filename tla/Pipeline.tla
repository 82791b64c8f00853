------------------------------ MODULE Pipeline ------------------------------
(***************************************************************************)
(* What follows an alert (cli.py: _store_alert, _on_campaign) and what it  *)
(* does to the host (engine/responder.py): blocks, kills and quarantine.   *)
(*                                                                         *)
(* Two threads store alerts: the analysis worker those of the monitors,    *)
(* the ticker those of the global feed.  What a thread has still to do for *)
(* its alert is its list pending; an exception in the audit write drops the*)
(* rest of the list: it leaves _store_alert, a monitor swallows it, and the*)
(* ticker gives up its poll.  Meanwhile processes exit and their ids are   *)
(* used again, files are replaced, and seconds pass.                       *)
(*                                                                         *)
(* The firewall is iptables, the first choice on Linux: two commands for an*)
(* address.  The others have one command, of which the same holds.  The    *)
(* last look at a file, its chmod and its move are one step.               *)
(*                                                                         *)
(* All alerts join one campaign (Correlator has the details); its severity *)
(* is at least that of its worst alert, the baseline may rate it higher.   *)
(* Bounds: MaxStored alerts, MaxSecond seconds, and audit writes fail      *)
(* until the records of MaxLost changes are lost.                          *)
(***************************************************************************)
EXTENDS Integers, Sequences, SequencesExt, FiniteSets, Lists

CONSTANTS Alert,           \* alerts the threads may store
          Ip, Blockable,   \* addresses, and those is_blockable_ip accepts
          FilePath,
          MaxBlocks,       \* MAX_CAMPAIGN_BLOCKS
          MaxStored, MaxSecond, MaxLost

ASSUME PipelineAssumption ==
    /\ Blockable \subseteq Ip
    /\ \A a \in Alert : a.ips \in Seq(Ip)
    /\ {MaxBlocks, MaxStored} \subseteq Nat \ {0} /\ {MaxSecond, MaxLost} \subseteq Nat

VARIABLES dryRun,
          stored,          \* alerts stored so far
          campaign,        \* Campaign.alerts, a list both threads see
          pushed,          \* alerts in the campaign the dashboard has
          pending,         \* what each thread has still to do
          doing,           \* the act of each thread that is not yet audited
          inRules,         \* rules of the chain INPUT for each address
          outRules,        \* rules of the chain OUTPUT for each address
          process,         \* who runs under the process id of the alerts
          killed,          \* processes killed
          files,           \* what is at each path
          disarmed,        \* files whose execute bits were taken
          quarantine,      \* names taken in QUARANTINE_DIR
          second,          \* int(time.time())
          audited,         \* changes of the host whose record says success
          misreported,     \* changes whose record says the act failed
          unaudited        \* changes whose record could not be written

hostVars == <<inRules, outRules, process, killed, files, disarmed, quarantine>>
auditVars == <<audited, misreported, unaudited>>
pipelineVars == <<dryRun, stored, campaign, pushed, pending, doing, hostVars, second, auditVars>>

Storer == {"worker", "ticker"}
Idle == [kind |-> "idle", changed |-> 0, success |-> TRUE]
Block(ip) == [kind |-> "block", ip |-> ip]
OnCampaign == [kind |-> "campaign"]
PushCampaign == [kind |-> "push"]

PipelineInit ==
    /\ dryRun \in BOOLEAN
    /\ stored = 0 /\ campaign = <<>> /\ pushed = 0
    /\ pending = [t \in Storer |-> <<>>] /\ doing = [t \in Storer |-> Idle]
    /\ inRules = [i \in Ip |-> 0] /\ outRules = [i \in Ip |-> 0]
    /\ process = "suspect" /\ killed = 0
    /\ files = [p \in FilePath |-> "regular"] /\ disarmed = 0 /\ quarantine = {}
    /\ second = 0 /\ audited = 0 /\ misreported = 0 /\ unaudited = 0

-----------------------------------------------------------------------------
(* What to do                                                              *)

AtMostOf(n, s) == SubSeq(s, 1, IF Len(s) < n THEN Len(s) ELSE n)

\* _safe_block_targets: blockable addresses, each where it is first.
SafeTargets(ips) ==
    KeepAt(ips, {i \in DOMAIN ips : ips[i] \in Blockable /\ \A j \in 1..i - 1 : ips[j] # ips[i]})

\* The addresses in the alerts of the campaign
Candidates == FlattenSeq([i \in DOMAIN campaign |-> campaign[i].ips])

\* respond_to_alert: kill, then block, then quarantine.
AlertActs(a) ==
    LET blocks == AtMostOf(1, SafeTargets(a.ips)) IN
    IF ~a.severe THEN <<>>
    ELSE (IF a.module = "file_monitor" /\ a.pid THEN <<[kind |-> "kill"]>> ELSE <<>>)
      \o (IF a.module = "network_monitor" THEN [i \in DOMAIN blocks |-> Block(blocks[i])] ELSE <<>>)
      \o (IF a.module = "file_monitor" /\ a.path \in FilePath
          THEN <<[kind |-> "quarantine", path |-> a.path]>> ELSE <<>>)

\* Mutant: the cap is left out.
CampaignActsUncapped(raised) ==
    LET targets == SafeTargets(Candidates)
        severe == raised \/ \E i \in DOMAIN campaign : campaign[i].severe
    IN  IF severe THEN [i \in DOMAIN targets |-> Block(targets[i])] ELSE <<>>

\* respond_to_campaign: every address in any of its alerts, up to the cap.
CampaignActs(raised) ==
    LET targets == AtMostOf(MaxBlocks, SafeTargets(Candidates))
        severe == raised \/ \E i \in DOMAIN campaign : campaign[i].severe
    IN  IF severe THEN [i \in DOMAIN targets |-> Block(targets[i])] ELSE <<>>

-----------------------------------------------------------------------------
(* _store_alert                                                            *)

\* Stored, enriched, shown and correlated; the second alert makes a campaign,
\* and every alert after it updates one.
StoreAlert(t, a) ==
    /\ pending[t] = <<>> /\ doing[t] = Idle
    /\ stored < MaxStored
    /\ t = "ticker" <=> a.module = "global_feed"
    /\ stored' = stored + 1
    /\ campaign' = Append(campaign, a)
    /\ pending' = [pending EXCEPT ![t] =
            (IF campaign # <<>> THEN <<OnCampaign, PushCampaign>> ELSE <<>>) \o AlertActs(a)]
    /\ UNCHANGED <<dryRun, pushed, doing, hostVars, second, auditVars>>

Next1(t, kind) == pending[t] # <<>> /\ Head(pending[t]).kind = kind /\ doing[t] = Idle

\* _on_campaign: the responder first, with the alerts the list has by now.
RespondToCampaign(t, raised) ==
    /\ Next1(t, "campaign")
    /\ pending' = [pending EXCEPT ![t] = CampaignActs(raised) \o Tail(@)]
    /\ UNCHANGED <<dryRun, stored, campaign, pushed, doing, hostVars, second, auditVars>>

\* ... then DashboardState.ingest_campaign.
Push(t) ==
    /\ Next1(t, "push")
    /\ pushed' = Len(campaign)
    /\ pending' = [pending EXCEPT ![t] = Tail(@)]
    /\ UNCHANGED <<dryRun, stored, campaign, doing, hostVars, second, auditVars>>

-----------------------------------------------------------------------------
(* The responder                                                           *)

Did(t, n, success) ==
    doing' = [doing EXCEPT ![t] = [kind |-> Head(pending[t]).kind, changed |-> n, success |-> success]]

Once(done) == IF done THEN 1 ELSE 0
Inserted(rules, ip, done) == IF done THEN [rules EXCEPT ![ip] = @ + 1] ELSE rules

\* A dry run says what it would do (files: CheckFile).
Preview(t) ==
    /\ Next1(t, "block") \/ Next1(t, "kill")
    /\ dryRun
    /\ Did(t, 0, TRUE)
    /\ UNCHANGED <<dryRun, stored, campaign, pushed, pending, hostVars, second, auditVars>>

\* block_ip: nothing looks for a rule that is there.  The first command; one
\* that fails after its time is up may have done its work.
InsertInput(t, done, success) ==
    /\ Next1(t, "block") /\ ~dryRun
    /\ success => done
    /\ inRules' = Inserted(inRules, Head(pending[t]).ip, done)
    /\ doing' = [doing EXCEPT ![t] = [kind |-> "half", changed |-> Once(done), success |-> success]]
    /\ UNCHANGED <<dryRun, stored, campaign, pushed, pending, outRules, process, killed, files,
                   disarmed, quarantine, second, auditVars>>

\* The second one, whatever became of the first
InsertOutput(t, done, success) ==
    /\ doing[t].kind = "half"
    /\ success => done
    /\ outRules' = Inserted(outRules, Head(pending[t]).ip, done)
    /\ Did(t, doing[t].changed + Once(done), doing[t].success /\ success)
    /\ UNCHANGED <<dryRun, stored, campaign, pushed, pending, inRules, process, killed, files,
                   disarmed, quarantine, second, auditVars>>

\* kill_process: whoever runs under the id by now; no one is a success too.
KillProcess(t, done) ==
    /\ Next1(t, "kill") /\ ~dryRun
    /\ done => process # "gone"
    /\ process' = IF done THEN "gone" ELSE process
    /\ killed' = killed + Once(done)
    /\ Did(t, Once(done), done \/ process = "gone")
    /\ UNCHANGED <<dryRun, stored, campaign, pushed, pending, inRules, outRules, files, disarmed,
                   quarantine, second, auditVars>>

\* Mutant: the counter of the names is never advanced.
UniqueDestSame(taken) == [stamp |-> second, counter |-> 0]

\* _unique_quarantine_dest; every path has the same basename.
UniqueDest(taken) ==
    [stamp |-> second,
     counter |-> CHOOSE n \in 0..Cardinality(taken) :
        /\ [stamp |-> second, counter |-> n] \notin taken
        /\ \A k \in 0..n - 1 : [stamp |-> second, counter |-> k] \in taken]

\* quarantine_file refuses what is not a regular file, finds a name, ...
CheckFile(t) ==
    /\ Next1(t, "quarantine")
    /\ IF files[Head(pending[t]).path] \in {"regular", "inert"} /\ ~dryRun
       THEN doing' = [doing EXCEPT ![t] = [kind |-> "move", changed |-> 0, success |-> FALSE,
                                           dest |-> UniqueDest(quarantine)]]
       ELSE Did(t, 0, dryRun)
    /\ UNCHANGED <<dryRun, stored, campaign, pushed, pending, hostVars, second, auditVars>>

\* ... looks again, takes the execute bits if it may, and moves the file.  To
\* another file system the move is a copy: it may fail and leave the copy.
MoveFile(t, disarm, outcome) ==
    LET path == Head(pending[t]).path
        taken == disarm /\ files[path] = "regular" IN
    /\ doing[t].kind = "move"
    /\ disarm \/ outcome # "failed" => files[path] \in {"regular", "inert"}
    /\ files' = [files EXCEPT ![path] =
            IF outcome = "moved" THEN "gone" ELSE IF taken THEN "inert" ELSE @]
    /\ disarmed' = disarmed + Once(taken)
    /\ quarantine' = IF outcome # "failed" THEN quarantine \cup {doing[t].dest} ELSE quarantine
    /\ Did(t, Once(taken) + Once(outcome # "failed"), outcome = "moved")
    /\ UNCHANGED <<dryRun, stored, campaign, pushed, pending, inRules, outRules, process, killed,
                   second, auditVars>>

\* _audit: after the act, and for refusals and dry runs as well
Audit(t) ==
    /\ doing[t].kind \in {"block", "kill", "quarantine"}
    /\ audited' = IF doing[t].success THEN audited + doing[t].changed ELSE audited
    /\ misreported' = IF doing[t].success THEN misreported ELSE misreported + doing[t].changed
    /\ pending' = [pending EXCEPT ![t] = Tail(@)]
    /\ doing' = [doing EXCEPT ![t] = Idle]
    /\ UNCHANGED <<dryRun, stored, campaign, pushed, hostVars, second, unaudited>>

\* OSError leaves _store_alert: what the thread had still to do is not done.
AuditFails(t) ==
    /\ doing[t].kind \in {"block", "kill", "quarantine"}
    /\ unaudited < MaxLost
    /\ unaudited' = unaudited + doing[t].changed
    /\ pending' = [pending EXCEPT ![t] = <<>>]
    /\ doing' = [doing EXCEPT ![t] = Idle]
    /\ UNCHANGED <<dryRun, stored, campaign, pushed, hostVars, second, audited, misreported>>

-----------------------------------------------------------------------------
(* The host.  What no thread is about to look at need not change yet.      *)

Awaited(kind) ==
    \E t \in Storer : pending[t] # <<>> /\ Head(pending[t]).kind = kind /\ doing[t].kind # kind

ProcessExits ==
    /\ Awaited("kill")
    /\ process' = CASE process = "gone" -> "other" [] OTHER -> "gone"
    /\ UNCHANGED <<dryRun, stored, campaign, pushed, pending, doing, inRules, outRules, killed, files,
                   disarmed, quarantine, second, auditVars>>
FileReplaced(p, what) ==
    /\ Awaited("quarantine")
    /\ files[p] # what
    /\ files' = [files EXCEPT ![p] = what]
    /\ UNCHANGED <<dryRun, stored, campaign, pushed, pending, doing, inRules, outRules, process, killed,
                   disarmed, quarantine, second, auditVars>>
SecondPasses ==
    /\ Awaited("quarantine")
    /\ second < MaxSecond
    /\ second' = second + 1
    /\ UNCHANGED <<dryRun, stored, campaign, pushed, pending, doing, hostVars, auditVars>>

PipelineNext ==
    \/ \E t \in Storer :
        \/ \E a \in Alert : StoreAlert(t, a)
        \/ \E raised \in BOOLEAN : RespondToCampaign(t, raised)
        \/ Push(t) \/ Preview(t)
        \/ \E done, success \in BOOLEAN : InsertInput(t, done, success) \/ InsertOutput(t, done, success)
        \/ \E done \in BOOLEAN : KillProcess(t, done)
        \/ CheckFile(t)
        \/ \E disarm \in BOOLEAN, outcome \in {"moved", "copied", "failed"} : MoveFile(t, disarm, outcome)
        \/ Audit(t) \/ AuditFails(t)
    \/ ProcessExits \/ SecondPasses
    \/ \E p \in FilePath, what \in {"regular", "link", "gone"} : FileReplaced(p, what)

PipelineSpec == PipelineInit /\ [][PipelineNext]_pipelineVars

-----------------------------------------------------------------------------
(* Properties                                                              *)

InFlight == doing["worker"].changed + doing["ticker"].changed
Rules(chain) == Cardinality(UNION {{i} \X (1..chain[i]) : i \in Ip})

\* The changes made to the host
Changes == Rules(inRules) + Rules(outRules) + killed + disarmed + Cardinality(quarantine)

\* Every variable has its type; nothing is done in a dry run, no rule is for
\* an address that must stay reachable, and a thread does one act at a time.
PipelineTypeOK ==
    /\ stored \in 0..MaxStored /\ Len(campaign) = stored
    /\ pushed \in 0..stored
    /\ \A chain \in {inRules, outRules} :
        chain \in [Ip -> Nat] /\ \A i \in Ip \ Blockable : chain[i] = 0
    /\ process \in {"suspect", "other", "gone"}
    /\ files \in [FilePath -> {"regular", "inert", "link", "gone"}]
    /\ audited \in Nat /\ misreported \in Nat /\ unaudited \in Nat
    /\ dryRun => Changes = 0
    /\ \A t \in Storer : doing[t] # Idle => pending[t] # <<>>

\* Every rule of either chain, every process killed, every file whose execute
\* bits were taken and every name in quarantine is accounted for: in the trail
\* as done, in the trail under an act that is recorded as failed, lost to a
\* write that failed, or the act a thread is in the middle of.  Half a block
\* and the copy a move leaves are found under a failure; and no file in
\* quarantine is written over.  The record comes after the act, not before it
\* (LoggedBeforeExecution).
ActedIsAudited == Changes = audited + misreported + unaudited + InFlight

\* "Logged to an immutable audit trail before execution" (responder.py:8).  It
\* is not: _audit is the last thing each act does.
LoggedBeforeExecution == Changes <= audited + misreported

\* The cap on firewall rules holds for each time a campaign is handled, and
\* each alert adds one address at most, however the two threads take turns:
\* so many rules are in each chain, and no more.  They are not bounded for the
\* campaign: it is handled at every alert, and a rule that is there is
\* inserted again.
BlocksBounded ==
    \A chain \in {inRules, outRules} :
        Rules(chain) <= Cardinality({i \in DOMAIN campaign : AlertActs(campaign[i]) # <<>>})
                          + MaxBlocks * (IF stored > 1 THEN stored - 1 ELSE 0)
=============================================================================
