----------------------------- MODULE MCServices -----------------------------
(***************************************************************************)
(* Seven parts of the program that share no state in their models, in one  *)
(* instance for TLC: "part" says which of them runs in a behaviour, so     *)
(* that the states are the sum of theirs and not the product.              *)
(***************************************************************************)
EXTENDS MCCorrelator, GlobalTicker, MCPipeline, Monitors, Feeds, Breach, Verdicts

VARIABLE part
services == <<part, vars, tickerVars, pipelineVars, monitorsVars, feedsVars, breachVars,
              verdictsVars>>

-----------------------------------------------------------------------------
(* The instances                                                           *)

\* Two pairs of providers: one without a copy and one with, in both orders.
Row1(i, x, u) == [id |-> i, ioc |-> x, usable |-> u]
\* OpenPhish may list an address twice.
Next3 == <<Row1(2, "b", TRUE), Row1(5, "a", TRUE), Row1(3, "c", TRUE)>>
Shuffled == <<Row1(4, "c", FALSE), Row1(3, "c", TRUE), Row1(1, "a", TRUE)>>
MCTexts == [s \in {"ThreatFox", "OpenPhish", "CISA-KEV", "blocklist.de"} |->
              CASE s = "ThreatFox" -> {<<Row1(1, "c", TRUE)>>, <<Row1(1, "c", TRUE), Row1(2, "a", TRUE)>>}
                [] s = "CISA-KEV" -> {<<Row1(1, "c", TRUE), Row1(2, "a", TRUE)>>}
                [] s = "OpenPhish" -> {<<Row1(1, "a", TRUE), Row1(1, "a", TRUE)>>, Next3}
                [] s = "blocklist.de" -> {<<Row1(1, "a", TRUE)>>, Next3, Shuffled}]
MCAnswering == {{"ThreatFox", "OpenPhish"}, {"CISA-KEV", "blocklist.de"}}

Of(k, r) == [kind |-> k, raised |-> r, sha256 |-> TRUE]
Md5Of(r) == [kind |-> "hash", raised |-> r, sha256 |-> FALSE]
MCAlerts == {Of("url", "OpenPhish"), Of("url", "URLhaus"), Of("hash", "MalwareBazaar"),
             Md5Of("MalwareBazaar"), Of("hash", "file_monitor"), Of("domain", "URLhaus-Hosts"), Of("cve", "CISA-KEV"),
             Of("ip", "network_monitor"), Of("cidr", "Spamhaus DROP"),
             Of("unknown", "file_monitor")}
MCKeySets == {{}, {"abuse.ch", "AbuseIPDB"}}

-----------------------------------------------------------------------------
\* The parts that do not run have one initial state.
ServicesInit ==
    /\ part \in {"correlator", "ticker", "pipeline", "monitors", "feeds", "breach", "verdicts"}
    /\ part = "correlator" \/ handler = FALSE
    /\ part = "ticker" \/ up = CHOOSE A \in Answering : TRUE
    /\ part = "pipeline" \/ dryRun = TRUE
    /\ part = "monitors" \/ (monitor = "log" /\ content = [f \in File |-> 0])
    /\ part = "feeds" \/ (cacheFile = NoData /\ fresh = FALSE)
    /\ part = "breach" \/ live = "multi"
    /\ part = "verdicts" \/ (alert = Of("cve", "CISA-KEV") /\ keys = {})
    /\ Init /\ TickerInit /\ PipelineInit /\ MonitorsInit /\ FeedsInit /\ BreachInit /\ VerdictsInit

OthersWait ==
    /\ UNCHANGED part
    /\ IF part = "correlator" THEN TRUE ELSE UNCHANGED vars
    /\ IF part = "ticker" THEN TRUE ELSE UNCHANGED tickerVars
    /\ IF part = "pipeline" THEN TRUE ELSE UNCHANGED pipelineVars
    /\ IF part = "monitors" THEN TRUE ELSE UNCHANGED monitorsVars
    /\ IF part = "feeds" THEN TRUE ELSE UNCHANGED feedsVars
    /\ IF part = "breach" THEN TRUE ELSE UNCHANGED breachVars
    /\ IF part = "verdicts" THEN TRUE ELSE UNCHANGED verdictsVars

ServicesNext ==
    \/ part = "correlator" /\ Next /\ OthersWait
    \/ part = "ticker" /\ TickerNext /\ OthersWait
    \/ part = "pipeline" /\ PipelineNext /\ OthersWait
    \/ part = "monitors" /\ MonitorsNext /\ OthersWait
    \/ part = "feeds" /\ FeedsNext /\ OthersWait
    \/ part = "breach" /\ BreachNext /\ OthersWait
    \/ part = "verdicts" /\ VerdictsNext /\ OthersWait

ServicesSpec == ServicesInit /\ [][ServicesNext]_services

-----------------------------------------------------------------------------
\* Every variable of every other part than the correlator (TypeOK) has its type.
ServicesTypeOK ==
    /\ TickerTypeOK /\ PipelineTypeOK /\ MonitorsTypeOK
    /\ FeedsTypeOK /\ BreachTypeOK /\ VerdictsTypeOK
=============================================================================
