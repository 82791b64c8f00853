------------------------------ MODULE Verdicts ------------------------------
(***************************************************************************)
(* The cross verification of an alert (intel/cross_verify.py): the routes  *)
(* for the kind of its indicator, one check after another, each of which   *)
(* may be answered, refused or fail and may fall back on an export of      *)
(* recent entries, and the verdict on what they found.                     *)
(*                                                                         *)
(* The checks run in the handler, one request at a time; what is shared    *)
(* with others is the copies of the feeds.  What a source has on the       *)
(* indicator is "active", "known" (offline, a lower score), "faint" (a     *)
(* score below any threshold) or "no"; its export of recent entries, old   *)
(* by up to five minutes, has an entry of its own.  abuse.ch Hunting asks  *)
(* ThreatFox again.                                                        *)
(***************************************************************************)
EXTENDS Integers, Sequences, SequencesExt, FiniteSets

CONSTANTS Alerts,    \* kind of the indicator, source_raised, and whether a
                     \* hash is a SHA-256 (not an MD5 or a SHA-1)
          KeySets    \* which API keys there may be: "abuse.ch", "AbuseIPDB"

\* What _normalize_ioc_type makes of an alert's indicator
Kind == {"ip", "domain", "url", "hash", "cidr", "cve", "unknown"}

ASSUME VerdictsAssumption ==
    /\ KeySets \subseteq SUBSET {"abuse.ch", "AbuseIPDB"}
    /\ \A a \in Alerts : a.kind \in Kind /\ a.sha256 \in BOOLEAN

VARIABLES alert, keys,
          datasets,   \* what an exporting source asked so far has: its
                      \* entry, and the entry of its export
          blank,      \* those whose export was answered without rows (history)
          routes,     \* sources still to check
          checks,     \* CheckResults so far
          verdict     \* classification and confidence

verdictsVars == <<alert, keys, datasets, blank, routes, checks, verdict>>

-----------------------------------------------------------------------------
(* Stage 2: routes                                                         *)

IpRoutes == <<"Feodo Tracker", "SSLBL", "blocklist.de", "Tor Exit Nodes", "AbuseIPDB",
              "ThreatFox", "abuse.ch Hunting">>
DomainRoutes == <<"URLhaus-Hosts", "ThreatFox", "abuse.ch Hunting", "URLhaus">>
UrlRoutes == <<"PhishTank", "URLhaus", "OpenPhish", "abuse.ch Hunting">>
Routes(kind) ==
    CASE kind = "ip" -> IpRoutes
      [] kind = "domain" -> DomainRoutes
      [] kind = "url" -> UrlRoutes
      [] kind = "hash" -> <<"MalwareBazaar", "abuse.ch Hunting">>
      [] kind = "cidr" -> <<"Spamhaus DROP">>
      [] kind = "cve" -> <<"CISA KEV", "NVD">>
      [] kind = "unknown" -> <<>>

Dataset(source) == IF source = "abuse.ch Hunting" THEN "ThreatFox" ELSE source

\* The sources that have an API and an export
Exporting == {"ThreatFox", "URLhaus", "MalwareBazaar"}
NotListed == [entry |-> "no", recent |-> "no"]

VerdictsInit ==
    /\ alert \in Alerts
    /\ keys \in KeySets
    /\ datasets = [d \in {} |-> NotListed] /\ blank = {}
    /\ routes = Routes(alert.kind)
    /\ checks = {}
    /\ verdict = "none"

-----------------------------------------------------------------------------
(* Stage 3: checks.  A reply is "ok", "odd" (an answer without the data    *)
(* asked for: an empty body, a page), "limited" (429), "auth" (401, 403)   *)
(* or "down"; of.entry is what the source has, of.recent what its export   *)
(* has.  A hit is authoritative or corroborating.                          *)

CheckResult(source, status) == [source |-> source, status |-> status]
Found(status) == status \in {"authoritative", "corroborating"}

\* Feeds that are read whole: every failure is an error.
FeedCheck(source, reply, entry) ==
    IF reply \notin {"ok", "odd"} THEN "error"
    ELSE IF reply = "odd" \/ entry = "no" THEN "miss"
    ELSE IF entry = "known" THEN "corroborating" ELSE "authoritative"

\* ... of hosts, addresses and pages, all of them active
ListCheck(source, reply, entry) ==
    IF reply \notin {"ok", "odd"} THEN "error"
    ELSE IF reply = "odd" \/ entry = "no" THEN "miss"
    ELSE IF source \in {"blocklist.de", "Tor Exit Nodes"} THEN "corroborating" ELSE "authoritative"

KevCheck(reply, entry) ==
    IF reply \notin {"ok", "odd"} THEN "error"
    ELSE IF reply = "odd" \/ entry = "no" THEN "miss" ELSE "authoritative"

Corroborates(source, entry) ==
    \/ source = "abuse.ch Hunting"
    \/ source = "URLhaus" /\ (alert.kind = "domain" \/ entry = "known")

\* Whether not to have the indicator is to refute it
Refutes(source) ==
    \/ source = "MalwareBazaar"
    \/ source = "URLhaus" /\ alert.kind = "url"

\* The exports of recent entries, read without a key and row by row: one
\* without rows has nothing.  MalwareBazaar's is searched for SHA-256 alone.
Export(source, reply, of) ==
    LET searched == reply = "ok" /\ (source = "MalwareBazaar" => alert.sha256)
    IN  IF reply \notin {"ok", "odd"} THEN "error"
        ELSE IF searched /\ of.recent # "no"
        THEN IF Corroborates(source, of.recent) THEN "corroborating" ELSE "authoritative"
        ELSE IF Refutes(source) THEN "refute" ELSE "miss"

\* The APIs of abuse.ch; without a key that works the export instead.  The
\* export also stands in for an API that is down or does not know, except
\* for a host.
ApiCheck(source, reply, of, export) ==
    LET host == source = "URLhaus" /\ alert.kind = "domain"
        unknown == of.entry = "no" \/ reply = "odd"
        instead == Found(export) \/ (reply = "odd" /\ Refutes(source))
    IN  IF "abuse.ch" \notin keys \/ reply = "auth" THEN export
        ELSE IF reply = "limited" THEN "skipped"
        ELSE IF reply = "down"
        THEN IF ~host /\ (Found(export) \/ export = "refute") THEN export ELSE "error"
        ELSE IF unknown /\ ~host /\ instead THEN export
        ELSE IF unknown THEN IF Refutes(source) THEN "refute" ELSE "miss"
        ELSE IF Corroborates(source, of.entry) THEN "corroborating" ELSE "authoritative"

\* No report and no answer are the same to AbuseIPDB's check, and to NVD's.
AbuseIpdbCheck(reply, entry) ==
    IF "AbuseIPDB" \notin keys \/ reply = "limited" THEN "skipped"
    ELSE IF reply \in {"auth", "down"} THEN "error"
    ELSE IF reply = "odd" THEN "refute"
    ELSE CASE entry = "no" -> "refute"
           [] entry = "active" -> "authoritative"
           [] entry = "known" -> "corroborating"
           [] entry = "faint" -> "miss"

NvdCheck(reply, entry) ==
    CASE reply = "limited" -> "skipped"
      [] reply \in {"auth", "down"} -> "error"
      [] OTHER -> IF reply = "odd" \/ entry = "no" THEN "refute" ELSE "corroborating"

Check(source, reply, exportReply, of) ==
    CASE source = "AbuseIPDB" -> AbuseIpdbCheck(reply, of.entry)
      [] source = "NVD" -> NvdCheck(reply, of.entry)
      [] Dataset(source) \in Exporting -> ApiCheck(source, reply, of, Export(source, exportReply, of))
      [] source = "CISA KEV" -> KevCheck(reply, of.entry)
      [] source \in {"Feodo Tracker", "PhishTank", "Spamhaus DROP"} ->
            FeedCheck(source, reply, of.entry)
      [] OTHER -> ListCheck(source, reply, of.entry)

Replies == {"ok", "odd", "limited", "auth", "down"}
Entries(source) ==
    {"active", "no"} \cup (IF source \in {"Feodo Tracker", "URLhaus", "AbuseIPDB"} THEN {"known"} ELSE {})
                     \cup (IF source = "AbuseIPDB" THEN {"faint"} ELSE {})
MayHave(source) ==
    LET d == Dataset(source) IN
    IF d \in DOMAIN datasets THEN {datasets[d]}
    ELSE [entry : Entries(d), recent : IF d \in Exporting THEN Entries(d) ELSE {"no"}]

\* cross_check: the next route
CheckNext ==
    /\ routes # <<>>
    /\ LET source == Head(routes) IN
       \E of \in MayHave(source), reply \in Replies, exportReply \in {"ok", "odd", "down"} :
          /\ checks' = checks \cup {CheckResult(source, Check(source, reply, exportReply, of))}
          /\ datasets' = IF Dataset(source) \in Exporting
                         THEN [d \in DOMAIN datasets \cup {Dataset(source)} |->
                                   IF d = Dataset(source) THEN of ELSE datasets[d]]
                         ELSE datasets
          /\ blank' = IF exportReply = "odd" /\ Dataset(source) \in Exporting
                      THEN blank \cup {Dataset(source)} ELSE blank
    /\ routes' = Tail(routes)
    /\ UNCHANGED <<alert, keys, verdict>>

-----------------------------------------------------------------------------
(* Stage 4: the verdict                                                    *)

\* _SOURCE_REFUTE_SCOPE, the sources that may raise an alert
Scope(raised) ==
    CASE raised = "ThreatFox" -> {"ThreatFox", "abuse.ch Hunting"}
      [] raised = "CISA-KEV" -> {"CISA KEV"}
      [] raised \in {"OpenPhish", "PhishTank", "URLhaus", "URLhaus-Hosts", "MalwareBazaar",
                     "Feodo Tracker", "Spamhaus DROP", "SSLBL", "blocklist.de",
                     "Tor Exit Nodes"} -> {raised}
      [] OTHER -> {}

Saying(status) == {c.source : c \in {r \in checks : r.status = status}}

\* Mutant: every refutation counts.
RelevantRefutesAll == Saying("refute")

\* Those of the source that raised the alert, if it is a known one
RelevantRefutes ==
    IF Scope(alert.raised) = {} THEN Saying("refute") ELSE Saying("refute") \cap Scope(alert.raised)

\* classify: the first of these that applies
Classification ==
    LET authoritative == Saying("authoritative")
        corroborating == Saying("corroborating")
    IN  CASE "CISA KEV" \in authoritative -> "GENUINE/Critical"
          [] authoritative # {} /\ "CISA KEV" \notin authoritative ->
                IF Cardinality(authoritative \cup corroborating) >= 2
                THEN "GENUINE/High" ELSE "GENUINE/Medium"
          [] authoritative = {} /\ corroborating # {} /\ RelevantRefutes = {} -> "GENUINE/Medium"
          [] authoritative \cup corroborating = {} /\ RelevantRefutes # {} -> "FALSE POSITIVE"
          [] OTHER -> "UNVERIFIED"

Classify ==
    /\ routes = <<>> /\ verdict = "none"
    /\ verdict' = Classification
    /\ UNCHANGED <<alert, keys, datasets, blank, routes, checks>>

VerdictsNext == CheckNext \/ Classify

VerdictsSpec == VerdictsInit /\ [][VerdictsNext]_verdictsVars

-----------------------------------------------------------------------------
(* Properties                                                              *)

Source == UNION {ToSet(Routes(k)) : k \in Kind}

\* Every variable has its type.
VerdictsTypeOK ==
    /\ alert \in Alerts /\ keys \in KeySets
    /\ \A d \in DOMAIN datasets :
          /\ d \in Exporting
          /\ datasets[d] \in [entry : {"active", "known", "no"}, recent : {"active", "known", "no"}]
    /\ blank \subseteq DOMAIN datasets
    /\ ToSet(routes) \subseteq Source
    /\ checks \subseteq [source : Source, status : {"authoritative", "corroborating", "refute",
                                                    "miss", "error", "skipped"}]
    /\ verdict \in {"none", "GENUINE/Critical", "GENUINE/High", "GENUINE/Medium",
                    "FALSE POSITIVE", "UNVERIFIED"}

\* What a source with an export may refute: an indicator that it does not
\* have, or not among its recent entries; and, although it has it in both, any
\* indicator when the export was answered without rows, and a hash that is not
\* a SHA-256.
MayRefute(source) ==
    \/ datasets[source].entry = "no" \/ datasets[source].recent = "no"
    \/ source \in blank
    \/ source = "MalwareBazaar" /\ ~alert.sha256

\* An alert of a known feed is called a false positive only if that feed
\* refuted it, and a feed with an export only where MayRefute says, whatever
\* the keys, replies and fallbacks; an alert of a monitor only if somebody
\* refuted it; and what CISA lists is critical whatever the others say.
VerdictIsGrounded ==
    /\ verdict = "FALSE POSITIVE" =>
        \E c \in checks :
            /\ c.status = "refute"
            /\ Scope(alert.raised) # {} => c.source \in Scope(alert.raised)
            /\ c.source \in Exporting => MayRefute(c.source)
    /\ CheckResult("CISA KEV", "authoritative") \in checks /\ verdict # "none" => verdict = "GENUINE/Critical"

=============================================================================
