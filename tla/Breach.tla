------------------------------- MODULE Breach -------------------------------
(***************************************************************************)
(* check_breach() of intel/breach_lookup.py: the cache of recent answers,  *)
(* the daily quota of the provider in use, and what the answers of its     *)
(* sources amount to.  The dashboard's handlers run on the event loop, one *)
(* at a time, the watchlist's re-check on a thread of its own: two callers *)
(* that share cache and counter, each under a lock, but hold neither from  *)
(* one step to the next.                                                   *)
(*                                                                         *)
(* The environment chooses the provider; "mock", a table in the code, is   *)
(* left out, and so is hibp without its optional limit.  A source lists an *)
(* e-mail address or not, which may change at any time, and its answers    *)
(* are well formed; what it tells of the breach is left out, and with it   *)
(* the catalog that enriches it and the second, detailed query after a hit.*)
(* Usernames go the same way through one source, except that they take an  *)
(* HTTP error for an empty answer; they are left out.  Times are ages,     *)
(* counted up to Horizon.  A lookup takes at most LookupSecs, the          *)
(* time-outs of its requests together.                                     *)
(***************************************************************************)
EXTENDS Integers, FiniteSets

CONSTANTS Email,
          DailyLimit,        \* _quota_limit()
          CacheSecs,         \* BREACH_CACHE_SECS
          LookupSecs

ASSUME BreachAssumption ==
    Email # {} /\ {DailyLimit, CacheSecs, LookupSecs} \subseteq Nat \ {0}

Caller == {"loop", "scheduler"}
Sources == [multi |-> {"XposedOrNot", "HackMyIP"}, xposedornot |-> {"XposedOrNot"},
            hibp |-> {"breaches", "pastes"}]
Horizon == CacheSecs + LookupSecs + 1

VARIABLES live,          \* _provider_name()
          used,          \* _usage_counts[live]; at midnight it starts again
          answers,       \* _breach_cache: the status and its age
          lookup,        \* where each caller is, and what its sources said
          listed,        \* the sources that list an e-mail address
          sinceClean,    \* age of the last moment some source did not list it,
          sinceExposed   \* ... and some source did (history)

breachVars == <<live, used, answers, lookup, listed, sinceClean, sinceExposed>>
worldVars == <<live, listed, sinceClean, sinceExposed>>

NoAnswer == [status |-> "none", age |-> 0]
NotAsked == [s \in {} |-> "failed"]
NoLookup == [at |-> "idle", id |-> CHOOSE i \in Email : TRUE, age |-> 0, said |-> NotAsked]

BreachInit ==
    /\ live \in DOMAIN Sources
    /\ used = 0
    /\ answers = [i \in Email |-> NoAnswer]
    /\ lookup = [c \in Caller |-> NoLookup]
    /\ listed = [i \in Email |-> {}]
    /\ sinceClean = [i \in Email |-> 0] /\ sinceExposed = [i \in Email |-> Horizon]

Asked == Sources[live]
Calls == IF live = "hibp" THEN 2 ELSE 1

-----------------------------------------------------------------------------
(* The cache                                                               *)

Fresh(i) == answers[i].status # "none" /\ answers[i].age <= CacheSecs

\* Mutant: an answer that is asked for lives on.
CacheGetExtends(c, i) ==
    /\ lookup[c].at = "idle"
    /\ IF Fresh(i)
       THEN answers' = [answers EXCEPT ![i].age = 0] /\ UNCHANGED lookup
       ELSE /\ answers' = [answers EXCEPT ![i] = NoAnswer]
            /\ lookup' = [lookup EXCEPT ![c] = [NoLookup EXCEPT !.at = "quota", !.id = i]]
    /\ UNCHANGED <<used, worldVars>>

\* _breach_cache_get: an expired answer goes; so does one that cannot be
\* unsealed, and one that 500 newer ones have taken the place of.
CacheGet(c, i) ==
    /\ lookup[c].at = "idle"
    /\ \/ Fresh(i) /\ UNCHANGED <<answers, lookup>>
       \/ /\ answers' = [answers EXCEPT ![i] = NoAnswer]
          /\ lookup' = [lookup EXCEPT ![c] = [NoLookup EXCEPT !.at = "quota", !.id = i]]
    /\ UNCHANGED <<used, worldVars>>

-----------------------------------------------------------------------------
(* The quota                                                               *)

\* Mutant: one lookup more.
QuotaTooLate(c) ==
    /\ lookup[c].at = "quota"
    /\ lookup' = [lookup EXCEPT ![c] =
                    IF used > DailyLimit THEN NoLookup ELSE [@ EXCEPT !.at = "record"]]
    /\ UNCHANGED <<used, answers, worldVars>>

\* _quota_exceeded: an error, which is not cached
QuotaCheck(c) ==
    /\ lookup[c].at = "quota"
    /\ lookup' = [lookup EXCEPT ![c] =
                    IF used >= DailyLimit THEN NoLookup ELSE [@ EXCEPT !.at = "record"]]
    /\ UNCHANGED <<used, answers, worldVars>>

\* _record_api_call, before the call
Record(c) ==
    /\ lookup[c].at = "record"
    /\ used' = used + Calls
    /\ lookup' = [lookup EXCEPT ![c].at = "ask"]
    /\ UNCHANGED <<answers, worldVars>>

-----------------------------------------------------------------------------
(* The sources                                                             *)

Reported(s, i) == IF s \in listed[i] THEN "hit" ELSE "clean"

\* One source answers, or fails: unreachable, limited, an HTTP error, or too
\* late.
Ask(c, s) ==
    LET i == lookup[c].id
        said == lookup[c].said
    IN
    /\ lookup[c].at = "ask" /\ s \in Asked \ DOMAIN said
    /\ \E a \in {Reported(s, i), "failed"} :
          lookup' = [lookup EXCEPT ![c].said =
                        [t \in DOMAIN said \cup {s} |-> IF t = s THEN a ELSE said[t]]]
    /\ UNCHANGED <<used, answers, worldVars>>

ExposedIf(hit) == IF hit THEN "exposed" ELSE "clean"

\* Of two sources one that answers is enough, and one that lists the address.
MultiVerdict(said) ==
    IF \A s \in DOMAIN said : said[s] = "failed" THEN "error"
    ELSE ExposedIf(\E s \in DOMAIN said : said[s] = "hit")
XonVerdict(said) ==
    IF said["XposedOrNot"] = "failed" THEN "error" ELSE ExposedIf(said["XposedOrNot"] = "hit")
\* The pastes need not answer.
HibpVerdict(said) ==
    IF said["breaches"] = "failed" THEN "error"
    ELSE ExposedIf("hit" \in {said["breaches"], said["pastes"]})

Verdict(said) ==
    CASE live = "multi" -> MultiVerdict(said)
      [] live = "xposedornot" -> XonVerdict(said)
      [] live = "hibp" -> HibpVerdict(said)

\* clean and exposed are cached, with the time they are stored at.
Answer(c) ==
    LET i == lookup[c].id
        status == Verdict(lookup[c].said)
    IN
    /\ lookup[c].at = "ask" /\ DOMAIN lookup[c].said = Asked
    /\ answers' = IF status = "error" THEN answers
                  ELSE [answers EXCEPT ![i] = [status |-> status, age |-> 0]]
    /\ lookup' = [lookup EXCEPT ![c] = NoLookup]
    /\ UNCHANGED <<used, worldVars>>

-----------------------------------------------------------------------------
Lists(i, s) ==
    /\ listed' = [listed EXCEPT ![i] = IF s \in @ THEN @ \ {s} ELSE @ \cup {s}]
    /\ sinceClean' = [sinceClean EXCEPT ![i] = IF listed'[i] # Asked THEN 0 ELSE @]
    /\ sinceExposed' = [sinceExposed EXCEPT ![i] = IF listed'[i] # {} THEN 0 ELSE @]
    /\ UNCHANGED <<live, used, answers, lookup>>

SecondOlder(n) == IF n < Horizon THEN n + 1 ELSE n
SecondGoes ==
    /\ \A c \in Caller : lookup[c].age < LookupSecs
    /\ answers' = [i \in Email |-> IF answers[i].status = "none" THEN NoAnswer
                                ELSE [answers[i] EXCEPT !.age = SecondOlder(@)]]
    /\ lookup' = [c \in Caller |-> IF lookup[c].at = "idle" THEN NoLookup
                                   ELSE [lookup[c] EXCEPT !.age = @ + 1]]
    /\ sinceClean' = [i \in Email |-> IF listed[i] # Asked THEN 0 ELSE SecondOlder(sinceClean[i])]
    /\ sinceExposed' = [i \in Email |-> IF listed[i] # {} THEN 0 ELSE SecondOlder(sinceExposed[i])]
    /\ UNCHANGED <<live, used, listed>>

\* _reset_usage_if_needed, called before every look at the counter
Midnight ==
    /\ used > 0
    /\ used' = 0
    /\ UNCHANGED <<answers, lookup, worldVars>>

BreachNext ==
    \/ \E c \in Caller :
        \/ \E i \in Email : CacheGet(c, i)
        \/ QuotaCheck(c) \/ Record(c) \/ Answer(c)
        \/ \E s \in Sources[live] : Ask(c, s)
    \/ \E i \in Email, s \in Sources[live] : Lists(i, s)
    \/ SecondGoes \/ Midnight

BreachSpec == BreachInit /\ [][BreachNext]_breachVars

-----------------------------------------------------------------------------
(* Properties                                                              *)

\* Every variable has its type.
BreachTypeOK ==
    /\ live \in DOMAIN Sources /\ used \in Nat
    /\ answers \in [Email -> [status : {"none", "clean", "exposed"}, age : 0..Horizon]]
    /\ \A c \in Caller :
        /\ lookup[c].at \in {"idle", "quota", "record", "ask"} /\ lookup[c].id \in Email
        /\ lookup[c].age \in 0..LookupSecs
    /\ \A i \in Email : listed[i] \subseteq Asked
    /\ sinceClean \in [Email -> 0..Horizon] /\ sinceExposed \in [Email -> 0..Horizon]

\* The quota is looked at and counted in two steps, so that each of the two
\* callers may take a lookup that the other one has used up: the day's calls
\* stay below the limit plus the calls of a lookup for each caller.
QuotaNearlyKept == used < DailyLimit + Cardinality(Caller) * Calls

\* What the cache answers for an e-mail address was true of some source no
\* longer ago than the life of an answer and the length of a lookup, whatever
\* fails, and whichever caller stores last.
AnswersAreRecent ==
    \A i \in Email : Fresh(i) =>
        /\ answers[i].status = "clean" => sinceClean[i] <= CacheSecs + LookupSecs
        /\ answers[i].status = "exposed" => sinceExposed[i] <= CacheSecs + LookupSecs

=============================================================================
