---------------------------- MODULE GlobalTicker ----------------------------
(***************************************************************************)
(* The global threat ticker (intel/global_ticker.py): one thread polls     *)
(* twelve providers, takes what it has not seen, and hands it to the       *)
(* pipeline's callback item by item.                                       *)
(*                                                                         *)
(* A poll up to the first callback touches only what the thread owns and   *)
(* is one step; every callback is a step of its own, because it may raise. *)
(* The provider caches are shared with fetches of an earlier poll that     *)
(* came in after its deadline, and with the verifiers.                     *)
(*                                                                         *)
(* An item is its provider, the provider's id and the canonical key of the *)
(* indicator (normalize_ioc); ThreatFox lists one address under several    *)
(* ids, one per port.  A row that a fetcher skips (comment, header, short  *)
(* row, not verified, too old) is "unusable".                              *)
(* Nobody calls stop(), and there is no key for the ThreatFox API, which   *)
(* would be asked as well.  Bounds: SeenCap and IocCap stand for the       *)
(* deques' 50,000; Texts are the bodies a provider may serve; two          *)
(* providers answer in one behaviour, the others are down.                 *)
(***************************************************************************)
EXTENDS Integers, Sequences, SequencesExt, FiniteSets, Lists

CONSTANTS Ioc,             \* canonical keys of indicators
          Texts,           \* what each provider may publish
          Quota, MaxPerPoll, SeenCap, IocCap,
          Answering        \* sets of providers that answer in one behaviour

SourceOrder == <<"ThreatFox", "URLhaus", "MalwareBazaar", "CISA-KEV", "OpenPhish",
    "Feodo Tracker", "PhishTank", "Spamhaus DROP", "URLhaus-Hosts", "SSLBL",
    "blocklist.de", "Tor Exit Nodes">>
Provider == ToSet(SourceOrder)
\* sorted(by_source.keys()): capitals first
ByName == <<"CISA-KEV", "Feodo Tracker", "MalwareBazaar", "OpenPhish", "PhishTank",
    "SSLBL", "Spamhaus DROP", "ThreatFox", "Tor Exit Nodes", "URLhaus",
    "URLhaus-Hosts", "blocklist.de">>
Cached == {"PhishTank", "OpenPhish", "blocklist.de", "Tor Exit Nodes"}

\* The lists that are parsed into a set of addresses
AddressList == {"blocklist.de", "Tor Exit Nodes"}

Row == [id : Nat, ioc : Ioc, usable : BOOLEAN]
ASSUME TickerAssumption ==
    /\ Texts \in [UNION Answering -> SUBSET Seq(Row)]
    /\ {Quota, MaxPerPoll, SeenCap, IocCap} \subseteq Nat \ {0}
    /\ \A A \in Answering : A \subseteq Provider /\ Cardinality(A) * Quota < SeenCap
    /\ SeenCap >= 2 /\ IocCap >= 2
    \* What is sorted was a set.
    /\ \A s \in DOMAIN Texts \cap AddressList : \A rows \in Texts[s] :
          \A i, j \in DOMAIN rows : rows[i].id = rows[j].id => i = j

VARIABLES up,        \* the providers that answer in this behaviour
          cache,     \* rows each cached provider served last
          memory,    \* _seen, _seen_order, _seen_ioc, _seen_ioc_order
          phase,     \* "wait", or "emit" within _poll_once
          batch,     \* items the poll under way has still to hand over
          ledger     \* the last keys and indicators taken for new, keys the
                     \* first poll listed twice, whether one was taken again,
                     \* and whether a poll was unfair (history)

tickerVars == <<up, cache, memory, phase, batch, ledger>>

Nobody == ""
NoRows == [fresh |-> FALSE, held |-> FALSE, rows |-> <<>>]
Key(item) == <<item.source, item.id>>
AtMost(n, s) == SubSeq(s, 1, IF Len(s) < n THEN Len(s) ELSE n)
Share(s, seq) == Cardinality({i \in DOMAIN seq : seq[i].source = s})

TickerInit ==
    /\ up \in Answering
    /\ cache = [s \in Cached |-> NoRows]
    /\ memory = [seen |-> {}, order |-> <<>>, owner |-> [i \in Ioc |-> Nobody], iocOrder |-> <<>>]
    /\ phase = "wait" /\ batch = <<>>
    /\ ledger = [taken |-> <<>>, doubled |-> {}, credited |-> <<>>,
                 repeats |-> FALSE, clashes |-> FALSE, unfair |-> FALSE]

-----------------------------------------------------------------------------
(* Fetching                                                                *)

\* The fetchers: rows in the feed's order up to the quota.
Kept(s, rows) ==
    LET usable == KeepAt(rows, {i \in DOMAIN rows : rows[i].usable}) IN
    [i \in DOMAIN AtMost(Quota, usable) |->
        [source |-> s, id |-> usable[i].id, ioc |-> usable[i].ioc]]
ThreatFoxItems(rows) == Kept("ThreatFox", rows)
\* CISA appends; its newest entries come first.
AbuseItems(s, rows) == Kept(s, IF s = "CISA-KEV" THEN Reverse(rows) ELSE rows)
PhishItems(s, rows) == Kept(s, rows)
\* blocklist.de and Tor are sets of addresses, sorted.
Smaller(rows, i) == Cardinality({j \in DOMAIN rows : rows[j].id < rows[i].id})
Sorted(rows) == [k \in DOMAIN rows |-> rows[CHOOSE i \in DOMAIN rows : Smaller(rows, i) = k - 1]]
HostItems(s, rows) ==
    Kept(s, IF s \in AddressList THEN Sorted(rows) ELSE rows)
Items(s, rows) ==
    CASE s = "ThreatFox" -> ThreatFoxItems(rows)
      [] s \in {"URLhaus", "MalwareBazaar", "CISA-KEV"} -> AbuseItems(s, rows)
      [] s \in {"OpenPhish", "Feodo Tracker", "PhishTank", "Spamhaus DROP"} -> PhishItems(s, rows)
      [] OTHER -> HostItems(s, rows)

\* _phishtank_csv_text, load_*: within its time the copy is served unasked.
Unasked(s) == s \in Cached /\ cache[s].fresh

\* http_get() answers, fails with an error the stale copy covers (429, 404),
\* or fails otherwise or misses the poll's deadline.
Failure(kind) == [kind |-> kind, rows |-> <<>>]
Answers(s) ==
    IF Unasked(s) THEN {Failure("down")}
    ELSE [kind : {"ok"}, rows : Texts[s]] \cup {Failure("down"), Failure("throttled")}

Stale(s, a) == s \in Cached /\ cache[s].held /\ a.kind = "throttled"
Fetched(s, a) == Unasked(s) \/ a.kind = "ok" \/ Stale(s, a)
Served(s, a) == IF a.kind = "ok" /\ ~Unasked(s) THEN a.rows ELSE cache[s].rows
CacheAfter(s, a) ==
    IF s \in Cached /\ a.kind = "ok" /\ ~Unasked(s)
    THEN [fresh |-> TRUE, held |-> TRUE, rows |-> a.rows] ELSE cache[s]

PollAnswers == {f \in [up -> UNION {Answers(s) : s \in up}] : \A s \in up : f[s] \in Answers(s)}

\* Round robin over the batches, in the given order of providers: the turns of
\* all rounds, without those of a provider that has nothing left.
Interleaved(bucket, order) ==
    LET n == Len(order)
        Round(k) == 1 + (k - 1) \div n
        Who(k) == order[1 + ((k - 1) % n)]
        turns == KeepAt([k \in 1..n * Quota |-> k],
                        {k \in 1..n * Quota : Round(k) <= Len(bucket[Who(k)])})
    IN  [i \in DOMAIN turns |-> bucket[Who(turns[i])][Round(turns[i])]]

\* fetch_all_global_threats
Bucket(s, a) == IF Fetched(s, a) THEN Items(s, Served(s, a)) ELSE <<>>
AllThreats(answer) == Interleaved([s \in Provider |-> IF s \in up THEN Bucket(s, answer[s]) ELSE <<>>], SourceOrder)

-----------------------------------------------------------------------------
(* Memory                                                                  *)

\* Mutant: the deques have no length.
PushedUnbounded(q, x, cap) == Append(q, x)

\* deque(maxlen=cap).append
Pushed(q, x, cap) == Append(IF Len(q) = cap THEN Tail(q) ELSE q, x)
\* The last cap - 1 entries of a full deque are remembered.
Forgotten(q, cap) == IF Len(q) = cap THEN {q[1]} ELSE {}

\* Mutant: the deque is two entries short.
RememberAll(m, key) ==
    LET order == Pushed(m.order, key, SeenCap - 2)
    IN  [m EXCEPT !.order = order, !.seen = (@ \cup {key}) \ Forgotten(order, SeenCap - 2)]

\* _remember, for a key not in _seen
Remember(m, key) ==
    LET order == Pushed(m.order, key, SeenCap)
    IN  [m EXCEPT !.order = order, !.seen = (@ \cup {key}) \ Forgotten(order, SeenCap)]

\* Mutant: the last provider to report an indicator owns it, and an
\* indicator already owned is queued again.
OwnLatest(m, item) ==
    LET order == Pushed(m.iocOrder, item.ioc, IocCap)
    IN  [m EXCEPT !.iocOrder = order,
                  !.owner = [i \in Ioc |-> IF i \in Forgotten(order, IocCap) THEN Nobody
                                           ELSE IF i = item.ioc THEN item.source ELSE m.owner[i]]]

\* _remember_ioc, for an item whose indicator nobody else owns
Own(m, item) ==
    IF m.owner[item.ioc] # Nobody THEN m
    ELSE LET order == Pushed(m.iocOrder, item.ioc, IocCap)
         IN  [m EXCEPT !.iocOrder = order,
                       !.owner = [i \in Ioc |-> IF i \in Forgotten(order, IocCap) THEN Nobody
                                                ELSE IF i = item.ioc THEN item.source ELSE m.owner[i]]]
OwnedByOther(m, item) == m.owner[item.ioc] \notin {Nobody, item.source}
Tried(m, item) == IF OwnedByOther(m, item) THEN m ELSE Own(m, item)

-----------------------------------------------------------------------------
(* What the memory promises, kept beside it                                *)

Credited(l, item, other) ==
    \E i \in DOMAIN l.credited :
        l.credited[i].ioc = item.ioc /\ (other => l.credited[i].source # item.source)
Recorded(l, item) ==
    [l EXCEPT !.taken = Pushed(@, Key(item), SeenCap - 1),
              !.credited = IF Credited(l, item, FALSE) THEN @ ELSE Pushed(@, item, IocCap - 1)]
Judged(l, item) ==
    [l EXCEPT !.repeats = @ \/ (Contains(l.taken, Key(item)) /\ Key(item) \notin l.doubled),
              !.clashes = @ \/ Credited(l, item, TRUE)]
Listed(l, item) ==
    [l EXCEPT !.doubled = IF Contains(l.taken, Key(item)) THEN @ \cup {Key(item)} ELSE @]

\* Who gets two items more than another has outlasted it.
Unfair(given, new) ==
    \E s, t \in up : /\ Share(s, given) > Share(t, given) + 1
                     /\ Share(t, given) < Share(t, new)

-----------------------------------------------------------------------------
(* _poll_once                                                              *)

\* An item is new when its key is, and no other provider owns its indicator.
Noted(acc, item) ==
    IF Key(item) \in acc.m.seen THEN acc
    ELSE LET m == Remember(acc.m, Key(item)) IN
         IF OwnedByOther(m, item) THEN [acc EXCEPT !.m = m, !.l = Recorded(@, item)]
         ELSE [m |-> Own(m, item), new |-> Append(acc.new, item),
               l |-> Recorded(Judged(acc.l, item), item)]

\* The first poll that finds anything remembers all of it ...
Tracked(acc, item) ==
    LET m == [acc.m EXCEPT !.seen = @ \cup {Key(item)}, !.order = Pushed(@, Key(item), SeenCap)]
    IN  [acc EXCEPT !.m = Tried(m, item), !.l = Recorded(Listed(@, item), item)]
\* ... and shows the first items with distinct indicators.
FirstShown(items) ==
    AtMost(MaxPerPoll, KeepAt(items, {i \in DOMAIN items : \A j \in 1..i - 1 : items[j].ioc # items[i].ioc}))

\* One item after the other
After(first, start, items) ==
    LET acc[i \in 0..Len(items)] ==
            IF i = 0 THEN start
            ELSE IF first THEN Tracked(acc[i - 1], items[i]) ELSE Noted(acc[i - 1], items[i])
    IN  acc[Len(items)]

\* Mutant: new items are handed over provider by provider.
SelectedInTurn(new) ==
    AtMost(MaxPerPoll, FoldLeft(LAMBDA s, p : s \o SelectSeq(new, LAMBDA i : i.source = p), <<>>, ByName))

\* Round robin over the providers, by name, up to the cap.
Selected(new) ==
    AtMost(MaxPerPoll, Interleaved([s \in Provider |-> KeepAt(new, {i \in DOMAIN new : new[i].source = s})], ByName))

Poll(answer) ==
    LET items == AllThreats(answer)
        start == [m |-> memory, new |-> <<>>, l |-> ledger]
        first == memory.seen = {}
        after == After(first, start, items)
        given == IF first THEN FirstShown(items) ELSE Selected(after.new)
    IN  /\ phase = "wait"
        /\ cache' = [s \in Cached |-> IF s \in up THEN CacheAfter(s, answer[s]) ELSE cache[s]]
        /\ memory' = after.m
        /\ batch' = given
        /\ ledger' = [after.l EXCEPT !.unfair = ~first /\ Unfair(given, after.new)]
        /\ phase' = "emit"
        /\ UNCHANGED up

\* self._callback(item_to_alert(item)): _store_alert returns, or raises and
\* takes the rest of the batch with it; _loop goes on.
Emit ==
    /\ phase = "emit" /\ batch # <<>>
    /\ batch' = Tail(batch)
    /\ UNCHANGED <<up, cache, memory, phase, ledger>>

EmitRaises ==
    /\ phase = "emit" /\ batch # <<>>
    /\ batch' = <<>> /\ phase' = "wait"
    /\ UNCHANGED <<up, cache, memory, ledger>>

PollDone ==
    /\ phase = "emit" /\ batch = <<>>
    /\ phase' = "wait"
    /\ UNCHANGED <<up, cache, memory, batch, ledger>>

\* A copy outlives its time; a fetch that missed the deadline comes in, or a
\* verifier asks the provider.
CacheExpires(s) ==
    /\ cache[s].fresh
    /\ cache' = [cache EXCEPT ![s].fresh = FALSE]
    /\ UNCHANGED <<up, memory, phase, batch, ledger>>
LateFetch(s, rows) ==
    /\ s \in up
    /\ cache' = [cache EXCEPT ![s] = [fresh |-> TRUE, held |-> TRUE, rows |-> rows]]
    /\ UNCHANGED <<up, memory, phase, batch, ledger>>

TickerNext ==
    \/ \E answer \in PollAnswers : Poll(answer)
    \/ Emit \/ EmitRaises \/ PollDone
    \/ \E s \in Cached \cap up : CacheExpires(s) \/ \E rows \in Texts[s] : LateFetch(s, rows)

TickerSpec == TickerInit /\ [][TickerNext]_tickerVars

-----------------------------------------------------------------------------
(* Properties                                                              *)

Item == [source : Provider, id : Nat, ioc : Ioc]

\* Every variable has its type; the deques stay within their lengths, and a
\* key or an indicator that is remembered is in its deque (or it would never
\* be forgotten).
TickerTypeOK ==
    /\ up \in Answering
    /\ cache \in [Cached -> [fresh : BOOLEAN, held : BOOLEAN, rows : Seq(Row)]]
    /\ memory.owner \in [Ioc -> Provider \cup {Nobody}]
    /\ Len(memory.order) <= SeenCap /\ memory.seen \subseteq ToSet(memory.order)
    /\ Len(memory.iocOrder) <= IocCap
    /\ \A i \in Ioc : memory.owner[i] # Nobody => Contains(memory.iocOrder, i)
    /\ phase \in {"wait", "emit"}
    /\ batch \in Seq(Item) /\ Len(batch) <= MaxPerPoll

\* An entry of a provider is not surfaced again before SeenCap - 1 others
\* have been taken (_seen and _seen_order), unless the first poll listed it
\* twice: it is forgotten with the first of its two places in the deque.
SurfacedOnce == ~ledger.repeats

\* Two providers do not surface the same indicator while it is among the
\* last IocCap - 1 taken (_remember_ioc).
OneProvider == ~ledger.clashes

\* One poll does not flood the dashboard with a single provider (the round
\* robin of _poll_once).
FairShare == ~ledger.unfair

=============================================================================
