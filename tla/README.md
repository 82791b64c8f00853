# Guardian: TLA+ models and proofs

Guardian (`src/`, Python package `guardian`) is a local security monitor. Monitor
threads watch logs, sockets, files and processes; each alert is enriched with threat
intelligence, stored, pushed to a web dashboard, correlated with other alerts into
campaigns and possibly answered by a responder. A small language model (SLM) judges
events and campaigns in the background. A breach-lookup part checks identifiers on
demand and keeps a watchlist of them.

This directory holds TLA+ modules for that program, from its concurrent core to the
verdict of a single alert, TLC runs on small instances, and TLAPS proofs. Where a paragraph says "the code", it means `src/guardian`.

## Inventory

| Part | State | Operations | Interacts with | Module |
|---|---|---|---|---|
| Analysis queue (`engine/analysis_queue.py`) | bounded `queue.Queue`, worker thread, stop event, counters | submit, lazy worker start, run loop, stop/drain | called by all monitors and the correlator; its worker runs their closures | `AnalysisQueue`, `SerialMailbox` |
| Correlator (`engine/correlator.py`) | campaigns, entity sets, alert index | ingest, baseline narrative, synthesize, prune, late handler | ingest on monitor threads, synthesize on the analysis worker, prune thread, `on_campaign` callback | `Correlator` |
| Dashboard state (`web/server.py`) and SQLite (`web/persistence.py`) | alert list (500), campaigns, stats, two tables | ingest_alert, ingest_campaign, load, verify-in-place | called by monitor threads; emits into the event loop with `call_soon_threadsafe` | `Dashboard` |
| Live feed (`web/server.py`, `static/index.html`) | broadcast queue, client list | broadcaster, heartbeat, `/ws` connect/snapshot/disconnect | event loop and browsers | `Dashboard` |
| Watchlist (`intel/breach_lookup.py`, `security/vault.py`) | entries, sealed values, alerts, loaded flag, one vault file | load once, add, remove, list, re-check, persist | dashboard handlers on the event loop, scheduler thread | `Watchlist` |
| Access control (`security/access.py`) | tokens with expiry (256), failures and lockouts per client | issue, verify, revoke, throttle | login/logout handlers, middleware, `/ws` | `FrontDoor` |
| E2E sessions (`security/session.py`, `auth.py`, `payload.py`) | session table with expiry | handshake, verify, decrypt | middleware, `/ws` | `FrontDoor` |
| Rate limiter (`web/ratelimit.py`) | hits per client | allow_request | middleware | `FrontDoor` |
| Global ticker (`intel/global_ticker.py`) | seen keys and indicators with bounded deques, provider caches | poll, bootstrap, round-robin emission | callback into `_store_alert` | `GlobalTicker` |
| Pipeline (`cli.py`) and responder (`engine/responder.py`) | audit file, firewall rules, quarantine | store, respond to alert and campaign, block, kill, quarantine | monitors, ticker, correlator, dashboard | `Pipeline` |
| Monitors (`modules/*`) | baselines, seen ids, buffers | scan loops, batches | `submit()`, `_store_alert` | `Monitors` |
| Feeds and enricher (`intel/feeds.py`, `enricher.py`) | cache files, global index | load, refresh, lookup | `_store_alert`, commands in other processes | `Feeds` |
| Breach lookup (`intel/breach_lookup.py`) | result cache, provider quota, catalog | check_breach | handlers, watchlist | `Breach` |
| Cross verification (`intel/cross_verify.py`) | results of one request | routes, checks, classify | the verify handler; shares the feeds' copies | `Verdicts` |
| Settings (`web/settings.py`), master key (`security/keys.py`) | JSON file, environment; key file and cache | save, apply; get_master_key | handlers; vault | none |
| Scanners (`intel/unified_scan.py`, `verifier.py`, `heuristics.py`, `clamav_scan.py`, `modules/code_scanner.py`) | none | scoring of one input | handlers | none |
| SLM, ATT&CK map, display, TLS, deploy, CLI options | model handle, static tables | sequential | everything | none |

What is hard to test: threads that meet in the analysis queue, in the correlator's
unlocked tail and in the dashboard's store; the seam between monitor threads and the
event loop; sockets that die silently; files written by truncation and restarts that
read them, and files that another process writes; flags set before the work they announce;
windows, caps and deques at their limits; acts and their records in two steps; sources that
fail one by one. `PROJECT.json` lists each hazard at
its line with the properties that would catch it.

## Modules

### AnalysisQueue and SerialMailbox

`AnalysisQueue` models `AnalysisQueue.submit`, `_ensure_worker`, `_run` and `stop`. A
step is one call on an object the threads share: `put_nowait`, `get_nowait`,
`task_done`, an `Event` method, or one section under `self._lock`. `pc[t]` says where a
thread is inside `submit()`; `workerPc[w]` where the w-th worker is in `_run`. Workers
are numbered because `stop()` can end one and a later `submit()` starts another.
A job may itself submit (the correlator's synthesis and the monitors' closures run on the
worker), so workers are threads of `submit()` too. The unlocked first check, the
locked second check and the three steps after it are separate actions; a lock held across
steps is the variable `lock`. `get(timeout=0.5)` is two actions, one that takes a job and
one that times out on an empty queue.

`SerialMailbox` is what the queue promises: a bounded FIFO with one server, where the
oldest waiting job may be given up. `RefinesMailbox` is the refinement with
`accepted <- puts`, `waiting <- queue`, `serving <- Serving`.

### Correlator

`ingest()` has two actions for its section under the lock, because others read the live campaign without
the lock: `Ingest` appends the alert, or opens a campaign, and `Recompute` takes its severity up; `Free` says
that nobody else is in such a section. After the lock is released there is one action for each
read or write: the maturity test, the narrative check, the
read of the severity, the three assignments of `_apply_synthesis_data`, the callback and
the submission. `_synthesize` applies what the model answered field by field too, under the lock; the
narrative of an answer may be missing or empty (`"none"`). The live `Campaign` object is shared, so a thread holds the campaign's
index (`held`) and reads its current state. `jobs` is the analysis queue reduced to what
the correlator sees of it: a bounded FIFO that gives up its oldest job. An alert is its
severity and its entities. `_alerts_are_related` is exactly "a shared entity": its two
other clauses imply it. `heard` records what the last callback saw, `blanked` which threads were about to
call when an answer took the narrative away.

### Dashboard

`ingest_alert()` is store, save, emit (three actions), followed by `ingest_campaign()`'s
read, upsert, save, emit for the one campaign of the model. `events` is the loop's
callback list and the broadcast queue as one FIFO (both are FIFO and `put_nowait` runs on the
loop). `BroadcastStart/Send/End` are the await points of `broadcast()`. `Connect` and
`Snapshot` are two actions because producers run between them, but the event loop does
not: nothing between `manager.connect` and the write of the snapshot waits. `gone` means
the transport is known to be closed, so that the next send raises; `Disconnect` may or may
not happen before. `Restart` is a crash: memory is reloaded from the database.
Monitors start after the server is ready (`cli.py`), so there is no emit before wiring.

Beside the socket the page loads a snapshot by REST, at its start and from a timer while the socket is
closed (`loadSnapshotRest`). `AskRest`, `ReadRest` and `ShowRest` are the request, the moment the server
answers it and the moment the page shows it, which may be after the socket has opened and brought newer
alerts; `LoseRest` is a request that fails. One request of a page is under way at a time, and its two answers are
read at one moment. What a page shows is followed while its socket is open: the snapshot of `/ws`
replaces whatever it showed before. `hidden` and `dated` record what a late answer took off
or put on an open page.

### Watchlist

Two threads: the event loop, whose handlers run the watchlist functions synchronously and
one at a time, and the hourly scheduler. Critical sections are single actions, except the
one that `watchlist_recheck_all` never leaves: `_watchlist_maybe_alert` wants the same
non-reentrant lock, and the model's thread stays in `"alert"` holding it, as the code's
does. `write_text` is two actions, truncation and content, with crashes between; `wiped` records what such
a crash took with it.
`check_breach` is the environment: any result, at the moment it is applied.

### FrontDoor

The gates of the HTTP middleware (rate limit, access token, session), the login throttle, the
two tables and `/ws`. The middleware awaits between gates and handler, so a request is
two steps, `Arrive` and a handler, and requests of the same and of other clients, ticks and
sockets come between. A handler does not await and is one step. Time is relative: a stamp is
its age, an expiry the time left, capped at the window it is compared with, so that the clock
needs no bound. `guesses`, `accepted`, `promised` and `entered` record what happened, for the
properties; no guard of a handler reads them except the choice of an unused token.

### GlobalTicker

`Poll` is `_poll_once` up to its first callback: fetches with failures and stale copies
(`Answers`, `Served`), the fetchers' order and quota (`Items`), the interleaving, the
deduplication (`Noted`, or `Tracked` at the first poll) and the selection. Each callback is a step, `Emit`,
or `EmitRaises`, which loses the rest. Late fetches of an earlier poll write the caches.
Each key and indicator goes through `_remember` and `_remember_ioc` one at a time (`After`, a recursive
function), because a deque at its cap forgets in the middle of a poll. Lists that a fetcher or the selection
filters are `KeepAt` of `Lists`. A feed may list an id twice; only the two address lists are parsed into
sets, and `TickerAssumption` says so. `ledger` records beside the memory what it promises: the
last keys and indicators taken for new, and the keys (`doubled`) that the first poll, which does not
look, put into the deque twice.

### Pipeline

What follows one alert: `_store_alert`, `_on_campaign`, `respond_to_alert`,
`respond_to_campaign` and the four acts of the responder. Two threads (the analysis worker
and the ticker) store alerts; each has a list of what it still has to do. An act and
its audit record are two steps, a quarantine and a block three, and processes, files and seconds change between. The
firewall is iptables, the one a Linux host has first: a block inserts a rule into the chain INPUT and one into
OUTPUT, and each command may fail, or fail after it has done its work (a timeout); the record then says that the
block failed. A quarantine takes the execute bits before a move that may fail, or leave a copy on another
file system. `audited`, `misreported` and `unaudited` count the changes made to the host by what became of their
record. A failing audit write leaves `_store_alert` and drops the rest of the list.

### Monitors

The loops of the file, process, log and network monitors up to the job they submit. They share only the
queue, so one of them acts in a behaviour. A scan visits files one at a time
while they change; a file's content is a version number, a line or event a serial number. `ScanAborts` is the
exception that ends a scan at any moment, `VisitRefused` the one that ends it after a process id was noted, `TailEnds`
and the last branch of `Flag` those that end a thread. `readline()` returns at the end of the file as much of a line as is
written: `ReadLine` reads a whole line or a piece of one, and a piece passes the patterns or not.

### Feeds

One feed: its cache file (version, and whether it is whole), the loads of the monitor and of
a command in another process, step by step (`Unlink`, `Look`, `ReadCache`, `Fetch`, `Truncate`,
`Fill`, `Fallback`), and the two indexes. A writer whose file is unlinked under it goes on
writing to no name (`"lost"`).

### Breach

`check_breach` for e-mail addresses: `CacheGet`, `QuotaCheck`, `Record`, one `Ask` for each
source, `Answer`; two callers, ages instead of times. What a source lists may change at any
moment; `sinceClean` and `sinceExposed` are how long ago it was last otherwise.

### Verdicts

`cross_check` and `classify` for one alert: one `CheckNext` for each route, with any reply of the
source and, where the code falls back on one, of its export (an answer without rows included), then `Classify`. A source has the
same entry whenever it is asked in one verification, which abuse.ch Hunting's second look at
ThreatFox depends on.

### Compositions

The modules are composed where their states meet: `Correlator` has the queue inside it,
`Dashboard` the campaign the correlator hands over, `Pipeline` the campaign of the correlator and
the dashboard's copy of it, `FrontDoor` throttle, tables and limiter. `MCWebServer`
(`Watchlist`, `FrontDoor`) and `MCServices` (`Correlator`, `GlobalTicker`, `Pipeline`,
`Monitors`, `Feeds`, `Breach`, `Verdicts`) are not such compositions: they put parts that
share no state in one TLC run. The variable `part` is chosen initially, one part runs
in each behaviour and the others keep one initial state, so the states are the sum of
the parts' and nothing is concluded about parts together. That a behaviour of such an instance is
one of each of its parts, with their fairness, is proved (`WebPartsBehave`, `PartsBehave`).

## Runs

| Run | Instance | What it shows |
|---|---|---|
| `queue` | 2 monitors, capacity 2, 4 submissions, 2 stops of either kind | all ten properties of the queue, refinement and liveness included |
| `queue_drop` | same, no stops | a job is dropped from a queue that is not full (finding) |
| `correlator_slm` | 2 monitors, 2 entities, clock | a mature campaign is never submitted (finding) |
| `correlator_severity` | same | a raised severity is undone (finding) |
| `dashboard` | 2 monitors, 1 browser, 2 alerts, 1 crash, saves may fail | no gap but for a late REST snapshot, durability of what was broadcast, agreement of the copies |
| `dashboard_liveness` | 1 monitor, 1 crash, 2 alerts, memory cap 1 | dead sockets leave, with the list of alerts past its cap |
| `dashboard_regress` | 2 monitors, no crash | a stored campaign goes back in time (finding) |
| `web_server` | watchlist: 2 entries, 2 calls, 1 crash, 1 failure | memory and disk agree with what the user was told; calls return |
| | door: a remote and a local client, 2 tokens in the table, caps of 1 and 2 | logins last, nothing before the password, guesses and requests spaced in every window, the limiter lets in again |
| `services` | correlator: 2 monitors, 2 entities, 3 alerts, clock | narrative before callback, no update unheard, severity bounded, prune order |
| | ticker: 2 pairs of providers, 3 indicators, deques of 5 and 3 | surfaced once, one provider for an indicator, fair shares |
| | pipeline: 3 alerts, 3 addresses, 1 file, 1 process, 2 seconds | every change of the host accounted for, rules bounded in each chain |
| | monitors: 2 files, 2 process ids, 4 changes | reported once |
| | feeds: 2 versions | no feed goes back |
| | breach: 1 address, 3 providers, limit 1 | quota nearly kept, cached answers recent |
| | verdicts: 10 alerts, 2 sets of keys | verdicts grounded |
| `responder_audit` | the pipeline with 2 alerts | a rule is in place before the audit trail has its record (finding) |
| `watchlist_alert` | 2 calls | the re-check deadlocks on itself (finding) |
| `watchlist_load` | 2 calls | an add during the load loses the file (finding) |

Why the bounds are enough. With two submitters and two places, four submissions
make every pair of submit steps overlap, fill the queue while a job runs and race the eviction
with the worker; two stops give two worker generations that overlap with restarts. In the correlator, two threads can be inside the
tail of one campaign while the worker synthesizes it; more campaigns only meet in
`_prune`, for which the cap is below the number of campaigns that fit. In the dashboard
the caps of table and snapshot are below the number of alerts (the cap of the memory list is in
`dashboard_liveness`), and one crash can fall between any two steps; one
browser suffices because `broadcast` treats clients independently except for the order of
sends; one REST request asked for before the socket opens is enough to come too late. In the watchlist, two calls are one on the loop and one re-check, either
of them during the load of the other; a re-check that overlaps a removal is among them, and the file
of an earlier life stands for the calls before.

At the front door one client is remote and one exempt; clients share only the token table, for which
two clients with a cap of two tokens and a third token suffice. The limiter lets one
request in per window of two ticks; the lockout and the login window are three ticks, so that three
guesses, one more than the failures that lock out, fit in a span when the first waits for its
handler, and a lockout or limiter a tick too short shows. In the ticker, a poll brings up to four keys of three indicators, the deques
hold five and three, so that both turn over within two polls, and bodies change between polls
(an indicator under a new id, an unusable row, three rows over the quota of two, one entry listed
twice). In the
pipeline three alerts make two handlings of the campaign, with a cap of one block, and each command, move and one write of the audit file may fail (`MaxLost`). The
monitors' four changes are an appearance, a change and a disappearance with one more during a
scan, and two batches of lines. Two versions are what a going-back needs. A limit of
one lookup with two callers is the race of check and count. The ten alerts
take every kind of indicator, the unknown and a hash that is not a SHA-256 included, with a raising source that is on the routes of the kind or not.

What the properties except. `SubmitReturns` holds because submissions are finitely many: each
failed put means another thread's put succeeded (lock-free, not wait-free). `DrainReturns`
and `EveryJobSettles` end with "or the stop flag is set": after `stop()` without drain,
jobs stay behind, and a drain begun then waits until somebody submits again.
`NarrativeBeforeCallback` lets an answer of the model without a narrative replace the one there was between
the check and the call. `SeverityBounded` leaves campaigns out that the model has judged, and counts an alert only
once its severity has been taken up.
`NoGap` excepts what a late REST snapshot took off an open page, and `CampaignAgrees` a page whose campaign
came with one, until the next update. `CampaignAgrees` excludes overlapping or unsaved campaign updates, which
`dashboard_regress` shows to be real. `MemoryAgrees` and `DiskAgrees` exclude a load raced
by an update and failed file operations; `watchlist_load` shows the first. A crash between truncation and
fill is not excluded: both say that it takes the list as it was (`wiped`), all of it, and that the list goes on from empty.
`ActedIsAudited` counts changes of the host, not acts: half a block, or the copy that a move leaves, is found in the trail
under a failure. `BlocksBounded` bounds each chain of the firewall, for all handlings of the campaign together.
`ReportedOnce` is about what was read: lines written to a log after its rotation are never read, and a process whose
job was refused is counted as given up. `VerdictIsGrounded` says when a source with an export may refute what it has (`MayRefute`).

Fairness. Each thread that is inside a call is weakly fair: Python threads are preempted
and rescheduled, locks are released in finitely many steps, and no action of a model
waits for a user. Nobody is obliged to submit, stop, connect or call. In the dashboard the
event loop's callbacks are weakly fair each, as asyncio runs ready callbacks in order and
the heartbeat's timeout always fires; a send to a peer that stops reading but stays
connected can delay the broadcaster until uvicorn's ping closes the socket, which is the
model's "gone".

At the front door only the clock is fair. `LimiterLetsInAgain` needs nothing else: a client
that keeps asking, or never does, is let in again. The other services have safety only; what
they would have to do eventually depends on providers that need not answer.

Deadlock is checked in the dashboard runs. It is not in the queue run, whose system
comes to rest when its bounded inputs are used up, in those with the watchlist, where a
thread may wait for its own lock, and in `services`, where a verdict is the end.

## Proofs

Each theorem holds for every value of the constants its module allows; the only assumptions
are the named ones of the modules (`QueueAssumption`, `CorrelatorAssumption`, `DashboardAssumption`,
`WatchlistAssumption`, `FrontDoorAssumption`, `FeedsAssumption`, `BreachAssumption`,
`VerdictsAssumption`, `MonitorsAssumption`, `PipelineAssumption`, `TickerAssumption`), which TLC evaluates in the runs.

`AnalysisQueueProofs`, for any monitors, capacity and bounds:

- `TypeCorrect`: `Spec => []TypeOK`, hence the queue never exceeds `max_pending`;
- `OneWorker`: `Spec => []SingleWorker`;
- `WorkerStays`: `Spec => []WorkerPresence`.

The inductive invariant is `IInv == TypeOK /\ ControlInv`. `SingleWorker`
is not inductive: a submitter past the second check may start a worker while
another is alive unless it holds the lock and nobody else can start one, so `ControlInv` says that exactly
the lock holder is in the locked section and that no worker is alive then. And the model numbers
workers, so it also bounds how many were started by how many stops completed; the
delicate case is a submitter between `clear()` and `start()` while `stop()` sets the flag.
`InitIInv`, `StepTypeOK` and `StepControlInv` are the three obligations, with one step per action.

The second part adds the counters:

- `UnfinishedIsExact`: `Spec => []UnfinishedExact`;
- `JobsAreConserved`: `Spec => []Conservation`;
- `DrainIsDone`: `Spec => []DrainMeansDone`.

The counters count threads by where they are, and a step moves one thread: `CountChange` says
that a count then changes by whether the new place counts, less whether the old one did.
It rests on the library's facts about cardinalities, and it needs finitely many threads, which is why
`QueueAssumption` asks for it. `SubmitCounts` and `RunCounts` apply it to a step of a
submitter and of a worker; `StepCounted` goes through the actions. `Conservation` as
stated counts queued and running jobs apart from those in eviction, and follows from
`Counted`. `DrainMeansDone` needs in addition that queued jobs bear numbers no greater than `puts`
(`Numbered`), and the exact `unfinished` at the moment `join()` returns.

The third part proves `QueueIsMailbox`: `Spec => RefinesMailbox`, the safety part of
the refinement that is also checked by TLC. `Serving` is the job of the one worker that runs,
or 0; `StepRefines` maps each action to `Accept`, `GiveUpOldest`, `Serve` or `Finish` of the
mailbox, or to a stutter. That `Serving` is well defined is `SingleWorker`. From it follows `JobsRunInOrder`, which
says what a mailbox is good for: pending jobs are newer than the running one and in the order of their puts,
the oldest runs next, and no job is pending a second time. It is proved of the mailbox's actions alone
(`MailboxStep`) and holds of the queue by the refinement.

`OnlyGoneJobsDropEarly` is about the finding `queue_drop`. `UndisturbedSpec` is `Spec` in which no job leaves the
queue between a submitter's refused put and its `get_nowait()`; there `DropsOnlyWhenFull` holds, as whoever is
about to evict still faces a full queue (`FullWhileEvicting`). One call that did both would therefore be enough.

`ServicesProofs` holds the results on the smaller services. On Feeds, `FeedsMoveForward`: `FeedsSpec => []NoFeedGoesBack`. The property is not
inductive, since what is published comes out of a file that another process may write. `Reach`
says what makes the file recent after the forced removal: who writes it began after
the last publication (a straggler from before would have had an hour, which is the guard of
`Begin`), or is the monitor itself. `Behind` says no version is ahead of the provider.

On Breach, `QuotaIsNearlyKept` and `AnswersStayRecent`. For the first, `Promised` adds to the
counter the calls of callers that are past the check and not counted yet. For the second, a
source's word is no older than the lookup it belongs to (`SaidRecently`) and a stored answer
at most a lookup older than its entry (`StoredRecently`); together with `WorldRecent` they
are inductive, with the types, whatever the limit, the life of an answer and the length of a lookup.

On Verdicts, `VerdictsAreGrounded` and `VerdictsAreTyped`. `Rests`: every refutation by a source with an export
is borne out by what that source has, which stays the same during a verification, or by an export without rows or
searched for another hash (`RefutationRests`);
`Follows`: the verdict follows from the checks, after which none is made. The types are inductive but for the
routes: what is still to be asked is the end of a list of the kind's routes, and every kind that
`_normalize_ioc_type` returns has one, if an empty one.

On Monitors, `MonitorsReport`: `MonitorsSpec => []ReportedOnce`. Each kind of monitor has its part.
`Scanned`: what the monitor has told is the baseline it keeps, and a pass leaves behind it no
difference of its kind, although files change under it and scans end early. `Watched`: a process that was reported holds its
id in the monitor's memory, and no two ids run the same process; there are as many ids as processes and refused jobs. `Buffered`:
pieces kept follow on what was handed over, whichever of rotation, flush or batch moves them, and `Pieced`:
they are in the order of their lines.

On the ticker, for any providers, lists, quotas and caps that `TickerAssumption` allows:

- `NothingSurfacesTwice`: `TickerSpec => []SurfacedOnce`;
- `OneProviderSurfaces`: `TickerSpec => []OneProvider`;
- `SharesAreFair`: `TickerSpec => []FairShare`;
- `TickerWellFormed`: `TickerSpec => []TickerTypeOK`.

A deque of length `SeenCap` whose first entry is forgotten as soon as it is full remembers what a deque one
shorter would hold; `TurnsOver` compares the two when both take the same entry. `KeysOK` and `IocsOK` are this
comparison for `_seen` and `_seen_ioc`: what the ledger took last is still remembered, except a doubled key, and
under the provider that took it. They hold after each item (`NotedKeeps`, `TrackedKeeps`) and hence
after a poll, by the least item after which they fail (`AfterKeeps`). Fair shares are about one poll and need no
memory: the turns of the round robin that two providers have had are mapped one to one into each other
(`FairlyShared`). `SortedOK` says that a sorted address list has an entry at every place, by counting.
`TickerTypeOK` claims that every remembered key has a place in the deque, so that it will be forgotten some
day. An append to a full deque drops the first place, and the claim would break if that key were still
remembered: `Queued` says that it is not, which holds because the code forgets the first key as soon as the deque is
full. The exception would be a first poll that fills an empty deque without forgetting; `ThreatsOK`
excludes it, as the providers' quotas together are below `SeenCap`.

The last part is about `MCServices`: `PartsBehave` says that the instance's behaviours are behaviours of the seven
parts, and `ServicesAreTyped`, `ServicesSpec => []ServicesTypeOK`, combines the parts' types; the correlator's are `CampaignsWellFormed`.

`PipelineProofs` proves three theorems, for any alerts, addresses, files and caps:

- `PipelineIsTyped`: `PipelineSpec => []PipelineTypeOK`;
- `ActsAreAudited`: `PipelineSpec => []ActedIsAudited`;
- `BlocksAreBounded`: `PipelineSpec => []BlocksBounded`.

`BlocksBounded` is not inductive: it says nothing of the lists still to be worked off. `GrantedIn` and `GrantedOut` add, for
their chain, what these may still insert (`Due`: one for each block in a list and `MaxBlocks` for each campaign in it,
less the rule being inserted), and this sum never exceeds what the alerts allow; handling a
campaign exchanges its `MaxBlocks` for at most as many blocks (`CampaignActsAre`). `ActedIsAudited` needs
`UnderWay` (a thread is doing the head of its list), `TickerOnlyBlocks` (only the worker kills and moves)
`HalfIsReal` (only a block that is no preview is half done)
and `NameIsFree`: between the check of a name in quarantine and the move, nobody else takes it.
That `_unique_quarantine_dest` finds a free name at all is a pigeonhole argument (`DestIsFree`). Both
properties are sums over two threads, and `Turn` reduces them once to what one thread's step changes.

`CorrelatorProofs` proves seven theorems, for any threads, alerts, thresholds, windows and caps:

- `CampaignsWellFormed`: `Spec => []TypeOK`;
- `NarrativeComesFirst`: `Spec => []NarrativeBeforeCallback`;
- `NoUpdateIsLost`: `Spec => []EveryUpdateHeard`;
- `SeverityStaysBounded`: `Spec => []SeverityBounded`;
- `PruneIsFair`: `Spec => PruneKeepsNewest`, an action property;
- `OnlyOverlapLosesSeverity`: `SerialSpec => []SeverityIsWorst`;
- `OnlyHandlersKeepBack`: `Spec => []SubmittedWithoutHandler`, for `MinAlerts <= SlmThreshold`.

The invariant `IInv` is the shape of the state with four parts that say what is true while
threads are half way through `ingest()`. `Exclusive`: one thread at most is between its append and the recomputed
severity, and then the worker applies nothing. `Narrated`: past the maturity check the campaign
is mature, past the narrative's text it has one, whoever wrote it, unless the model's answer took it. `Heard`: a mature campaign
whose last alert the handler has not seen has a thread on its way to the handler. `Rated`:
a severity that was read and not yet written back is within the bounds, which it leaves
neither by waiting nor by alerts that arrive meanwhile, because the first alerts of a
mature campaign do not change (`BoundedGrows`). The bounds are a least and a greatest
element; `MinIs` and `MaxIs` get them from the library's facts on well-founded
relations, by a least counterexample, which needs no induction over an operator.
`PruneKeepsNewest` counts the campaigns that stay. `Rank`, the number of campaigns older than one, is
one-to-one and below the number of campaigns (`RankIs`), so that a prune keeps as many as ranks are left.

The last two are about the findings `correlator_severity` and `correlator_slm`: they show that the run's counterexample
has no other cause. `SerialSpec` is `Spec` without an `ingest()` that begins while another is under way, with worker,
prune and clock as they are; then the severity that is written back late is still the worst (`Exact`). And as
long as there is no handler, nobody but the worker marks a campaign SYNTHESIZED, which it does only with
what has been submitted (`Submitting`); what remains is a campaign that the prune expires between its
last alert and the submission.

`WatchlistProofs` proves `LockIsKept` (`Spec => []TypeOK`), `MemoryIsKept` (`Spec => []MemoryAgrees`)
and `DiskIsKept` (`Spec => []DiskAgrees`), for any identifiers and answers. `Agree` says what is
true in the middle of an operation: while the dashboard saves, memory and the payload are
what it will tell the user; otherwise the file, and every payload read from it, is what it has
told, and memory is part of that until the last load is merged; what a user was told is meant less what was wiped. That no load starts while
the dashboard saves follows from the flag set before the load (`Going`), the very order
that `watchlist_load` shows to be harmful earlier on. `Agree` holds up to the first failed
file operation and the first update that overlaps a load, which is all the properties claim.
`AlertsBlockForGood` is the safety side of `watchlist_alert`: the thread that has an alert to emit keeps
the lock, nothing changes the entries, and every thread that needs the lock stays where it is,
until the process dies. No fairness is involved, so no scheduling helps.

`DashboardProofs` proves five theorems, for any monitors, browsers, alerts, caps, crashes and failing saves:

- `DashboardWellFormed`: `Spec => []TypeOK`;
- `NoAlertFallsBetween`: `Spec => []NoGap`;
- `BroadcastsAreDurable`: `Spec => []BroadcastIsDurable`;
- `CampaignCopiesAgree`: `Spec => []CampaignAgrees`;
- `OnlyStaleCopiesRegress`: `LockedSpec => CampaignNeverRegresses`.

The invariant is `IInv == TypeOK /\ Carried /\ NoGap /\ Kept /\ Latest`. `NoGap` is inductive
once it is known that what threads and the feed carry are alerts that exist (`Carried`): an alert
leaves "on its way" only in the step that puts it into a browser's view, and a connect
that finds it already given up excuses it; what a late REST answer removes from a view is `hidden`. The other two properties speak of what has been emitted
and of a system at rest. `Kept` follows an alert from its save on: it is in the database, its
save failed, or `DatabaseCap` newer ones are there, which a trim that keeps the newest cannot undo
(`NewestDisplace`, `NewestFits`, by cardinalities). `Latest` follows a campaign version
that was read alone through memory, database and feed, and says that it is the newest or that a thread
is about to read a newer one. A restart sorts what it reads; `ByTime` is written out for the prover,
which has no definition of `SetToSortSeq`. `LockedSpec` is `Spec` in one life of the process, without a
`to_dict()` while another thread has a copy that it has not stored: then the stored campaign never goes back
(`InOrder`), so the copy outside the lock is what `dashboard_regress` shows, and taking the lock earlier
would be enough.

`FrontDoorProofs` proves five about the front door, for any clients, tokens, caps, windows and times:

- `DoorWellFormed`: `DoorSpec => []DoorTypeOK`;
- `NobodyPassesWithoutPassword`: `DoorSpec => []BehindLogin`;
- `LimiterSpacesRequests`: `DoorSpec => []RequestsAreSpaced`;
- `ThrottleSpacesGuesses`: `DoorSpec => []GuessesAreSpaced`;
- `LoginsStand`: `DoorSpec => []EvictionIsEarned`.

The history bounded by these properties and the table that bounds it age and are trimmed at different
moments, so that neither their lengths nor the lists themselves can be compared in an invariant. `Embeds`
compares them: an injection takes each entry of the history to an entry of the table of the
same age. It survives a request, a second and a trim (`EmbedsAppend`, `PassedEmbeds`,
`YoungerEmbeds`), and an injection bounds the length (`EmbedsLen`). `Limited` is this for the limiter.
For the throttle it fails when a lockout clears the list, and `Throttled` says then how old the
guesses are instead: by the time the lockout ends they have left the span, which is where
`GuessSpan`, the smaller of window and lockout, comes from. That a request can have been let in
before the lockout does no harm, as the handler looks again. `Entered` covers what is between gate
and handler, and `Standing` counts the entries behind a token in the table. Trimmed lists are
`KeepAt` of `Lists`, the entries at a set of places in order, since the prover knows no `SelectSeq`;
`ListsProofs` says what `KeepAt` returns (`KeptIs`), for the front door, the pipeline and the ticker.

The last part of `FrontDoorProofs` is about `MCWebServer`: `WebPartsBehave`, `WebSpec => FairSpec /\ DoorSpec`, and
`WebServerIsTyped`, `WebSpec => []WebTypeOK`.

Only model-checked: liveness (`SubmitReturns`, `DrainReturns`, `EveryJobSettles`, `DeadClientsLeave`,
`CallsReturn`, `LimiterLetsInAgain`), which is out of the prover's reach here. Every invariant and every other
action property of a passing run is a theorem. Of the seven findings, five have a theorem on what brings
them about (`OnlyGoneJobsDropEarly`, `OnlyHandlersKeepBack`, `OnlyOverlapLosesSeverity`, `OnlyStaleCopiesRegress`,
`AlertsBlockForGood`), `DiskIsKept` says that `watchlist_load` takes an update during a load or a failing file
operation, and `ActsAreAudited` that what `responder_audit` finds unrecorded is under way or lost to a failing write.

## Findings

1. `queue_drop`: eviction from a queue that is not full (`analysis_queue.py:62`).
2. `correlator_slm`: with a handler installed (always, in `serve` and `watch`) the model is
   never asked about a campaign (`correlator.py:336`).
3. `correlator_severity`: the unlocked narrative undoes a raised severity (`correlator.py:197`).
4. `dashboard_regress`: `to_dict()` before the lock (`server.py:120`).
5. `watchlist_alert`: self-deadlock of `watchlist_recheck_all` (`breach_lookup.py:2387`).
   When it happens on the event loop the whole dashboard stops.
6. `watchlist_load`: the loaded flag is set before the load (`breach_lookup.py:2303`).
7. `responder_audit`: `responder.py:8` says that every action is "Logged to an immutable audit trail before
   execution."; every act is logged after it (`responder.py:211`, `302`, `421`), as the record holds its result.
   A crash, or a failing write, leaves a rule, a kill or a quarantine without a record.

Seen while modelling and not stated as properties, because no document promises otherwise:

- Expired campaigns stay in memory and can be brought back by a late synthesis.
- A browser may show an alert twice, once from a snapshot and once from the feed.
- An open `/ws` stream outlives the token and the session it was opened with.
- The comment at `responder.py:37` calls `MAX_CAMPAIGN_BLOCKS` a "Hard cap on firewall rules inserted for a single
  campaign". It is not: it counts addresses, each of which is two rules on iptables, and it counts them for each
  handling of the campaign, which is handled at every update, where a rule that exists is inserted again.
  `BlocksBounded` states the bound there is, for each chain.
- A block whose first command succeeds and whose second fails is recorded as failed with its rule in place, as is a
  quarantine that has taken the execute bits or left a copy (`responder.py:293`, `411`).
- When the model's answer has no narrative, the campaign becomes SYNTHESIZED with an empty one and the handler is
  called with it (`correlator.py:194`, `377`), also in place of a baseline narrative that was there.
- Between the append of an alert and its recomputed severity other threads see the new alert with the old severity
  (`correlator.py:302-307`), and may write the old one back after it.
- The page's REST snapshot is a fallback "when /ws is unavailable" (`index.html:2774`), but it is also loaded at the
  start, beside the socket, and an answer under way when the socket opens replaces the list with what may be an older one
  (`index.html:2786`, `2851`): an alert that was shown is gone until the next snapshot.
- A crash while the watchlist is saved leaves a truncated file and loses all entries (`vault.py:106`).
- A log line that is read while it is written is split in pieces, each of which passes the patterns by itself or not
  (`log_analyzer.py:84`), and lines written after a rotation are not read.
- The id of a process is noted before its job is submitted; if that raises, the process is never analysed
  (`file_monitor.py:244`). Scans end silently at any exception (`file_monitor.py:146`, `225`).
- An abuse.ch export that is answered without rows, an empty body or a page, refutes an indicator
  (`cross_verify.py:949-957`, `995-1003`), and MalwareBazaar's export is searched by SHA-256 only
  (`cross_verify.py:980`), so that it refutes an MD5 or SHA-1 that it lists. Either may be the only reason
  for a false positive.
- A forced refresh removes the cache file before the fetch, so a failing fetch publishes an
  index without the feed, and there is no stale copy to fall back on.
- The enricher keeps the index it was built with; only the global index is refreshed.
- `_seen_pids` is never purged: a new process under an id seen before is not analysed.
- What is over `max_per_poll`, and what a raising callback leaves, is marked seen and not emitted later.
- An id that the first poll lists twice (SSLBL lists an address once per port) is in `_seen_order`
  twice and is forgotten with the first of its places (`global_ticker.py:1234`); taken again, it is
  forgotten early again with the second. `SurfacedOnce` excepts such ids and fails without the exception.
- A user name check takes an HTTP error of its source for "not listed".
- abuse.ch Hunting asks ThreatFox again, and its answer counts as a second source.

## Plan

1. Done: `SerialMailbox`, `AnalysisQueue`, `Correlator`, `Dashboard`, `Watchlist`, and the proofs
   about the queue's control.
2. Done: `FrontDoor`, `GlobalTicker`, `Pipeline`, `Monitors`, `Feeds`, `Breach`, `Verdicts`; the proofs
   about the queue's counters, its refinement, the correlator, the watchlist, the feeds, the
   breach lookups and the verdicts; then those about the dashboard, the front door, the monitors, the
   pipeline and the ticker.
3. Done: `TickerTypeOK`, the types of the verdicts and of the composed modules, what brings the findings about,
   and the order of the queue's jobs.
4. Next models: the ticker's `stop` and `ingest_external`, the verify endpoint that updates a
   stored alert in place, settings and the master key with a crash in their writes.

## Not modelled

- HTTP fetchers and feed parsers (I/O over formats), cryptography (taken as ideal), the SLM
  itself, the static ATT&CK table, terminal and HTML rendering, TLS and deployment
  helpers, option parsing.
- `unified_scan`, `verifier`, `heuristics`, `clamav_scan`, `code_scanner`: sequential scoring of
  one input by patterns and weights, without state.
- `settings.py` and `keys.py`: one reader and one writer of a small file each. The hazard of the key's
  write is listed.
- In `breach_lookup`: user names, phone numbers and the catalog's details.
- In `global_ticker`: `stop`, the status record, `ingest_external` and the ThreatFox API.
- In the dashboard: the verify endpoint's update of a stored alert, statistics, shutdown, and a second REST request of
  a page while one is under way.
- In the responder: nft, pf and netsh, which block with one command each.
