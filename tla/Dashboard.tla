------------------------------ MODULE Dashboard ------------------------------
(***************************************************************************)
(* guardian/web/server.py (DashboardState, ConnectionManager, the          *)
(* broadcaster, the /ws endpoint) with guardian/web/persistence.py and the *)
(* feed of static/index.html: monitor threads store, save and emit alerts  *)
(* and campaigns; the event loop sends them to the connected browsers; a   *)
(* crash loses everything but the database.                                *)
(*                                                                         *)
(* An alert is the number of its creation, which is also its timestamp.    *)
(* There is one campaign; a version of it is the alert count to_dict()     *)
(* read.  A browser has one REST snapshot under way at a time; what it     *)
(* shows is followed while its socket is open, for the /ws snapshot        *)
(* replaces it.  Bounds: MaxAlerts alerts, MaxCrashes crashes.             *)
(***************************************************************************)
EXTENDS Integers, Sequences, FiniteSets, FiniteSetsExt, SequencesExt

CONSTANTS Producer,     \* monitor threads
          Client,       \* browsers
          MemoryCap,    \* DashboardState.MAX_ALERTS
          DatabaseCap,  \* persistence._MAX_ALERTS
          SnapshotCap,  \* get_alerts(limit=50) of the /ws endpoint
          MaxAlerts, MaxCrashes

ASSUME DashboardAssumption ==
    /\ {MemoryCap, DatabaseCap, SnapshotCap} \subseteq Nat \ {0}
    /\ MaxAlerts \in Nat /\ MaxCrashes \in Nat

VARIABLES created,    \* alerts created so far
          alerts,     \* _alerts
          stored,     \* the campaign version in _campaigns, 0 when absent
          liveCount,  \* len(alerts) of the live Campaign object
          database,   \* alert ids in the alerts table
          dbVersion,  \* the version in the campaigns table
          pc, item,   \* where each producer is, and what it carries
          events,     \* the loop's callbacks and the broadcast queue, one FIFO
          clients,    \* ConnectionManager._clients
          greeting,   \* clients appended whose snapshot is being built
          sending,    \* the broadcast under way: event, clients to go, dead
          browser,    \* each browser: "closed", "open", "gone"
          view,       \* the alerts each browser shows
          viewVersion,\* the campaign version each browser shows
          rest,       \* each browser's REST snapshot: not asked for, asked, read
          crashes,
          unsaved,    \* alerts whose save raised (history)
          emitted,    \* alerts emitted since they were created (history)
          excused,    \* alerts too old for each browser's snapshot (history)
          hidden,     \* alerts a REST snapshot took off an open feed (history)
          dated,      \* open feeds whose campaign came by REST (history)
          disturbed   \* campaign updates overlapped or failed to save (history)

producerVars == <<pc, item>>
feedVars == <<events, clients, greeting, sending>>
pageVars == <<view, viewVersion, rest, hidden, dated>>
browserVars == <<browser, pageVars>>
diskVars == <<database, dbVersion>>
memoryVars == <<alerts, stored, liveCount>>
history == <<unsaved, emitted, excused, disturbed>>
vars == <<created, crashes, memoryVars, diskVars, producerVars, feedVars,
          browserVars, history>>

Idle == [event |-> 0, kind |-> "none", todo |-> {}, dead |-> {}]
Event(kind, e) == [kind |-> kind, data |-> e]
NoRequest == [state |-> "none", alerts |-> {}, version |-> 0]

Init ==
    /\ created = 0 /\ crashes = 0
    /\ alerts = <<>> /\ stored = 0 /\ liveCount = 0
    /\ database = {} /\ dbVersion = 0
    /\ pc = [p \in Producer |-> "idle"] /\ item = [p \in Producer |-> 0]
    /\ events = <<>> /\ clients = {} /\ greeting = {} /\ sending = Idle
    /\ browser = [c \in Client |-> "closed"]
    /\ view = [c \in Client |-> {}]
    /\ viewVersion = [c \in Client |-> 0]
    /\ rest = [c \in Client |-> NoRequest]
    /\ hidden = [c \in Client |-> {}] /\ dated = {}
    /\ unsaved = {} /\ emitted = {}
    /\ excused = [c \in Client |-> {}]
    /\ disturbed = FALSE

LastN(s, n) == IF Len(s) <= n THEN s ELSE SubSeq(s, Len(s) - n + 1, Len(s))
Oldest(S, n) == {a \in S : Cardinality({b \in S : b < a}) < n}
\* ORDER BY ts DESC LIMIT n
Newest(S, n) == {a \in S : Cardinality({b \in S : b > a}) < n}
\* The same in the order of their time
ByTime(S) ==
    [i \in 1..Cardinality(S) |-> CHOOSE a \in S : Cardinality({b \in S : b < a}) = i - 1]

Goto(p, label) == pc' = [pc EXCEPT ![p] = label]

-----------------------------------------------------------------------------
(* ingest_alert() on a monitor thread                                      *)

\* The monitor creates the alert and calls _store_alert.
CreateAlert(p) ==
    /\ pc[p] = "idle"
    /\ created < MaxAlerts
    /\ created' = created + 1
    /\ item' = [item EXCEPT ![p] = created + 1]
    /\ Goto(p, "store")
    /\ UNCHANGED <<crashes, memoryVars, diskVars, feedVars, browserVars, history>>

StoreUncapped(p) ==
    /\ pc[p] = "store"
    /\ alerts' = Append(alerts, item[p])
    /\ Goto(p, "save")
    /\ UNCHANGED <<created, crashes, stored, liveCount, diskVars, item, feedVars,
                   browserVars, history>>

StoreAlert(p) ==
    /\ pc[p] = "store"
    /\ alerts' = LastN(Append(alerts, item[p]), MemoryCap)
    /\ Goto(p, "save")
    /\ UNCHANGED <<created, crashes, stored, liveCount, diskVars, item, feedVars,
                   browserVars, history>>

SaveUntrimmed(p) ==
    /\ pc[p] = "save"
    /\ database' = database \cup {item[p]}
    /\ Goto(p, "emit")
    /\ UNCHANGED <<created, crashes, memoryVars, dbVersion, item, feedVars,
                   browserVars, history>>

SkipSaveAlert(p) ==
    /\ pc[p] = "save"
    /\ Goto(p, "emit")
    /\ UNCHANGED <<created, crashes, memoryVars, diskVars, item, feedVars,
                   browserVars, history>>

\* save_alert: insert and trim in one transaction; an exception is swallowed.
SaveAlert(p) ==
    /\ pc[p] = "save"
    /\ \/ /\ database' = Newest(database \cup {item[p]}, DatabaseCap)
          /\ UNCHANGED unsaved
       \/ /\ unsaved' = unsaved \cup {item[p]}
          /\ UNCHANGED database
    /\ Goto(p, "emit")
    /\ UNCHANGED <<created, crashes, memoryVars, dbVersion, item, feedVars,
                   browserVars, emitted, excused, disturbed>>

\* _emit; then the correlator adds the alert to the live campaign.
EmitAlert(p) ==
    /\ pc[p] = "emit"
    /\ events' = Append(events, Event("alert", item[p]))
    /\ emitted' = emitted \cup {item[p]}
    /\ liveCount' = liveCount + 1
    /\ Goto(p, "toDict")
    /\ UNCHANGED <<created, crashes, alerts, stored, diskVars, item, clients,
                   greeting, sending, browserVars, unsaved, excused, disturbed>>

-----------------------------------------------------------------------------
(* ingest_campaign() from the correlator's callback                        *)

InCampaign(p) == pc[p] \in {"upsert", "saveCampaign", "emitCampaign"}

\* campaign.to_dict(), outside the lock.
ReadCampaign(p) ==
    /\ pc[p] = "toDict"
    /\ item' = [item EXCEPT ![p] = liveCount]
    /\ disturbed' = \E q \in Producer \ {p} : InCampaign(q)
    /\ Goto(p, "upsert")
    /\ UNCHANGED <<created, crashes, memoryVars, diskVars, feedVars, browserVars,
                   unsaved, emitted, excused>>

\* A campaign already in the list is left alone.
AppendCampaign(p) ==
    /\ pc[p] = "upsert"
    /\ stored' = IF stored = 0 THEN item[p] ELSE stored
    /\ Goto(p, "saveCampaign")
    /\ UNCHANGED <<created, crashes, alerts, liveCount, diskVars, item, feedVars,
                   browserVars, history>>

StoreCampaign(p) ==
    /\ pc[p] = "upsert"
    /\ stored' = item[p]
    /\ Goto(p, "saveCampaign")
    /\ UNCHANGED <<created, crashes, alerts, liveCount, diskVars, item, feedVars,
                   browserVars, history>>

SaveCampaign(p) ==
    /\ pc[p] = "saveCampaign"
    /\ \/ dbVersion' = item[p] /\ UNCHANGED disturbed
       \/ disturbed' = TRUE /\ UNCHANGED dbVersion
    /\ Goto(p, "emitCampaign")
    /\ UNCHANGED <<created, crashes, memoryVars, database, item, feedVars,
                   browserVars, unsaved, emitted, excused>>

EmitCampaign(p) ==
    /\ pc[p] = "emitCampaign"
    /\ events' = Append(events, Event("campaign", item[p]))
    /\ Goto(p, "idle")
    /\ item' = [item EXCEPT ![p] = 0]
    /\ UNCHANGED <<created, crashes, memoryVars, diskVars, clients, greeting,
                   sending, browserVars, history>>

-----------------------------------------------------------------------------
(* The event loop: the broadcaster and the /ws endpoint.  Between appending a *)
(* client and sending its snapshot the endpoint does not yield the loop.   *)

\* ConnectionManager.broadcast copies the client list; heartbeats after a
\* second of silence.
BroadcastStart ==
    /\ sending = Idle /\ greeting = {}
    /\ IF events # <<>>
       THEN /\ sending' = [event |-> Head(events).data, kind |-> Head(events).kind,
                           todo |-> clients, dead |-> {}]
            /\ events' = Tail(events)
       ELSE /\ sending' = [Idle EXCEPT !.kind = "heartbeat", !.todo = clients]
            /\ UNCHANGED events
    /\ UNCHANGED <<created, crashes, memoryVars, diskVars, producerVars, clients,
                   greeting, browserVars, history>>

\* ws.send_text: the browser's handleAlert or handleCampaign, or an exception.
BroadcastSend(c) ==
    /\ c \in sending.todo /\ greeting = {}
    /\ IF browser[c] = "open"
       THEN /\ sending' = [sending EXCEPT !.todo = @ \ {c}]
            /\ view' = IF sending.kind = "alert"
                       THEN [view EXCEPT ![c] = @ \cup {sending.event}] ELSE view
            /\ viewVersion' = IF sending.kind = "campaign"
                              THEN [viewVersion EXCEPT ![c] = sending.event]
                              ELSE viewVersion
            /\ dated' = IF sending.kind = "campaign" THEN dated \ {c} ELSE dated
       ELSE /\ sending' = [sending EXCEPT !.todo = @ \ {c}, !.dead = @ \cup {c}]
            /\ UNCHANGED <<view, viewVersion, dated>>
    /\ UNCHANGED <<created, crashes, memoryVars, diskVars, producerVars, events,
                   clients, greeting, browser, rest, hidden, history>>

\* Dead sockets stay in the list.
BroadcastKeepsDead ==
    /\ sending.kind # "none" /\ sending.todo = {} /\ greeting = {}
    /\ sending' = Idle
    /\ UNCHANGED <<created, crashes, memoryVars, diskVars, producerVars, events,
                   clients, greeting, browserVars, history>>

\* The dead sockets are disconnected.
BroadcastEnd ==
    /\ sending.kind # "none" /\ sending.todo = {} /\ greeting = {}
    /\ clients' = clients \ sending.dead
    /\ sending' = Idle
    /\ UNCHANGED <<created, crashes, memoryVars, diskVars, producerVars, events,
                   greeting, browserVars, history>>

\* manager.connect.
Connect(c) ==
    /\ browser[c] = "closed" /\ c \notin clients /\ greeting = {}
    /\ browser' = [browser EXCEPT ![c] = "open"]
    /\ clients' = clients \cup {c}
    /\ greeting' = {c}
    /\ UNCHANGED <<created, crashes, memoryVars, diskVars, producerVars, events,
                   sending, pageVars, history>>

OldestAlerts == ToSet(SubSeq(alerts, 1, Min({SnapshotCap, Len(alerts)})))
\* get_alerts(limit=50): the most recent ones.
RecentAlerts == ToSet(LastN(alerts, SnapshotCap))
NotStored == {item[p] : p \in {q \in Producer : pc[q] = "store"}}

\* The snapshot is built and sent; handleSnapshot replaces what is shown.
Snapshot(c) ==
    /\ greeting = {c}
    /\ greeting' = {}
    /\ view' = [view EXCEPT ![c] = RecentAlerts]
    /\ excused' = [excused EXCEPT ![c] =
                     (1..created) \ (ToSet(LastN(alerts, SnapshotCap)) \cup NotStored)]
    /\ viewVersion' = [viewVersion EXCEPT ![c] = stored]
    /\ UNCHANGED <<created, crashes, memoryVars, diskVars, producerVars, events,
                   clients, sending, browser, rest, hidden, dated, unsaved, emitted,
                   disturbed>>

\* loadSnapshotRest, at the page's start and from the timer that runs while the
\* socket is closed; what is under way when the socket opens goes on.
AskRest(c) ==
    /\ browser[c] # "open" /\ rest[c] = NoRequest
    /\ rest' = [rest EXCEPT ![c].state = "asked"]
    /\ UNCHANGED <<created, crashes, memoryVars, diskVars, producerVars, feedVars,
                   browser, view, viewVersion, hidden, dated, history>>

\* /api/alerts?limit=50 and /api/campaigns, read here at one moment.
ReadRest(c) ==
    /\ rest[c].state = "asked" /\ greeting = {}
    /\ rest' = [rest EXCEPT ![c] =
                   [state |-> "read", alerts |-> RecentAlerts, version |-> stored]]
    /\ UNCHANGED <<created, crashes, memoryVars, diskVars, producerVars, feedVars,
                   browser, view, viewVersion, hidden, dated, history>>

\* handleSnapshot replaces what is shown, whatever the socket brought meanwhile;
\* campaigns whose answer was not ok become none.
ShowRest(c) ==
    /\ rest[c].state = "read"
    /\ rest' = [rest EXCEPT ![c] = NoRequest]
    /\ IF browser[c] = "open" /\ c \notin greeting
       THEN /\ view' = [view EXCEPT ![c] = rest[c].alerts]
            /\ \E version \in {0, rest[c].version} :
                  viewVersion' = [viewVersion EXCEPT ![c] = version]
            /\ hidden' = [hidden EXCEPT ![c] = @ \cup (view[c] \ rest[c].alerts)]
            /\ dated' = dated \cup {c}
       ELSE UNCHANGED <<view, viewVersion, hidden, dated>>
    /\ UNCHANGED <<created, crashes, memoryVars, diskVars, producerVars, feedVars,
                   browser, history>>

\* A request fails, an answer is not ok or does not arrive.
LoseRest(c) ==
    /\ rest[c] # NoRequest
    /\ rest' = [rest EXCEPT ![c] = NoRequest]
    /\ UNCHANGED <<created, crashes, memoryVars, diskVars, producerVars, feedVars,
                   browser, view, viewVersion, hidden, dated, history>>

\* The browser goes away; it may come back once the server dropped it.
Leave(c) ==
    /\ browser[c] = "open" /\ c \notin greeting
    /\ browser' = [browser EXCEPT ![c] = "gone"]
    /\ view' = [view EXCEPT ![c] = {}] /\ viewVersion' = [viewVersion EXCEPT ![c] = 0]
    /\ hidden' = [hidden EXCEPT ![c] = {}] /\ dated' = dated \ {c}
    /\ excused' = [excused EXCEPT ![c] = {}]
    /\ UNCHANGED <<created, crashes, memoryVars, diskVars, producerVars, feedVars,
                   rest, unsaved, emitted, disturbed>>

\* receive_text raised WebSocketDisconnect, if it ever does: a lost network
\* may raise nothing before the next send.
Disconnect(c) ==
    /\ browser[c] = "gone" /\ c \in clients /\ greeting = {}
    /\ clients' = clients \ {c}
    /\ UNCHANGED <<created, crashes, memoryVars, diskVars, producerVars, events,
                   greeting, sending, browserVars, history>>

\* The page connects again.
Return(c) ==
    /\ browser[c] = "gone" /\ c \notin clients
    /\ browser' = [browser EXCEPT ![c] = "closed"]
    /\ UNCHANGED <<created, crashes, memoryVars, diskVars, producerVars, feedVars,
                   pageVars, history>>

-----------------------------------------------------------------------------
\* The process dies and starts again: _load_persisted reads the database; the
\* correlator starts empty; every connection is lost.
Restart ==
    /\ crashes < MaxCrashes
    /\ crashes' = crashes + 1
    /\ alerts' = ByTime(Newest(database, MemoryCap))
    /\ stored' = dbVersion
    /\ liveCount' = 0
    /\ pc' = [p \in Producer |-> "idle"] /\ item' = [p \in Producer |-> 0]
    /\ events' = <<>> /\ clients' = {} /\ greeting' = {} /\ sending' = Idle
    /\ browser' = [c \in Client |-> IF browser[c] = "closed" THEN "closed" ELSE "gone"]
    /\ view' = [c \in Client |-> {}] /\ viewVersion' = [c \in Client |-> 0]
    /\ excused' = [c \in Client |-> {}]
    /\ hidden' = [c \in Client |-> {}] /\ dated' = {}
    /\ disturbed' = TRUE
    /\ rest' = [c \in Client |-> IF rest[c].state = "asked" THEN NoRequest ELSE rest[c]]
    /\ UNCHANGED <<created, diskVars, unsaved, emitted>>

ProducerStep(p) ==
    \/ StoreAlert(p) \/ SaveAlert(p) \/ EmitAlert(p)
    \/ ReadCampaign(p) \/ StoreCampaign(p) \/ SaveCampaign(p) \/ EmitCampaign(p)

LoopStep ==
    \/ BroadcastStart \/ BroadcastEnd
    \/ \E c \in Client : BroadcastSend(c) \/ Snapshot(c)

BrowserStep(c) ==
    \/ Connect(c) \/ Leave(c) \/ Disconnect(c) \/ Return(c)
    \/ AskRest(c) \/ ReadRest(c) \/ ShowRest(c) \/ LoseRest(c)

Next ==
    \/ \E p \in Producer : CreateAlert(p) \/ ProducerStep(p)
    \/ \E c \in Client : BrowserStep(c)
    \/ LoopStep
    \/ Restart

Spec == Init /\ [][Next]_vars

\* Monitor threads run; the event loop serves its ready callbacks in turn.
FairSpec ==
    /\ Spec
    /\ \A p \in Producer : WF_vars(ProducerStep(p))
    /\ WF_vars(BroadcastStart) /\ WF_vars(BroadcastEnd)
    /\ \A c \in Client : WF_vars(BroadcastSend(c)) /\ WF_vars(Snapshot(c))

-----------------------------------------------------------------------------
(* Properties                                                              *)

\* Types, and the caps of the memory store and the alerts table.
TypeOK ==
    /\ created \in 0..MaxAlerts /\ crashes \in 0..MaxCrashes
    /\ alerts \in Seq(1..created) /\ Len(alerts) <= MemoryCap
    /\ stored \in Nat /\ liveCount \in Nat /\ dbVersion \in Nat
    /\ database \subseteq 1..created /\ Cardinality(database) <= DatabaseCap
    /\ pc \in [Producer -> {"idle", "store", "save", "emit", "toDict", "upsert",
                            "saveCampaign", "emitCampaign"}]
    /\ item \in [Producer -> Nat]
    /\ events \in Seq([kind : {"alert", "campaign"}, data : Nat])
    /\ clients \subseteq Client /\ greeting \subseteq clients
    /\ sending \in [event : Nat, kind : {"none", "alert", "campaign", "heartbeat"},
                    todo : SUBSET Client, dead : SUBSET Client]
    /\ browser \in [Client -> {"closed", "open", "gone"}]
    /\ view \in [Client -> SUBSET (1..created)]
    /\ viewVersion \in [Client -> Nat]
    /\ rest \in [Client -> [state : {"none", "asked", "read"},
                            alerts : SUBSET (1..created), version : Nat]]
    /\ disturbed \in BOOLEAN

Connected(c) == c \in clients \ greeting /\ browser[c] = "open"

OnItsWay(a, c) ==
    \/ \E p \in Producer : item[p] = a /\ pc[p] \in {"store", "save", "emit"}
    \/ \E i \in DOMAIN events : events[i] = Event("alert", a)
    \/ sending.kind = "alert" /\ sending.event = a /\ c \in sending.todo

\* No alert falls between the snapshot and the live feed: a connected browser
\* shows every alert, or it is on its way there, or it was already too old for
\* the snapshot, or it was shown until a REST snapshot asked for before the
\* socket opened came late and took it off the list.
NoGap ==
    \A c \in Client : Connected(c) =>
        \A a \in 1..created :
            a \in view[c] \cup excused[c] \cup hidden[c] \/ OnItsWay(a, c)

\* An alert is pushed to browsers only after its save was tried: what a crash
\* can take back of the live feed is what SQLite refused or what newer alerts
\* displaced.
BroadcastIsDurable ==
    \A a \in emitted \ unsaved :
        a \in database \/ Cardinality({b \in database : b > a}) >= DatabaseCap

AtRest ==
    /\ \A p \in Producer : pc[p] = "idle"
    /\ events = <<>> /\ sending.kind \in {"none", "heartbeat"} /\ greeting = {}

\* When the last campaign update ran alone and was saved, the live campaign,
\* the dashboard's copy, the database and every browser agree, except a browser
\* whose copy a late REST snapshot replaced.
CampaignAgrees ==
    AtRest /\ ~disturbed =>
        /\ stored = liveCount /\ dbVersion = stored
        /\ \A c \in Client : Connected(c) /\ c \notin dated => viewVersion[c] = stored

\* A socket that went away leaves the client list, by the heartbeat if by
\* nothing else.
DeadClientsLeave ==
    \A c \in Client : c \in clients /\ browser[c] = "gone" ~> c \notin clients

\* "Thread-safe store of alerts and campaigns for the web layer": the stored
\* campaign never goes back to an earlier state.
CampaignNeverRegresses == [][stored' >= stored]_vars
=============================================================================
