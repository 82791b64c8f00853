------------------------------- MODULE Feeds --------------------------------
(***************************************************************************)
(* The threat-intelligence feeds (intel/feeds.py): the cache file of a     *)
(* feed in ~/.guardian, the index in memory, the background refresh, and   *)
(* the commands (update-feeds, check-ioc) that load the same files from a  *)
(* process of their own.                                                   *)
(*                                                                         *)
(* load_feeds takes the feeds one after another, each with a file and a    *)
(* part of the index of its own: one feed stands for all.  Its content is  *)
(* the provider's version it was fetched from, and whether it is whole:    *)
(* write_bytes opens, which empties the file, and then writes.             *)
(* A refresh waits an hour after the last one; a command does not take     *)
(* that long.  Bound: MaxVersion versions.                                 *)
(***************************************************************************)
EXTENDS Integers

CONSTANT MaxVersion
ASSUME FeedsAssumption == MaxVersion \in Nat \ {0}

VARIABLES provider,     \* the version the provider has now
          cacheFile,    \* the cache file, NoData when there is none
          fresh,        \* it is younger than ttl_secs
          loader,       \* where the load of each process is, and its data
          feedIndex,    \* this feed in feeds._index
          enricherIndex,\* ... in the index AlertEnricher was built with
          started,      \* the monitor has had its first load
          straggler,    \* a command still runs from before the last refresh
          newest        \* the newest version ever in _index (history)

feedsVars == <<provider, cacheFile, fresh, loader, feedIndex, enricherIndex,
               started, straggler, newest>>

Process == {"monitor", "command"}
NoData == [version |-> 0, whole |-> TRUE]
At(step) == [at |-> step, data |-> NoData]

FeedsInit ==
    /\ provider = 1
    /\ cacheFile \in {NoData, [version |-> 1, whole |-> TRUE]}
    /\ fresh \in BOOLEAN /\ (cacheFile = NoData => ~fresh)
    /\ loader = [p \in Process |-> At("idle")]
    /\ feedIndex = NoData /\ enricherIndex = NoData
    /\ started = FALSE /\ straggler = FALSE /\ newest = 0

-----------------------------------------------------------------------------
(* load_feeds                                                              *)

Step(p, from, to) == loader[p].at = from /\ loader' = [loader EXCEPT ![p].at = to]
Got(p, data) == loader' = [loader EXCEPT ![p] = [at |-> "done", data |-> data]]
MemoryKept == UNCHANGED <<provider, feedIndex, enricherIndex, started, straggler, newest>>

\* The monitor's first load uses the cache (_init_ti), every later one is
\* forced (_loop); of the commands, update-feeds forces, check-ioc does not.
Begin(p, forced) ==
    /\ p = "monitor" => forced = started /\ ~straggler
    /\ Step(p, "idle", IF forced THEN "unlink" ELSE "look")
    /\ UNCHANGED <<cacheFile, fresh>> /\ MemoryKept

\* Mutant: force_refresh does not remove the file.
UnlinkNever(p) ==
    /\ Step(p, "unlink", "look")
    /\ UNCHANGED <<cacheFile, fresh>> /\ MemoryKept

\* Who is writing the file writes to no name from now on.
Unlink(p) ==
    /\ loader[p].at = "unlink"
    /\ loader' = [q \in Process |->
            [loader[q] EXCEPT !.at = IF q = p THEN "look" ELSE IF @ = "fill" THEN "lost" ELSE @]]
    /\ cacheFile' = NoData /\ fresh' = FALSE
    /\ MemoryKept

\* _is_fresh
Look(p) ==
    /\ Step(p, "look", IF fresh THEN "read" ELSE "fetch")
    /\ UNCHANGED <<cacheFile, fresh>> /\ MemoryKept

\* The fresh file is read outside the try; it may be gone by now.
ReadCache(p) ==
    /\ loader[p].at = "read"
    /\ Got(p, cacheFile)
    /\ UNCHANGED <<cacheFile, fresh>> /\ MemoryKept

\* _fetch_raw answers or raises.
Fetch(p) ==
    /\ loader[p].at = "fetch"
    /\ \/ loader' = [loader EXCEPT ![p] = [at |-> "open", data |-> [version |-> provider, whole |-> TRUE]]]
       \/ loader' = [loader EXCEPT ![p].at = "fallback"]
    /\ UNCHANGED <<cacheFile, fresh>> /\ MemoryKept

Truncate(p) ==
    /\ Step(p, "open", "fill")
    /\ cacheFile' = [version |-> loader[p].data.version, whole |-> FALSE] /\ fresh' = TRUE
    /\ MemoryKept

\* A write that fails leaves the file short.
Fill(p) ==
    /\ loader[p].at \in {"fill", "lost"}
    /\ \/ /\ IF loader[p].at = "lost" THEN UNCHANGED <<cacheFile, fresh>>
             ELSE cacheFile' = loader[p].data /\ fresh' = TRUE
          /\ loader' = [loader EXCEPT ![p].at = "done"]
       \/ /\ loader' = [loader EXCEPT ![p] = At("fallback")]
          /\ UNCHANGED <<cacheFile, fresh>>
    /\ MemoryKept

\* "stale cache is better than nothing", if there is one
Fallback(p) ==
    /\ loader[p].at = "fallback"
    /\ Got(p, cacheFile)
    /\ UNCHANGED <<cacheFile, fresh>> /\ MemoryKept

-----------------------------------------------------------------------------
\* _index is replaced whole; the enricher keeps the one it was built with.
Publish ==
    /\ Step("monitor", "done", "idle")
    /\ LET data == loader["monitor"].data IN
        /\ feedIndex' = data
        /\ enricherIndex' = IF started THEN enricherIndex ELSE data
        /\ newest' = IF data.version > newest THEN data.version ELSE newest
    /\ started' = TRUE
    /\ straggler' = (loader["command"].at # "idle")
    /\ UNCHANGED <<provider, cacheFile, fresh>>

\* The command prints what it has and exits, or is interrupted.
CommandEnds ==
    /\ loader["command"].at # "idle"
    /\ loader' = [loader EXCEPT !["command"] = At("idle")]
    /\ straggler' = FALSE
    /\ UNCHANGED <<provider, cacheFile, fresh, feedIndex, enricherIndex, started, newest>>

ProviderUpdates ==
    /\ provider < MaxVersion
    /\ provider' = provider + 1
    /\ UNCHANGED <<cacheFile, fresh, loader, feedIndex, enricherIndex, started, straggler, newest>>

CacheAges ==
    /\ fresh
    /\ fresh' = FALSE
    /\ UNCHANGED <<provider, cacheFile, loader, feedIndex, enricherIndex, started, straggler, newest>>

FeedsNext ==
    \/ \E p \in Process :
        \/ \E forced \in BOOLEAN : Begin(p, forced)
        \/ Unlink(p) \/ Look(p) \/ ReadCache(p) \/ Fetch(p)
        \/ Truncate(p) \/ Fill(p) \/ Fallback(p)
    \/ Publish \/ CommandEnds
    \/ ProviderUpdates \/ CacheAges

FeedsSpec == FeedsInit /\ [][FeedsNext]_feedsVars

-----------------------------------------------------------------------------
(* Properties                                                              *)

Data == [version : 0..MaxVersion, whole : BOOLEAN]

\* Every variable has its type.
FeedsTypeOK ==
    /\ provider \in 1..MaxVersion
    /\ cacheFile \in Data /\ fresh \in BOOLEAN
    /\ loader \in [Process -> [at : {"idle", "unlink", "look", "read", "fetch", "open", "fill", "lost",
                                     "fallback", "done"}, data : Data]]
    /\ feedIndex \in Data /\ enricherIndex \in Data
    /\ started \in BOOLEAN /\ straggler \in BOOLEAN
    /\ newest \in 0..MaxVersion

\* A refresh may lose a feed, but never takes it back to a version older than
\* one it had before, even when a command of another process writes what it
\* fetched long ago into the cache at any moment.
NoFeedGoesBack == feedIndex.version \in {0, newest}

=============================================================================
