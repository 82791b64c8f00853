------------------------------ MODULE Watchlist ------------------------------
(***************************************************************************)
(* The breach watchlist of guardian/intel/breach_lookup.py and the file    *)
(* security/vault.py seals it in.  The dashboard's handlers run on the     *)
(* event loop, one at a time; the scheduler thread re-checks all entries   *)
(* every hour.  Both share _watchlist_lock, a threading.Lock that its own  *)
(* holder cannot take again.                                               *)
(*                                                                         *)
(* An entry is kept with the result of its last check.  The unread alerts  *)
(* are left out: their only writer is _watchlist_maybe_alert, whose only   *)
(* caller holds the lock it needs, so that the list stays empty.  Bounds:  *)
(* MaxCalls calls, MaxCrashes crashes, MaxFailures failed reads or writes. *)
(***************************************************************************)
EXTENDS Integers, FiniteSets

CONSTANTS Entry,                \* identifiers one may watch
          Result,               \* what check_breach may answer
          Loop, Scheduler,      \* the two threads
          NoThread,
          MaxCalls, MaxCrashes, MaxFailures

Thread == {Loop, Scheduler}
ASSUME WatchlistAssumption ==
    /\ Result \subseteq [status : {"clean", "exposed", "unknown"}, count : Nat]
    /\ Entry # {} /\ Loop # Scheduler /\ NoThread \notin Thread

VARIABLES entries,    \* _watchlist: a function from the watched entries
          loaded,     \* _watchlist_loaded
          lock,       \* the thread that keeps _watchlist_lock, or NoThread
          file,       \* what unsealing watchlist.v1.enc gives
          pc,         \* where each thread is
          op, arg,    \* the operation each thread runs, and its entry
          carry,      \* the payload a load or a save carries
          todo,       \* the snapshot entries a re-check has still to check
          calls, crashes, failures,
          watched,    \* the entries the user was told are watched (history)
          wiped,      \* those a crash in the middle of a save took with it (history)
          raced,      \* an update overlapped the other thread's load (history)
          damaged     \* a read or write failed (history)

callVars == <<pc, op, arg, carry, todo>>
bounds == <<calls, crashes, failures>>
history == <<watched, wiped, raced, damaged>>
vars == <<entries, loaded, lock, file, callVars, bounds, history>>

Contents == UNION {[S -> Result] : S \in SUBSET Entry}
Nothing == [e \in {} |-> 0]
Without(f, e) == [x \in DOMAIN f \ {e} |-> f[x]]
With(f, e, r) == [x \in DOMAIN f \cup {e} |-> IF x = e THEN r ELSE f[x]]
\* dict.update: what g has wins.
Updated(f, g) == [x \in DOMAIN f \cup DOMAIN g |-> IF x \in DOMAIN g THEN g[x] ELSE f[x]]

\* A file left by an earlier life of the program, or none.
Init ==
    /\ file \in Contents
    /\ watched = DOMAIN file
    /\ entries = Nothing /\ loaded = FALSE /\ lock = NoThread
    /\ pc = [t \in Thread |-> "idle"]
    /\ op = [t \in Thread |-> "none"]
    /\ arg \in [Thread -> {CHOOSE e \in Entry : TRUE}]
    /\ carry = [t \in Thread |-> Nothing]
    /\ todo = [t \in Thread |-> Nothing]
    /\ calls = 0 /\ crashes = 0 /\ failures = 0
    /\ wiped = {} /\ raced = FALSE /\ damaged = FALSE

Goto(t, label) == pc' = [pc EXCEPT ![t] = label]
Free == lock = NoThread
Loading(t) == pc[t] \in {"flag", "unseal", "merge"}
OtherLoads(t) == \E u \in Thread \ {t} : Loading(u)

-----------------------------------------------------------------------------
(* _watchlist_load_once()                                                  *)

Call(t, o, e) ==
    /\ pc[t] = "idle"
    /\ calls < MaxCalls
    /\ t = Scheduler => o = "recheck"
    /\ o \in {"list", "recheck"} => e = arg[t]   \* these have no entry
    /\ calls' = calls + 1
    /\ op' = [op EXCEPT ![t] = o]
    /\ arg' = [arg EXCEPT ![t] = e]
    /\ Goto(t, IF loaded THEN o ELSE "flag")
    /\ UNCHANGED <<entries, loaded, lock, file, carry, todo, crashes, failures, history>>

\* The flag is set before anything is loaded.
SetLoaded(t) ==
    /\ pc[t] = "flag"
    /\ loaded' = TRUE
    /\ Goto(t, "unseal")
    /\ UNCHANGED <<entries, lock, file, op, arg, carry, todo, bounds, history>>

\* unseal_file: None when the file is missing or cannot be read.
Unseal(t) ==
    /\ pc[t] = "unseal"
    /\ \/ /\ carry' = [carry EXCEPT ![t] = file]
          /\ Goto(t, "merge")
          /\ UNCHANGED <<failures, damaged>>
       \/ /\ failures < MaxFailures
          /\ failures' = failures + 1
          /\ damaged' = TRUE
          /\ Goto(t, op[t])
          /\ UNCHANGED carry
    /\ UNCHANGED <<entries, loaded, lock, file, op, arg, todo, calls, crashes,
                   watched, wiped, raced>>

Merge(t) ==
    /\ pc[t] = "merge"
    /\ Free
    /\ entries' = Updated(entries, carry[t])
    /\ carry' = [carry EXCEPT ![t] = Nothing]
    /\ Goto(t, op[t])
    /\ UNCHANGED <<loaded, lock, file, op, arg, todo, bounds, history>>

-----------------------------------------------------------------------------
(* watchlist_add(), watchlist_remove(), watchlist_list(), _watchlist_persist() *)

Insert(t) ==
    /\ pc[t] = "add"
    /\ Free
    /\ \E r \in Result : entries' = With(entries, arg[t], r)
    /\ raced' = (raced \/ OtherLoads(t))
    /\ Goto(t, "copy")
    /\ UNCHANGED <<loaded, lock, file, op, arg, carry, todo, bounds, watched, wiped, damaged>>

\* An entry that is not there is an error, and nothing is saved.
Delete(t) ==
    /\ pc[t] = "remove"
    /\ Free
    /\ IF arg[t] \in DOMAIN entries
       THEN entries' = Without(entries, arg[t]) /\ Goto(t, "copy")
       ELSE Goto(t, "idle") /\ UNCHANGED entries
    /\ raced' = (raced \/ OtherLoads(t))
    /\ UNCHANGED <<loaded, lock, file, op, arg, carry, todo, bounds, watched, wiped, damaged>>

List(t) ==
    /\ pc[t] = "list"
    /\ Free
    /\ Goto(t, "idle")
    /\ UNCHANGED <<entries, loaded, lock, file, op, arg, carry, todo, bounds, history>>

PersistCopy(t) ==
    /\ pc[t] = "copy"
    /\ Free
    /\ carry' = [carry EXCEPT ![t] = entries]
    /\ Goto(t, "open")
    /\ UNCHANGED <<entries, loaded, lock, file, op, arg, todo, bounds, history>>

\* What the caller was told when the operation returned.
Told(t) == IF op[t] = "add" THEN watched \cup {arg[t]} ELSE watched \ {arg[t]}

\* write_text first truncates the file, which is then worth as much as none; any
\* exception is swallowed.
PersistOpen(t) ==
    /\ pc[t] = "open"
    /\ \/ /\ file' = Nothing
          /\ Goto(t, "fill")
          /\ UNCHANGED <<failures, damaged, watched, wiped, carry>>
       \/ /\ failures < MaxFailures
          /\ failures' = failures + 1
          /\ damaged' = TRUE
          /\ watched' = Told(t) /\ wiped' = wiped \ {arg[t]}
          /\ carry' = [carry EXCEPT ![t] = Nothing]
          /\ Goto(t, "idle")
          /\ UNCHANGED file
    /\ UNCHANGED <<entries, loaded, lock, op, arg, todo, calls, crashes, raced>>

\* Only the new entry is written.
FillNewOnly(t) ==
    /\ pc[t] = "fill"
    /\ file' = [e \in DOMAIN carry[t] \cap {arg[t]} |-> carry[t][e]]
    /\ watched' = Told(t) /\ wiped' = wiped \ {arg[t]}
    /\ carry' = [carry EXCEPT ![t] = Nothing]
    /\ Goto(t, "idle")
    /\ UNCHANGED <<entries, loaded, lock, op, arg, todo, bounds, raced, damaged>>

PersistFill(t) ==
    /\ pc[t] = "fill"
    /\ file' = carry[t]
    /\ watched' = Told(t) /\ wiped' = wiped \ {arg[t]}
    /\ carry' = [carry EXCEPT ![t] = Nothing]
    /\ Goto(t, "idle")
    /\ UNCHANGED <<entries, loaded, lock, op, arg, todo, bounds, raced, damaged>>

-----------------------------------------------------------------------------
(* watchlist_recheck_all()                                                 *)

Snapshot(t) ==
    /\ pc[t] = "recheck"
    /\ Free
    /\ todo' = [todo EXCEPT ![t] = entries]
    /\ Goto(t, "check")
    /\ UNCHANGED <<entries, loaded, lock, file, op, arg, carry, bounds, history>>

\* _watchlist_maybe_alert: compared with the snapshot, not with the entry.
Worse(before, result) ==
    \/ before.status = "clean" /\ result.status = "exposed"
    \/ result.count > before.count

\* The next entry never advances past one that was removed.
RecheckStalls(t) ==
    /\ pc[t] = "check"
    /\ Free
    /\ \E e \in DOMAIN todo[t] \cap DOMAIN entries, r \in Result :
          /\ entries' = [entries EXCEPT ![e] = r]
          /\ todo' = [todo EXCEPT ![t] = Without(@, e)]
    /\ UNCHANGED <<loaded, lock, file, pc, op, arg, carry, bounds, history>>

\* A re-check that stores its result whether or not the entry is still there.
RecheckRevives(t) ==
    /\ pc[t] = "check"
    /\ Free
    /\ \E e \in DOMAIN todo[t], r \in Result :
          /\ entries' = With(entries, e, r)
          /\ todo' = [todo EXCEPT ![t] = Without(@, e)]
    /\ UNCHANGED <<loaded, lock, file, pc, op, arg, carry, bounds, history>>

\* A re-check that releases the lock before it emits the alert.
RecheckUnlocked(t) ==
    /\ pc[t] = "check"
    /\ Free
    /\ \E e \in DOMAIN todo[t] \cap DOMAIN entries, r \in Result :
          /\ Worse(todo[t][e], r)
          /\ todo' = [todo EXCEPT ![t] = Without(@, e)]
          /\ Goto(t, "alert")
    /\ UNCHANGED <<entries, lock, loaded, file, op, arg, carry, bounds, history>>

\* One entry is checked outside the lock and its result applied under it.  When
\* it is worse, _watchlist_maybe_alert waits for the lock this thread holds.
Recheck(t) ==
    /\ pc[t] = "check"
    /\ Free
    /\ \E e \in DOMAIN todo[t] :
          /\ todo' = [todo EXCEPT ![t] = Without(@, e)]
          /\ \/ /\ e \notin DOMAIN entries
                /\ UNCHANGED <<entries, lock, pc>>
             \/ /\ e \in DOMAIN entries
                /\ \E r \in Result :
                     IF Worse(todo[t][e], r)
                     THEN lock' = t /\ Goto(t, "alert") /\ UNCHANGED entries
                     ELSE entries' = [entries EXCEPT ![e] = r] /\ UNCHANGED <<lock, pc>>
    /\ UNCHANGED <<loaded, file, op, arg, carry, bounds, history>>

\* The summary, which lists the entries and the alerts.
RecheckReturns(t) ==
    /\ pc[t] = "check"
    /\ todo[t] = Nothing
    /\ Free
    /\ Goto(t, "idle")
    /\ UNCHANGED <<entries, loaded, lock, file, op, arg, carry, todo, bounds, history>>

-----------------------------------------------------------------------------
\* The process dies and starts again, at any moment.  Between the truncation
\* and the fill of a save it takes the whole list with it.
Restart ==
    /\ crashes < MaxCrashes
    /\ crashes' = crashes + 1
    /\ entries' = Nothing /\ loaded' = FALSE /\ lock' = NoThread
    /\ pc' = [t \in Thread |-> "idle"] /\ op' = [t \in Thread |-> "none"]
    /\ carry' = [t \in Thread |-> Nothing] /\ todo' = [t \in Thread |-> Nothing]
    /\ wiped' = IF pc[Loop] = "fill" THEN watched ELSE wiped
    /\ UNCHANGED <<file, arg, calls, failures, watched, raced, damaged>>

ThreadStep(t) ==
    \/ SetLoaded(t) \/ Unseal(t) \/ Merge(t)
    \/ Insert(t) \/ Delete(t) \/ List(t)
    \/ PersistCopy(t) \/ PersistOpen(t) \/ PersistFill(t)
    \/ Snapshot(t) \/ Recheck(t) \/ RecheckReturns(t)

Next ==
    \/ \E t \in Thread, o \in {"add", "remove", "list", "recheck"}, e \in Entry : Call(t, o, e)
    \/ \E t \in Thread : ThreadStep(t)
    \/ Restart

Spec == Init /\ [][Next]_vars

\* A thread inside a call is scheduled again and again.
FairSpec == Spec /\ \A t \in Thread : WF_vars(ThreadStep(t))

-----------------------------------------------------------------------------
(* Properties                                                              *)

\* Types; _watchlist_lock is kept by exactly the threads that wait for it in
\* _watchlist_maybe_alert, and a snapshot by those that re-check.
TypeOK ==
    /\ entries \in Contents
    /\ loaded \in BOOLEAN
    /\ lock \in Thread \cup {NoThread}
    /\ file \in Contents
    /\ pc \in [Thread -> {"idle", "flag", "unseal", "merge", "add", "remove", "list",
                          "copy", "open", "fill", "recheck", "check", "alert"}]
    /\ op \in [Thread -> {"none", "add", "remove", "list", "recheck"}]
    /\ arg \in [Thread -> Entry]
    /\ carry \in [Thread -> Contents]
    /\ todo \in [Thread -> Contents]
    /\ \A t \in Thread : /\ lock = t <=> pc[t] = "alert"
                         /\ todo[t] # Nothing => pc[t] \in {"check", "alert"}
    /\ watched \subseteq Entry /\ wiped \subseteq watched
    /\ raced \in BOOLEAN /\ damaged \in BOOLEAN

Settled == pc[Loop] = "idle" /\ \A t \in Thread : ~Loading(t)

\* Between the user's operations, what is watched in memory is exactly what the
\* user was told, less what a crash in a save wiped: a re-check running on a
\* stale snapshot neither revives a removed entry nor loses a new one.
MemoryAgrees ==
    Settled /\ loaded /\ ~raced /\ ~damaged => DOMAIN entries = watched \ wiped

\* Between the user's operations a crash revives no removed entry and loses a
\* watched one only when it falls between the truncation and the fill of a
\* save: then it wipes the whole list, which goes on from empty.
DiskAgrees ==
    pc[Loop] = "idle" /\ ~raced /\ ~damaged => DOMAIN file = watched \ wiped

\* Each dashboard call returns, unless a thread keeps the lock for good.
CallsReturn == \A t \in Thread : pc[t] # "idle" ~> pc[t] = "idle" \/ ~Free

\* "Re-check all watchlist entries; emit alerts when status worsens": a re-check
\* that found a worse result gets to emit its alert.
AlertIsEmitted == \A t \in Thread : pc[t] = "alert" ~> pc[t] # "alert"

\* "Watchlist: until you remove entries or delete local vault files": while no
\* file operation fails, every watched entry is in the vault file.
KeptUntilRemoved ==
    pc[Loop] = "idle" /\ ~damaged => watched \subseteq DOMAIN file
=============================================================================
