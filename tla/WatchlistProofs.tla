--------------------------- MODULE WatchlistProofs ---------------------------
(***************************************************************************)
(* Proofs about Watchlist, for any identifiers and any answers of          *)
(* check_breach: what is watched in memory and what is in the vault file   *)
(* are what the user was told, through every interleaving with the         *)
(* scheduler's re-check and every restart, except that a restart in the    *)
(* middle of a save wipes the list.                                        *)
(*                                                                         *)
(* Both properties speak of the moments between operations and are not     *)
(* inductive.  Agreeing says what entries, file and carried payloads are   *)
(* in the middle of one, up to the first file operation that failed and    *)
(* the first update that overlapped a load.  That none does later rests on *)
(* the loaded flag, which Going relates to where the threads are.          *)
(*                                                                         *)
(* A re-check that emits an alert blocks the watchlist for good (Blocks).  *)
(***************************************************************************)
EXTENDS Watchlist, TLAPS

-----------------------------------------------------------------------------
(* What is watched                                                         *)

\* Contents are functions from entries to results.
LEMMA ContentsAre ==
    \A f : f \in Contents <=> DOMAIN f \subseteq Entry /\ f \in [DOMAIN f -> Result]
<1>1. ASSUME NEW f, f \in Contents PROVE DOMAIN f \subseteq Entry /\ f \in [DOMAIN f -> Result]
  <2>1. PICK S \in SUBSET Entry : f \in [S -> Result]
    BY <1>1 DEF Contents
  <2> QED
    BY <2>1
<1>2. ASSUME NEW f, DOMAIN f \subseteq Entry, f \in [DOMAIN f -> Result] PROVE f \in Contents
  BY <1>2 DEF Contents
<1> QED
  BY <1>1, <1>2

\* Nothing is watched in an empty list.
LEMMA NothingIs ==
    /\ Nothing \in Contents /\ DOMAIN Nothing = {}
    /\ \A f \in Contents : DOMAIN f = {} => f = Nothing
<1>1. DOMAIN Nothing = {} /\ Nothing \in [{} -> Result]
  BY DEF Nothing
<1>2. ASSUME NEW f \in Contents, DOMAIN f = {} PROVE f = Nothing
  BY <1>2, ContentsAre DEF Nothing
<1> QED
  BY <1>1, <1>2, ContentsAre

\* An entry is added or its result replaced, ...
LEMMA WithIs ==
    ASSUME NEW f \in Contents, NEW e \in Entry, NEW r \in Result
    PROVE  With(f, e, r) \in Contents /\ DOMAIN With(f, e, r) = DOMAIN f \cup {e}
<1>1. DOMAIN f \subseteq Entry /\ f \in [DOMAIN f -> Result]
  BY ContentsAre
<1>2. With(f, e, r) \in [DOMAIN f \cup {e} -> Result]
  BY <1>1 DEF With
<1> QED
  BY <1>1, <1>2, ContentsAre

\* ... removed, ...
LEMMA WithoutIs ==
    ASSUME NEW f \in Contents, NEW e
    PROVE  Without(f, e) \in Contents /\ DOMAIN Without(f, e) = DOMAIN f \ {e}
<1>1. DOMAIN f \subseteq Entry /\ f \in [DOMAIN f -> Result]
  BY ContentsAre
<1>2. Without(f, e) \in [DOMAIN f \ {e} -> Result]
  BY <1>1 DEF Without
<1> QED
  BY <1>1, <1>2, ContentsAre

\* ... or a file is loaded over the list.
LEMMA UpdatedIs ==
    ASSUME NEW f \in Contents, NEW g \in Contents
    PROVE  Updated(f, g) \in Contents /\ DOMAIN Updated(f, g) = DOMAIN f \cup DOMAIN g
<1>1. /\ DOMAIN f \subseteq Entry /\ f \in [DOMAIN f -> Result]
      /\ DOMAIN g \subseteq Entry /\ g \in [DOMAIN g -> Result]
  BY ContentsAre
<1>2. Updated(f, g) \in [DOMAIN f \cup DOMAIN g -> Result]
  BY <1>1 DEF Updated
<1> QED
  BY <1>1, <1>2, ContentsAre

-----------------------------------------------------------------------------
(* Types, and which operation a thread is in                               *)

Label == {"idle", "flag", "unseal", "merge", "add", "remove", "list",
          "copy", "open", "fill", "recheck", "check", "alert"}
Operation == {"add", "remove", "list", "recheck"}

\* Where a thread is says what it runs; past the flag the list counts as loaded;
\* the scheduler only re-checks.
Going ==
    /\ \A t \in Thread :
          /\ pc[t] \in {"flag", "unseal", "merge"} => op[t] \in Operation
          /\ pc[t] \in Operation => op[t] = pc[t]
          /\ pc[t] \in {"copy", "open", "fill"} => op[t] \in {"add", "remove"}
          /\ pc[t] \in {"check", "alert"} => op[t] = "recheck"
          /\ pc[t] \notin {"idle", "flag"} => loaded
    /\ op[Scheduler] \in {"none", "recheck"}

Typed == TypeOK /\ Going

\* A step that only moves one thread, which runs on in the same operation
LEMMA Moved ==
    ASSUME Typed, NEW t \in Thread, NEW label \in Label, Goto(t, label),
           UNCHANGED <<loaded, lock, op, arg>>, pc[t] # "alert", label # "alert",
           entries' \in Contents, file' \in Contents,
           carry' \in [Thread -> Contents], todo' \in [Thread -> Contents],
           \A u \in Thread \ {t} : todo'[u] = todo[u],
           todo'[t] # Nothing => label = "check",
           label \in Operation => op[t] = label,
           label \in {"copy", "open", "fill"} => op[t] \in {"add", "remove"},
           label = "check" => op[t] = "recheck",
           label \in {"unseal", "merge"} => op[t] \in Operation, label # "flag",
           label # "idle" => loaded,
           watched' \subseteq Entry, wiped' \subseteq watched', raced' \in BOOLEAN, damaged' \in BOOLEAN
    PROVE  Typed'
<1>1. /\ pc' \in [Thread -> Label]
      /\ \A u \in Thread : pc'[u] = IF u = t THEN label ELSE pc[u]
  BY DEF Goto, Typed, TypeOK, Label
<1>2. \A u \in Thread : /\ lock' = u <=> pc'[u] = "alert"
                        /\ todo'[u] # Nothing => pc'[u] \in {"check", "alert"}
  BY <1>1 DEF Typed, TypeOK
<1>3. TypeOK'
  BY <1>1, <1>2 DEF Typed, TypeOK, Label
<1>4. Going'
  BY <1>1 DEF Typed, Going
<1> QED
  BY <1>3, <1>4 DEF Typed

\* Types and operations are right initially.
LEMMA TypedInit == Init => Typed
<1> SUFFICES ASSUME Init PROVE Typed
  OBVIOUS
<1>1. (CHOOSE e \in Entry : TRUE) \in Entry
  BY WatchlistAssumption DEF WatchlistAssumption
<1>2. arg \in [Thread -> Entry]
  BY <1>1 DEF Init
<1>3. watched \subseteq Entry
  BY ContentsAre DEF Init
<1>4. Scheduler \in Thread /\ \A t \in Thread : t # NoThread
  BY WatchlistAssumption DEF WatchlistAssumption, Thread
<1>5. TypeOK
  BY <1>2, <1>3, <1>4, NothingIs DEF Init, TypeOK
<1>6. Going
  BY <1>4 DEF Init, Going, Operation
<1> QED
  BY <1>5, <1>6 DEF Typed

\* Every step of an operation keeps them.
LEMMA TypedThread ==
    ASSUME Typed, NEW t \in Thread, ThreadStep(t)
    PROVE  Typed'
<1>1. TypeOK /\ Going
  BY DEF Typed
<1>2. /\ entries \in Contents /\ file \in Contents /\ carry[t] \in Contents /\ todo[t] \in Contents
      /\ carry \in [Thread -> Contents] /\ todo \in [Thread -> Contents]
      /\ arg[t] \in Entry /\ op[t] \in Operation \cup {"none"} /\ Nothing \in Contents
      /\ watched \subseteq Entry /\ wiped \subseteq watched /\ raced \in BOOLEAN /\ damaged \in BOOLEAN
      /\ todo[t] # Nothing => pc[t] \in {"check", "alert"}
  BY <1>1, NothingIs DEF TypeOK, Operation
<1>3. CASE SetLoaded(t)
  <2>1. /\ pc' = [pc EXCEPT ![t] = "unseal"] /\ loaded' = TRUE /\ pc[t] = "flag"
        /\ UNCHANGED <<entries, lock, file, op, arg, carry, todo, watched, wiped, raced, damaged>>
    BY <1>3 DEF SetLoaded, Goto, history
  <2>2. TypeOK'
    BY <1>1, <2>1 DEF TypeOK
  <2>3. Going'
    <3>1. \A u \in Thread : pc'[u] = IF u = t THEN "unseal" ELSE pc[u]
      BY <1>1, <2>1 DEF TypeOK
    <3> QED
      BY <1>1, <2>1, <3>1 DEF Going, Operation
  <2> QED
    BY <2>2, <2>3 DEF Typed
<1>4. CASE Unseal(t)
  <2>1. /\ pc[t] = "unseal" /\ \E label \in {"merge", op[t]} : Goto(t, label)
        /\ carry' \in {carry, [carry EXCEPT ![t] = file]}
        /\ damaged' \in {damaged, TRUE}
        /\ UNCHANGED <<entries, loaded, lock, file, op, arg, todo, watched, wiped, raced>>
    BY <1>4 DEF Unseal
  <2>2. op[t] \in Operation /\ loaded
    BY <1>1, <2>1 DEF Going
  <2> QED
    BY <1>2, <2>1, <2>2, Moved DEF Operation, Label
<1>5. CASE Merge(t)
  <2>1. /\ pc[t] = "merge" /\ Goto(t, op[t]) /\ entries' = Updated(entries, carry[t])
        /\ carry' = [carry EXCEPT ![t] = Nothing]
        /\ UNCHANGED <<loaded, lock, file, op, arg, todo, watched, wiped, raced, damaged>>
    BY <1>5 DEF Merge, history
  <2>2. op[t] \in Operation /\ loaded
    BY <1>1, <2>1 DEF Going
  <2>3. entries' \in Contents
    BY <1>2, <2>1, UpdatedIs
  <2> QED
    BY <1>2, <2>1, <2>2, <2>3, Moved DEF Operation, Label
<1>6. CASE Insert(t)
  <2>1. /\ pc[t] = "add" /\ Goto(t, "copy") /\ raced' \in BOOLEAN
        /\ UNCHANGED <<loaded, lock, file, op, arg, carry, todo, watched, wiped, damaged>>
    BY <1>6, <1>2 DEF Insert
  <2>2. entries' \in Contents
    <3>1. PICK r \in Result : entries' = With(entries, arg[t], r)
      BY <1>6 DEF Insert
    <3> QED
      BY <1>2, <3>1, WithIs
  <2>3. op[t] = "add" /\ loaded
    BY <1>1, <2>1 DEF Going, Operation
  <2> QED
    BY <1>2, <2>1, <2>2, <2>3, Moved DEF Operation, Label
<1>7. CASE Delete(t)
  <2>1. /\ pc[t] = "remove" /\ \E label \in {"copy", "idle"} : Goto(t, label) /\ raced' \in BOOLEAN
        /\ UNCHANGED <<loaded, lock, file, op, arg, carry, todo, watched, wiped, damaged>>
        /\ entries' \in {entries, Without(entries, arg[t])}
    BY <1>7, <1>2 DEF Delete
  <2>2. entries' \in Contents
    <3>1. Without(entries, arg[t]) \in Contents
      BY <1>2, WithoutIs
    <3> QED
      BY <1>2, <2>1, <3>1
  <2>3. op[t] = "remove" /\ loaded
    BY <1>1, <2>1 DEF Going, Operation
  <2> QED
    BY <1>2, <2>1, <2>2, <2>3, Moved DEF Operation, Label
<1>8. CASE List(t) \/ RecheckReturns(t)
  <2>1. /\ pc[t] \in {"list", "check"} /\ Goto(t, "idle") /\ (pc[t] = "check" => todo[t] = Nothing)
        /\ UNCHANGED <<entries, loaded, lock, file, op, arg, carry, todo, watched, wiped, raced, damaged>>
    BY <1>8 DEF List, RecheckReturns, history
  <2> QED
    BY <1>2, <2>1, Moved DEF Operation, Label
<1>9. CASE PersistCopy(t)
  <2>1. /\ pc[t] = "copy" /\ Goto(t, "open") /\ carry' = [carry EXCEPT ![t] = entries]
        /\ UNCHANGED <<entries, loaded, lock, file, op, arg, todo, watched, wiped, raced, damaged>>
    BY <1>9 DEF PersistCopy, history
  <2>2. op[t] \in {"add", "remove"} /\ loaded
    BY <1>1, <2>1 DEF Going
  <2> QED
    BY <1>2, <2>1, <2>2, Moved DEF Operation, Label
<1>10. CASE PersistOpen(t) \/ PersistFill(t)
  <2>1. /\ pc[t] \in {"open", "fill"} /\ \E label \in {"fill", "idle"} : Goto(t, label)
        /\ carry' \in {carry, [carry EXCEPT ![t] = Nothing]}
        /\ file' \in {file, Nothing, carry[t]} /\ damaged' \in {damaged, TRUE}
        /\ \/ UNCHANGED <<watched, wiped>>
           \/ watched' = Told(t) /\ wiped' = wiped \ {arg[t]}
        /\ UNCHANGED <<entries, loaded, lock, op, arg, todo, raced>>
    BY <1>10 DEF PersistOpen, PersistFill
  <2>2. op[t] \in {"add", "remove"} /\ loaded
    BY <1>1, <2>1 DEF Going
  <2>3. watched' \subseteq Entry /\ wiped' \subseteq watched'
    BY <1>2, <2>1 DEF Told
  <2> QED
    BY <1>2, <2>1, <2>2, <2>3, Moved DEF Operation, Label
<1>11. CASE Snapshot(t)
  <2>1. /\ pc[t] = "recheck" /\ Goto(t, "check") /\ todo' = [todo EXCEPT ![t] = entries]
        /\ UNCHANGED <<entries, loaded, lock, file, op, arg, carry, watched, wiped, raced, damaged>>
    BY <1>11 DEF Snapshot, history
  <2>2. op[t] = "recheck" /\ loaded
    BY <1>1, <2>1 DEF Going, Operation
  <2>3. \A u \in Thread \ {t} : todo'[u] = todo[u]
    BY <1>2, <2>1
  <2> QED
    BY <1>2, <2>1, <2>2, <2>3, Moved DEF Operation, Label
<1>12. CASE Recheck(t)
  <2>1. PICK e \in DOMAIN todo[t] :
          /\ todo' = [todo EXCEPT ![t] = Without(@, e)]
          /\ \/ UNCHANGED <<entries, lock, pc>>
             \/ lock' = t /\ Goto(t, "alert") /\ UNCHANGED entries
             \/ /\ \E r \in Result : entries' = [entries EXCEPT ![e] = r]
                /\ UNCHANGED <<lock, pc>>
    BY <1>12 DEF Recheck
  <2>2. /\ pc[t] = "check" /\ lock = NoThread
        /\ UNCHANGED <<loaded, file, op, arg, carry, watched, wiped, raced, damaged>>
    BY <1>12 DEF Recheck, Free, history
  <2>3. entries' \in Contents
    BY <1>2, <2>1, ContentsAre
  <2>4. todo' \in [Thread -> Contents] /\ \A u \in Thread \ {t} : todo'[u] = todo[u]
    <3>1. Without(todo[t], e) \in Contents
      BY <1>2, WithoutIs
    <3> QED
      BY <1>2, <2>1, <3>1
  <2>5. op[t] = "recheck" /\ loaded
    BY <1>1, <2>2 DEF Going
  <2>6. CASE UNCHANGED <<lock, pc>>
    <3>1. TypeOK'
      BY <1>1, <2>2, <2>3, <2>4, <2>6 DEF TypeOK
    <3>2. Going'
      BY <1>1, <2>2, <2>6 DEF Going
    <3> QED
      BY <3>1, <3>2 DEF Typed
  <2>7. CASE lock' = t /\ Goto(t, "alert")
    <3>1. \A u \in Thread : pc[u] # "alert"
      <4>1. \A u \in Thread : u # NoThread
        BY WatchlistAssumption DEF WatchlistAssumption
      <4> QED
        BY <1>1, <2>2, <4>1 DEF TypeOK
    <3>2. /\ pc' \in [Thread -> Label]
          /\ \A u \in Thread : pc'[u] = IF u = t THEN "alert" ELSE pc[u]
      BY <1>1, <2>7 DEF Goto, TypeOK, Label
    <3>3. \A u \in Thread : /\ lock' = u <=> pc'[u] = "alert"
                            /\ todo'[u] # Nothing => pc'[u] \in {"check", "alert"}
      BY <1>1, <2>4, <2>7, <3>1, <3>2 DEF TypeOK
    <3>4. TypeOK'
      BY <1>1, <2>2, <2>3, <2>4, <2>7, <3>2, <3>3 DEF TypeOK, Label
    <3>5. Going'
      BY <1>1, <2>2, <2>5, <3>2 DEF Going, Operation
    <3> QED
      BY <3>4, <3>5 DEF Typed
  <2> QED
    BY <2>1, <2>6, <2>7
<1> QED
  BY <1>3, <1>4, <1>5, <1>6, <1>7, <1>8, <1>9, <1>10, <1>11, <1>12 DEF ThreadStep

\* And every step of the program
LEMMA TypedStep == Typed /\ [Next]_vars => Typed'
<1> SUFFICES ASSUME Typed, [Next]_vars PROVE Typed'
  OBVIOUS
<1>1. TypeOK /\ Going
  BY DEF Typed
<1>2. ASSUME NEW t \in Thread, NEW o \in Operation, NEW e \in Entry, Call(t, o, e)
      PROVE  Typed'
  <2>1. /\ pc[t] = "idle" /\ op' = [op EXCEPT ![t] = o] /\ arg' = [arg EXCEPT ![t] = e]
        /\ pc' = [pc EXCEPT ![t] = IF loaded THEN o ELSE "flag"]
        /\ t = Scheduler => o = "recheck"
        /\ UNCHANGED <<entries, loaded, lock, file, carry, todo, watched, wiped, raced, damaged>>
    BY <1>2 DEF Call, Goto, history
  <2>2. \A u \in Thread : /\ pc'[u] = IF u = t THEN IF loaded THEN o ELSE "flag" ELSE pc[u]
                          /\ op'[u] = IF u = t THEN o ELSE op[u]
    BY <1>1, <2>1 DEF TypeOK
  <2>3. pc' \in [Thread -> Label]
    BY <1>1, <2>1 DEF TypeOK, Label, Operation
  <2>4. \A u \in Thread : /\ lock' = u <=> pc'[u] = "alert"
                          /\ todo'[u] # Nothing => pc'[u] \in {"check", "alert"}
    BY <1>1, <2>1, <2>2 DEF TypeOK, Operation
  <2>5. TypeOK'
    BY <1>1, <2>1, <2>3, <2>4 DEF TypeOK, Label, Operation
  <2>6. Scheduler \in Thread
    BY DEF Thread
  <2>7. Going'
    BY <1>1, <2>1, <2>2, <2>6 DEF Going, Operation
  <2> QED
    BY <2>5, <2>7 DEF Typed
<1>3. ASSUME NEW t \in Thread, ThreadStep(t) PROVE Typed'
  BY <1>3, TypedThread
<1>4. CASE Restart
  <2>1. Scheduler \in Thread /\ Loop \in Thread /\ \A t \in Thread : t # NoThread
    BY WatchlistAssumption DEF WatchlistAssumption, Thread
  <2>2. TypeOK'
    BY <1>1, <1>4, <2>1, NothingIs DEF Restart, TypeOK
  <2>3. Going'
    BY <1>4, <2>1 DEF Restart, Going, Operation
  <2> QED
    BY <2>2, <2>3 DEF Typed
<1>5. CASE UNCHANGED vars
  BY <1>1, <1>5 DEF vars, callVars, history, Typed, TypeOK, Going
<1> QED
  BY <1>2, <1>3, <1>4, <1>5 DEF Next, Operation

\* TypeOK holds in every behaviour: the lock is kept by exactly the thread that
\* waits for it in _watchlist_maybe_alert.
THEOREM LockIsKept == Spec => []TypeOK
<1>1. Typed => TypeOK
  BY DEF Typed
<1> QED
  BY TypedInit, TypedStep, <1>1, PTL DEF Spec

-----------------------------------------------------------------------------
(* Memory, file and user                                                   *)

NobodyLoads == \A t \in Thread : ~Loading(t)
\* The dashboard has changed the list and not saved it yet.
Saving == pc[Loop] \in {"copy", "open", "fill"}

\* What the user was told and no crash has wiped; and what it is once the
\* operation under way has told its result.
Kept == watched \ wiped
Keeps(t) == IF op[t] = "add" THEN Kept \cup {arg[t]} ELSE Kept \ {arg[t]}

\* While the dashboard saves, memory and what it saves are what will be kept;
\* otherwise file, memory and what is loaded are what is.
Agree ==
    /\ pc[Loop] # "fill" => DOMAIN file = Kept
    /\ pc[Loop] = "fill" => DOMAIN file = {}
    /\ \A t \in Thread : pc[t] = "merge" => DOMAIN carry[t] = Kept
    /\ ~Saving => DOMAIN entries \subseteq Kept
    /\ ~Saving /\ loaded /\ NobodyLoads => DOMAIN entries = Kept
    /\ Saving => NobodyLoads /\ DOMAIN entries = Keeps(Loop)
    /\ pc[Loop] \in {"open", "fill"} => DOMAIN carry[Loop] = Keeps(Loop)

Agreeing == ~raced /\ ~damaged => Agree

AInv == Typed /\ Agreeing

\* Only the dashboard adds, removes and saves.
LEMMA Roles ==
    ASSUME Typed
    PROVE  /\ Loop \in Thread /\ Scheduler \in Thread /\ Loop # Scheduler
           /\ \A t \in Thread : t # Loop => t = Scheduler
           /\ \A t \in Thread : pc[t] \in {"add", "remove", "copy", "open", "fill"} => t = Loop
           /\ Saving => loaded
<1>1. /\ Loop \in Thread /\ Scheduler \in Thread /\ Loop # Scheduler
      /\ \A t \in Thread : t # Loop => t = Scheduler
  BY WatchlistAssumption DEF WatchlistAssumption, Thread
<1> QED
  BY <1>1 DEF Typed, Going, Operation, Saving

\* Initially the list is not loaded, and the user was told of the file.
LEMMA AInvInit == Init => AInv
<1> SUFFICES ASSUME Init PROVE AInv
  OBVIOUS
<1>1. Loop \in Thread /\ \A t \in Thread : pc[t] = "idle"
  BY DEF Init, Thread
<1> QED
  BY <1>1, TypedInit, NothingIs DEF Init, AInv, Agreeing, Agree, Saving, Kept

\* A step that changes neither what is watched nor what is saved
LEMMA Moving ==
    ASSUME Typed, Typed', Agree, NEW t \in Thread, NEW label \in Label,
           \A u \in Thread : pc'[u] = IF u = t THEN label ELSE pc[u],
           UNCHANGED <<file, carry, watched, wiped, op, arg>>, DOMAIN entries' = DOMAIN entries,
           pc[t] \notin {"flag", "unseal", "merge", "copy", "open", "fill"},
           label \notin {"unseal", "merge", "copy", "open", "fill"},
           UNCHANGED loaded, label = "flag" => ~loaded
    PROVE  Agree'
<1>1. /\ Loop \in Thread /\ (Saving => loaded)
      /\ pc'[Loop] \in {"copy", "open", "fill"} => pc'[Loop] = pc[Loop]
      /\ pc[Loop] \in {"copy", "open", "fill"} => pc'[Loop] = pc[Loop]
  BY Roles
<1>2. \A u \in Thread : pc'[u] = "merge" => pc[u] = "merge"
  OBVIOUS
<1>3. loaded => \A u \in Thread : Loading(u)' <=> Loading(u)
  BY DEF Loading
<1>4. Keeps(Loop)' = Keeps(Loop)
  BY DEF Keeps, Kept
<1> QED
  BY <1>1, <1>2, <1>3, <1>4 DEF Agree, Saving, NobodyLoads, Kept

\* Every step of an operation keeps the agreement.
LEMMA AgreeThread ==
    ASSUME Typed, Typed', Agree, NEW t \in Thread, ThreadStep(t), ~raced', ~damaged'
    PROVE  Agree'
<1>1. /\ Loop \in Thread /\ Scheduler \in Thread /\ Loop # Scheduler
      /\ \A u \in Thread : u # Loop => u = Scheduler
      /\ pc[t] \in {"add", "remove", "copy", "open", "fill"} => t = Loop
      /\ pc'[Scheduler] \notin {"copy", "open", "fill"} /\ pc[Scheduler] \notin {"copy", "open", "fill"}
  <2>1. Scheduler \in Thread /\ Loop # Scheduler
    BY Roles
  <2>2. pc'[Scheduler] \notin {"copy", "open", "fill"}
    BY <2>1 DEF Typed, Going
  <2> QED
    BY <2>1, <2>2, Roles
<1>2. /\ pc \in [Thread -> Label] /\ carry \in [Thread -> Contents] /\ todo \in [Thread -> Contents]
      /\ op[t] \in Operation \cup {"none"} /\ file \in Contents /\ entries \in Contents
      /\ arg[t] \in Entry /\ carry[t] \in Contents
  BY DEF Typed, TypeOK, Label, Operation
<1>3. /\ pc[t] \in {"flag", "unseal", "merge"} => op[t] \in Operation
      /\ pc[t] \in Operation => op[t] = pc[t]
      /\ pc[t] \notin {"idle", "flag"} => loaded
      /\ Saving => loaded
  BY Roles DEF Typed, Going
<1>4. CASE SetLoaded(t)
  <2>1. /\ pc[t] = "flag" /\ loaded' = TRUE
        /\ \A u \in Thread : pc'[u] = IF u = t THEN "unseal" ELSE pc[u]
        /\ UNCHANGED <<entries, file, op, arg, carry, watched, wiped>>
    BY <1>2, <1>4 DEF SetLoaded, Goto, history
  <2>2. ~NobodyLoads /\ ~NobodyLoads' /\ ~Saving
    BY <2>1 DEF NobodyLoads, Loading, Agree
  <2>3. ~Saving'
    BY <1>1, <2>1, <2>2 DEF Saving
  <2>4. pc'[Loop] # "fill" /\ pc[Loop] # "fill"
    BY <2>2, <2>3 DEF Saving
  <2> QED
    BY <2>1, <2>2, <2>3, <2>4 DEF Agree, Saving, Kept
<1>5. CASE Unseal(t)
  <2>1. /\ pc[t] = "unseal" /\ carry' = [carry EXCEPT ![t] = file]
        /\ \A u \in Thread : pc'[u] = IF u = t THEN "merge" ELSE pc[u]
        /\ UNCHANGED <<entries, loaded, file, op, arg, watched, wiped>>
    BY <1>2, <1>5 DEF Unseal, Goto
  <2>2. ~NobodyLoads /\ ~NobodyLoads' /\ ~Saving
    BY <2>1 DEF NobodyLoads, Loading, Agree
  <2>3. ~Saving' /\ pc'[Loop] # "fill" /\ pc[Loop] # "fill"
    BY <1>1, <2>1, <2>2 DEF Saving
  <2>4. \A u \in Thread : pc'[u] = "merge" => DOMAIN carry'[u] = Kept
    BY <1>2, <2>1, <2>3 DEF Agree
  <2> QED
    BY <2>1, <2>2, <2>3, <2>4 DEF Agree, Saving, Kept
<1>6. CASE Merge(t)
  <2>1. /\ pc[t] = "merge" /\ entries' = Updated(entries, carry[t])
        /\ carry' = [carry EXCEPT ![t] = Nothing]
        /\ \A u \in Thread : pc'[u] = IF u = t THEN op[t] ELSE pc[u]
        /\ UNCHANGED <<loaded, file, op, arg, watched, wiped>>
    BY <1>2, <1>6 DEF Merge, Goto, history
  <2>2. op[t] \in Operation
    BY <1>3, <2>1
  <2>3. ~NobodyLoads /\ ~Saving
    BY <2>1 DEF NobodyLoads, Loading, Agree
  <2>4. ~Saving' /\ pc'[Loop] # "fill" /\ pc[Loop] # "fill"
    BY <1>1, <2>1, <2>2, <2>3 DEF Saving, Operation
  <2>5. DOMAIN entries' = Kept
    <3>1. DOMAIN entries' = DOMAIN entries \cup DOMAIN carry[t]
      BY <1>2, <2>1, UpdatedIs
    <3> QED
      BY <2>1, <2>3, <3>1 DEF Agree
  <2>6. \A u \in Thread : pc'[u] = "merge" => DOMAIN carry'[u] = Kept
    BY <1>2, <2>1, <2>2 DEF Agree, Operation
  <2> QED
    BY <2>1, <2>4, <2>5, <2>6 DEF Agree, Saving, Kept
<1>7. CASE Insert(t)
  <2>1. /\ pc[t] = "add" /\ t = Loop /\ ~OtherLoads(t) /\ op[t] = "add" /\ loaded
        /\ \A u \in Thread : pc'[u] = IF u = t THEN "copy" ELSE pc[u]
        /\ UNCHANGED <<loaded, file, op, arg, carry, watched, wiped>>
    BY <1>1, <1>2, <1>3, <1>7 DEF Insert, Goto, Operation
  <2>2. NobodyLoads /\ NobodyLoads' /\ ~Saving
    BY <2>1 DEF NobodyLoads, Loading, OtherLoads, Saving
  <2>3. DOMAIN entries = Kept
    BY <2>1, <2>2 DEF Agree
  <2>4. DOMAIN entries' = Kept \cup {arg[t]}
    <3>1. PICK r \in Result : entries' = With(entries, arg[t], r)
      BY <1>7 DEF Insert
    <3> QED
      BY <1>2, <2>3, <3>1, WithIs
  <2>5. Keeps(Loop)' = Kept \cup {arg[t]}
    BY <2>1 DEF Keeps, Kept
  <2>6. pc'[Loop] = "copy" /\ pc[Loop] = "add"
    BY <2>1
  <2>7. \A u \in Thread : pc'[u] # "merge"
    BY <2>2 DEF NobodyLoads, Loading
  <2> QED
    BY <2>1, <2>2, <2>4, <2>5, <2>6, <2>7 DEF Agree, Saving, Kept
<1>8. CASE Delete(t)
  <2>1. /\ pc[t] = "remove" /\ t = Loop /\ ~OtherLoads(t) /\ op[t] = "remove" /\ loaded
        /\ UNCHANGED <<loaded, file, op, arg, carry, watched, wiped>>
    BY <1>1, <1>2, <1>3, <1>8 DEF Delete, Goto, Operation
  <2>2. CASE arg[t] \in DOMAIN entries
    <3>1. /\ entries' = Without(entries, arg[t])
          /\ \A u \in Thread : pc'[u] = IF u = t THEN "copy" ELSE pc[u]
      BY <1>2, <1>8, <2>2 DEF Delete, Goto
    <3>2. NobodyLoads /\ NobodyLoads' /\ ~Saving
      BY <2>1, <3>1 DEF NobodyLoads, Loading, OtherLoads, Saving
    <3>3. DOMAIN entries = Kept
      BY <2>1, <3>2 DEF Agree
    <3>4. DOMAIN entries' = Kept \ {arg[t]}
      BY <1>2, <3>1, <3>3, WithoutIs
    <3>5. Keeps(Loop)' = Kept \ {arg[t]}
      BY <2>1 DEF Keeps, Kept
    <3>6. pc'[Loop] = "copy" /\ pc[Loop] = "remove"
      BY <2>1, <3>1
    <3>7. \A u \in Thread : pc'[u] # "merge"
      BY <3>2 DEF NobodyLoads, Loading
    <3> QED
      BY <2>1, <3>2, <3>4, <3>5, <3>6, <3>7 DEF Agree, Saving, Kept
  <2>3. CASE arg[t] \notin DOMAIN entries
    <3>1. /\ entries' = entries
          /\ \A u \in Thread : pc'[u] = IF u = t THEN "idle" ELSE pc[u]
      BY <1>2, <1>8, <2>3 DEF Delete, Goto
    <3> QED
      BY <2>1, <3>1, Moving DEF Label
  <2> QED
    BY <2>2, <2>3
<1>9. CASE List(t) \/ RecheckReturns(t)
  <2>1. /\ pc[t] \in {"list", "check"} /\ \A u \in Thread : pc'[u] = IF u = t THEN "idle" ELSE pc[u]
        /\ UNCHANGED <<entries, loaded, file, op, arg, carry, watched, wiped>>
    BY <1>2, <1>9 DEF List, RecheckReturns, Goto, history
  <2> QED
    BY <2>1, Moving DEF Label
<1>10. CASE PersistCopy(t)
  <2>1. /\ pc[t] = "copy" /\ t = Loop /\ carry' = [carry EXCEPT ![t] = entries]
        /\ \A u \in Thread : pc'[u] = IF u = t THEN "open" ELSE pc[u]
        /\ UNCHANGED <<entries, loaded, file, op, arg, watched, wiped>>
    BY <1>1, <1>2, <1>10 DEF PersistCopy, Goto, history
  <2>2. NobodyLoads /\ NobodyLoads' /\ DOMAIN entries = Keeps(Loop)
    BY <2>1 DEF NobodyLoads, Loading, Agree, Saving
  <2>3. Keeps(Loop)' = Keeps(Loop) /\ pc'[Loop] = "open" /\ pc[Loop] = "copy" /\ carry'[Loop] = entries
    BY <1>2, <2>1 DEF Keeps, Kept
  <2>4. \A u \in Thread : pc'[u] # "merge"
    BY <2>2 DEF NobodyLoads, Loading
  <2> QED
    BY <2>1, <2>2, <2>3, <2>4 DEF Agree, Saving, Kept
<1>11. CASE PersistOpen(t)
  <2>1. /\ pc[t] = "open" /\ t = Loop /\ DOMAIN file' = {}
        /\ \A u \in Thread : pc'[u] = IF u = t THEN "fill" ELSE pc[u]
        /\ UNCHANGED <<entries, loaded, carry, op, arg, watched, wiped>>
    BY <1>1, <1>2, <1>11, NothingIs DEF PersistOpen, Goto
  <2>2. NobodyLoads /\ NobodyLoads' /\ DOMAIN entries = Keeps(Loop) /\ DOMAIN carry[Loop] = Keeps(Loop)
    BY <2>1 DEF NobodyLoads, Loading, Agree, Saving
  <2>3. Keeps(Loop)' = Keeps(Loop) /\ pc'[Loop] = "fill"
    BY <2>1 DEF Keeps, Kept
  <2>4. \A u \in Thread : pc'[u] # "merge"
    BY <2>2 DEF NobodyLoads, Loading
  <2> QED
    BY <2>1, <2>2, <2>3, <2>4 DEF Agree, Saving, Kept
<1>12. CASE PersistFill(t)
  <2>1. /\ pc[t] = "fill" /\ t = Loop /\ file' = carry[t] /\ Kept' = Keeps(t)
        /\ \A u \in Thread : pc'[u] = IF u = t THEN "idle" ELSE pc[u]
        /\ UNCHANGED <<entries, loaded, op, arg>>
    BY <1>1, <1>2, <1>12 DEF PersistFill, Goto, Kept, Keeps, Told
  <2>2. NobodyLoads /\ NobodyLoads' /\ DOMAIN entries = Keeps(Loop) /\ DOMAIN carry[Loop] = Keeps(Loop)
    BY <2>1 DEF NobodyLoads, Loading, Agree, Saving
  <2>3. pc'[Loop] = "idle"
    BY <2>1
  <2>4. \A u \in Thread : pc'[u] # "merge"
    BY <2>2 DEF NobodyLoads, Loading
  <2> QED
    BY <2>1, <2>2, <2>3, <2>4 DEF Agree, Saving, Kept
<1>13. CASE Snapshot(t)
  <2>1. /\ pc[t] = "recheck" /\ \A u \in Thread : pc'[u] = IF u = t THEN "check" ELSE pc[u]
        /\ UNCHANGED <<entries, loaded, file, op, arg, carry, watched, wiped>>
    BY <1>2, <1>13 DEF Snapshot, Goto, history
  <2> QED
    BY <2>1, Moving DEF Label
<1>14. CASE Recheck(t)
  <2>1. /\ pc[t] = "check" /\ \E label \in {"check", "alert"} :
                                 \A u \in Thread : pc'[u] = IF u = t THEN label ELSE pc[u]
        /\ UNCHANGED <<loaded, file, op, arg, carry, watched, wiped>>
        /\ DOMAIN entries' = DOMAIN entries
    BY <1>2, <1>14 DEF Recheck, Goto, history
  <2> QED
    BY <2>1, Moving DEF Label
<1> QED
  BY <1>4, <1>5, <1>6, <1>7, <1>8, <1>9, <1>10, <1>11, <1>12, <1>13, <1>14 DEF ThreadStep

\* And every step of the program
LEMMA AInvStep == AInv /\ [Next]_vars => AInv'
<1> SUFFICES ASSUME AInv, [Next]_vars PROVE AInv'
  OBVIOUS
<1>1. Typed /\ Typed' /\ Agreeing
  BY TypedStep DEF AInv
<1> SUFFICES ASSUME ~raced', ~damaged' PROVE Agree'
  BY <1>1 DEF AInv, Agreeing
<1>2. CASE UNCHANGED vars
  BY <1>1, <1>2
  DEF vars, callVars, history, Agreeing, Agree, Saving, NobodyLoads, Loading, Keeps, Kept
<1>3. ASSUME NEW t \in Thread, ThreadStep(t) PROVE Agree'
  <2>1. ~raced /\ ~damaged
    <3>1. CASE Insert(t)
      BY <3>1 DEF Insert
    <3>2. CASE Delete(t)
      BY <3>2 DEF Delete
    <3>3. CASE Unseal(t)
      BY <3>3 DEF Unseal
    <3>4. CASE PersistOpen(t)
      BY <3>4 DEF PersistOpen
    <3>5. CASE SetLoaded(t) \/ Merge(t) \/ List(t) \/ PersistCopy(t) \/ PersistFill(t)
                \/ Snapshot(t) \/ Recheck(t) \/ RecheckReturns(t)
      BY <3>5 DEF SetLoaded, Merge, List, PersistCopy, PersistFill, Snapshot, Recheck,
                  RecheckReturns, history
    <3> QED
      BY <1>3, <3>1, <3>2, <3>3, <3>4, <3>5 DEF ThreadStep
  <2> QED
    BY <1>1, <1>3, <2>1, AgreeThread DEF Agreeing
<1>4. ASSUME NEW t \in Thread, NEW o \in Operation, NEW e \in Entry, Call(t, o, e)
      PROVE  Agree'
  <2>1. /\ pc[t] = "idle" /\ ~raced /\ ~damaged
        /\ UNCHANGED <<entries, loaded, file, carry, watched, wiped>>
        /\ \A u \in Thread : /\ pc'[u] = IF u = t THEN IF loaded THEN o ELSE "flag" ELSE pc[u]
                             /\ u # t => op'[u] = op[u] /\ arg'[u] = arg[u]
    BY <1>1, <1>4 DEF Call, Goto, history, Typed, TypeOK
  <2>2. Agree
    BY <1>1, <2>1 DEF Agreeing
  <2>3. Loop \in Thread /\ (Saving => loaded)
    BY <1>1, Roles
  <2>4. /\ pc'[Loop] \in {"copy", "open", "fill"} => pc'[Loop] = pc[Loop] /\ t # Loop
        /\ pc[Loop] \in {"copy", "open", "fill"} => pc'[Loop] = pc[Loop] /\ t # Loop
    BY <2>1, <2>3 DEF Operation
  <2>5. \A u \in Thread : pc'[u] = "merge" => pc[u] = "merge"
    BY <2>1 DEF Operation
  <2>6. loaded => \A u \in Thread : Loading(u)' <=> Loading(u)
    BY <2>1 DEF Loading, Operation
  <2>7. t # Loop => Keeps(Loop)' = Keeps(Loop)
    BY <2>1, <2>3 DEF Keeps, Kept
  <2> QED
    BY <2>1, <2>2, <2>3, <2>4, <2>5, <2>6, <2>7 DEF Agree, Saving, NobodyLoads, Kept
<1>5. CASE Restart
  <2>1. /\ ~raced /\ ~damaged /\ entries' = Nothing /\ loaded' = FALSE
        /\ \A t \in Thread : pc'[t] = "idle"
        /\ UNCHANGED <<file, watched>>
        /\ wiped' = IF pc[Loop] = "fill" THEN watched ELSE wiped
    BY <1>5 DEF Restart
  <2>2. Loop \in Thread /\ Agree
    BY <1>1, <2>1, Roles DEF Agreeing
  <2>3. DOMAIN file = Kept'
    BY <2>1, <2>2 DEF Agree, Kept
  <2> QED
    BY <2>1, <2>2, <2>3, NothingIs DEF Agree, Saving, Kept
<1> QED
  BY <1>2, <1>3, <1>4, <1>5 DEF Next, Operation

\* MemoryAgrees holds in every behaviour: a re-check on a stale snapshot neither
\* revives nor loses an entry; only a crash in a save does.
THEOREM MemoryIsKept == Spec => []MemoryAgrees
<1>1. AInv => MemoryAgrees
  <2> SUFFICES ASSUME AInv, Settled, loaded, ~raced, ~damaged PROVE DOMAIN entries = watched \ wiped
    BY DEF MemoryAgrees
  <2> QED
    BY DEF AInv, Agreeing, Agree, Saving, NobodyLoads, Settled, Kept
<1> QED
  BY AInvInit, AInvStep, <1>1, PTL DEF Spec

\* DiskAgrees holds in every behaviour: between operations the vault file is
\* what the user was told, less what restarts between the truncation and the
\* fill of a save (seal_file) have wiped.
THEOREM DiskIsKept == Spec => []DiskAgrees
<1>1. AInv => DiskAgrees
  BY DEF AInv, Agreeing, Agree, DiskAgrees, Kept
<1> QED
  BY AInvInit, AInvStep, <1>1, PTL DEF Spec

-----------------------------------------------------------------------------
(* What AlertIsEmitted is violated by                                      *)

\* Where a thread needs _watchlist_lock to go on
NeedsLock == {"merge", "add", "remove", "list", "copy", "recheck", "check"}

\* A thread that has an alert to emit stays where it is with the lock, nothing
\* changes the entries, and whoever needs the lock waits.
Blocks ==
    \A t \in Thread : pc[t] = "alert" /\ ~Restart =>
        /\ pc'[t] = "alert" /\ UNCHANGED <<lock, entries>>
        /\ \A u \in Thread : pc[u] \in NeedsLock => pc'[u] = pc[u]

\* A thread that has an alert to emit has the lock.
LEMMA StepBlocks == TypeOK /\ [Next]_vars => Blocks
<1> SUFFICES ASSUME TypeOK, [Next]_vars, NEW t \in Thread, pc[t] = "alert", ~Restart
             PROVE  /\ pc'[t] = "alert" /\ UNCHANGED <<lock, entries>>
                    /\ \A u \in Thread : pc[u] \in NeedsLock => pc'[u] = pc[u]
  BY DEF Blocks
<1>1. lock = t /\ ~Free
  BY WatchlistAssumption DEF TypeOK, Free
<1>2. ASSUME NEW u \in Thread, NEW o \in {"add", "remove", "list", "recheck"}, NEW e \in Entry,
             Call(u, o, e)
      PROVE  /\ UNCHANGED <<lock, entries>> /\ pc[u] = "idle"
             /\ \A v \in Thread \ {u} : pc'[v] = pc[v]
  BY <1>2 DEF Call, Goto, TypeOK
<1>3. ASSUME NEW u \in Thread, ThreadStep(u)
      PROVE  /\ UNCHANGED <<lock, entries>> /\ pc[u] \in {"flag", "unseal", "open", "fill"}
             /\ \A v \in Thread \ {u} : pc'[v] = pc[v]
  BY <1>1, <1>3 DEF ThreadStep, SetLoaded, Unseal, Merge, Insert, Delete, List, PersistCopy,
                    PersistOpen, PersistFill, Snapshot, Recheck, RecheckReturns, Goto, TypeOK
<1>4. CASE UNCHANGED vars
  BY <1>4 DEF vars, callVars
<1> QED
  BY <1>2, <1>3, <1>4 DEF Next, NeedsLock

\* AlertIsEmitted fails for good, and not for want of scheduling: a re-check
\* that has found a worse result waits for the lock that it holds until the
\* process dies, and so does every call of the watchlist.
THEOREM AlertsBlockForGood == Spec => [][Blocks]_vars
<1>1. TypeOK /\ [Next]_vars => [Blocks]_vars
  BY StepBlocks
<1> QED
  BY <1>1, LockIsKept, PTL DEF Spec
=============================================================================
