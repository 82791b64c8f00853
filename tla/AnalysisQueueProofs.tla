------------------------- MODULE AnalysisQueueProofs -------------------------
(***************************************************************************)
(* Theorems about AnalysisQueue for any number of monitor threads, any     *)
(* capacity and any number of submissions and stops: types and the one     *)
(* worker; counters and drain; the refinement of SerialMailbox; drops.     *)
(*                                                                         *)
(* One worker at a time follows from who holds the lock.  The counters are *)
(* exact because each step moves one thread, so that each count changes by *)
(* at most one: CountChange says by how much.  That a drain is done        *)
(* follows from the exact count when join() returns; after it, from jobs   *)
(* being numbered in the order of their puts.                              *)
(*                                                                         *)
(* What the mailbox serves is what the worker runs.  That there is but one *)
(* worker makes this a single job (OneWorker's invariant), and that jobs   *)
(* are numbered from 1 on tells it from no job (Numbered).  What a mailbox *)
(* promises, its order, then holds of the queue (OldestFirst).             *)
(***************************************************************************)
EXTENDS AnalysisQueue, SequenceTheorems, FiniteSetTheorems, TLAPS

\* stop() calls whose SetStop has happened.
StopsDone == IF stopPc = "idle" THEN stops ELSE stops - 1

\* The bookkeeping behind "one worker at a time": who holds the lock, which
\* workers have come and gone, and why there are never more of them than
\* completed stops plus one.
ControlInv ==
    /\ \A t \in Thread : pc[t] \in {"clear", "start"} <=> lock = t
    /\ lock # NoThread => ~WorkerAlive
    /\ \A w \in Worker : workerPc[w] = "unborn" <=> w > started
    /\ \A w \in Worker : w < started => workerPc[w] = "dead"
    /\ started <= StopsDone + 1
    /\ stops <= MaxStops /\ (stopPc # "idle" => stops > 0)
    /\ ~WorkerAlive \/ stopFlag => started <= StopsDone
    /\ \A t \in Thread : pc[t] = "start" /\ stopFlag => started < StopsDone
    /\ WorkerPresence

IInv == TypeOK /\ ControlInv

\* A queue nobody has used yet satisfies the invariant.
LEMMA InitIInv == Init => IInv
<1> SUFFICES ASSUME Init PROVE IInv
  OBVIOUS
<1> USE QueueAssumption DEF Init
<1>1. TypeOK
  <2>1. queue \in Seq(Nat) /\ Len(queue) <= MaxPending
    OBVIOUS
  <2>2. 0 \in 0..(MaxStops + 1) /\ 0 \in 0..MaxStops
    OBVIOUS
  <2>3. workerPc \in [Worker -> WorkerPcState] /\ running \in [Worker -> Nat]
    BY DEF WorkerPcState
  <2>4. pc \in [Thread -> PcState]
    BY DEF PcState
  <2>5. stopFlag \in BOOLEAN /\ lock \in Thread \cup {NoThread}
    OBVIOUS
  <2>6. 0 \in Nat /\ 0 \in Int
    OBVIOUS
  <2> HIDE QueueAssumption
  <2> QED BY <2>1, <2>2, <2>3, <2>4, <2>5, <2>6, Zenon DEF TypeOK
<1>2. ControlInv
  BY DEF ControlInv, WorkerPresence, WorkerAlive, StopsDone, Worker, Thread
<1> QED BY <1>1, <1>2 DEF IInv

\* No call on a shared object takes a variable out of its type, or the queue
\* beyond max_pending.
LEMMA StepTypeOK == IInv /\ [Next]_vars => TypeOK'
<1> SUFFICES ASSUME IInv, [Next]_vars PROVE TypeOK'
  OBVIOUS
<1> USE QueueAssumption DEF IInv, TypeOK, PcState, Goto, WorkerGoto, counters,
        workerVars, stopVars
<1>1. ASSUME NEW t \in Thread, Submit(t) PROVE TypeOK'
  BY <1>1 DEF Submit
<1>2. ASSUME NEW t \in Thread, EnsureLock(t) PROVE TypeOK'
  BY <1>2 DEF EnsureLock
<1>3. ASSUME NEW t \in Thread, EnsureClear(t) PROVE TypeOK'
  BY <1>3 DEF EnsureClear
<1>4. ASSUME NEW t \in Thread, EnsureStart(t) PROVE TypeOK'
  <2>1. lock = t /\ lock # NoThread /\ started <= StopsDone
    BY <1>4 DEF EnsureStart, ControlInv
  <2>2. StopsDone <= MaxStops
    BY DEF StopsDone, ControlInv
  <2>3. started + 1 \in 0..(MaxStops + 1)
    BY <2>1, <2>2 DEF StopsDone
  <2> QED BY <1>4, <2>3 DEF EnsureStart, WorkerPcState
<1>5. ASSUME NEW t \in Thread, CountSubmitted(t) PROVE TypeOK'
  BY <1>5 DEF CountSubmitted
<1>6. ASSUME NEW t \in Thread, PutNowait(t) PROVE TypeOK'
  <2>1. queue' \in Seq(Nat) /\ Len(queue') <= MaxPending
    <3>1. CASE HasRoom
      <4>1. queue' = Append(queue, puts + 1) /\ puts + 1 \in Nat
        BY <1>6, <3>1 DEF PutNowait
      <4>2. queue' \in Seq(Nat) /\ Len(queue') = Len(queue) + 1
        BY <4>1, AppendProperties
      <4> QED BY <3>1, <4>2, LenProperties DEF HasRoom
    <3>2. CASE ~HasRoom
      BY <1>6, <3>2 DEF PutNowait
    <3> QED BY <3>1, <3>2
  <2>2. pc' \in [Thread -> PcState]
    BY <1>6 DEF PutNowait
  <2>3. puts' \in Nat /\ unfinished' \in Int
    BY <1>6 DEF PutNowait
  <2> QED BY <1>6, <2>1, <2>2, <2>3 DEF PutNowait
<1>7. ASSUME NEW t \in Thread, GetNowait(t) PROVE TypeOK'
  <2>1. queue' \in Seq(Nat) /\ Len(queue') <= MaxPending
    <3>1. queue \in Seq(Nat) /\ Len(queue) \in Nat /\ Len(queue) <= MaxPending
      BY LenProperties
    <3>2. CASE queue # <<>>
      <4>1. queue' = Tail(queue)
        BY <1>7, <3>2 DEF GetNowait, AllButOldest
      <4>2. queue' \in Seq(Nat) /\ Len(queue') = Len(queue) - 1
        BY <3>1, <3>2, <4>1, HeadTailProperties
      <4> QED BY <3>1, <4>2
    <3>3. CASE queue = <<>>
      BY <1>7, <3>1, <3>3 DEF GetNowait
    <3> QED BY <3>2, <3>3
  <2>2. pc' \in [Thread -> PcState]
    BY <1>7 DEF GetNowait
  <2> QED BY <1>7, <2>1, <2>2 DEF GetNowait
<1>8. ASSUME NEW t \in Thread, EvictTaskDone(t) PROVE TypeOK'
  BY <1>8 DEF EvictTaskDone
<1>9. ASSUME NEW t \in Thread, CountDropped(t) PROVE TypeOK'
  BY <1>9 DEF CountDropped
<1>10. ASSUME NEW w \in Worker, WorkerCheck(w) PROVE TypeOK'
  BY <1>10 DEF WorkerCheck, WorkerPcState
<1>11. ASSUME NEW w \in Worker, WorkerGet(w) PROVE TypeOK'
  BY <1>11 DEF WorkerGet, WorkerPcState
<1>12. ASSUME NEW w \in Worker, WorkerTimeout(w) PROVE TypeOK'
  BY <1>12 DEF WorkerTimeout, WorkerPcState
<1>13. ASSUME NEW w \in Worker, WorkerTaskDone(w) PROVE TypeOK'
  BY <1>13 DEF WorkerTaskDone, WorkerPcState
<1>14. ASSUME NEW w \in Worker, WorkerCount(w) PROVE TypeOK'
  BY <1>14 DEF WorkerCount, WorkerPcState
<1>15. ASSUME NEW kind \in StopKinds, CallStop(kind) PROVE TypeOK'
  BY <1>15 DEF CallStop
<1>16. CASE JoinReturns
  BY <1>16 DEF JoinReturns
<1>17. CASE SetStop
  BY <1>17 DEF SetStop
<1>18. CASE UNCHANGED vars
  BY <1>18 DEF vars
<1> QED
  BY <1>1, <1>2, <1>3, <1>4, <1>5, <1>6, <1>7, <1>8, <1>9, <1>10, <1>11,
     <1>12, <1>13, <1>14, <1>15, <1>16, <1>17, <1>18
  DEF Next, SubmitStep, WorkerStep, StopStep

\* Every call on a shared object preserves the bookkeeping of lock and workers.
LEMMA StepControlInv == IInv /\ [Next]_vars => ControlInv'
<1> SUFFICES ASSUME IInv, [Next]_vars PROVE ControlInv'
  OBVIOUS
<1> USE QueueAssumption DEF IInv, TypeOK, ControlInv, Goto, WorkerGoto, counters,
        workerVars, stopVars, WorkerAlive, Live, StopsDone, WorkerPresence
<1>1. ASSUME NEW t \in Thread, Submit(t) PROVE ControlInv'
  BY <1>1 DEF Submit, CanCall
<1>2. ASSUME NEW t \in Thread, EnsureLock(t) PROVE ControlInv'
  BY <1>2 DEF EnsureLock, SecondCheck
<1>3. ASSUME NEW t \in Thread, EnsureClear(t) PROVE ControlInv'
  BY <1>3 DEF EnsureClear
<1>4. ASSUME NEW t \in Thread, EnsureStart(t) PROVE ControlInv'
  BY <1>4 DEF EnsureStart, Worker
<1>5. ASSUME NEW t \in Thread, CountSubmitted(t) PROVE ControlInv'
  BY <1>5 DEF CountSubmitted
<1>6. ASSUME NEW t \in Thread, PutNowait(t) PROVE ControlInv'
  BY <1>6 DEF PutNowait
<1>7. ASSUME NEW t \in Thread, GetNowait(t) PROVE ControlInv'
  BY <1>7 DEF GetNowait
<1>8. ASSUME NEW t \in Thread, EvictTaskDone(t) PROVE ControlInv'
  BY <1>8 DEF EvictTaskDone
<1>9. ASSUME NEW t \in Thread, CountDropped(t) PROVE ControlInv'
  BY <1>9 DEF CountDropped
<1>10. ASSUME NEW w \in Worker, WorkerCheck(w) PROVE ControlInv'
  BY <1>10 DEF WorkerCheck, Worker
<1>11. ASSUME NEW w \in Worker, WorkerGet(w) PROVE ControlInv'
  BY <1>11 DEF WorkerGet, Worker
<1>12. ASSUME NEW w \in Worker, WorkerTimeout(w) PROVE ControlInv'
  BY <1>12 DEF WorkerTimeout, Worker
<1>13. ASSUME NEW w \in Worker, WorkerTaskDone(w) PROVE ControlInv'
  BY <1>13 DEF WorkerTaskDone, Worker
<1>14. ASSUME NEW w \in Worker, WorkerCount(w) PROVE ControlInv'
  BY <1>14 DEF WorkerCount, Worker
<1>15. ASSUME NEW kind \in StopKinds, CallStop(kind) PROVE ControlInv'
  BY <1>15 DEF CallStop
<1>16. CASE JoinReturns
  BY <1>16 DEF JoinReturns
<1>17. CASE SetStop
  BY <1>17 DEF SetStop
<1>18. CASE UNCHANGED vars
  BY <1>18 DEF vars
<1> QED
  BY <1>1, <1>2, <1>3, <1>4, <1>5, <1>6, <1>7, <1>8, <1>9, <1>10, <1>11,
     <1>12, <1>13, <1>14, <1>15, <1>16, <1>17, <1>18
  DEF Next, SubmitStep, WorkerStep, StopStep

\* IInv is inductive.
LEMMA Invariance == Spec => []IInv
BY InitIInv, StepTypeOK, StepControlInv, PTL DEF IInv, Spec

\* The queue is bounded and every variable keeps its type, for any number of
\* monitors, submissions and stops.
THEOREM TypeCorrect == Spec => []TypeOK
BY Invariance, PTL DEF IInv

\* No interleaving of submit(), the worker and stop() ever has two workers:
\* _ensure_worker's second check under the lock is enough.
THEOREM OneWorker == Spec => []SingleWorker
<1>1. IInv => SingleWorker
  BY DEF IInv, TypeOK, ControlInv, SingleWorker, Live, Worker
<1> QED BY <1>1, Invariance, PTL

\* A started queue is without a worker only under the stop flag.
THEOREM WorkerStays == Spec => []WorkerPresence
BY Invariance, PTL DEF IInv, ControlInv

-----------------------------------------------------------------------------
(* Counters and drain                                                      *)

\* How many of S are where A says
Count(S, at, A) == Cardinality({y \in S : at[y] \in A})

InSubmit == {"put", "evict", "taskDone", "countDrop"}
InEviction == {"taskDone", "countDrop"}

Exact == unfinished = Len(queue) + Count(Worker, workerPc, {"run"}) + Count(Thread, pc, {"taskDone"})
Conserved ==
    submitted = Count(Thread, pc, InSubmit) + Count(Thread, pc, InEviction) + Len(queue)
                + dropped + processed + Count(Worker, workerPc, {"run", "count"})

\* Jobs are numbered from 1 on; a drain knows no later number than the last.
Numbered ==
    /\ drainMark <= puts
    /\ \A i \in 1..Len(queue) : queue[i] \in 1..puts
    /\ \A w \in Executing : running[w] > 0

-----------------------------------------------------------------------------
(* Counting                                                                *)

\* There are finitely many threads to count.
LEMMA ThreadsFinite == IsFiniteSet(Worker) /\ IsFiniteSet(Thread)
<1>1. IsFiniteSet(Worker)
  BY QueueAssumption, FS_Interval DEF Worker
<1> QED
  BY <1>1, QueueAssumption, FS_Union DEF Thread

\* A count of a finite set is a number, ...
LEMMA CountType ==
    ASSUME NEW S, IsFiniteSet(S), NEW at, NEW A
    PROVE  IsFiniteSet({y \in S : at[y] \in A}) /\ Count(S, at, A) \in Nat
  BY FS_Subset, FS_CardinalityType DEF Count

\* A count after one that was at a moved to b, less what it was before
Change(b, a, A) == (IF b \in A THEN 1 ELSE 0) - (IF a \in A THEN 1 ELSE 0)

\* ... and so is its change.
LEMMA ChangeType == \A a, b, A : Change(b, a, A) \in Int
  BY DEF Change

\* What two stages that are counted apart do to a count
LEMMA Differ ==
    ASSUME NEW m \in Nat, NEW n \in Nat, NEW a, NEW b, NEW A,
           (IF a \in A THEN m - 1 ELSE m) = (IF b \in A THEN n - 1 ELSE n)
    PROVE  n = m + Change(b, a, A)
  BY DEF Change

\* Where one of S moves, a count changes by what it counted for before and
\* counts for after.
LEMMA CountChange ==
    \A S, at, to, A : \A x \in S :
        IsFiniteSet(S) /\ (\A y \in S : y # x => to[y] = at[y])
            => Count(S, to, A) = Count(S, at, A) + Change(to[x], at[x], A)
<1> SUFFICES ASSUME NEW S, IsFiniteSet(S), NEW at, NEW to, NEW x \in S, NEW A,
                    \A y \in S : y # x => to[y] = at[y]
             PROVE  Count(S, to, A) = Count(S, at, A) + Change(to[x], at[x], A)
  OBVIOUS
<1> DEFINE F == {y \in S : at[y] \in A}
           G == {y \in S : to[y] \in A}
<1>1. F \subseteq S /\ G \subseteq S /\ G \ {x} = F \ {x}
  OBVIOUS
<1>2. (x \in F <=> at[x] \in A) /\ (x \in G <=> to[x] \in A)
  OBVIOUS
<1> HIDE DEF F, G
<1>3. IsFiniteSet(F) /\ Cardinality(F) \in Nat /\ IsFiniteSet(G) /\ Cardinality(G) \in Nat
  BY <1>1, FS_Subset, FS_CardinalityType
<1>4. Cardinality(F \ {x}) = IF x \in F THEN Cardinality(F) - 1 ELSE Cardinality(F)
  BY <1>3, FS_RemoveElement
<1>5. Cardinality(G \ {x}) = IF x \in G THEN Cardinality(G) - 1 ELSE Cardinality(G)
  BY <1>3, FS_RemoveElement
<1>6. Cardinality(G) = Cardinality(F) + Change(to[x], at[x], A)
  <2>1. (IF at[x] \in A THEN Cardinality(F) - 1 ELSE Cardinality(F))
            = (IF to[x] \in A THEN Cardinality(G) - 1 ELSE Cardinality(G))
    BY <1>1, <1>2, <1>4, <1>5
  <2> QED
    BY <1>3, <2>1, Differ
<1> QED
  BY <1>6 DEF Count, F, G

\* What a thread's step in submit() does to the counts
LEMMA ThreadMoves ==
    ASSUME TypeOK, NEW t \in Thread, NEW b, Goto(t, b)
    PROVE  \A A : /\ Count(Thread, pc', A) = Count(Thread, pc, A) + Change(b, pc[t], A)
                 /\ Change(b, pc[t], A) \in Int
<1> DEFINE after == pc'
<1>1. after[t] = b
  BY DEF TypeOK, Goto
<1>2. \A u \in Thread : u # t => after[u] = pc[u]
  BY DEF TypeOK, Goto
<1> TAKE A
<1> HIDE DEF after
<1>3. Count(Thread, after, A) = Count(Thread, pc, A) + Change(after[t], pc[t], A)
  BY <1>2, ThreadsFinite, CountChange
<1> QED
  BY <1>1, <1>3, ChangeType DEF after, Count

\* ... and a worker's in _run()
LEMMA WorkerMoves ==
    ASSUME TypeOK, NEW w \in Worker, NEW b, WorkerGoto(w, b)
    PROVE  \A A : /\ Count(Worker, workerPc', A) = Count(Worker, workerPc, A) + Change(b, workerPc[w], A)
                 /\ Change(b, workerPc[w], A) \in Int
<1> DEFINE after == workerPc'
<1>1. after[w] = b
  BY DEF TypeOK, WorkerGoto
<1>2. \A u \in Worker : u # w => after[u] = workerPc[u]
  BY DEF TypeOK, WorkerGoto
<1> TAKE A
<1> HIDE DEF after
<1>3. Count(Worker, after, A) = Count(Worker, workerPc, A) + Change(after[w], workerPc[w], A)
  BY <1>2, ThreadsFinite, CountChange
<1> QED
  BY <1>1, <1>3, ChangeType DEF after, Count

\* Each count the counters are compared with is a number.
LEMMA CountsAreNat ==
    \A A : Count(Thread, pc, A) \in Nat /\ Count(Worker, workerPc, A) \in Nat
  BY CountType, ThreadsFinite
-----------------------------------------------------------------------------
(* The counters                                                            *)

Counted == Exact /\ Conserved

\* Nothing is counted initially.
LEMMA InitCounted == Init => Counted
<1> SUFFICES ASSUME Init PROVE Counted
  OBVIOUS
<1>1. \A A \in {InSubmit, InEviction, {"taskDone"}} : Count(Thread, pc, A) = 0
  <2> SUFFICES ASSUME NEW A \in {InSubmit, InEviction, {"taskDone"}}
               PROVE {t \in Thread : pc[t] \in A} = {}
    BY FS_EmptySet DEF Count
  <2> QED
    BY DEF Init, InSubmit, InEviction
<1>2. \A A \in {{"run"}, {"run", "count"}} : Count(Worker, workerPc, A) = 0
  <2> SUFFICES ASSUME NEW A \in {{"run"}, {"run", "count"}}
               PROVE {w \in Worker : workerPc[w] \in A} = {}
    BY FS_EmptySet DEF Count
  <2> QED
    BY DEF Init
<1> QED
  BY <1>1, <1>2 DEF Counted, Exact, Conserved, Init

\* What a step must do to the counters, spelled out
LEMMA CountedNext ==
    Counted' <=>
        /\ unfinished' = Len(queue') + Count(Worker, workerPc', {"run"}) + Count(Thread, pc', {"taskDone"})
        /\ submitted' = Count(Thread, pc', InSubmit) + Count(Thread, pc', InEviction) + Len(queue')
                        + dropped' + processed' + Count(Worker, workerPc', {"run", "count"})
  BY DEF Counted, Exact, Conserved, Count

\* A step in submit(), from one stage to another, while the worker stays where
\* it is: what has to happen to the counters meanwhile
LEMMA SubmitCounts ==
    ASSUME TypeOK, Counted, UNCHANGED workerPc, NEW t \in Thread, NEW b, Goto(t, b),
           Len(queue') \in Int, unfinished' \in Int, submitted' \in Int, dropped' \in Int, processed' \in Int,
           unfinished' - unfinished = Len(queue') - Len(queue) + Change(b, pc[t], {"taskDone"}),
           submitted' - submitted =
               Change(b, pc[t], InSubmit) + Change(b, pc[t], InEviction) + Len(queue') - Len(queue)
               + dropped' - dropped + processed' - processed
    PROVE  Counted'
<1> DEFINE u1 == unfinished'
           u == unfinished
           s1 == submitted'
           s == submitted
           f1 == dropped'
           f == dropped
           p1 == processed'
           p == processed
           l1 == Len(queue')
           l == Len(queue)
           x1 == Count(Thread, pc', {"taskDone"})
           x == Count(Thread, pc, {"taskDone"})
           y1 == Count(Thread, pc', InSubmit)
           y == Count(Thread, pc, InSubmit)
           z1 == Count(Thread, pc', InEviction)
           z == Count(Thread, pc, InEviction)
           r1 == Count(Worker, workerPc', {"run"})
           r == Count(Worker, workerPc, {"run"})
           c1 == Count(Worker, workerPc', {"run", "count"})
           c == Count(Worker, workerPc, {"run", "count"})
           dx == Change(b, pc[t], {"taskDone"})
           dy == Change(b, pc[t], InSubmit)
           dz == Change(b, pc[t], InEviction)
<1>1. x1 = x + dx /\ y1 = y + dy /\ z1 = z + dz /\ dx \in Int /\ dy \in Int /\ dz \in Int
  BY ThreadMoves
<1>2. r1 = r /\ c1 = c
  BY DEF Count
<1>3. x \in Int /\ y \in Int /\ z \in Int /\ r \in Int /\ c \in Int
  BY CountsAreNat
<1>4. l \in Int /\ u \in Int /\ s \in Int /\ f \in Int /\ p \in Int
  BY LenProperties DEF TypeOK
<1>5. u1 - u = l1 - l + dx /\ s1 - s = dy + dz + l1 - l + f1 - f + p1 - p
  OBVIOUS
<1>6. l1 \in Int /\ u1 \in Int /\ s1 \in Int /\ f1 \in Int /\ p1 \in Int
  OBVIOUS
<1>7. u = l + r + x /\ s = y + z + l + f + p + c
  BY DEF Counted, Exact, Conserved
<1> HIDE DEF u1, u, s1, s, f1, f, p1, p, l1, l, x1, x, y1, y, z1, z, r1, r, c1, c, dx, dy, dz
<1>8. u1 = l1 + r1 + x1
  BY <1>1, <1>2, <1>3, <1>4, <1>5, <1>6, <1>7
<1>9. s1 = y1 + z1 + l1 + f1 + p1 + c1
  BY <1>1, <1>2, <1>3, <1>4, <1>5, <1>6, <1>7
<1> QED
  BY <1>8, <1>9, CountedNext DEF u1, s1, f1, p1, l1, x1, y1, z1, r1, c1

\* ... and a step of the worker
LEMMA RunCounts ==
    ASSUME TypeOK, Counted, UNCHANGED <<pc, submitted, dropped>>, NEW w \in Worker, NEW b, WorkerGoto(w, b),
           Len(queue') \in Int, unfinished' \in Int, processed' \in Int,
           unfinished' - unfinished = Len(queue') - Len(queue) + Change(b, workerPc[w], {"run"}),
           0 = Len(queue') - Len(queue) + processed' - processed + Change(b, workerPc[w], {"run", "count"})
    PROVE  Counted'
<1> DEFINE u1 == unfinished'
           u == unfinished
           s1 == submitted'
           s == submitted
           f1 == dropped'
           f == dropped
           p1 == processed'
           p == processed
           l1 == Len(queue')
           l == Len(queue)
           x1 == Count(Thread, pc', {"taskDone"})
           x == Count(Thread, pc, {"taskDone"})
           y1 == Count(Thread, pc', InSubmit)
           y == Count(Thread, pc, InSubmit)
           z1 == Count(Thread, pc', InEviction)
           z == Count(Thread, pc, InEviction)
           r1 == Count(Worker, workerPc', {"run"})
           r == Count(Worker, workerPc, {"run"})
           c1 == Count(Worker, workerPc', {"run", "count"})
           c == Count(Worker, workerPc, {"run", "count"})
           dr == Change(b, workerPc[w], {"run"})
           dc == Change(b, workerPc[w], {"run", "count"})
<1>1. r1 = r + dr /\ c1 = c + dc /\ dr \in Int /\ dc \in Int
  BY WorkerMoves
<1>2. x1 = x /\ y1 = y /\ z1 = z
  BY DEF Count
<1>3. x \in Int /\ y \in Int /\ z \in Int /\ r \in Int /\ c \in Int
  BY CountsAreNat
<1>4. l \in Int /\ u \in Int /\ s \in Int /\ f \in Int /\ p \in Int
  BY LenProperties DEF TypeOK
<1>5. u1 - u = l1 - l + dr /\ 0 = l1 - l + p1 - p + dc /\ s1 = s /\ f1 = f
  OBVIOUS
<1>6. l1 \in Int /\ u1 \in Int /\ p1 \in Int
  OBVIOUS
<1>7. u = l + r + x /\ s = y + z + l + f + p + c
  BY DEF Counted, Exact, Conserved
<1> HIDE DEF u1, u, s1, s, f1, f, p1, p, l1, l, x1, x, y1, y, z1, z, r1, r, c1, c, dr, dc
<1>8. u1 = l1 + r1 + x1
  BY <1>1, <1>2, <1>3, <1>4, <1>5, <1>6, <1>7
<1>9. s1 = y1 + z1 + l1 + f1 + p1 + c1
  BY <1>1, <1>2, <1>3, <1>4, <1>5, <1>6, <1>7
<1> QED
  BY <1>8, <1>9, CountedNext DEF u1, s1, f1, p1, l1, x1, y1, z1, r1, c1

\* Every call on a shared object keeps the counters exact.
LEMMA StepCounted == IInv /\ Counted /\ [Next]_vars => Counted'
<1> SUFFICES ASSUME IInv, Counted, [Next]_vars PROVE Counted'
  OBVIOUS
<1> USE DEF IInv, counters, workerVars, stopVars
<1>0. /\ unfinished \in Int /\ submitted \in Int /\ dropped \in Int /\ processed \in Int
      /\ queue \in Seq(Nat) /\ Len(queue) \in Nat
  BY LenProperties DEF TypeOK
<1>1. ASSUME NEW t \in Thread, Submit(t) PROVE Counted'
  <2>1. PICK b \in {"count", "lock"} : Goto(t, b)
    BY <1>1 DEF Submit
  <2> QED
    BY <1>0, <1>1, <2>1, SubmitCounts DEF Submit, CanCall, PcState, Change, InSubmit, InEviction
<1>2. ASSUME NEW t \in Thread, EnsureLock(t) PROVE Counted'
  <2>1. PICK b \in {"count", "clear"} : Goto(t, b)
    BY <1>2 DEF EnsureLock
  <2> QED
    BY <1>0, <1>2, <2>1, SubmitCounts DEF EnsureLock, PcState, Change, InSubmit, InEviction
<1>3. ASSUME NEW t \in Thread, EnsureClear(t) PROVE Counted'
  BY <1>0, <1>3, SubmitCounts DEF EnsureClear, PcState, Change, InSubmit, InEviction
<1>4. ASSUME NEW t \in Thread, EnsureStart(t) PROVE Counted'
  <2>1. started + 1 \in Worker /\ workerPc[started + 1] = "unborn"
    <3>1. lock = t /\ lock # NoThread /\ started <= StopsDone
      BY <1>4, QueueAssumption DEF EnsureStart, ControlInv
    <3>2. started + 1 \in Worker
      BY <3>1, QueueAssumption DEF StopsDone, ControlInv, TypeOK, Worker
    <3> QED
      BY <3>2 DEF ControlInv, TypeOK
  <2>2. Count(Worker, workerPc', {"run"}) = Count(Worker, workerPc, {"run"})
        /\ Count(Worker, workerPc', {"run", "count"}) = Count(Worker, workerPc, {"run", "count"})
    <3>1. WorkerGoto(started + 1, "check")
      BY <1>4 DEF EnsureStart, WorkerGoto
    <3>2. \A A : Count(Worker, workerPc', A) = Count(Worker, workerPc, A) + Change("check", "unborn", A)
      BY <2>1, <3>1, WorkerMoves
    <3> QED
      BY <3>2, CountsAreNat DEF Change
  <2>3. \A A \in {InSubmit, InEviction, {"taskDone"}} : Count(Thread, pc', A) = Count(Thread, pc, A)
    <3>1. \A A : Count(Thread, pc', A) = Count(Thread, pc, A) + Change("count", "start", A)
      BY <1>4, ThreadMoves DEF EnsureStart
    <3> QED
      BY <3>1, CountsAreNat DEF Change, InSubmit, InEviction
  <2> QED
    BY <1>4, <2>2, <2>3, CountedNext DEF EnsureStart, Counted, Exact, Conserved
<1>5. ASSUME NEW t \in Thread, CountSubmitted(t) PROVE Counted'
  BY <1>0, <1>5, SubmitCounts DEF CountSubmitted, PcState, Change, InSubmit, InEviction
<1>6. ASSUME NEW t \in Thread, PutNowait(t) PROVE Counted'
  <2>1. CASE HasRoom
    <3>1. puts + 1 \in Nat /\ Len(queue') = Len(queue) + 1
      BY <1>0, <1>6, <2>1, AppendProperties DEF PutNowait, TypeOK
    <3> QED
      BY <1>0, <1>6, <2>1, <3>1, SubmitCounts DEF PutNowait, PcState, Change, InSubmit, InEviction
  <2>2. CASE ~HasRoom
    <3>1. Goto(t, "evict") /\ UNCHANGED <<queue, puts, unfinished>>
      BY <1>6, <2>2 DEF PutNowait
    <3> QED
      BY <1>0, <1>6, <2>2, <3>1, SubmitCounts DEF PutNowait, PcState, Change, InSubmit, InEviction
  <2> QED
    BY <2>1, <2>2
<1>7. ASSUME NEW t \in Thread, GetNowait(t) PROVE Counted'
  <2>1. CASE queue # <<>>
    <3>1. Len(queue') = Len(queue) - 1
      BY <1>0, <1>7, <2>1, HeadTailProperties DEF GetNowait, AllButOldest
    <3> QED
      BY <1>0, <1>7, <2>1, <3>1, SubmitCounts DEF GetNowait, PcState, Change, InSubmit, InEviction
  <2>2. CASE queue = <<>>
    BY <1>0, <1>7, <2>2, SubmitCounts DEF GetNowait, PcState, Change, InSubmit, InEviction
  <2> QED
    BY <2>1, <2>2
<1>8. ASSUME NEW t \in Thread, EvictTaskDone(t) PROVE Counted'
  BY <1>0, <1>8, SubmitCounts DEF EvictTaskDone, PcState, Change, InSubmit, InEviction
<1>9. ASSUME NEW t \in Thread, CountDropped(t) PROVE Counted'
  BY <1>0, <1>9, SubmitCounts DEF CountDropped, PcState, Change, InSubmit, InEviction
<1>10. ASSUME NEW w \in Worker, WorkerCheck(w) PROVE Counted'
  <2>1. PICK b \in {"dead", "get"} : WorkerGoto(w, b)
    BY <1>10 DEF WorkerCheck
  <2> QED
    BY <1>0, <1>10, <2>1, RunCounts DEF WorkerCheck, Change
<1>11. ASSUME NEW w \in Worker, WorkerGet(w) PROVE Counted'
  <2>1. Len(queue') = Len(queue) - 1
    BY <1>0, <1>11, HeadTailProperties DEF WorkerGet
  <2> QED
    BY <1>0, <1>11, <2>1, RunCounts DEF WorkerGet, Change
<1>12. ASSUME NEW w \in Worker, WorkerTimeout(w) PROVE Counted'
  BY <1>0, <1>12, RunCounts DEF WorkerTimeout, Change
<1>13. ASSUME NEW w \in Worker, WorkerTaskDone(w) PROVE Counted'
  BY <1>0, <1>13, RunCounts DEF WorkerTaskDone, Change
<1>14. ASSUME NEW w \in Worker, WorkerCount(w) PROVE Counted'
  BY <1>0, <1>14, RunCounts DEF WorkerCount, Change
<1>15. ASSUME NEW kind \in StopKinds, CallStop(kind) PROVE Counted'
  BY <1>15 DEF CallStop, Counted, Exact, Conserved, Count
<1>16. CASE JoinReturns \/ SetStop \/ UNCHANGED vars
  BY <1>16 DEF JoinReturns, SetStop, vars, Counted, Exact, Conserved, Count
<1> QED
  BY <1>1, <1>2, <1>3, <1>4, <1>5, <1>6, <1>7, <1>8, <1>9, <1>10, <1>11,
     <1>12, <1>13, <1>14, <1>15, <1>16
  DEF Next, SubmitStep, WorkerStep, StopStep

\* The counter that queue.join() waits on is exact at every moment between the
\* calls of any number of monitors, the worker and stop().
THEOREM UnfinishedIsExact == Spec => []UnfinishedExact
<1>1. Counted => UnfinishedExact
  <2>1. Executing = {w \in Worker : workerPc[w] \in {"run"}}
    BY DEF Executing
  <2>2. {t \in Thread : pc[t] = "taskDone"} = {t \in Thread : pc[t] \in {"taskDone"}}
    OBVIOUS
  <2> QED
    BY <2>1, <2>2 DEF Counted, Exact, UnfinishedExact, Count
<1> QED
  BY Invariance, InitCounted, StepCounted, <1>1, PTL DEF Spec

\* What stats() reports accounts for every job that was submitted: none is lost
\* or counted twice, however submissions, evictions and runs interleave.
THEOREM JobsAreConserved == Spec => []Conservation
<1>1. Counted => Conservation
  BY
  DEF Counted, Conserved, Conservation, Count, Unqueued, Evicting, Uncredited, InSubmit, InEviction
<1> QED
  BY Invariance, InitCounted, StepCounted, <1>1, PTL DEF Spec

-----------------------------------------------------------------------------
(* Draining                                                                *)

Drained == Numbered /\ DrainMeansDone

\* Nobody drains initially.
LEMMA InitDrained == Init => Drained
  BY DEF Init, Drained, Numbered, DrainMeansDone, Executing

\* No call on a shared object ends a drain early.
LEMMA StepDrained == IInv /\ Counted /\ Drained /\ [Next]_vars => Drained'
<1> SUFFICES ASSUME IInv, Counted, Drained, [Next]_vars PROVE Drained'
  OBVIOUS
<1> USE DEF IInv, counters, workerVars, stopVars
<1>0. queue \in Seq(Nat) /\ Len(queue) \in Nat /\ puts \in Nat /\ drainMark \in Nat
  BY LenProperties DEF TypeOK
<1>1. ASSUME UNCHANGED <<queue, puts, drainMark, stopPc>>,
             \A w \in Executing' : w \in Executing /\ running'[w] = running[w]
      PROVE  Drained'
  BY <1>1 DEF Drained, Numbered, DrainMeansDone
<1>2. ASSUME NEW t \in Thread,
             Submit(t) \/ EnsureLock(t) \/ EnsureClear(t) \/ CountSubmitted(t) \/ EvictTaskDone(t)
             \/ CountDropped(t) \/ (PutNowait(t) /\ ~HasRoom)
      PROVE  Drained'
  BY <1>1, <1>2 DEF Submit, EnsureLock, EnsureClear, CountSubmitted, EvictTaskDone, CountDropped,
                    PutNowait, Executing
<1>3. ASSUME NEW t \in Thread, EnsureStart(t) PROVE Drained'
  BY <1>1, <1>3 DEF EnsureStart, Executing, TypeOK
<1>4. ASSUME NEW t \in Thread, PutNowait(t), HasRoom PROVE Drained'
  <2>1. /\ Len(queue') = Len(queue) + 1 /\ queue'[Len(queue) + 1] = puts + 1
        /\ \A i \in 1..Len(queue) : queue'[i] = queue[i]
    BY <1>0, <1>4, AppendProperties DEF PutNowait
  <2>2. puts' = puts + 1 /\ UNCHANGED <<running, workerPc, drainMark, stopPc>>
    BY <1>4 DEF PutNowait
  <2>3. \A i \in 1..Len(queue') : i \in 1..Len(queue) \/ i = Len(queue) + 1
    BY <1>0, <2>1
  <2>4. Numbered'
    BY <1>0, <2>1, <2>2, <2>3 DEF Drained, Numbered, Executing
  <2>5. DrainMeansDone'
    BY <1>0, <2>1, <2>2, <2>3 DEF Drained, Numbered, DrainMeansDone, Executing
  <2> QED
    BY <2>4, <2>5 DEF Drained
<1>5. ASSUME queue # <<>>, queue' = Tail(queue), UNCHANGED <<puts, drainMark, stopPc>>,
             \A w \in Executing' : \/ w \in Executing /\ running'[w] = running[w]
                                   \/ running'[w] = Head(queue)
      PROVE  Drained'
  <2>1. /\ Len(queue') = Len(queue) - 1
        /\ \A i \in 1..Len(queue') : queue'[i] = queue[i + 1]
    BY <1>0, <1>5, HeadTailProperties
  <2>2. Head(queue) = queue[1] /\ 1 \in 1..Len(queue)
    BY <1>0, <1>5
  <2>3. \A i \in 1..Len(queue') : i + 1 \in 1..Len(queue) /\ queue'[i] = queue[i + 1]
    BY <1>0, <2>1
  <2>4. \A w \in Executing' : \/ w \in Executing /\ running'[w] = running[w]
                             \/ running'[w] = queue[1]
    BY <1>5, <2>2
  <2>5. /\ drainMark <= puts
        /\ \A i \in 1..Len(queue) : queue[i] \in 1..puts
        /\ \A w \in Executing : running[w] > 0
    BY DEF Drained, Numbered
  <2>6. \A i \in 1..Len(queue') : queue'[i] \in 1..puts
    BY <2>3, <2>5
  <2>7. \A w \in Executing' : running'[w] > 0
    <3>1. queue[1] > 0
      BY <1>0, <2>2, <2>5
    <3> QED
      BY <2>4, <2>5, <3>1
  <2>8. Numbered'
    BY <1>5, <2>5, <2>6, <2>7 DEF Numbered
  <2>9. ASSUME stopPc = "set"
        PROVE  /\ \A i \in 1..Len(queue') : queue'[i] > drainMark
               /\ \A w \in Executing' : running'[w] > drainMark
    <3>1. /\ \A i \in 1..Len(queue) : queue[i] > drainMark
          /\ \A w \in Executing : running[w] > drainMark
      BY <2>9 DEF Drained, DrainMeansDone
    <3>2. queue[1] > drainMark
      BY <2>2, <3>1
    <3> QED
      BY <2>3, <2>4, <3>1, <3>2
  <2>10. DrainMeansDone'
    BY <1>5, <2>9 DEF DrainMeansDone
  <2> QED
    BY <2>8, <2>10 DEF Drained
<1>6. ASSUME NEW t \in Thread, GetNowait(t) PROVE Drained'
  BY <1>1, <1>5, <1>6 DEF GetNowait, AllButOldest, Executing
<1>7. ASSUME NEW w \in Worker, WorkerGet(w) PROVE Drained'
  BY <1>5, <1>7 DEF WorkerGet, WorkerGoto, Executing, TypeOK
<1>8. ASSUME NEW w \in Worker, WorkerCheck(w) \/ WorkerTimeout(w) \/ WorkerTaskDone(w) \/ WorkerCount(w)
      PROVE  Drained'
  BY <1>1, <1>8
  DEF WorkerCheck, WorkerTimeout, WorkerTaskDone, WorkerCount, WorkerGoto, Executing, TypeOK
<1>9. ASSUME NEW kind \in StopKinds, CallStop(kind) PROVE Drained'
  BY <1>0, <1>9 DEF CallStop, Drained, Numbered, DrainMeansDone, Executing
<1>10. CASE JoinReturns
  <2>1. Len(queue) = 0 /\ Count(Worker, workerPc, {"run"}) = 0
    BY <1>0, <1>10, CountsAreNat DEF JoinReturns, Counted, Exact
  <2>2. IsFiniteSet({w \in Worker : workerPc[w] \in {"run"}})
    BY ThreadsFinite, FS_Subset
  <2>3. Executing = {}
    BY <2>1, <2>2, FS_EmptySet DEF Count, Executing
  <2> QED
    BY <1>10, <2>1, <2>3 DEF JoinReturns, Drained, Numbered, DrainMeansDone, Executing
<1>11. CASE SetStop \/ UNCHANGED vars
  BY <1>11 DEF SetStop, vars, Drained, Numbered, DrainMeansDone, Executing
<1> QED
  BY <1>2, <1>3, <1>4, <1>6, <1>7, <1>8, <1>9, <1>10, <1>11
  DEF Next, SubmitStep, WorkerStep, StopStep

\* When stop(drain=True) has waited, every job put before it began has been run
\* to its end or evicted, whatever was put, evicted and run meanwhile.
THEOREM DrainIsDone == Spec => []DrainMeansDone
<1>1. Drained => DrainMeansDone
  BY DEF Drained
<1> QED
  BY Invariance, InitCounted, StepCounted, InitDrained, StepDrained, <1>1, PTL DEF Spec

-----------------------------------------------------------------------------
(* The refinement                                                          *)

\* Jobs are numbered in the order of their puts, at every moment.
LEMMA NumberedStays == Spec => []Numbered
<1>1. Drained => Numbered
  BY DEF Drained
<1> QED
  BY Invariance, InitCounted, StepCounted, InitDrained, StepDrained, <1>1, PTL DEF Spec

\* The job served
LEMMA ServingIs ==
    /\ Executing = {} => Serving = 0
    /\ SingleWorker => \A w \in Executing : Serving = running[w]
<1>1. Executing = {} => Serving = 0
  BY DEF Serving
<1>2. ASSUME SingleWorker, NEW w \in Executing PROVE Serving = running[w]
  <2>1. \A v \in Executing : v = w
    BY <1>2 DEF SingleWorker, Executing, Live
  <2>2. (CHOOSE v \in Executing : TRUE) = w
    BY <1>2, <2>1
  <2> QED
    BY <1>2, <2>2 DEF Serving
<1> QED
  BY <1>1, <1>2

\* ... and after a step
LEMMA ServingBecomes ==
    /\ Executing' = {} => Serving' = 0
    /\ \A w : Executing' = {w} => Serving' = running'[w]
  BY DEF Serving

\* An unused queue is an empty mailbox.
LEMMA InitRefines == Init => Mailbox!Init
  BY DEF Init, Mailbox!Init, Serving, Executing

\* Every call on a shared object is a step of the mailbox or none.
LEMMA StepRefines ==
    IInv /\ SingleWorker /\ Numbered /\ [Next]_vars => [Mailbox!Next]_(Mailbox!mailboxVars)
<1> SUFFICES ASSUME IInv, SingleWorker, Numbered, [Next]_vars
             PROVE  Mailbox!Next \/ UNCHANGED <<puts, queue, Serving>>
  BY DEF Mailbox!mailboxVars
<1> USE DEF IInv, counters, workerVars, stopVars
<1>0. queue \in Seq(Nat) /\ Len(queue) \in Nat /\ workerPc \in [Worker -> WorkerPcState] /\ running \in [Worker -> Nat]
  BY LenProperties DEF TypeOK
<1>1. ASSUME UNCHANGED <<workerPc, running>> PROVE UNCHANGED Serving
  BY <1>1 DEF Serving, Executing
<1>2. ASSUME NEW t \in Thread,
             Submit(t) \/ EnsureLock(t) \/ EnsureClear(t) \/ CountSubmitted(t) \/ EvictTaskDone(t)
             \/ CountDropped(t)
      PROVE  UNCHANGED <<puts, queue, Serving>>
  BY <1>1, <1>2 DEF Submit, EnsureLock, EnsureClear, CountSubmitted, EvictTaskDone, CountDropped
<1>3. ASSUME NEW w \in Worker, NEW b \in WorkerPcState, WorkerGoto(w, b), UNCHANGED running,
             b # "run", workerPc[w] # "run"
      PROVE  UNCHANGED Serving
  <2>1. Executing' = Executing
    BY <1>0, <1>3 DEF Executing, WorkerGoto
  <2> QED
    BY <1>3, <2>1 DEF Serving
<1>4. ASSUME NEW t \in Thread, EnsureStart(t) PROVE UNCHANGED <<puts, queue, Serving>>
  <2>1. started + 1 \in Worker /\ workerPc[started + 1] = "unborn"
    <3>1. lock = t /\ lock # NoThread /\ started <= StopsDone
      BY <1>4, QueueAssumption DEF EnsureStart, ControlInv
    <3>2. started + 1 \in Worker
      BY <3>1, QueueAssumption DEF StopsDone, ControlInv, TypeOK, Worker
    <3> QED
      BY <3>2 DEF ControlInv, TypeOK
  <2>2. WorkerGoto(started + 1, "check") /\ UNCHANGED <<puts, queue, running>>
    BY <1>4 DEF EnsureStart, WorkerGoto
  <2> QED
    BY <1>3, <2>1, <2>2 DEF WorkerPcState
<1>5. ASSUME NEW t \in Thread, PutNowait(t) PROVE Mailbox!Next \/ UNCHANGED <<puts, queue, Serving>>
  BY <1>1, <1>5 DEF PutNowait, HasRoom, Mailbox!Next, Mailbox!Accept
<1>6. ASSUME NEW t \in Thread, GetNowait(t) PROVE Mailbox!Next \/ UNCHANGED <<puts, queue, Serving>>
  BY <1>1, <1>6 DEF GetNowait, AllButOldest, Mailbox!Next, Mailbox!GiveUpOldest
<1>7. ASSUME NEW w \in Worker, WorkerCheck(w) \/ WorkerTimeout(w) \/ WorkerCount(w)
      PROVE  UNCHANGED <<puts, queue, Serving>>
  BY <1>3, <1>7 DEF WorkerCheck, WorkerTimeout, WorkerCount, WorkerPcState
<1>8. ASSUME NEW w \in Worker, WorkerGet(w) PROVE Mailbox!Serve
  <2>1. Executing = {}
    BY <1>8 DEF WorkerGet, SingleWorker, Live, Executing
  <2>2. Executing' = {w}
    BY <1>0, <1>8, <2>1 DEF WorkerGet, WorkerGoto, Executing
  <2>3. running'[w] = Head(queue)
    BY <1>0, <1>8 DEF WorkerGet
  <2> QED
    BY <1>8, <2>1, <2>2, <2>3, ServingIs, ServingBecomes DEF WorkerGet, Mailbox!Serve
<1>9. ASSUME NEW w \in Worker, WorkerTaskDone(w) PROVE Mailbox!Finish
  <2>1. w \in Executing /\ \A v \in Executing : v = w
    BY <1>9 DEF WorkerTaskDone, SingleWorker, Live, Executing
  <2>2. Executing' = {}
    BY <1>0, <1>9, <2>1 DEF WorkerTaskDone, WorkerGoto, Executing
  <2>3. Serving = running[w] /\ running[w] # 0
    BY <2>1, <1>0, ServingIs DEF Numbered, Executing
  <2> QED
    BY <1>9, <2>2, <2>3, ServingBecomes DEF WorkerTaskDone, Mailbox!Finish
<1>10. ASSUME NEW kind \in StopKinds, CallStop(kind) PROVE UNCHANGED <<puts, queue, Serving>>
  BY <1>1, <1>10 DEF CallStop
<1>11. CASE JoinReturns \/ SetStop \/ UNCHANGED vars
  BY <1>1, <1>11 DEF JoinReturns, SetStop, vars
<1> QED
  BY <1>2, <1>4, <1>5, <1>6, <1>7, <1>8, <1>9, <1>10, <1>11
  DEF Next, SubmitStep, WorkerStep, StopStep, Mailbox!Next

\* Jobs leave the queue oldest first, each at most once, and run one at a time:
\* analysis_queue.py implements SerialMailbox.
THEOREM QueueIsMailbox == Spec => RefinesMailbox
  BY Invariance, OneWorker, NumberedStays, InitRefines, StepRefines, PTL
  DEF RefinesMailbox, Spec, Mailbox!Spec

-----------------------------------------------------------------------------
(* What a mailbox promises                                                 *)

\* The jobs wait in the order of their numbers, behind the one that runs.
OldestFirst ==
    /\ puts \in Nat /\ queue \in Seq(1..puts) /\ Serving \in 0..puts
    /\ \A i, j \in 1..Len(queue) : i < j => queue[i] < queue[j]
    /\ \A i \in 1..Len(queue) : Serving < queue[i]

\* A job that has left the queue does not come back, and one that begins to run
\* comes from its head.
OnceEach ==
    /\ \A j \in 1..puts : Pending(j)' => Pending(j)
    /\ Serving' \notin {0, Serving} => queue # <<>> /\ Serving' = Head(queue)

\* Every step of a mailbox keeps the order.
LEMMA MailboxStep ==
    ASSUME OldestFirst, Mailbox!Next
    PROVE  OldestFirst' /\ OnceEach
<1>1. /\ puts \in Nat /\ queue \in Seq(1..puts) /\ Len(queue) \in Nat /\ Serving \in 0..puts
      /\ \A i \in 1..Len(queue) : queue[i] \in 1..puts
  BY LenProperties, ElementOfSeq DEF OldestFirst
<1>2. CASE Mailbox!Accept
  <2>1. puts' = puts + 1 /\ queue' = Append(queue, puts + 1) /\ Serving' = Serving
    BY <1>2 DEF Mailbox!Accept
  <2>2. queue \in Seq(1..puts + 1)
    <3>1. 1..puts \subseteq 1..puts + 1
      BY <1>1
    <3> QED
      BY <1>1, <3>1, SeqMonotonic
  <2>3. /\ queue' \in Seq(1..puts + 1) /\ Len(queue') = Len(queue) + 1
        /\ \A i \in 1..Len(queue) : queue'[i] = queue[i]
        /\ queue'[Len(queue) + 1] = puts + 1
    BY <1>1, <2>1, <2>2, AppendProperties
  <2>4. \A i \in 1..Len(queue') : i \in 1..Len(queue) \/ i = Len(queue) + 1
    BY <1>1, <2>3
  <2>5. \A i, j \in 1..Len(queue') : i < j => queue'[i] < queue'[j]
    <3> SUFFICES ASSUME NEW i \in 1..Len(queue'), NEW j \in 1..Len(queue'), i < j
                 PROVE  queue'[i] < queue'[j]
      OBVIOUS
    <3>1. i \in 1..Len(queue)
      BY <1>1, <2>3
    <3>2. queue'[i] = queue[i] /\ queue[i] \in 1..puts
      BY <1>1, <2>3, <3>1
    <3>3. CASE j \in 1..Len(queue)
      BY <2>3, <3>1, <3>2, <3>3 DEF OldestFirst
    <3>4. CASE j = Len(queue) + 1
      BY <1>1, <2>3, <3>2, <3>4
    <3> QED
      BY <2>4, <3>3, <3>4
  <2>6. \A i \in 1..Len(queue') : Serving' < queue'[i]
    BY <1>1, <2>1, <2>3, <2>4 DEF OldestFirst
  <2>7. \A j \in 1..puts : Pending(j)' => Pending(j)
    BY <1>1, <2>3, <2>4 DEF Pending
  <2> QED
    BY <1>1, <2>1, <2>3, <2>5, <2>6, <2>7 DEF OldestFirst, OnceEach
<1>3. ASSUME queue # <<>>, queue' = Tail(queue), puts' = puts, Serving' \in {Serving, Head(queue)}
      PROVE  OldestFirst' /\ OnceEach
  <2>1. /\ Tail(queue) \in Seq(1..puts) /\ Len(Tail(queue)) = Len(queue) - 1 /\ Len(queue) # 0
        /\ \A i \in 1..Len(Tail(queue)) : Tail(queue)[i] = queue[i + 1]
        /\ Head(queue) = queue[1]
    BY <1>1, <1>3, HeadTailProperties, EmptySeq
  <2>2. \A i \in 1..Len(queue') : i + 1 \in 1..Len(queue) /\ 1 \in 1..Len(queue) /\ queue'[i] = queue[i + 1]
    BY <1>1, <1>3, <2>1
  <2>3. \A i \in 1..Len(queue') : Head(queue) < queue'[i] /\ Serving < queue'[i]
    BY <1>1, <2>1, <2>2 DEF OldestFirst
  <2>4. Serving' \in 0..puts
    BY <1>1, <1>3, <2>1
  <2>5. \A i, j \in 1..Len(queue') : i < j => queue'[i] < queue'[j]
    BY <1>1, <2>2 DEF OldestFirst
  <2>6. OldestFirst'
    BY <1>1, <1>3, <2>1, <2>3, <2>4, <2>5 DEF OldestFirst
  <2>7. \A j \in 1..puts : Pending(j)' => Pending(j)
    BY <2>2 DEF Pending
  <2> QED
    BY <1>3, <2>6, <2>7 DEF OnceEach
<1>4. CASE Mailbox!GiveUpOldest
  BY <1>3, <1>4 DEF Mailbox!GiveUpOldest
<1>5. CASE Mailbox!Serve
  BY <1>3, <1>5 DEF Mailbox!Serve
<1>6. CASE Mailbox!Finish
  <2>1. UNCHANGED <<queue, puts>> /\ Serving' = 0
    BY <1>6 DEF Mailbox!Finish
  <2> QED
    BY <1>1, <2>1 DEF OldestFirst, OnceEach, Pending
<1> QED
  BY <1>2, <1>4, <1>5, <1>6 DEF Mailbox!Next

\* Jobs run oldest first and once each: in every behaviour of the queue, of any
\* number of submitters and whenever stop() ends and submit() starts a worker,
\* the pending jobs are newer than the running one and in the order in which
\* they were put, the next to run is the oldest, and none that was taken or
\* evicted is pending again.
THEOREM JobsRunInOrder == Spec => []OldestFirst /\ [][OnceEach]_vars
<1>1. Mailbox!Init => OldestFirst
  <2> SUFFICES ASSUME Mailbox!Init PROVE OldestFirst
    OBVIOUS
  <2>1. queue = <<>> /\ puts = 0 /\ Serving = 0
    BY DEF Mailbox!Init
  <2>2. <<>> \in Seq(1..0) /\ Len(<<>>) = 0
    BY EmptySeq
  <2> QED
    BY <2>1, <2>2 DEF OldestFirst
<1>2. ASSUME OldestFirst, [Mailbox!Next]_(Mailbox!mailboxVars)
      PROVE  OldestFirst' /\ OnceEach
  <2>1. CASE UNCHANGED Mailbox!mailboxVars
    <3>1. UNCHANGED <<puts, queue, Serving>>
      BY <2>1 DEF Mailbox!mailboxVars
    <3> QED
      BY <1>2, <3>1 DEF OldestFirst, OnceEach, Pending
  <2> QED
    BY <1>2, <2>1, MailboxStep
<1> QED
  BY <1>1, <1>2, QueueIsMailbox, PTL DEF RefinesMailbox, Mailbox!Spec

-----------------------------------------------------------------------------
(* What drops a job from a queue that is not full                          *)

\* As Spec, but no job leaves the queue between a submitter's queue.Full and its
\* get_nowait(), as if the two were one call: the worker takes none and no other
\* submitter evicts one.
Undisturbed == \A t \in Thread : pc[t] = "evict" /\ pc'[t] = "evict" => Len(queue') >= Len(queue)
UndisturbedSpec == Init /\ [][Next /\ Undisturbed]_vars

FullWhileEvicting == \A t \in Thread : pc[t] = "evict" => Len(queue) = MaxPending

\* Who finds the queue full finds it full until it evicts.
LEMMA StepFull ==
    ASSUME TypeOK, TypeOK', FullWhileEvicting, Next, Undisturbed
    PROVE  FullWhileEvicting'
<1>1. /\ Len(queue) \in Nat /\ Len(queue) <= MaxPending /\ MaxPending \in Nat
      /\ Len(queue') \in Nat /\ Len(queue') <= MaxPending
  BY LenProperties, QueueAssumption DEF TypeOK, QueueAssumption
<1> SUFFICES ASSUME NEW t \in Thread, pc'[t] = "evict"
             PROVE  Len(queue') = MaxPending
  BY DEF FullWhileEvicting
<1>2. CASE pc[t] = "evict"
  BY <1>1, <1>2 DEF FullWhileEvicting, Undisturbed
<1>3. CASE pc[t] # "evict"
  <2>1. pc \in [Thread -> PcState]
    BY DEF TypeOK
  <2>2. PutNowait(t) /\ ~HasRoom
    BY <1>3, <2>1
    DEF Next, Submit, SubmitStep, WorkerStep, StopStep, EnsureLock, EnsureClear, EnsureStart,
       CountSubmitted, PutNowait, GetNowait, EvictTaskDone, CountDropped, WorkerCheck, WorkerGet,
       WorkerTimeout, WorkerTaskDone, WorkerCount, CallStop, JoinReturns, SetStop, Goto
  <2> QED
    BY <1>1, <2>2 DEF PutNowait, HasRoom
<1> QED
  BY <1>2, <1>3

\* DropsOnlyWhenFull, which a monitor and the worker violate, holds in every
\* behaviour of UndisturbedSpec, whatever else interleaves: that a job leaves
\* the queue between the refused put and the eviction is all that makes submit()
\* drop one with room in the queue.
THEOREM OnlyGoneJobsDropEarly == UndisturbedSpec => DropsOnlyWhenFull
<1>1. Init => IInv /\ FullWhileEvicting
  BY InitIInv DEF FullWhileEvicting, Init
<1>2. ASSUME IInv, FullWhileEvicting, [Next /\ Undisturbed]_vars
      PROVE  /\ IInv' /\ FullWhileEvicting'
             /\ (\E t \in Thread : pc[t] = "evict" /\ pc'[t] = "taskDone") => Len(queue) = MaxPending
  <2>1. IInv'
    BY <1>2, StepTypeOK, StepControlInv DEF IInv
  <2>2. FullWhileEvicting'
    <3>1. CASE UNCHANGED vars
      BY <1>2, <3>1 DEF vars, FullWhileEvicting
    <3>2. CASE Next /\ Undisturbed
      BY <1>2, <2>1, <3>2, StepFull DEF IInv
    <3> QED
      BY <1>2, <3>1, <3>2
  <2> QED
    BY <1>2, <2>1, <2>2 DEF FullWhileEvicting
<1> QED
  BY <1>1, <1>2, PTL DEF UndisturbedSpec, DropsOnlyWhenFull
=============================================================================
