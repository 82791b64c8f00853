---------------------------- MODULE AnalysisQueue ----------------------------
(***************************************************************************)
(* guardian/engine/analysis_queue.py: the bounded queue in front of the    *)
(* language model.  Monitor threads, and jobs running on the worker, call  *)
(* submit(); one lazily started worker thread runs the jobs; stop() ends   *)
(* the worker, first waiting for queue.join() when it drains.              *)
(*                                                                         *)
(* A step is one call on an object shared by the threads: a queue.Queue    *)
(* method, an Event method, or a section under self._lock.  A job is known *)
(* by the number of its put.  Bounds of the model: MaxJobs calls of        *)
(* submit(), MaxStops calls of stop().                                     *)
(***************************************************************************)
EXTENDS Integers, Sequences, FiniteSets

CONSTANTS Submitters,   \* monitor threads that call submit()
          MaxPending,   \* max_pending, the maxsize of the queue.Queue
          MaxJobs,      \* bound on the number of submit() calls
          MaxStops,     \* bound on the number of stop() calls
          StopKinds,    \* the ways stop() is called: "now", "drain"
          NoThread      \* nobody holds self._lock

\* The worker threads, in the order _ensure_worker starts them.
Worker == 1..(MaxStops + 1)
Thread == Submitters \cup Worker

ASSUME QueueAssumption ==
    /\ MaxPending \in Nat \ {0}
    /\ MaxJobs \in Nat
    /\ MaxStops \in Nat
    /\ StopKinds \subseteq {"now", "drain"}
    /\ IsFiniteSet(Submitters)
    /\ Submitters \cap Worker = {}
    /\ NoThread \notin Thread

VARIABLES queue,       \* _queue: the pending jobs
          unfinished,  \* _queue.unfinished_tasks
          lock,        \* the holder of _lock across steps, or NoThread
          started,     \* workers started; _worker is the last, None at 0
          workerPc,    \* where each worker is in _run
          running,     \* the job each worker has taken, 0 when none
          stopFlag,    \* _stop
          submitted, dropped, processed,   \* the counters of stats()
          pc,          \* where each thread is in submit()
          stopPc,      \* where the caller of stop() is
          stops,       \* stop() calls so far
          puts,        \* successful put_nowait calls so far (history)
          drainMark    \* puts when the current drain began (history)

counters == <<submitted, dropped, processed>>
workerVars == <<started, workerPc, running>>
stopVars == <<stopFlag, stopPc, stops, drainMark>>
vars == <<queue, unfinished, lock, workerVars, counters, pc, stopVars, puts>>

PcState == {"idle", "lock", "clear", "start", "count",
            "put", "evict", "taskDone", "countDrop"}
WorkerPcState == {"unborn", "check", "get", "run", "count", "dead"}

Init ==
    /\ queue = <<>>
    /\ unfinished = 0
    /\ lock = NoThread
    /\ started = 0
    /\ workerPc = [w \in Worker |-> "unborn"]
    /\ running = [w \in Worker |-> 0]
    /\ stopFlag = FALSE
    /\ submitted = 0 /\ dropped = 0 /\ processed = 0
    /\ pc = [t \in Thread |-> "idle"]
    /\ stopPc = "idle"
    /\ stops = 0
    /\ puts = 0
    /\ drainMark = 0

-----------------------------------------------------------------------------
(* submit() and _ensure_worker()                                           *)

Live(w) == workerPc[w] \notin {"unborn", "dead"}
\* self._worker is not None and self._worker.is_alive()
WorkerAlive == started > 0 /\ Live(started)

Goto(t, label) == pc' = [pc EXCEPT ![t] = label]

\* Calls that have not reached the counter yet: the model's bound on calls.
Uncounted == {t \in Thread : pc[t] \in {"lock", "clear", "start", "count"}}
CanCall(t) ==
    /\ pc[t] = "idle"
    /\ t \in Worker => workerPc[t] = "run"
    /\ submitted + Cardinality(Uncounted) < MaxJobs

\* submit() begins; the first, unlocked check of _ensure_worker.
Submit(t) ==
    /\ CanCall(t)
    /\ Goto(t, IF WorkerAlive THEN "count" ELSE "lock")
    /\ UNCHANGED <<queue, unfinished, lock, workerVars, counters, stopVars, puts>>

SecondCheckMissing == FALSE
\* The second check of _ensure_worker, made under the lock.
SecondCheck == WorkerAlive

EnsureLock(t) ==
    /\ pc[t] = "lock"
    /\ lock = NoThread
    /\ IF SecondCheck
       THEN Goto(t, "count") /\ UNCHANGED lock
       ELSE Goto(t, "clear") /\ lock' = t
    /\ UNCHANGED <<queue, unfinished, workerVars, counters, stopVars, puts>>

EnsureClear(t) ==
    /\ pc[t] = "clear"
    /\ stopFlag' = FALSE
    /\ Goto(t, "start")
    /\ UNCHANGED <<queue, unfinished, lock, workerVars, counters,
                   stopPc, stops, drainMark, puts>>

EnsureStart(t) ==
    /\ pc[t] = "start"
    /\ started' = started + 1
    /\ workerPc' = [workerPc EXCEPT ![started + 1] = "check"]
    /\ lock' = NoThread
    /\ Goto(t, "count")
    /\ UNCHANGED <<queue, unfinished, running, counters, stopVars, puts>>

CountSubmitted(t) ==
    /\ pc[t] = "count"
    /\ lock = NoThread
    /\ submitted' = submitted + 1
    /\ Goto(t, "put")
    /\ UNCHANGED <<queue, unfinished, lock, workerVars, dropped, processed,
                   stopVars, puts>>

HasRoomOffByOne == Len(queue) <= MaxPending
HasRoom == Len(queue) < MaxPending

\* put_nowait: queued and submit() returns, or queue.Full.
PutNowait(t) ==
    /\ pc[t] = "put"
    /\ IF HasRoom
       THEN /\ queue' = Append(queue, puts + 1)
            /\ puts' = puts + 1
            /\ unfinished' = unfinished + 1
            /\ Goto(t, "idle")
       ELSE /\ Goto(t, "evict")
            /\ UNCHANGED <<queue, puts, unfinished>>
    /\ UNCHANGED <<lock, workerVars, counters, stopVars>>

AllButNewest == SubSeq(queue, 1, Len(queue) - 1)
\* What get_nowait leaves: the oldest pending job is the one given up.
AllButOldest == Tail(queue)

\* The eviction waits for a job instead of putting again.
BlockingEvict(t) ==
    /\ pc[t] = "evict"
    /\ queue # <<>>
    /\ queue' = AllButOldest
    /\ Goto(t, "taskDone")
    /\ UNCHANGED <<unfinished, lock, workerVars, counters, stopVars, puts>>

\* get_nowait after queue.Full; on queue.Empty the put is tried again.
GetNowait(t) ==
    /\ pc[t] = "evict"
    /\ IF queue # <<>>
       THEN queue' = AllButOldest /\ Goto(t, "taskDone")
       ELSE Goto(t, "put") /\ UNCHANGED queue
    /\ UNCHANGED <<unfinished, lock, workerVars, counters, stopVars, puts>>

EvictWithoutTaskDone(t) ==
    /\ pc[t] = "taskDone"
    /\ Goto(t, "countDrop")
    /\ UNCHANGED <<queue, unfinished, lock, workerVars, counters, stopVars, puts>>

EvictTaskDone(t) ==
    /\ pc[t] = "taskDone"
    /\ unfinished' = unfinished - 1
    /\ Goto(t, "countDrop")
    /\ UNCHANGED <<queue, lock, workerVars, counters, stopVars, puts>>

DropUncounted(t) ==
    /\ pc[t] = "countDrop"
    /\ Goto(t, "put")
    /\ UNCHANGED <<queue, unfinished, lock, workerVars, counters, stopVars, puts>>

CountDropped(t) ==
    /\ pc[t] = "countDrop"
    /\ lock = NoThread
    /\ dropped' = dropped + 1
    /\ Goto(t, "put")
    /\ UNCHANGED <<queue, unfinished, lock, workerVars, submitted, processed,
                   stopVars, puts>>

-----------------------------------------------------------------------------
(* _run() on the worker                                                    *)

WorkerGoto(w, label) == workerPc' = [workerPc EXCEPT ![w] = label]

WorkerCheck(w) ==
    /\ workerPc[w] = "check"
    /\ WorkerGoto(w, IF stopFlag THEN "dead" ELSE "get")
    /\ UNCHANGED <<queue, unfinished, lock, started, running, counters, pc,
                   stopVars, puts>>

\* The job is acknowledged before it has run.
WorkerGetEarlyAck(w) ==
    /\ workerPc[w] = "get"
    /\ queue # <<>>
    /\ running' = [running EXCEPT ![w] = Head(queue)]
    /\ queue' = Tail(queue)
    /\ unfinished' = unfinished - 1
    /\ WorkerGoto(w, "run")
    /\ UNCHANGED <<lock, started, counters, pc, stopVars, puts>>

WorkerGet(w) ==
    /\ workerPc[w] = "get"
    /\ queue # <<>>
    /\ running' = [running EXCEPT ![w] = Head(queue)]
    /\ queue' = Tail(queue)
    /\ WorkerGoto(w, "run")
    /\ UNCHANGED <<unfinished, lock, started, counters, pc, stopVars, puts>>

\* An idle worker that returns instead of polling again.
WorkerIdleExit(w) ==
    /\ workerPc[w] = "get"
    /\ queue = <<>>
    /\ WorkerGoto(w, "dead")
    /\ UNCHANGED <<queue, unfinished, lock, started, running, counters, pc,
                   stopVars, puts>>

\* get(timeout=0.5) raises queue.Empty.
WorkerTimeout(w) ==
    /\ workerPc[w] = "get"
    /\ queue = <<>>
    /\ WorkerGoto(w, "check")
    /\ UNCHANGED <<queue, unfinished, lock, started, running, counters, pc,
                   stopVars, puts>>

\* fn() returned or raised; the finally clause calls task_done().
WorkerTaskDone(w) ==
    /\ workerPc[w] = "run"
    /\ pc[w] = "idle"
    /\ unfinished' = unfinished - 1
    /\ running' = [running EXCEPT ![w] = 0]
    /\ WorkerGoto(w, "count")
    /\ UNCHANGED <<queue, lock, started, counters, pc, stopVars, puts>>

WorkerCount(w) ==
    /\ workerPc[w] = "count"
    /\ lock = NoThread
    /\ processed' = processed + 1
    /\ WorkerGoto(w, "check")
    /\ UNCHANGED <<queue, unfinished, lock, started, running, submitted, dropped,
                   pc, stopVars, puts>>

-----------------------------------------------------------------------------
(* stop()                                                                  *)

CallStop(kind) ==
    /\ stopPc = "idle"
    /\ stops < MaxStops
    /\ stops' = stops + 1
    /\ IF kind = "drain"
       THEN stopPc' = "join" /\ drainMark' = puts
       ELSE stopPc' = "set" /\ drainMark' = 0
    /\ UNCHANGED <<queue, unfinished, lock, workerVars, counters, pc, stopFlag, puts>>

JoinReturns ==
    /\ stopPc = "join"
    /\ unfinished = 0
    /\ stopPc' = "set"
    /\ UNCHANGED <<queue, unfinished, lock, workerVars, counters, pc,
                   stopFlag, stops, drainMark, puts>>

SetStop ==
    /\ stopPc = "set"
    /\ stopFlag' = TRUE
    /\ stopPc' = "idle"
    /\ UNCHANGED <<queue, unfinished, lock, workerVars, counters, pc,
                   stops, drainMark, puts>>

-----------------------------------------------------------------------------
SubmitStep(t) ==
    \/ EnsureLock(t) \/ EnsureClear(t) \/ EnsureStart(t) \/ CountSubmitted(t)
    \/ PutNowait(t) \/ GetNowait(t) \/ EvictTaskDone(t) \/ CountDropped(t)

WorkerStep(w) ==
    \/ WorkerCheck(w) \/ WorkerGet(w) \/ WorkerTimeout(w)
    \/ WorkerTaskDone(w) \/ WorkerCount(w)

StopStep == JoinReturns \/ SetStop

Next ==
    \/ \E t \in Thread : Submit(t) \/ SubmitStep(t)
    \/ \E w \in Worker : WorkerStep(w)
    \/ \E kind \in StopKinds : CallStop(kind)
    \/ StopStep

Spec == Init /\ [][Next]_vars

\* A thread inside submit(), the worker and the caller of stop() are scheduled
\* again and again; nobody is obliged to call submit() or stop().
Fairness ==
    /\ \A t \in Thread : WF_vars(SubmitStep(t))
    /\ \A w \in Worker : WF_vars(WorkerStep(w))
    /\ WF_vars(StopStep)

FairSpec == Spec /\ Fairness

-----------------------------------------------------------------------------
(* Properties                                                              *)

Evicting == {t \in Thread : pc[t] \in {"taskDone", "countDrop"}}
Unqueued == {t \in Thread : pc[t] \in {"put", "evict", "taskDone", "countDrop"}}
Executing == {w \in Worker : workerPc[w] = "run"}
Uncredited == {w \in Worker : workerPc[w] \in {"run", "count"}}

\* The queue never holds more than max_pending jobs, and every variable has
\* its type.
TypeOK ==
    /\ queue \in Seq(Nat) /\ Len(queue) <= MaxPending
    /\ unfinished \in Int
    /\ lock \in Thread \cup {NoThread}
    /\ started \in 0..(MaxStops + 1)
    /\ workerPc \in [Worker -> WorkerPcState]
    /\ running \in [Worker -> Nat]
    /\ stopFlag \in BOOLEAN
    /\ submitted \in Nat /\ dropped \in Nat /\ processed \in Nat
    /\ pc \in [Thread -> PcState]
    /\ stopPc \in {"idle", "join", "set"}
    /\ stops \in 0..MaxStops
    /\ puts \in Nat
    /\ drainMark \in Nat

\* At most one worker thread is alive, however many threads race through
\* _ensure_worker and whenever stop() ends the previous one: one inference at
\* a time.
SingleWorker == \A v, w \in Worker : Live(v) /\ Live(w) => v = w

\* No job is lost or counted twice: every submitted job is still being put,
\* was dropped, is pending, is running or was processed, in the counters that
\* stats() reports and at every moment between their updates.
Conservation ==
    submitted = Cardinality(Unqueued) + Cardinality(Evicting) + Len(queue)
                + dropped + processed + Cardinality(Uncredited)

\* The counter queue.join() waits on is exact: a drain neither hangs on a job
\* that was evicted nor misses one that is running.
UnfinishedExact ==
    unfinished = Len(queue) + Cardinality(Executing)
                 + Cardinality({t \in Thread : pc[t] = "taskDone"})

\* Once a worker was started, there is no worker only while stop() has been
\* asked for (or a submitter is just starting the next one): an idle queue
\* never loses its worker for another reason.
WorkerPresence ==
    started > 0 /\ ~stopFlag /\ (\A t \in Thread : pc[t] # "start") => WorkerAlive

\* When the join of stop(drain=True) has returned, every job put before the
\* drain began has been run to its end or evicted: none is pending or running.
DrainMeansDone ==
    stopPc = "set" =>
        /\ \A i \in 1..Len(queue) : queue[i] > drainMark
        /\ \A w \in Executing : running[w] > drainMark

\* The job in the hands of a worker, 0 when there is none.
Serving == IF Executing = {} THEN 0 ELSE running[CHOOSE w \in Executing : TRUE]

Mailbox == INSTANCE SerialMailbox
             WITH Capacity <- MaxPending, accepted <- puts,
                  waiting <- queue, serving <- Serving

\* The queue is a serial mailbox: jobs leave it oldest first, each at most
\* once, and run one at a time; a put is never refused for good.
RefinesMailbox == Mailbox!Spec

Pending(j) == \E i \in 1..Len(queue) : queue[i] = j

\* A pending job is eventually taken by the worker or evicted by a newer one,
\* unless stop() intervenes: a job may be left behind by stop() and by nothing
\* else.
EveryJobSettles == \A j \in 1..MaxJobs : Pending(j) ~> ~Pending(j) \/ stopFlag

\* submit() returns although the room it made may be taken by another thread
\* before it puts again ("Never blocks the caller").
SubmitReturns == \A t \in Thread : pc[t] # "idle" ~> pc[t] = "idle"

\* stop(drain=True) returns: every put is matched by a task_done().  Only an
\* earlier stop() that left jobs behind can keep it from returning: then no
\* worker is left to run them until the next submit().
DrainReturns == stopPc = "join" ~> stopPc # "join" \/ stopFlag

\* "When full, the oldest pending job is dropped": a job is dropped only from a
\* full queue.
DropsOnlyWhenFull ==
    [][(\E t \in Thread : pc[t] = "evict" /\ pc'[t] = "taskDone")
         => Len(queue) = MaxPending]_vars
=============================================================================
