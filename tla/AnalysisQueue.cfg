\* Two monitors, room for two, four submissions, two stop() calls of either
\* kind, so that the worker is restarted twice.
CONSTANTS
    s1 = s1
    s2 = s2
    Submitters = {s1, s2}
    NoThread = NoThread
    MaxPending = 2
    MaxJobs = 4
    MaxStops = 2
    StopKinds = {"now", "drain"}
SPECIFICATION FairSpec
INVARIANTS
    TypeOK
    SingleWorker
    Conservation
    UnfinishedExact
    WorkerPresence
    DrainMeansDone
PROPERTIES
    RefinesMailbox
    EveryJobSettles
    SubmitReturns
    DrainReturns
\* After its last stop() and submission the queue is at rest.
CHECK_DEADLOCK FALSE
