\* Two identifiers, two calls.
CONSTANTS
    e1 = e1
    e2 = e2
    Entry = {e1, e2}
    Result <- MCResult
    Loop = Loop
    Scheduler = Scheduler
    NoThread = NoThread
    MaxCalls = 2
    MaxCrashes = 0
    MaxFailures = 0
SPECIFICATION FairSpec
PROPERTY AlertIsEmitted
\* A thread that waits for its own lock stops the other one too.
CHECK_DEADLOCK FALSE
