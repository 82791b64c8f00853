\* The watchlist: two identifiers, two calls, a crash and a failed read or
\* write.  The front door: a remote client and one on the host.
CONSTANTS
    e1 = e1
    e2 = e2
    Entry = {e1, e2}
    Result <- MCResult
    Loop = Loop
    Scheduler = Scheduler
    NoThread = NoThread
    MaxCalls = 2
    MaxCrashes = 1
    MaxFailures = 1

    remote = remote
    host = host
    None = None
    Client = {remote, host}
    Loopback = {host}
    MaxToken = 3
    FailureCap = 2
    LockoutSecs = 3
    LoginWindow = 3
    TokenTtl = 1
    MaxTokens = 2
    SessionTtl = 1
    RateCap = 1
    RateWindow = 2
SPECIFICATION WebSpec
INVARIANTS
    WebTypeOK
    MemoryAgrees
    DiskAgrees
    EvictionIsEarned
    BehindLogin
    GuessesAreSpaced
    RequestsAreSpaced
PROPERTIES
    CallsReturn
    LimiterLetsInAgain
\* A thread that waits for its own lock stops the other one too.
CHECK_DEADLOCK FALSE
