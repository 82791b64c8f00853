\* Seven parts that share no state, each in its own instance (README).
CONSTANTS
    t1 = t1
    t2 = t2
    Thread = {t1, t2}
    EntitySets <- MCEntitySets
    Levels = 2
    MinAlerts = 2
    SlmThreshold = 3
    Window = 1
    MaxCampaigns = 1
    MaxPendingJobs = 1
    MaxAlerts = 3
    MaxTime = 3

    Ioc = {"a", "b", "c"}
    Texts <- MCTexts
    Answering <- MCAnswering
    Quota = 2
    MaxPerPoll = 2
    SeenCap = 5
    IocCap = 3

    Alert <- MCAlert
    Ip = {"ip1", "ip2", "lan"}
    Blockable = {"ip1", "ip2"}
    FilePath = {"f1"}
    MaxBlocks = 1
    MaxStored = 3
    MaxSecond = 1
    MaxLost = 1

    File = {"f1", "f2"}
    Pid = {"p1", "p2"}
    MaxContent = 2
    MaxChange = 4
    BatchSize = 2
    FlaggedMin = 2
    FlaggedMax = 3

    MaxVersion = 2

    Email = {"mail"}
    DailyLimit = 1
    CacheSecs = 1
    LookupSecs = 1

    Alerts <- MCAlerts
    KeySets <- MCKeySets
SPECIFICATION ServicesSpec
SYMMETRY Symmetry
INVARIANTS
    ServicesTypeOK
    TypeOK
    SurfacedOnce
    OneProvider
    FairShare
    ActedIsAudited
    BlocksBounded
    ReportedOnce
    NoFeedGoesBack
    QuotaNearlyKept
    AnswersAreRecent
    VerdictIsGrounded
    NarrativeBeforeCallback
    EveryUpdateHeard
    SeverityBounded
PROPERTY PruneKeepsNewest
\* A verdict is the last step of its behaviour.
CHECK_DEADLOCK FALSE
