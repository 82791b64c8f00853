CONSTANTS
    t1 = t1
    Thread = {t1}
    EntitySets <- MCEntitySets
    Levels = 2
    MinAlerts = 2
    SlmThreshold = 3
    Window = 1
    MaxCampaigns = 1
    MaxPendingJobs = 1
    MaxAlerts = 3
    MaxTime = 0
SPECIFICATION Spec
INVARIANT MatureIsSubmitted
