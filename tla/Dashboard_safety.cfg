CONSTANTS
    p1 = p1
    p2 = p2
    c1 = c1
    Producer = {p1, p2}
    Client = {c1}
    MemoryCap = 2
    DatabaseCap = 1
    SnapshotCap = 1
    MaxAlerts = 2
    MaxCrashes = 1
SPECIFICATION Spec
SYMMETRY Symmetry
INVARIANTS
    TypeOK
    NoGap
    BroadcastIsDurable
    CampaignAgrees
