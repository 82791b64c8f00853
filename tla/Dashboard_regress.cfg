CONSTANTS
    p1 = p1
    p2 = p2
    c1 = c1
    Producer = {p1, p2}
    Client = {c1}
    MemoryCap = 2
    DatabaseCap = 2
    SnapshotCap = 1
    MaxAlerts = 2
    MaxCrashes = 0
SPECIFICATION Spec
PROPERTY CampaignNeverRegresses
