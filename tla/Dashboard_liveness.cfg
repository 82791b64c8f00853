CONSTANTS
    p1 = p1
    c1 = c1
    Producer = {p1}
    Client = {c1}
    MemoryCap = 1
    DatabaseCap = 2
    SnapshotCap = 1
    MaxAlerts = 2
    MaxCrashes = 1
SPECIFICATION FairSpec
PROPERTY DeadClientsLeave
