CONSTANTS
    s1 = s1
    s2 = s2
    Submitters = {s1, s2}
    NoThread = NoThread
    MaxPending = 2
    MaxJobs = 4
    MaxStops = 0
    StopKinds = {}
SPECIFICATION Spec
PROPERTY DropsOnlyWhenFull
CHECK_DEADLOCK FALSE
