SPECIFICATION FairSpec
CONSTANTS
    f1 = f1
    f2 = f2
    f3 = f3
    FileOrder <- MCFileOrder
    MaxRelease = 2
    Removed <- MCRemoved
    MaxFaults = 2
    MaxCrashes = 1
    Callers = {c1, c2}
    Threads = {t1, t2}
    Nobody = nobody
    UpdaterFile = f1
    ServerFile = f2
    MaxCalls = 2
INVARIANTS
    OnlyVerifiedIsInstalled
PROPERTIES
    FailedInstallRestores
    UpdatesArrive
CHECK_DEADLOCK FALSE
