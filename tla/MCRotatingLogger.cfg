SPECIFICATION FairSpec
CONSTANTS
    Messages = {m1, m2, m3}
    FailSafe = 2
    MaxDiskFaults = 1
    MaxBadAllocs = 1
PROPERTIES
    ImplementsChannel
    DestructorReturns
CHECK_DEADLOCK FALSE
