SPECIFICATION FairSystem
CONSTANTS
    s1 = s1
    s2 = s2
    Shells = {s1, s2}
    Scenarios <- MCScenarios
    Callers = {c1, c2}
    Destructor = dtor
    NoOwner = none
    MaxTriggers = 2
INVARIANTS
    CallbackIsLatest
    KeptMessageIsNotLost
    EveryShellIsTold
    DelayedInOrder
    PasswordGoesToItsCommand
PROPERTIES
    LatestStallsAnnounced
    ListensAgain
CHECK_DEADLOCK FALSE
