SPECIFICATION FairSpec
CONSTANTS
    Petitions = {startup, p1, p2}
    StartupLogin = startup
    NoPetition = none
    Failed = failed
    MaxClients = 2
    MaxWaits = 1
    MaxSignals = 1
    Kinds = {"quit", "quitwait", "listener", "broken"}
INVARIANTS
    SlotsAccountedFor
PROPERTIES
    QuietQuit
    ClientsAreServed
CHECK_DEADLOCK FALSE
